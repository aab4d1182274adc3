-------------------------- MODULE GroundTruthProofs --------------------------
(***************************************************************************)
(* Proofs about GroundTruth, for every finite set of samples, requests and *)
(* looks at the jobs, and for every set of executions.                     *)
(***************************************************************************)
EXTENDS GroundTruth, FiniteSetTheorems, TLAPS

(***************************************************************************)
(* The inductive invariant.  Its first parts hold in every execution: what *)
(* the readers of the manifest hold is a manifest, and a job that was      *)
(* never created has left no trace.                                        *)
(***************************************************************************)
\* What a call has read of the manifest lists ground truth of listed samples
\* only.
SeenIsClosed ==
  /\ \A j \in Jobs : complete[j].seen.truth \subseteq complete[j].seen.samples
  /\ \A s \in Samples : edit[s].seen.truth \subseteq edit[s].seen.samples

\* A look at the jobs has something to write about job j, or to ask.
InSync(j, y) == j \in sync[y].extracted \cup sync[y].failed \cup sync[y].open

\* Nothing but its loop knows of job j.
Untouched(j) ==
  /\ documentOf[j] = NoLoop
  /\ complete[j] = NoCompletion
  /\ \A y \in Syncs : ~InSync(j, y)

\* Until a request creates its jobs they have no rows, and until its loop looks
\* for them nobody works on them.  What is found stale has had a row.
NewJobs ==
  /\ \A g \in Starts, j \in Jobs :
       /\ gen[g].at \in {"unused", "find", "delete", "create"} /\ j[1] = g =>
            status[j] = "none"
       /\ gen[g].at # "over" => process[g][j] = "none" /\ document[g][j] = "none"
       /\ j \in gen[g].stale => status[j] # "none"
  /\ \A j \in Jobs : status[j] = "none" =>
       /\ Untouched(j)
       /\ \A g \in Starts : process[g][j] = "none" /\ document[g][j] = "none"

\* Samples are only changed in the executions in which they may be.
EditsAreAllowed == \A s \in Samples : edit[s] # NoEdit => setup.edits

(***************************************************************************)
(* For CompletedIsListed: as long as there is one writer, what it has read *)
(* is still the manifest; a job whose sample is not listed is either about *)
(* to be deleted with it, or never gets as far as a review; and a job is   *)
(* listed with ground truth before it says completed.                      *)
(***************************************************************************)
\* The executions that CompletedIsListed is about.
Careful == setup.writers <= 1 /\ ~(setup.edits /\ setup.faults)

OneWriter ==
  /\ \A j, k \in Jobs : complete[j].at = "write" /\ complete[k].at = "write" => j = k
  /\ \A s, t \in Samples : edit[s].at # "idle" /\ edit[t].at # "idle" => s = t
  /\ \A j \in Jobs, s \in Samples : complete[j].at # "write" \/ edit[s].at = "idle"
  /\ \A j \in Jobs : complete[j].at = "write" => complete[j].seen = manifest
  /\ \A s \in Samples : edit[s].at = "write" => edit[s].seen = manifest

\* The loop can only fail this job: its sample was gone when it was looked for.
NotBegun(j) ==
  /\ Untouched(j)
  /\ status[j] \in {"pending", "failed"}
  /\ \A g \in Starts : process[g][j] \in {"none", "begin", "fail"}

AbsentIsNotBegun ==
  \A j \in Rows :
    SampleOf(j) \in manifest.samples \/ edit[SampleOf(j)].at = "jobs" \/ NotBegun(j)

Listed ==
  \A j \in Rows :
    /\ status[j] = "completed" \/ complete[j].at = "finish"
    /\ SampleOf(j) \in manifest.samples
    => SampleOf(j) \in manifest.truth

ManifestInv == Careful => OneWriter /\ AbsentIsNotBegun /\ Listed

(***************************************************************************)
(* For OneJobPerSample: one request and one look at a time, and no session *)
(* that is reopened.  The old loops go on meanwhile, and what saves the    *)
(* rows is that a completed job stays completed: when a job awaits review  *)
(* its loop has made its last call that writes to it (LoopIsPast), a look  *)
(* that would write to it is of no use any more (LooksAreFresh), and reviews *)
(* only complete it (ReviewIsOpen).  So the rows that a request neither    *)
(* deletes nor creates are those of completed jobs (RestIsCompleted).      *)
(***************************************************************************)
\* The executions that OneJobPerSample is about are of this kind.
NoneTakesBack == ~setup.reopen /\ ~setup.direct /\ ~setup.unrecorded

OneGeneration == \A g, h \in AtWork : g = h

OneLook == \A y, z \in Syncs : sync[y] # NoSync /\ sync[z] # NoSync => y = z

\* Only the loop of the request that created a job works on it.
OwnLoop ==
  /\ \A g \in Starts, j \in Jobs : process[g][j] # "none" => g = j[1]
  /\ \A j \in Jobs : documentOf[j] # NoLoop => documentOf[j] = j[1]

\* What the loop still has to do writes no status, for the job has a row.
Past(g, j) == process[g][j] \in {"none", "record"}

LoopIsPast ==
  \A g \in Starts, j \in Rows :
    \/ status[j] \in {"awaiting_review", "completed"}
    \/ document[g][j] \in {"ongoing_ocr", "extracted"}
    => Past(g, j)

LooksAreFresh ==
  \A y \in Syncs, j \in Rows :
    /\ j \in sync[y].extracted =>
         status[j] = "processing" /\ \A g \in Starts : Past(g, j)
    /\ j \in sync[y].failed \cup sync[y].open =>
         j \notin sync[y].extracted /\ status[j] \in {"processing", "failed"}

ReviewIsOpen ==
  \A j \in Rows :
    complete[j].at # "idle" => status[j] \in {"awaiting_review", "completed"}

RestIsCompleted ==
  \A g \in Starts, j \in Rows :
    /\ gen[g].at = "delete" => j \in gen[g].stale \/ status[j] = "completed"
    /\ gen[g].at \in {"create", "loop"} => j[1] = g \/ status[j] = "completed"

OneRow == \A j, k \in Rows : SampleOf(j) = SampleOf(k) => j = k

LoopsInv ==
  /\ OneGeneration /\ OneLook /\ OwnLoop
  /\ LoopIsPast /\ LooksAreFresh /\ ReviewIsOpen

JobsInv == OneAtATime => LoopsInv /\ RestIsCompleted /\ OneRow

------------------------------------------------------------------------------
USE NoLoopAssumption, SetupsAssumption DEF jobVars

\* An update changes the status of a row that is there, and nothing else.
LEMMA WriteEffect ==
  ASSUME TypeOK, NEW j \in Jobs, NEW s, Write(j, s)
  PROVE  /\ \A k \in Jobs : k # j => status'[k] = status[k]
         /\ HasRow(j) => status'[j] = s
         /\ ~HasRow(j) => status'[j] = status[j]
         /\ status' = status \/ status' = [status EXCEPT ![j] = s]
BY DEF Write, TypeOK

Generations ==
  [at : {"unused", "find", "delete", "create", "loop", "over"},
   without : SUBSET Samples, stale : SUBSET Jobs]

JobStatuses == {"none", "pending", "processing", "awaiting_review",
                "completed", "failed", "deleted"}

DocumentStatuses == {"none", "pre_ocr", "ongoing_ocr", "dead", "extracted",
                     "complete", "approved", "failed"}

Looks == [at : {"idle", "write", "ask"}, extracted : SUBSET Jobs,
          failed : SUBSET Jobs, open : SUBSET Jobs]

\* What a call of a look at the jobs makes of its record.
LEMMA LookTypes ==
  ASSUME TypeOK, NEW y \in Syncs, SyncStep(y)
  PROVE  sync' \in [Syncs -> Looks]
<1>1. sync \in [Syncs -> Looks]
  BY DEF TypeOK, Looks
<1>2. \A open \in SUBSET Jobs : LookOn(open) \in Looks
  BY DEF LookOn, NoSync, Looks
<1>3. CASE ReadJobs(y)
  BY <1>1, <1>3 DEF ReadJobs, Looks, Rows
<1>4. CASE WriteJobs(y)
  <2>1. sync[y].open \in SUBSET Jobs
    BY <1>1 DEF Looks
  <2> QED
    BY <1>1, <1>2, <1>4, <2>1 DEF WriteJobs
<1>5. ASSUME NEW j \in Jobs, AskTemporal(y, j) PROVE sync' \in [Syncs -> Looks]
  <2>1. sync[y].open \ {j} \in SUBSET Jobs
    BY <1>1 DEF Looks
  <2>2. [at |-> "write", extracted |-> {}, failed |-> {j},
         open |-> sync[y].open \ {j}] \in Looks
    BY <2>1 DEF Looks
  <2> QED
    BY <1>1, <1>2, <1>5, <2>1, <2>2 DEF AskTemporal
<1> QED
  BY <1>3, <1>4, <1>5 DEF SyncStep

\* What a step of a request to generate makes of its own record.
LEMMA GenerationTypes ==
  ASSUME TypeOK, NEW g \in Starts, GenerationStep(g)
  PROVE  gen' \in [Starts -> Generations]
<1>1. gen \in [Starts -> Generations]
  BY DEF TypeOK, Generations
<1>2. ASSUME NEW x \in Generations, gen' = [gen EXCEPT ![g] = x]
      PROVE  gen' \in [Starts -> Generations]
  BY <1>1, <1>2
<1>3. CASE BeginGeneration(g)
  <2> DEFINE x == [gen[g] EXCEPT !.at = "find",
                                 !.without = manifest.samples \ manifest.truth]
  <2>1. manifest.samples \in SUBSET Samples
    BY DEF TypeOK, Manifests
  <2>2. x \in Generations
    BY <1>1, <2>1 DEF Generations
  <2>3. gen' = [gen EXCEPT ![g] = x]
    BY <1>1, <1>3 DEF BeginGeneration
  <2> HIDE DEF x
  <2> QED
    BY <1>2, <2>2, <2>3
<1>4. CASE FindStaleJobs(g)
  <2> DEFINE x == [gen[g] EXCEPT !.at = "delete",
                                 !.stale = {j \in Rows : status[j] # "completed"}]
  <2>1. x \in Generations
    BY <1>1 DEF Generations, Rows
  <2>2. gen' = [gen EXCEPT ![g] = x]
    BY <1>1, <1>4 DEF FindStaleJobs
  <2> HIDE DEF x
  <2> QED
    BY <1>2, <2>1, <2>2
<1>5. CASE DeleteStaleJobs(g)
  <2> DEFINE x == [gen[g] EXCEPT !.at = "create", !.stale = {}]
  <2>1. x \in Generations
    BY <1>1 DEF Generations
  <2>2. gen' = [gen EXCEPT ![g] = x]
    BY <1>1, <1>5 DEF DeleteStaleJobs
  <2> HIDE DEF x
  <2> QED
    BY <1>2, <2>1, <2>2
<1>6. CASE CreateJobs(g)
  <2>1. PICK todo : CreateFor(g, todo)
    BY <1>6 DEF CreateJobs
  <2> DEFINE x == [gen[g] EXCEPT !.at = IF todo = {} THEN "over" ELSE "loop",
                                 !.without = {}]
  <2>2. x \in Generations
    BY <1>1 DEF Generations
  <2>3. gen' = [gen EXCEPT ![g] = x]
    BY <1>1, <2>1 DEF CreateFor
  <2> HIDE DEF x
  <2> QED
    BY <1>2, <2>2, <2>3
<1>7. CASE FindPendingJobs(g)
  <2> DEFINE x == [gen[g] EXCEPT !.at = "over"]
  <2>1. x \in Generations
    BY <1>1 DEF Generations
  <2>2. gen' = [gen EXCEPT ![g] = x]
    BY <1>1, <1>7 DEF FindPendingJobs, GenAt
  <2> HIDE DEF x
  <2> QED
    BY <1>2, <2>1, <2>2
<1> QED
  BY <1>3, <1>4, <1>5, <1>6, <1>7 DEF GenerationStep

\* Where a call of a request leaves it, and what it takes for stale.
LEMMA GenerationEffect ==
  ASSUME TypeOK, NEW g \in Starts
  PROVE  /\ BeginGeneration(g) =>
              gen'[g].at = "find" /\ gen'[g].stale = gen[g].stale
         /\ FindStaleJobs(g) =>
              /\ gen'[g].at = "delete"
              /\ gen'[g].stale = {j \in Rows : status[j] # "completed"}
         /\ DeleteStaleJobs(g) => gen'[g].at = "create" /\ gen'[g].stale = {}
         /\ \A todo : CreateFor(g, todo) =>
              gen'[g].at \in {"loop", "over"} /\ gen'[g].stale = gen[g].stale
         /\ FindPendingJobs(g) =>
              gen'[g].at = "over" /\ gen'[g].stale = gen[g].stale
<1>1. gen \in [Starts -> Generations]
  BY DEF TypeOK, Generations
<1>2. ASSUME BeginGeneration(g)
      PROVE  gen'[g].at = "find" /\ gen'[g].stale = gen[g].stale
  <2>1. gen'[g] = [gen[g] EXCEPT !.at = "find",
                                 !.without = manifest.samples \ manifest.truth]
    BY <1>1, <1>2 DEF BeginGeneration
  <2> QED
    BY <1>1, <2>1 DEF Generations
<1>3. ASSUME FindStaleJobs(g)
      PROVE  /\ gen'[g].at = "delete"
             /\ gen'[g].stale = {j \in Rows : status[j] # "completed"}
  <2> DEFINE found == {j \in Rows : status[j] # "completed"}
  <2>1. gen'[g] = [gen[g] EXCEPT !.at = "delete", !.stale = found]
    BY <1>1, <1>3 DEF FindStaleJobs
  <2> HIDE DEF found
  <2>2. gen'[g].at = "delete" /\ gen'[g].stale = found
    BY <1>1, <2>1 DEF Generations
  <2> QED
    BY <2>2 DEF found
<1>4. ASSUME DeleteStaleJobs(g)
      PROVE  gen'[g].at = "create" /\ gen'[g].stale = {}
  <2>1. gen'[g] = [gen[g] EXCEPT !.at = "create", !.stale = {}]
    BY <1>1, <1>4 DEF DeleteStaleJobs
  <2> QED
    BY <1>1, <2>1 DEF Generations
<1>5. ASSUME NEW todo, CreateFor(g, todo)
      PROVE  gen'[g].at \in {"loop", "over"} /\ gen'[g].stale = gen[g].stale
  <2>1. gen'[g] = [gen[g] EXCEPT !.at = IF todo = {} THEN "over" ELSE "loop",
                                 !.without = {}]
    BY <1>1, <1>5 DEF CreateFor
  <2> QED
    BY <1>1, <2>1 DEF Generations
<1>6. ASSUME FindPendingJobs(g)
      PROVE  gen'[g].at = "over" /\ gen'[g].stale = gen[g].stale
  <2>1. gen'[g] = [gen[g] EXCEPT !.at = "over"]
    BY <1>1, <1>6 DEF FindPendingJobs, GenAt
  <2> QED
    BY <1>1, <2>1 DEF Generations
<1> QED
  BY <1>2, <1>3, <1>4, <1>5, <1>6

\* Every step keeps the types.
LEMMA TypeStep ==
  ASSUME TypeOK, SeenIsClosed, [Next]_vars
  PROVE  TypeOK'
<1>1. ASSUME NEW g \in Starts, GenerationStep(g) PROVE TypeOK'
  <2>1. gen' \in [Starts -> Generations]
    BY <1>1, GenerationTypes
  <2>2. status' \in [Jobs -> JobStatuses]
    <3>1. status \in [Jobs -> JobStatuses]
      BY DEF TypeOK, JobStatuses
    <3>2. CASE CreateJobs(g)
      BY <3>1, <3>2 DEF CreateJobs, CreateFor, JobStatuses
    <3>3. CASE DeleteStaleJobs(g)
      BY <3>1, <3>3 DEF DeleteStaleJobs, JobStatuses
    <3> QED
      BY <1>1, <3>1, <3>2, <3>3
      DEF GenerationStep, BeginGeneration, FindStaleJobs, FindPendingJobs
  <2>3. document' \in [Starts -> [Jobs -> DocumentStatuses]]
    <3>1. document \in [Starts -> [Jobs -> DocumentStatuses]]
      BY DEF TypeOK, DocumentStatuses
    <3>2. CASE FindStaleJobs(g)
      BY <3>1, <3>2 DEF FindStaleJobs, DocumentStatuses
    <3> QED
      BY <1>1, <3>1, <3>2
      DEF GenerationStep, BeginGeneration, DeleteStaleJobs, CreateJobs,
          CreateFor, FindPendingJobs
  <2>4. process' \in [Starts -> [Jobs -> {"none", "begin", "link", "request",
                                          "record", "fail"}]]
    <3>1. CASE FindPendingJobs(g)
      BY <3>1 DEF FindPendingJobs, TypeOK
    <3> QED
      BY <1>1, <3>1
      DEF TypeOK, GenerationStep, BeginGeneration, FindStaleJobs,
          DeleteStaleJobs, CreateJobs, CreateFor
  <2>5. UNCHANGED <<setup, frozen, manifest, documentOf, recorded, sync,
                    complete, edit>>
    BY <1>1 DEF GenerationStep, BeginGeneration, FindStaleJobs,
      DeleteStaleJobs, CreateJobs, CreateFor, FindPendingJobs
  <2> QED
    BY <2>1, <2>2, <2>3, <2>4, <2>5
    DEF TypeOK, Generations, JobStatuses, DocumentStatuses
<1>6. ASSUME NEW g \in Starts, NEW j \in Jobs,
             NEW next \in {"none", "begin", "link", "request", "record", "fail"},
             ProcessAt(g, j, next)
      PROVE  process' \in [Starts -> [Jobs -> {"none", "begin", "link", "request",
                                      "record", "fail"}]]
  BY <1>6 DEF ProcessAt, TypeOK
<1>7. ASSUME NEW g \in Starts, NEW j \in Jobs,
             NEW s \in {"none", "pre_ocr", "ongoing_ocr", "dead",
                        "extracted", "complete", "approved", "failed"},
             SetDocument(g, j, s)
      PROVE  document' \in
               [Starts -> [Jobs -> {"none", "pre_ocr", "ongoing_ocr", "dead",
                                    "extracted", "complete", "approved",
                                    "failed"}]]
  BY <1>7 DEF SetDocument, TypeOK
<1>8. ASSUME NEW j \in Jobs,
             NEW s \in {"processing", "awaiting_review", "completed", "failed"},
             Write(j, s)
      PROVE  status' \in [Jobs -> {"none", "pending", "processing", "awaiting_review",
                          "completed", "failed", "deleted"}]
  BY <1>8 DEF Write, TypeOK
<1>9. ASSUME NEW g \in Starts, NEW j \in Jobs, CreateDocument(g, j)
      PROVE  TypeOK'
  BY <1>6, <1>7, <1>9 DEF CreateDocument, TypeOK
<1>10. ASSUME NEW g \in Starts, NEW j \in Jobs, NoDocument(g, j) PROVE TypeOK'
  BY <1>6, <1>10 DEF NoDocument, TypeOK
<1>11. ASSUME NEW g \in Starts, NEW j \in Jobs, LinkDocument(g, j)
       PROVE  TypeOK'
  <2>1. documentOf' \in [Jobs -> Starts \cup {NoLoop}]
    BY <1>11 DEF LinkDocument, TypeOK
  <2>2. PICK next \in {"request", "fail"} : ProcessAt(g, j, next)
    BY <1>11 DEF LinkDocument
  <2> QED
    BY <1>6, <1>8, <1>11, <2>1, <2>2 DEF LinkDocument, TypeOK
<1>12. ASSUME NEW g \in Starts, NEW j \in Jobs, RequestOcr(g, j) PROVE TypeOK'
  BY <1>6, <1>7, <1>12 DEF RequestOcr, TypeOK
<1>13. ASSUME NEW g \in Starts, NEW j \in Jobs, RecordWorkflow(g, j)
       PROVE  TypeOK'
  BY <1>6, <1>13 DEF RecordWorkflow, TypeOK
<1>14. ASSUME NEW g \in Starts, NEW j \in Jobs, FailJob(g, j) PROVE TypeOK'
  BY <1>6, <1>8, <1>14 DEF FailJob, TypeOK
<1>15. ASSUME NEW g \in Starts, NEW j \in Jobs,
              WorkflowEnds(g, j) \/ CompleteDocument(g, j) PROVE TypeOK'
  BY <1>7, <1>15 DEF WorkflowEnds, CompleteDocument, TypeOK
<1>16. ASSUME NEW y \in Syncs, SyncStep(y) PROVE TypeOK'
  <2>1. sync' \in [Syncs -> Looks]
    BY <1>16, LookTypes
  <2>2. status' \in [Jobs -> JobStatuses]
    <3>1. status \in [Jobs -> JobStatuses]
      BY DEF TypeOK, JobStatuses
    <3>2. CASE WriteJobs(y)
      BY <3>1, <3>2 DEF WriteJobs, JobStatuses
    <3>3. CASE ~WriteJobs(y)
      <4>1. status' = status
        BY <1>16, <3>3 DEF SyncStep, ReadJobs, AskTemporal
      <4> QED
        BY <3>1, <4>1
    <3> QED
      BY <3>2, <3>3
  <2>3. UNCHANGED <<setup, frozen, manifest, documentOf, recorded, document,
                    gen, process, complete, edit>>
    BY <1>16 DEF SyncStep, ReadJobs, WriteJobs, AskTemporal
  <2> QED
    BY <2>1, <2>2, <2>3 DEF TypeOK, Looks, JobStatuses
<1>18. ASSUME NEW j \in Jobs, BeginCompletion(j) PROVE TypeOK'
  <2>1. documentOf[j] \in Starts
    BY <1>18 DEF BeginCompletion, DocumentStatus, TypeOK
  <2> QED
    BY <1>7, <1>18, <2>1 DEF BeginCompletion, TypeOK
<1>19. ASSUME NEW j \in Jobs, ReadManifest(j) PROVE TypeOK'
  BY <1>19 DEF ReadManifest, TypeOK
<1>20. ASSUME NEW j \in Jobs, WriteManifest(j) PROVE TypeOK'
  BY <1>20 DEF WriteManifest, TypeOK, SeenIsClosed, Manifests, NoManifest
<1>21. ASSUME NEW j \in Jobs, FinishCompletion(j) PROVE TypeOK'
  BY <1>8, <1>21 DEF FinishCompletion, TypeOK, NoCompletion, NoManifest,
    Manifests
<1>22. ASSUME NEW j \in Jobs, CompletionFails(j) PROVE TypeOK'
  BY <1>22 DEF CompletionFails, TypeOK, NoCompletion, NoManifest, Manifests
<1>23. ASSUME NEW j \in Jobs, Reopen(j) PROVE TypeOK'
  BY <1>8, <1>23 DEF Reopen, TypeOK
<1>24. ASSUME NEW s \in Samples, NEW what \in {"add", "truth", "drop"},
              BeginEdit(s, what)
       PROVE  TypeOK'
  BY <1>24 DEF BeginEdit, TypeOK
<1>25. ASSUME NEW s \in Samples, WriteEdit(s) PROVE TypeOK'
  <2>1. /\ edit[s].seen \in Manifests
        /\ edit[s].seen.truth \subseteq edit[s].seen.samples
    BY <1>25 DEF WriteEdit, TypeOK, SeenIsClosed
  <2>2. manifest' \in Manifests /\ manifest'.truth \subseteq manifest'.samples
    BY <1>25, <2>1 DEF WriteEdit, Manifests
  <2>3. edit' \in [Samples -> [at : {"idle", "write", "jobs"}, seen : Manifests,
                              what : {"none", "add", "truth", "drop"}]]
    <3> DEFINE Edits == [at : {"idle", "write", "jobs"}, seen : Manifests,
                         what : {"none", "add", "truth", "drop"}]
               x == [edit[s] EXCEPT !.at = "jobs", !.seen = NoManifest]
    <3>1. edit \in [Samples -> Edits]
      BY DEF TypeOK
    <3>2. NoManifest \in Manifests
      BY DEF NoManifest, Manifests
    <3>3. x \in Edits
      BY <3>1, <3>2
    <3>4. NoEdit \in Edits
      BY <3>2 DEF NoEdit
    <3>5. edit' = [edit EXCEPT ![s] = x] \/ edit' = [edit EXCEPT ![s] = NoEdit]
      BY <1>25, <3>1 DEF WriteEdit
    <3> HIDE DEF x, Edits
    <3>6. edit' \in [Samples -> Edits]
      BY <3>1, <3>3, <3>4, <3>5
    <3> QED
      BY <3>6 DEF Edits
  <2> QED
    BY <1>25, <2>2, <2>3 DEF WriteEdit, TypeOK
<1>26. ASSUME NEW s \in Samples, DeleteJobs(s) PROVE TypeOK'
  BY <1>26 DEF DeleteJobs, TypeOK, Manifests, NoManifest, NoEdit
<1>27. CASE Freeze
  BY <1>27 DEF Freeze, TypeOK
<1>28. CASE Stop
  BY <1>28 DEF Stop, TypeOK, NoSync, NoCompletion, NoEdit, Manifests,
    NoManifest
<1>29. CASE UNCHANGED vars
  BY <1>29 DEF vars, TypeOK
<1> QED
  BY <1>1, <1>9, <1>10, <1>11, <1>12, <1>13, <1>14,
     <1>15, <1>16, <1>18, <1>19, <1>20, <1>21, <1>22, <1>23, <1>24,
     <1>25, <1>26, <1>27, <1>28, <1>29
  DEF Next, ProcessStep, CompletionStep, EditStep

\* What the steps of the parts leave alone.
LEMMA Frames ==
  /\ \A g \in Starts : GenerationStep(g) =>
       UNCHANGED <<setup, frozen, manifest, documentOf, recorded, sync,
                   complete, edit>>
  /\ \A g \in Starts, j \in Jobs : ProcessStep(g, j) =>
       UNCHANGED <<setup, frozen, manifest, gen, sync, complete, edit>>
  /\ \A g \in Starts, j \in Jobs : WorkflowEnds(g, j) \/ CompleteDocument(g, j) =>
       UNCHANGED <<setup, frozen, manifest, jobVars, gen, process, sync,
                   complete, edit>>
  /\ \A y \in Syncs : SyncStep(y) =>
       UNCHANGED <<setup, frozen, manifest, documentOf, recorded, document,
                   gen, process, complete, edit>>
  /\ \A j \in Jobs : CompletionStep(j) =>
       UNCHANGED <<setup, frozen, documentOf, recorded, gen, process, sync, edit>>
  /\ \A j \in Jobs : Reopen(j) =>
       UNCHANGED <<setup, frozen, manifest, documentOf, recorded, document,
                   gen, process, sync, complete, edit>>
  /\ \A s \in Samples : EditStep(s) =>
       UNCHANGED <<setup, frozen, documentOf, recorded, gen, process, sync,
                   complete>>
BY DEF GenerationStep, BeginGeneration, FindStaleJobs, DeleteStaleJobs,
  CreateJobs, CreateFor, FindPendingJobs, ProcessStep, CreateDocument,
  NoDocument, LinkDocument, RequestOcr, RecordWorkflow, FailJob, WorkflowEnds,
  CompleteDocument, SyncStep, ReadJobs, WriteJobs, AskTemporal, CompletionStep,
  BeginCompletion,
  ReadManifest, WriteManifest, FinishCompletion, CompletionFails, Reopen,
  EditStep, BeginEdit, WriteEdit, DeleteJobs

\* A call of a loop changes no other job's records.
LEMMA ProcessEffect ==
  ASSUME TypeOK, NEW g \in Starts, NEW j \in Jobs, ProcessStep(g, j)
  PROVE  /\ process[g][j] # "none"
         /\ \A h \in Starts, k \in Jobs : h # g \/ k # j =>
              process'[h][k] = process[h][k] /\ document'[h][k] = document[h][k]
         /\ \A k \in Jobs : k # j =>
              status'[k] = status[k] /\ documentOf'[k] = documentOf[k]
         /\ ~HasRow(j) => status'[j] = status[j] /\ documentOf'[j] = documentOf[j]
         /\ HasRow(j) => status'[j] \notin {"none", "deleted"}
<1> USE DEF TypeOK, ProcessAt, SetDocument, HasRow
<1>1. CASE CreateDocument(g, j)
  BY <1>1 DEF CreateDocument
<1>2. CASE NoDocument(g, j)
  BY <1>2 DEF NoDocument
<1>3. CASE LinkDocument(g, j)
  BY <1>3 DEF LinkDocument, Write
<1>4. CASE RequestOcr(g, j)
  BY <1>4 DEF RequestOcr
<1>5. CASE RecordWorkflow(g, j)
  BY <1>5 DEF RecordWorkflow
<1>6. CASE FailJob(g, j)
  BY <1>6 DEF FailJob, Write
<1> QED
  BY <1>1, <1>2, <1>3, <1>4, <1>5, <1>6 DEF ProcessStep

\* What a look at the jobs takes note of, what it writes, and whom it asks for.
LEMMA SyncEffect ==
  ASSUME TypeOK, NEW y \in Syncs, SyncStep(y)
  PROVE  /\ \A z \in Syncs : z # y => sync'[z] = sync[z]
         /\ ReadJobs(y) =>
              /\ status' = status /\ sync[y] = NoSync
              /\ \A j \in sync'[y].extracted :
                   HasRow(j) /\ status[j] = "processing" /\ DocumentStatus(j) = "extracted"
              /\ \A j \in sync'[y].failed \cup sync'[y].open :
                   /\ HasRow(j) /\ status[j] = "processing"
                   /\ j \notin sync'[y].extracted
         /\ WriteJobs(y) =>
              /\ sync[y] # NoSync
              /\ sync'[y].extracted = {} /\ sync'[y].failed = {}
              /\ sync'[y].open = sync[y].open
              /\ \A j \in Jobs : ~HasRow(j) => status'[j] = status[j]
              /\ \A j \in Jobs : HasRow(j) =>
                   IF j \in sync[y].extracted THEN status'[j] = "awaiting_review"
                   ELSE IF j \in sync[y].failed THEN status'[j] = "failed"
                   ELSE status'[j] = status[j]
         /\ \A j \in Jobs : AskTemporal(y, j) =>
              /\ status' = status /\ sync[y] # NoSync
              /\ sync'[y].extracted = {}
              /\ sync'[y].failed \cup sync'[y].open \subseteq sync[y].open
<1>1. \A z \in Syncs : z # y => sync'[z] = sync[z]
  BY DEF SyncStep, ReadJobs, WriteJobs, AskTemporal, TypeOK
<1>2. \A open : /\ LookOn(open).extracted = {} /\ LookOn(open).failed = {}
               /\ LookOn(open).open = open
  BY DEF LookOn, NoSync
<1>3. ASSUME ReadJobs(y)
      PROVE  /\ status' = status /\ sync[y] = NoSync
             /\ \A j \in sync'[y].extracted :
                  HasRow(j) /\ status[j] = "processing" /\ DocumentStatus(j) = "extracted"
             /\ \A j \in sync'[y].failed \cup sync'[y].open :
                  /\ HasRow(j) /\ status[j] = "processing"
                  /\ j \notin sync'[y].extracted
  BY <1>3 DEF ReadJobs, TypeOK, Rows
<1>4. ASSUME WriteJobs(y)
      PROVE  /\ sync[y] # NoSync
             /\ sync'[y].extracted = {} /\ sync'[y].failed = {}
             /\ sync'[y].open = sync[y].open
             /\ \A j \in Jobs : ~HasRow(j) => status'[j] = status[j]
             /\ \A j \in Jobs : HasRow(j) =>
                  IF j \in sync[y].extracted THEN status'[j] = "awaiting_review"
                  ELSE IF j \in sync[y].failed THEN status'[j] = "failed"
                  ELSE status'[j] = status[j]
  <2>1. sync'[y] = LookOn(sync[y].open)
    BY <1>4 DEF WriteJobs, TypeOK
  <2>2. sync[y] # NoSync
    BY <1>4 DEF WriteJobs, NoSync
  <2> QED
    BY <1>2, <1>4, <2>1, <2>2 DEF WriteJobs
<1>5. ASSUME NEW j \in Jobs, AskTemporal(y, j)
      PROVE  /\ status' = status /\ sync[y] # NoSync
             /\ sync'[y].extracted = {}
             /\ sync'[y].failed \cup sync'[y].open \subseteq sync[y].open
  <2>1. status' = status /\ sync[y] # NoSync /\ j \in sync[y].open
    BY <1>5 DEF AskTemporal, NoSync
  <2>2. \/ sync'[y] = [at |-> "write", extracted |-> {}, failed |-> {j},
                       open |-> sync[y].open \ {j}]
        \/ sync'[y] = LookOn(sync[y].open \ {j})
    BY <1>5 DEF AskTemporal, TypeOK
  <2> QED
    BY <1>2, <2>1, <2>2
<1> QED
  BY <1>1, <1>3, <1>4, <1>5

\* What each call of a review changes.
LEMMA CompletionEffect ==
  ASSUME TypeOK, NEW j \in Jobs, CompletionStep(j)
  PROVE  /\ \A k \in Jobs : k # j =>
              complete'[k] = complete[k] /\ status'[k] = status[k]
         /\ \A g \in Starts, k \in Jobs : k # j => document'[g][k] = document[g][k]
         /\ BeginCompletion(j) =>
              /\ complete'[j] = [at |-> "read", seen |-> NoManifest]
              /\ status'[j] = status[j]
         /\ ReadManifest(j) =>
              /\ complete'[j] = [at |-> "write", seen |-> manifest]
              /\ status'[j] = status[j]
         /\ WriteManifest(j) =>
              /\ complete'[j] = [at |-> "finish", seen |-> NoManifest]
              /\ status'[j] = status[j]
         /\ FinishCompletion(j) =>
              /\ complete'[j] = NoCompletion
              /\ status'[j] = IF HasRow(j) THEN "completed" ELSE status[j]
         /\ CompletionFails(j) =>
              complete'[j] = NoCompletion /\ status'[j] = status[j]
         /\ \A g \in Starts : document'[g][j] # document[g][j] =>
              /\ BeginCompletion(j) /\ g = documentOf[j]
              /\ document[g][j] \in {"extracted", "complete"}
              /\ document'[g][j] = "approved"
<1> USE DEF TypeOK
<1>1. CASE BeginCompletion(j)
  BY <1>1 DEF BeginCompletion, SetDocument, DocumentStatus, NoCompletion,
    ReadManifest, WriteManifest, FinishCompletion, CompletionFails
<1>2. CASE ReadManifest(j)
  BY <1>2 DEF ReadManifest, BeginCompletion, NoCompletion,
    WriteManifest, FinishCompletion, CompletionFails
<1>3. CASE WriteManifest(j)
  BY <1>3 DEF WriteManifest, BeginCompletion, NoCompletion,
    ReadManifest, FinishCompletion, CompletionFails
<1>4. CASE FinishCompletion(j)
  BY <1>4 DEF FinishCompletion, BeginCompletion, NoCompletion,
    ReadManifest, WriteManifest, CompletionFails, Write
<1>5. CASE CompletionFails(j)
  BY <1>5 DEF CompletionFails, BeginCompletion, NoCompletion,
    ReadManifest, WriteManifest, FinishCompletion, Write
<1> QED
  BY <1>1, <1>2, <1>3, <1>4, <1>5 DEF CompletionStep

\* What each call of an upload or a deletion changes in its own record.
LEMMA EditEffect ==
  ASSUME TypeOK, NEW s \in Samples
  PROVE  /\ EditStep(s) => \A t \in Samples : t # s => edit'[t] = edit[t]
         /\ \A what \in {"add", "truth", "drop"} : BeginEdit(s, what) =>
              /\ edit[s] = NoEdit
              /\ edit'[s] = [at |-> "write", seen |-> manifest, what |-> what]
         /\ WriteEdit(s) =>
              \/ edit'[s] = NoEdit
              \/ edit'[s].at = "jobs" /\ edit'[s].seen = NoManifest
         /\ DeleteJobs(s) => edit'[s] = NoEdit
<1>1. edit \in [Samples -> [at : {"idle", "write", "jobs"}, seen : Manifests,
                           what : {"none", "add", "truth", "drop"}]]
  BY DEF TypeOK
<1> QED
  BY <1>1 DEF EditStep, BeginEdit, WriteEdit, DeleteJobs, NoEdit

\* What is read of the manifest is a manifest.
LEMMA SeenStep ==
  ASSUME TypeOK, SeenIsClosed, [Next]_vars
  PROVE  SeenIsClosed'
<1>1. NoManifest.truth \subseteq NoManifest.samples
  BY DEF NoManifest
<1>2. CASE UNCHANGED <<complete, edit>>
  BY <1>2 DEF SeenIsClosed
<1>3. ASSUME NEW j \in Jobs, CompletionStep(j) PROVE SeenIsClosed'
  <2>1. edit' = edit
    BY <1>3, Frames
  <2>2. \/ complete'[j].seen = NoManifest
        \/ complete'[j].seen = manifest
    BY <1>3, CompletionEffect DEF CompletionStep, NoCompletion
  <2>3. manifest.truth \subseteq manifest.samples
    BY DEF TypeOK
  <2> QED
    BY <1>1, <1>3, <2>1, <2>2, <2>3, CompletionEffect DEF SeenIsClosed
<1>4. ASSUME NEW s \in Samples, EditStep(s) PROVE SeenIsClosed'
  <2>1. complete' = complete
    BY <1>4, Frames
  <2>2. edit'[s].seen \in {NoManifest, manifest}
    BY <1>4, EditEffect DEF EditStep, NoEdit
  <2>3. manifest.truth \subseteq manifest.samples
    BY DEF TypeOK
  <2> QED
    BY <1>1, <1>4, <2>1, <2>2, <2>3, EditEffect DEF SeenIsClosed
<1>5. CASE Stop
  BY <1>1, <1>5 DEF Stop, SeenIsClosed, NoCompletion, NoEdit
<1>6. CASE Freeze
  BY <1>2, <1>6 DEF Freeze
<1> QED
  BY <1>2, <1>3, <1>4, <1>5, <1>6, Frames DEF Next, vars

\* A job that was never created stays without a trace.
LEMMA NewJobsStep ==
  ASSUME TypeOK, TypeOK', NewJobs, [Next]_vars
  PROVE  NewJobs'
\* Any step but those of a request and the end of the backend.
<1>1. ASSUME gen' = gen,
             \A j \in Jobs : status'[j] = "none" <=> status[j] = "none",
             \A j \in Jobs : status[j] = "none" => Untouched(j)',
             \A g \in Starts, j \in Jobs : process[g][j] = "none" =>
               /\ process'[g][j] = "none"
               /\ document[g][j] = "none" => document'[g][j] = "none"
      PROVE  NewJobs'
  BY <1>1 DEF NewJobs
<1>2. ASSUME NEW g \in Starts, NEW j \in Jobs, ProcessStep(g, j) PROVE NewJobs'
  <2>1. status[j] # "none"
    BY <1>2, ProcessEffect DEF NewJobs
  <2>2. \A k \in Jobs : status'[k] = "none" <=> status[k] = "none"
    BY <1>2, <2>1, ProcessEffect DEF HasRow
  <2>3. \A k \in Jobs : status[k] = "none" => Untouched(k)'
    BY <1>2, <2>1, ProcessEffect, Frames DEF NewJobs, Untouched, InSync
  <2>4. gen' = gen
    BY <1>2, Frames
  <2>5. \A h \in Starts, k \in Jobs : process[h][k] = "none" =>
               /\ process'[h][k] = "none"
               /\ document[h][k] = "none" => document'[h][k] = "none"
    BY <1>2, ProcessEffect
  <2> QED
    BY <1>1, <2>2, <2>3, <2>4, <2>5
<1>3. ASSUME NEW g \in Starts, NEW j \in Jobs,
             WorkflowEnds(g, j) \/ CompleteDocument(g, j)
      PROVE  NewJobs'
  <2>1. UNCHANGED <<jobVars, gen, process, sync, complete>>
    BY <1>3, Frames
  <2>2. \A h \in Starts, k \in Jobs :
          document[h][k] = "none" => document'[h][k] = "none"
    <3>1. PICK s \in DocumentStatuses : SetDocument(g, j, s)
      BY <1>3 DEF WorkflowEnds, CompleteDocument, DocumentStatuses
    <3>2. document[g][j] # "none"
      BY <1>3 DEF WorkflowEnds, CompleteDocument
    <3> QED
      BY <3>1, <3>2 DEF SetDocument, TypeOK
  <2>3. \A k \in Jobs : status[k] = "none" => Untouched(k)'
    BY <2>1 DEF NewJobs, Untouched, InSync
  <2> QED
    BY <1>1, <2>1, <2>2, <2>3
<1>4. ASSUME NEW y \in Syncs, SyncStep(y) PROVE NewJobs'
  <2>1. UNCHANGED <<documentOf, document, gen, process, complete>>
    BY <1>4, Frames
  <2>2. \A k \in Jobs : status'[k] = "none" <=> status[k] = "none"
    BY <1>4 DEF SyncStep, ReadJobs, WriteJobs, AskTemporal, HasRow
  <2>3. \A k \in Jobs, z \in Syncs : status[k] = "none" => ~InSync(k, z)'
    <3> SUFFICES ASSUME NEW k \in Jobs, NEW z \in Syncs, status[k] = "none"
                 PROVE  ~InSync(k, z)'
      OBVIOUS
    <3>1. ~InSync(k, z) /\ ~HasRow(k)
      BY DEF NewJobs, Untouched, HasRow
    <3>2. CASE z # y
      BY <1>4, <3>1, <3>2, SyncEffect DEF InSync
    <3>3. CASE z = y
      BY <1>4, <3>1, <3>3, SyncEffect DEF SyncStep, InSync
    <3> QED
      BY <3>2, <3>3
  <2>4. \A k \in Jobs : status[k] = "none" => Untouched(k)'
    BY <2>1, <2>3 DEF NewJobs, Untouched
  <2> QED
    BY <1>1, <2>1, <2>2, <2>4
<1>5. ASSUME NEW j \in Jobs, CompletionStep(j) PROVE NewJobs'
  <2>1. UNCHANGED <<documentOf, gen, process, sync>>
    BY <1>5, Frames
  <2>2. status[j] # "none"
    BY <1>5 DEF NewJobs, Untouched, CompletionStep, BeginCompletion, HasRow,
      ReadManifest, WriteManifest, FinishCompletion, CompletionFails, NoCompletion
  <2>3. \A k \in Jobs : status'[k] = "none" <=> status[k] = "none"
    BY <1>5, <2>2, CompletionEffect DEF CompletionStep
  <2>4. \A k \in Jobs : status[k] = "none" => Untouched(k)'
    BY <1>5, <2>1, <2>2, CompletionEffect DEF NewJobs, Untouched, InSync
  <2>5. \A h \in Starts, k \in Jobs :
          document[h][k] = "none" => document'[h][k] = "none"
    BY <1>5, CompletionEffect
  <2> QED
    BY <1>1, <2>1, <2>3, <2>4, <2>5
<1>6. ASSUME NEW j \in Jobs, Reopen(j) PROVE NewJobs'
  <2>1. UNCHANGED <<documentOf, document, gen, process, sync, complete>>
    BY <1>6, Frames
  <2>2. \A k \in Jobs : status'[k] = "none" <=> status[k] = "none"
    BY <1>6, WriteEffect DEF Reopen, HasRow
  <2>3. \A k \in Jobs : status[k] = "none" => Untouched(k)'
    BY <2>1 DEF NewJobs, Untouched, InSync
  <2> QED
    BY <1>1, <2>1, <2>2, <2>3
<1>7. ASSUME NEW s \in Samples, EditStep(s) PROVE NewJobs'
  <2>1. UNCHANGED <<documentOf, gen, process, sync, complete>>
    BY <1>7, Frames
  <2>2. \A k \in Jobs : status'[k] = "none" <=> status[k] = "none"
    BY <1>7 DEF EditStep, BeginEdit, WriteEdit, DeleteJobs, Rows, HasRow
  <2>3. \A h \in Starts, k \in Jobs :
          document[h][k] = "none" => document'[h][k] = "none"
    BY <1>7 DEF EditStep, BeginEdit, WriteEdit, DeleteJobs
  <2>4. \A k \in Jobs : status[k] = "none" => Untouched(k)'
    BY <2>1 DEF NewJobs, Untouched, InSync
  <2> QED
    BY <1>1, <2>1, <2>2, <2>3, <2>4
<1>8. CASE Freeze \/ UNCHANGED vars
  <2>1. UNCHANGED <<jobVars, document, gen, process, sync, complete>>
    BY <1>8 DEF Freeze, vars
  <2>2. \A k \in Jobs : status[k] = "none" => Untouched(k)'
    BY <2>1 DEF NewJobs, Untouched, InSync
  <2> QED
    BY <1>1, <2>1, <2>2
<1>9. CASE Stop
  <2>1. /\ UNCHANGED <<jobVars, document>>
        /\ \A j \in Jobs : complete'[j] = NoCompletion
        /\ \A y \in Syncs : sync'[y] = NoSync
        /\ \A g \in Starts, j \in Jobs : process'[g][j] = "none"
        /\ \A g \in Starts :
             \/ gen'[g] = gen[g]
             \/ gen'[g].at = "over" /\ gen'[g].stale = {}
    BY <1>9 DEF Stop
  <2> QED
    BY <2>1 DEF NewJobs, Untouched, InSync, NoSync
<1>10. ASSUME NEW g \in Starts, GenerationStep(g) PROVE NewJobs'
  <2>1. UNCHANGED <<documentOf, sync, complete>>
    BY <1>10, Frames
  <2>2. \A h \in Starts : h # g => gen'[h] = gen[h]
    BY <1>10 DEF TypeOK, GenerationStep, BeginGeneration, FindStaleJobs,
      DeleteStaleJobs, CreateJobs, CreateFor, FindPendingJobs, GenAt
  <2>3. \A k \in Jobs : Untouched(k)' <=> Untouched(k)
    BY <2>1 DEF Untouched, InSync
  <2>4. CASE BeginGeneration(g)
    <3>1. /\ gen[g].at = "unused" /\ gen'[g].at = "find"
          /\ gen'[g].stale = gen[g].stale
          /\ UNCHANGED <<status, process, document>>
      BY <2>4 DEF BeginGeneration, TypeOK
    <3> QED
      BY <2>2, <2>3, <3>1 DEF NewJobs
  <2>5. CASE FindStaleJobs(g)
    <3>1. /\ gen[g].at = "find" /\ gen'[g].at = "delete"
          /\ UNCHANGED <<status, process>>
      BY <2>5, GenerationEffect DEF FindStaleJobs
    <3>2. \A j \in gen'[g].stale : status[j] # "none"
      BY <2>5, GenerationEffect DEF Rows, HasRow
    <3>3. \A h \in Starts, j \in Jobs :
            document[h][j] = "none" => document'[h][j] = "none"
      BY <2>5 DEF FindStaleJobs
    <3> QED
      BY <2>2, <2>3, <3>1, <3>2, <3>3 DEF NewJobs
  <2>6. CASE DeleteStaleJobs(g)
    <3>1. /\ gen[g].at = "delete" /\ gen'[g].at = "create"
          /\ gen'[g].stale = {}
          /\ UNCHANGED <<document, process>>
      BY <2>6 DEF DeleteStaleJobs, TypeOK
    <3>2. \A j \in Jobs : status'[j] = "none" <=> status[j] = "none"
      BY <2>6 DEF DeleteStaleJobs, NewJobs
    <3> QED
      BY <2>2, <2>3, <3>1, <3>2 DEF NewJobs
  <2>7. CASE CreateJobs(g)
    <3>1. PICK todo : CreateFor(g, todo)
      BY <2>7 DEF CreateJobs
    <3>2. /\ gen[g].at = "create" /\ gen'[g].at \in {"loop", "over"}
          /\ gen'[g].stale = gen[g].stale
          /\ UNCHANGED <<document, process>>
      <4>1. /\ gen'[g].at \in {"loop", "over"}
            /\ gen'[g].stale = gen[g].stale
        BY <3>1, GenerationEffect
      <4> QED
        BY <2>7, <3>1, <4>1 DEF CreateJobs, CreateFor
    <3>3. \A j \in Jobs : /\ j[1] # g => status'[j] = status[j]
                          /\ status'[j] = "none" => status[j] = "none"
                          /\ status[j] # "none" => status'[j] # "none"
      BY <3>1 DEF CreateFor
    <3> QED
      BY <2>2, <2>3, <3>2, <3>3 DEF NewJobs
  <2>8. CASE FindPendingJobs(g)
    <3>1. /\ gen'[g].at = "over" /\ gen'[g].stale = gen[g].stale
          /\ UNCHANGED <<status, document>>
          /\ \A h \in Starts : h # g => process'[h] = process[h]
          /\ \A j \in Jobs : status[j] = "none" => process'[g][j] = "none"
      BY <2>8 DEF FindPendingJobs, GenAt, TypeOK
    <3> QED
      BY <2>2, <2>3, <3>1 DEF NewJobs
  <2> QED
    BY <1>10, <2>4, <2>5, <2>6, <2>7, <2>8 DEF GenerationStep
<1> QED
  BY <1>2, <1>3, <1>4, <1>5, <1>6, <1>7, <1>8, <1>9, <1>10 DEF Next

\* The setup never changes.
LEMMA EditsStep ==
  ASSUME TypeOK, EditsAreAllowed, [Next]_vars
  PROVE  EditsAreAllowed' /\ setup' = setup
<1>1. CASE UNCHANGED <<setup, edit>>
  BY <1>1 DEF EditsAreAllowed
<1>2. ASSUME NEW s \in Samples, EditStep(s)
      PROVE  EditsAreAllowed' /\ setup' = setup
  <2>1. setup' = setup
    BY <1>2, Frames
  <2>2. setup.edits
    BY <1>2 DEF EditStep, BeginEdit, WriteEdit, DeleteJobs, EditsAreAllowed,
      NoEdit
  <2> QED
    BY <2>1, <2>2 DEF EditsAreAllowed
<1>3. CASE Stop
  BY <1>3 DEF Stop, EditsAreAllowed
<1>4. CASE Freeze
  BY <1>1, <1>4 DEF Freeze
<1> QED
  BY <1>1, <1>2, <1>3, <1>4, Frames DEF Next, vars

\* There are finitely many jobs.
LEMMA JobsAreFinite == IsFiniteSet(Jobs)
BY FinitenessAssumption, FS_Product DEF Jobs

\* A writer that may begin is the only one.
LEMMA NoWriter ==
  ASSUME TypeOK, Writers < setup.writers, setup.writers <= 1
  PROVE  /\ \A j \in Jobs : complete[j].at # "write"
         /\ \A s \in Samples : edit[s].at = "idle"
<1> DEFINE A == {j \in Jobs : complete[j].at = "write"}
           B == {s \in Samples : edit[s].at # "idle"}
<1>1. IsFiniteSet(A) /\ IsFiniteSet(B)
  <2>1. A \in SUBSET Jobs /\ B \in SUBSET Samples
    OBVIOUS
  <2> QED
    BY <2>1, JobsAreFinite, FinitenessAssumption, FS_Subset
<1>2. Cardinality(A) \in Nat /\ Cardinality(B) \in Nat
  BY <1>1, FS_CardinalityType
<1>3. setup.writers \in Nat
  BY DEF TypeOK
<1>4. Cardinality(A) + Cardinality(B) < setup.writers
  BY DEF Writers
<1>5. Cardinality(A) = 0 /\ Cardinality(B) = 0
  <2> HIDE DEF A, B
  <2> QED
    BY <1>2, <1>3, <1>4
<1>6. A = {} /\ B = {}
  <2> HIDE DEF A, B
  <2> QED
    BY <1>1, <1>5, FS_EmptySet
<1> QED
  BY <1>6

\* With a limit of one there is never a second writer, and what it has read
\* of the manifest is still true.
LEMMA OneWriterStep ==
  ASSUME TypeOK, setup.writers <= 1, OneWriter, [Next]_vars
  PROVE  OneWriter'
<1>1. CASE UNCHANGED <<manifest, complete, edit>>
  BY <1>1 DEF OneWriter
<1>2. ASSUME NEW j \in Jobs, CompletionStep(j) PROVE OneWriter'
  <2>1. edit' = edit /\ \A k \in Jobs : k # j => complete'[k] = complete[k]
    BY <1>2, Frames, CompletionEffect
  <2>2. CASE ReadManifest(j)
    <3>1. manifest' = manifest /\ complete'[j] = [at |-> "write", seen |-> manifest]
      BY <1>2, <2>2, CompletionEffect DEF ReadManifest
    <3>2. /\ \A k \in Jobs : complete[k].at # "write"
          /\ \A s \in Samples : edit[s].at = "idle"
      BY <2>2, NoWriter DEF ReadManifest
    <3> QED
      BY <2>1, <3>1, <3>2 DEF OneWriter
  <2>3. CASE WriteManifest(j)
    <3>1. complete[j].at = "write"
      BY <2>3 DEF WriteManifest
    <3>2. complete'[j].at # "write"
      BY <1>2, <2>3, CompletionEffect
    <3> QED
      BY <2>1, <3>1, <3>2 DEF OneWriter
  <2>4. CASE ~ReadManifest(j) /\ ~WriteManifest(j)
    <3>1. manifest' = manifest
      BY <1>2, <2>4 DEF CompletionStep, BeginCompletion, FinishCompletion,
        CompletionFails
    <3>2. complete'[j].at # "write"
      BY <1>2, <2>4, CompletionEffect DEF CompletionStep, NoCompletion
    <3> QED
      BY <2>1, <3>1, <3>2 DEF OneWriter
  <2> QED
    BY <2>2, <2>3, <2>4
<1>3. ASSUME NEW s \in Samples, EditStep(s) PROVE OneWriter'
  <2>1. complete' = complete /\ \A t \in Samples : t # s => edit'[t] = edit[t]
    BY <1>3, Frames, EditEffect
  <2>2. ASSUME NEW what \in {"add", "truth", "drop"},
              BeginEdit(s, what)
        PROVE  OneWriter'
    <3>1. manifest' = manifest /\ edit'[s].seen = manifest
      <4>1. edit'[s] = [at |-> "write", seen |-> manifest, what |-> what]
        BY <2>2, EditEffect
      <4> QED
        BY <2>2, <4>1 DEF BeginEdit
    <3>2. /\ \A k \in Jobs : complete[k].at # "write"
          /\ \A t \in Samples : edit[t].at = "idle"
      BY <2>2, NoWriter DEF BeginEdit
    <3> QED
      BY <2>1, <3>1, <3>2 DEF OneWriter
  <2>3. CASE WriteEdit(s)
    <3>1. edit'[s].at # "write" /\ edit[s].at = "write"
      BY <1>3, <2>3, EditEffect DEF WriteEdit, NoEdit
    <3> QED
      BY <2>1, <3>1 DEF OneWriter
  <2>4. CASE DeleteJobs(s)
    <3>1. edit'[s].at = "idle"
      BY <2>4, EditEffect DEF NoEdit
    <3>2. manifest' = manifest
      BY <2>4 DEF DeleteJobs
    <3> QED
      BY <2>1, <3>1, <3>2 DEF OneWriter
  <2> QED
    BY <1>3, <2>2, <2>3, <2>4 DEF EditStep
<1>4. CASE Stop
  BY <1>4 DEF Stop, OneWriter, NoCompletion, NoEdit
<1>5. CASE Freeze
  BY <1>1, <1>5 DEF Freeze
<1> QED
  BY <1>1, <1>2, <1>3, <1>4, <1>5, Frames DEF Next, vars

\* A row appears only when a request creates its own jobs.
LEMMA NoRowReturns ==
  ASSUME TypeOK, NewJobs, [Next]_vars, NEW j \in Jobs, ~HasRow(j), HasRow(j)'
  PROVE  /\ status[j] = "none" /\ status'[j] = "pending"
         /\ UNCHANGED <<manifest, documentOf, document, process, sync, complete,
                        edit>>
         /\ \E g \in Starts : CreateJobs(g) /\ j[1] = g
<1>1. status'[j] # status[j]
  BY DEF HasRow
<1>2. ASSUME NEW g \in Starts, CreateJobs(g)
      PROVE  /\ status[j] = "none" /\ status'[j] = "pending"
             /\ UNCHANGED <<manifest, documentOf, document, process, sync, complete,
                        edit>>
             /\ j[1] = g
  <2>1. PICK todo : CreateFor(g, todo)
    BY <1>2 DEF CreateJobs
  <2>2. gen[g].at = "create"
    BY <1>2 DEF CreateJobs
  <2>3. j[1] = g /\ status'[j] = "pending"
    BY <1>1, <2>1 DEF CreateFor
  <2> QED
    BY <2>1, <2>2, <2>3 DEF CreateFor, NewJobs
<1>3. ASSUME NEW g \in Starts, GenerationStep(g), ~CreateJobs(g) PROVE FALSE
  BY <1>1, <1>3 DEF GenerationStep, BeginGeneration, FindStaleJobs,
    DeleteStaleJobs, FindPendingJobs, HasRow
<1>4. ASSUME NEW g \in Starts, NEW k \in Jobs, ProcessStep(g, k) PROVE FALSE
  BY <1>1, <1>4, ProcessEffect
<1>5. ASSUME NEW g \in Starts, NEW k \in Jobs,
             WorkflowEnds(g, k) \/ CompleteDocument(g, k)
      PROVE  FALSE
  BY <1>1, <1>5, Frames
<1>6. ASSUME NEW y \in Syncs, SyncStep(y) PROVE FALSE
  BY <1>1, <1>6 DEF SyncStep, ReadJobs, WriteJobs, AskTemporal
<1>7. ASSUME NEW k \in Jobs, CompletionStep(k) PROVE FALSE
  BY <1>1, <1>7, CompletionEffect DEF CompletionStep
<1>8. ASSUME NEW k \in Jobs, Reopen(k) PROVE FALSE
  BY <1>1, <1>8 DEF Reopen, Write, TypeOK
<1>9. ASSUME NEW s \in Samples, EditStep(s) PROVE FALSE
  BY <1>1, <1>9 DEF EditStep, BeginEdit, WriteEdit, DeleteJobs, Rows, HasRow
<1>10. ~Freeze /\ ~Stop /\ ~UNCHANGED vars
  BY <1>1 DEF Freeze, Stop, vars
<1> QED
  BY <1>2, <1>3, <1>4, <1>5, <1>6, <1>7, <1>8, <1>9, <1>10 DEF Next

\* A job that has not begun does not begin without its sample.
LEMMA NotBegunStep ==
  ASSUME TypeOK, TypeOK', [Next]_vars, NEW j \in Jobs, HasRow(j)', NotBegun(j),
         SampleOf(j) \notin manifest.samples
  PROVE  NotBegun(j)'
<1>1. ASSUME UNCHANGED <<status, documentOf, process, sync, complete>>
      PROVE  NotBegun(j)'
  BY <1>1 DEF NotBegun, Untouched, InSync
<1>2. ASSUME NEW g \in Starts, GenerationStep(g) PROVE NotBegun(j)'
  <2>1. UNCHANGED <<documentOf, sync, complete>>
    BY <1>2, Frames
  <2>2. status'[j] \in {"pending", "failed"}
    BY <1>2 DEF GenerationStep, BeginGeneration, FindStaleJobs,
      DeleteStaleJobs,
      CreateJobs, CreateFor, FindPendingJobs, NotBegun, HasRow
  <2>3. \A h \in Starts : process'[h][j] \in {"none", "begin", "fail"}
    <3>1. CASE FindPendingJobs(g)
      BY <3>1 DEF FindPendingJobs, NotBegun, TypeOK
    <3>2. CASE ~FindPendingJobs(g)
      BY <1>2, <3>2 DEF GenerationStep, BeginGeneration, FindStaleJobs,
        DeleteStaleJobs, CreateJobs, CreateFor, NotBegun
    <3> QED
      BY <3>1, <3>2
  <2> QED
    BY <2>1, <2>2, <2>3 DEF NotBegun, Untouched, InSync
<1>3. ASSUME NEW g \in Starts, NEW k \in Jobs, ProcessStep(g, k)
      PROVE  NotBegun(j)'
  <2>1. sync' = sync /\ complete' = complete
    BY <1>3, Frames
  <2>2. CASE k # j
    BY <1>3, <2>1, <2>2, ProcessEffect DEF NotBegun, Untouched, InSync
  <2>3. CASE k = j
    <3>1. /\ ~LinkDocument(g, j) /\ ~RequestOcr(g, j) /\ ~RecordWorkflow(g, j)
      BY DEF NotBegun, LinkDocument, RequestOcr, RecordWorkflow
    <3>2. /\ documentOf' = documentOf
          /\ status'[j] \in {"pending", "failed"}
          /\ process'[g][j] \in {"none", "fail"}
      BY <1>3, <2>3, <3>1 DEF ProcessStep, CreateDocument, NoDocument, FailJob,
        NotBegun, ProcessAt, TypeOK, Write
    <3> QED
      BY <1>3, <2>1, <2>3, <3>2, ProcessEffect DEF NotBegun, Untouched, InSync
  <2> QED
    BY <2>2, <2>3
<1>4. ASSUME NEW g \in Starts, NEW k \in Jobs,
             WorkflowEnds(g, k) \/ CompleteDocument(g, k)
      PROVE  NotBegun(j)'
  BY <1>1, <1>4, Frames
<1>5. ASSUME NEW y \in Syncs, SyncStep(y) PROVE NotBegun(j)'
  <2>1. UNCHANGED <<documentOf, process, complete>>
    BY <1>5, Frames
  <2>2. \A z \in Syncs : ~InSync(j, z)
    BY DEF NotBegun, Untouched
  <2>3. status[j] \in {"pending", "failed"} /\ HasRow(j)
    BY DEF NotBegun, HasRow
  <2>4. \A z \in Syncs : ~InSync(j, z)'
    BY <1>5, <2>2, <2>3, SyncEffect DEF SyncStep, InSync
  <2>5. status'[j] = status[j]
    BY <1>5, <2>2, <2>3, SyncEffect DEF SyncStep, InSync
  <2> QED
    BY <2>1, <2>4, <2>5 DEF NotBegun, Untouched
<1>6. ASSUME NEW k \in Jobs, CompletionStep(k) PROVE NotBegun(j)'
  <2>1. UNCHANGED <<documentOf, process, sync>>
    BY <1>6, Frames
  <2>2. k # j
    BY <1>6 DEF CompletionStep, BeginCompletion, DocumentStatus, ReadManifest,
      WriteManifest, FinishCompletion, CompletionFails, NotBegun, Untouched,
      NoCompletion
  <2> QED
    BY <1>6, <2>1, <2>2, CompletionEffect DEF NotBegun, Untouched, InSync
<1>7. ASSUME NEW k \in Jobs, Reopen(k) PROVE NotBegun(j)'
  <2>1. UNCHANGED <<documentOf, process, sync, complete>>
    BY <1>7, Frames
  <2>2. k # j
    BY <1>7 DEF Reopen, DocumentStatus, NotBegun, Untouched
  <2>3. status'[j] = status[j]
    BY <1>7, <2>2, WriteEffect DEF Reopen
  <2> QED
    BY <2>1, <2>3 DEF NotBegun, Untouched, InSync
<1>8. ASSUME NEW s \in Samples, EditStep(s) PROVE NotBegun(j)'
  <2>1. UNCHANGED <<documentOf, process, sync, complete>>
    BY <1>8, Frames
  <2>2. status'[j] = status[j]
    BY <1>8 DEF EditStep, BeginEdit, WriteEdit, DeleteJobs, HasRow
  <2> QED
    BY <2>1, <2>2 DEF NotBegun, Untouched, InSync
<1>9. CASE Freeze \/ UNCHANGED vars
  BY <1>1, <1>9 DEF Freeze, vars
<1>10. CASE Stop
  BY <1>10 DEF Stop, NotBegun, Untouched, InSync, NoSync
<1> QED
  BY <1>2, <1>3, <1>4, <1>5, <1>6, <1>7, <1>8, <1>9, <1>10 DEF Next

\* Without a change of the manifest or of an edit.
LEMMA AbsentStep ==
  ASSUME TypeOK, TypeOK', NewJobs, EditsAreAllowed, Careful, OneWriter,
         AbsentIsNotBegun, [Next]_vars
  PROVE  AbsentIsNotBegun'
<1> SUFFICES ASSUME NEW j \in Jobs, HasRow(j)',
                    SampleOf(j) \notin manifest'.samples,
                    edit'[SampleOf(j)].at # "jobs"
             PROVE  NotBegun(j)'
  BY DEF AbsentIsNotBegun, Rows
<1>0. SampleOf(j) \in Samples
  BY DEF Jobs, SampleOf
<1>1. CASE ~HasRow(j)
  <2>1. /\ status[j] = "none" /\ status'[j] = "pending"
        /\ UNCHANGED <<documentOf, process, sync, complete>>
    BY <1>1, NoRowReturns
  <2> QED
    BY <2>1 DEF NewJobs, NotBegun, Untouched, InSync
<1>2. ASSUME SampleOf(j) \notin manifest.samples,
             edit[SampleOf(j)].at # "jobs", HasRow(j)
      PROVE  NotBegun(j)'
  BY <1>2, NotBegunStep DEF AbsentIsNotBegun, Rows
<1>3. CASE UNCHANGED <<manifest, edit>> /\ HasRow(j)
  BY <1>2, <1>3
<1>4. ASSUME NEW k \in Jobs, CompletionStep(k), HasRow(j) PROVE NotBegun(j)'
  <2>1. edit' = edit
    BY <1>4, Frames
  <2>2. manifest'.samples = manifest.samples
    <3>1. CASE WriteManifest(k)
      BY <3>1 DEF WriteManifest, OneWriter, TypeOK, Manifests
    <3>2. CASE ~WriteManifest(k)
      BY <1>4, <3>2 DEF CompletionStep, BeginCompletion, ReadManifest,
        FinishCompletion, CompletionFails
    <3> QED
      BY <3>1, <3>2
  <2> QED
    BY <1>2, <1>4, <2>1, <2>2
<1>5. ASSUME NEW s \in Samples, EditStep(s), HasRow(j) PROVE NotBegun(j)'
  <2>1. \A t \in Samples : t # s => edit'[t] = edit[t]
    BY <1>5, EditEffect
  <2>2. ASSUME NEW what \in {"add", "truth", "drop"},
              BeginEdit(s, what)
        PROVE  NotBegun(j)'
    <3>1. manifest' = manifest /\ edit[s].at # "jobs"
      BY <2>2 DEF BeginEdit, NoEdit
    <3> QED
      BY <1>0, <1>2, <1>5, <2>1, <3>1
  <2>3. CASE WriteEdit(s)
    <3>1. edit[s].seen = manifest /\ edit[s].at = "write"
      BY <2>3 DEF WriteEdit, OneWriter
    <3>2. manifest \in Manifests
      BY DEF TypeOK
    <3>3. CASE SampleOf(j) = s
      <4>1. s \notin manifest.samples
        BY <2>3, <3>1, <3>2, <3>3 DEF WriteEdit, Manifests, TypeOK
      <4> QED
        BY <1>2, <1>5, <3>1, <3>3, <4>1
    <3>4. CASE SampleOf(j) # s
      <4>1. SampleOf(j) \notin manifest.samples
        BY <2>3, <3>1, <3>2, <3>4 DEF WriteEdit, Manifests
      <4>2. edit[SampleOf(j)].at # "jobs"
        BY <1>0, <2>1, <3>4
      <4> QED
        BY <1>2, <1>5, <4>1, <4>2
    <3> QED
      BY <3>3, <3>4
  <2>4. CASE DeleteJobs(s)
    <3>1. SampleOf(j) # s
      BY <1>5, <2>4 DEF DeleteJobs, Rows, HasRow
    <3>2. manifest' = manifest
      BY <2>4 DEF DeleteJobs
    <3> QED
      BY <1>0, <1>2, <1>5, <2>1, <3>1, <3>2
  <2> QED
    BY <1>5, <2>2, <2>3, <2>4 DEF EditStep
<1>6. CASE Stop /\ HasRow(j)
  <2>1. edit[SampleOf(j)] = NoEdit
    BY <1>0, <1>6 DEF Stop, Careful, EditsAreAllowed
  <2> QED
    BY <1>2, <1>6, <2>1 DEF Stop, NoEdit
<1>7. CASE Freeze /\ HasRow(j)
  BY <1>3, <1>7 DEF Freeze
<1> QED
  BY <1>1, <1>3, <1>4, <1>5, <1>6, <1>7, Frames DEF Next, vars

\* A completed job whose sample is listed is listed with ground truth.
LEMMA ListedStep ==
  ASSUME TypeOK, TypeOK', NewJobs, Careful, OneWriter, AbsentIsNotBegun,
         Listed, [Next]_vars
  PROVE  Listed'
<1> SUFFICES ASSUME NEW j \in Jobs, HasRow(j)',
                    status'[j] = "completed" \/ complete'[j].at = "finish",
                    SampleOf(j) \in manifest'.samples
             PROVE  SampleOf(j) \in manifest'.truth
  BY DEF Listed, Rows
<1>1. HasRow(j)
  <2> SUFFICES ASSUME ~HasRow(j) PROVE FALSE
    OBVIOUS
  <2>1. /\ status[j] = "none" /\ status'[j] = "pending"
        /\ complete' = complete
    BY NoRowReturns
  <2> QED
    BY <2>1 DEF NewJobs, Untouched, NoCompletion
<1>2. ASSUME status[j] = "completed" \/ complete[j].at = "finish",
             SampleOf(j) \in manifest.samples
      PROVE  SampleOf(j) \in manifest.truth
  BY <1>1, <1>2 DEF Listed, Rows
<1>3. CASE /\ UNCHANGED <<manifest, complete>>
           /\ status'[j] = "completed" => status[j] = "completed"
  BY <1>2, <1>3
<1>4. ASSUME NEW g \in Starts, GenerationStep(g)
      PROVE  status'[j] = "completed" => status[j] = "completed"
  BY <1>4 DEF GenerationStep, BeginGeneration, FindStaleJobs, DeleteStaleJobs,
    CreateJobs, CreateFor, FindPendingJobs
<1>5. ASSUME NEW g \in Starts, NEW k \in Jobs, ProcessStep(g, k)
      PROVE  status'[j] = "completed" => status[j] = "completed"
  BY <1>5 DEF ProcessStep, CreateDocument, NoDocument, LinkDocument,
    RequestOcr,
    RecordWorkflow, FailJob, Write, TypeOK
<1>6. ASSUME NEW y \in Syncs, SyncStep(y)
      PROVE  status'[j] = "completed" => status[j] = "completed"
  BY <1>6 DEF SyncStep, ReadJobs, WriteJobs, AskTemporal
<1>7. ASSUME NEW k \in Jobs, Reopen(k)
      PROVE  status'[j] = "completed" => status[j] = "completed"
  BY <1>7 DEF Reopen, Write, TypeOK
<1>8. ASSUME NEW k \in Jobs, CompletionStep(k)
      PROVE  SampleOf(j) \in manifest'.truth
  <2>1. CASE WriteManifest(k)
    <3>1. complete[k].seen = manifest /\ manifest \in Manifests
      BY <2>1 DEF WriteManifest, OneWriter, TypeOK
    <3>2. /\ manifest'.samples = manifest.samples
          /\ manifest'.truth = manifest.truth \cup ({SampleOf(k)} \cap manifest.samples)
      BY <2>1, <3>1 DEF WriteManifest, Manifests
    <3>3. CASE k = j
      BY <3>2, <3>3
    <3>4. CASE k # j
      BY <1>2, <1>8, <3>2, <3>4, CompletionEffect
    <3> QED
      BY <3>3, <3>4
  <2>2. CASE ~WriteManifest(k)
    <3>1. manifest' = manifest
      BY <1>8, <2>2 DEF CompletionStep, BeginCompletion, ReadManifest,
        FinishCompletion, CompletionFails
    <3>2. status[j] = "completed" \/ complete[j].at = "finish"
      <4>1. CASE k # j
        BY <1>8, <4>1, CompletionEffect
      <4>2. CASE k = j /\ ~FinishCompletion(j)
        BY <1>8, <2>2, <4>2, CompletionEffect DEF CompletionStep, NoCompletion
      <4>3. CASE FinishCompletion(j)
        BY <4>3 DEF FinishCompletion
      <4> QED
        BY <4>1, <4>2, <4>3
    <3> QED
      BY <1>2, <3>1, <3>2
  <2> QED
    BY <2>1, <2>2
<1>9. ASSUME NEW s \in Samples, EditStep(s)
      PROVE  SampleOf(j) \in manifest'.truth
  <2>1. complete' = complete
    BY <1>9, Frames
  <2>2. status'[j] = status[j]
    BY <1>9 DEF EditStep, BeginEdit, WriteEdit, DeleteJobs, HasRow
  <2>3. CASE WriteEdit(s)
    <3>1. edit[s].seen = manifest /\ manifest \in Manifests /\ edit[s].at = "write"
      BY <2>3 DEF WriteEdit, OneWriter, TypeOK
    <3>2. SampleOf(j) \in manifest.samples
      <4> SUFFICES ASSUME SampleOf(j) \notin manifest.samples PROVE FALSE
        OBVIOUS
      <4>1. SampleOf(j) = s
        BY <2>3, <3>1 DEF WriteEdit, Manifests
      <4>2. NotBegun(j)
        BY <1>1, <3>1, <4>1 DEF AbsentIsNotBegun, Rows
      <4> QED
        BY <2>1, <2>2, <4>2 DEF NotBegun, Untouched, NoCompletion
    <3>3. SampleOf(j) \in manifest.truth
      BY <1>2, <2>1, <2>2, <3>2
    <3> QED
      BY <2>3, <3>1, <3>3 DEF WriteEdit, Manifests
  <2>4. CASE ~WriteEdit(s)
    <3>1. manifest' = manifest
      BY <1>9, <2>4 DEF EditStep, BeginEdit, DeleteJobs
    <3> QED
      BY <1>2, <2>1, <2>2, <3>1
  <2> QED
    BY <2>3, <2>4
<1>10. CASE Stop
  <2>1. complete'[j].at # "finish" /\ UNCHANGED <<manifest, status>>
    BY <1>10 DEF Stop, NoCompletion
  <2> QED
    BY <1>2, <2>1
<1>11. CASE Freeze
  BY <1>3, <1>11 DEF Freeze
<1> QED
  BY <1>3, <1>4, <1>5, <1>6, <1>7, <1>8, <1>9, <1>10, <1>11, Frames
  DEF Next, vars

\* The part of the invariant about the manifest, put together.
LEMMA ManifestStep ==
  ASSUME TypeOK, TypeOK', NewJobs, EditsAreAllowed, ManifestInv, [Next]_vars
  PROVE  ManifestInv'
<1>1. setup' = setup
  BY EditsStep
<1> SUFFICES ASSUME Careful PROVE OneWriter' /\ AbsentIsNotBegun' /\ Listed'
  BY <1>1 DEF ManifestInv, Careful
<1>2. setup.writers <= 1 /\ OneWriter /\ AbsentIsNotBegun /\ Listed
  BY DEF ManifestInv, Careful
<1> QED
  BY <1>2, OneWriterStep, AbsentStep, ListedStep

\* The rows that a step of a request, or of an edit, does not delete keep their
\* status.
LEMMA KeptStatus ==
  ASSUME NewJobs, NEW j \in Jobs, HasRow(j), HasRow(j)',
         \/ \E g \in Starts : GenerationStep(g)
         \/ \E s \in Samples : EditStep(s)
  PROVE  status'[j] = status[j]
<1>1. ASSUME NEW s \in Samples, EditStep(s) PROVE status'[j] = status[j]
  BY <1>1 DEF EditStep, BeginEdit, WriteEdit, DeleteJobs, HasRow
<1>2. ASSUME NEW g \in Starts, CreateJobs(g) PROVE status'[j] = status[j]
  <2>1. j[1] # g
    BY <1>2 DEF CreateJobs, NewJobs, HasRow
  <2> QED
    BY <1>2, <2>1 DEF CreateJobs, CreateFor
<1>3. ASSUME NEW g \in Starts, GenerationStep(g), ~CreateJobs(g)
      PROVE  status'[j] = status[j]
  BY <1>3 DEF GenerationStep, BeginGeneration, FindStaleJobs, DeleteStaleJobs,
    FindPendingJobs, HasRow
<1> QED
  BY <1>1, <1>2, <1>3

\* A loop that has only the workflow of a job left to record.
LEMMA LastCall ==
  ASSUME TypeOK, NoneTakesBack, NEW g \in Starts, NEW j \in Jobs,
         ProcessStep(g, j), HasRow(j), Past(g, j)
  PROVE  status' = status /\ document' = document /\ process'[g][j] = "none"
<1>1. RecordWorkflow(g, j)
  BY DEF ProcessStep, CreateDocument, NoDocument, LinkDocument, RequestOcr,
    FailJob, Past
<1> QED
  BY <1>1 DEF RecordWorkflow, ProcessAt, TypeOK, NoneTakesBack

\* Requests do not overlap when one is worked on at a time.
LEMMA OneGenerationStep ==
  ASSUME TypeOK, setup.starts <= 1, OneGeneration, [Next]_vars
  PROVE  OneGeneration'
<1>1. CASE AtWork' \subseteq AtWork
  BY <1>1 DEF OneGeneration
<1>2. CASE gen' = gen
  BY <1>1, <1>2 DEF AtWork
<1>3. ASSUME NEW g \in Starts, GenerationStep(g) PROVE OneGeneration'
  <2>1. \A h \in Starts : h # g => gen'[h] = gen[h]
    BY <1>3 DEF TypeOK, GenerationStep, BeginGeneration, FindStaleJobs,
      DeleteStaleJobs, CreateJobs, CreateFor, FindPendingJobs, GenAt
  <2>2. CASE BeginGeneration(g)
    <3>1. setup.starts \in Nat /\ Cardinality(AtWork) < setup.starts
      BY <2>2 DEF BeginGeneration, TypeOK
    <3>2. IsFiniteSet(AtWork)
      BY FinitenessAssumption, FS_Subset DEF AtWork
    <3>3. Cardinality(AtWork) = 0
      BY <3>1, <3>2, FS_CardinalityType
    <3>4. AtWork = {}
      BY <3>2, <3>3, FS_EmptySet
    <3>5. AtWork' \subseteq {g}
      BY <2>1, <3>4 DEF AtWork
    <3> QED
      BY <3>5 DEF OneGeneration
  <2>3. CASE ~BeginGeneration(g)
    <3>1. g \in AtWork
      BY <1>3, <2>3 DEF GenerationStep, FindStaleJobs, DeleteStaleJobs,
        CreateJobs, FindPendingJobs, AtWork
    <3> QED
      BY <1>1, <2>1, <3>1 DEF AtWork
  <2> QED
    BY <2>2, <2>3
<1>4. CASE Stop
  BY <1>1, <1>4 DEF Stop, AtWork
<1>5. CASE Freeze
  BY <1>2, <1>5 DEF Freeze
<1> QED
  BY <1>2, <1>3, <1>4, <1>5, Frames DEF Next, vars

\* Looks do not overlap when there is one at a time.
LEMMA OneLookStep ==
  ASSUME TypeOK, setup.syncs <= 1, OneLook, [Next]_vars
  PROVE  OneLook'
<1>1. CASE sync' = sync
  BY <1>1 DEF OneLook
<1>2. ASSUME NEW y \in Syncs, ReadJobs(y) PROVE OneLook'
  <2> DEFINE busy == {z \in Syncs : sync[z] # NoSync}
  <2>1. setup.syncs \in Nat /\ Cardinality(busy) < setup.syncs
    BY <1>2 DEF ReadJobs, TypeOK
  <2>2. IsFiniteSet(busy)
    BY FinitenessAssumption, FS_Subset
  <2>3. Cardinality(busy) = 0
    <3> HIDE DEF busy
    <3> QED
      BY <2>1, <2>2, FS_CardinalityType
  <2>4. busy = {}
    <3> HIDE DEF busy
    <3> QED
      BY <2>2, <2>3, FS_EmptySet
  <2> QED
    BY <1>2, <2>4, SyncEffect DEF OneLook, SyncStep
<1>3. ASSUME NEW y \in Syncs, SyncStep(y), ~ReadJobs(y) PROVE OneLook'
  <2>1. sync[y] # NoSync
    BY <1>3, SyncEffect DEF SyncStep
  <2> QED
    BY <1>3, <2>1, SyncEffect DEF OneLook
<1>4. CASE Stop
  BY <1>4 DEF Stop, OneLook
<1>5. CASE Freeze
  BY <1>1, <1>5 DEF Freeze
<1> QED
  BY <1>1, <1>2, <1>3, <1>4, <1>5, Frames DEF Next, vars

\* A loop finds none but its own jobs pending: the others are completed.
LEMMA OwnLoopStep ==
  ASSUME TypeOK, OwnLoop, RestIsCompleted, [Next]_vars
  PROVE  OwnLoop'
<1>1. CASE UNCHANGED <<documentOf, process>>
  BY <1>1 DEF OwnLoop
<1>2. ASSUME NEW g \in Starts, GenerationStep(g) PROVE OwnLoop'
  <2>1. documentOf' = documentOf
    BY <1>2, Frames
  <2>2. CASE FindPendingJobs(g)
    <3>1. \A j \in Jobs : status[j] = "pending" => j[1] = g
      BY <2>2 DEF FindPendingJobs, RestIsCompleted, Rows, HasRow
    <3>2. \A h \in Starts : h # g => process'[h] = process[h]
      BY <2>2 DEF FindPendingJobs, TypeOK
    <3>3. \A j \in Jobs : process'[g][j] # "none" => status[j] = "pending"
      BY <2>2 DEF FindPendingJobs, TypeOK
    <3> QED
      BY <2>1, <3>1, <3>2, <3>3 DEF OwnLoop
  <2>3. CASE ~FindPendingJobs(g)
    BY <1>1, <1>2, <2>1, <2>3 DEF GenerationStep, BeginGeneration,
      FindStaleJobs, DeleteStaleJobs, CreateJobs, CreateFor
  <2> QED
    BY <2>2, <2>3
<1>3. ASSUME NEW g \in Starts, NEW j \in Jobs, ProcessStep(g, j) PROVE OwnLoop'
  <2>1. g = j[1]
    BY <1>3, ProcessEffect DEF OwnLoop
  <2>2. documentOf'[j] \in {documentOf[j], g}
    BY <1>3 DEF ProcessStep, CreateDocument, NoDocument, LinkDocument,
      RequestOcr, RecordWorkflow, FailJob, TypeOK
  <2> QED
    BY <1>3, <2>1, <2>2, ProcessEffect DEF OwnLoop
<1>4. CASE Stop
  BY <1>4 DEF Stop, OwnLoop
<1>5. CASE Freeze
  BY <1>1, <1>5 DEF Freeze
<1> QED
  BY <1>1, <1>2, <1>3, <1>4, <1>5, Frames DEF Next, vars

\* A loop that has a job reviewed writes to it no more.
LEMMA LoopIsPastStep ==
  ASSUME TypeOK, TypeOK', NewJobs, LoopsInv, NoneTakesBack, [Next]_vars
  PROVE  LoopIsPast'
<1> DEFINE Cond(g, j) ==
             \/ status[j] \in {"awaiting_review", "completed"}
             \/ document[g][j] \in {"ongoing_ocr", "extracted"}
<1> SUFFICES ASSUME NEW g \in Starts, NEW j \in Jobs, HasRow(j)', Cond(g, j)'
             PROVE  Past(g, j)'
  BY DEF LoopIsPast, Rows
<1>1. HasRow(j)
  <2> SUFFICES ASSUME ~HasRow(j) PROVE FALSE
    OBVIOUS
  <2>1. status[j] = "none" /\ status'[j] = "pending" /\ document' = document
    BY NoRowReturns
  <2> QED
    BY <2>1 DEF NewJobs
<1>2. Cond(g, j) => Past(g, j)
  BY <1>1 DEF LoopsInv, LoopIsPast, Rows
<1>3. ASSUME process' = process, Cond(g, j)' => Cond(g, j) PROVE Past(g, j)'
  BY <1>2, <1>3 DEF Past
<1>4. ASSUME NEW h \in Starts, GenerationStep(h) PROVE Past(g, j)'
  <2>1. status'[j] = status[j]
    BY <1>1, <1>4, KeptStatus
  <2>2. CASE FindPendingJobs(h)
    <3>1. document' = document /\ gen[h].at = "loop"
      BY <2>2 DEF FindPendingJobs
    <3>2. CASE g = h
      <4>1. process'[g][j] = IF status[j] = "pending" THEN "begin" ELSE "none"
        BY <2>2, <3>2 DEF FindPendingJobs, TypeOK
      <4>2. document[g][j] = "none"
        BY <3>1, <3>2 DEF NewJobs
      <4> QED
        BY <2>1, <3>1, <4>1, <4>2 DEF Past
    <3>3. CASE g # h
      <4>1. process'[g] = process[g]
        BY <2>2, <3>3 DEF FindPendingJobs, TypeOK
      <4> QED
        BY <1>2, <2>1, <3>1, <4>1 DEF Past
    <3> QED
      BY <3>2, <3>3
  <2>3. CASE ~FindPendingJobs(h)
    <3>1. process' = process
      BY <1>4, <2>3 DEF GenerationStep, BeginGeneration, FindStaleJobs,
        DeleteStaleJobs, CreateJobs, CreateFor
    <3>2. document'[g][j] \in {document[g][j], "dead"}
      BY <1>4, <2>3 DEF GenerationStep, BeginGeneration, FindStaleJobs,
        DeleteStaleJobs, CreateJobs, CreateFor
    <3> QED
      BY <1>3, <2>1, <3>1, <3>2
  <2> QED
    BY <2>2, <2>3
<1>5. ASSUME NEW h \in Starts, NEW k \in Jobs, ProcessStep(h, k)
      PROVE  Past(g, j)'
  <2>1. CASE k # j
    <3>1. /\ process'[g][j] = process[g][j] /\ document'[g][j] = document[g][j]
          /\ status'[j] = status[j]
      BY <1>5, <2>1, ProcessEffect
    <3> QED
      BY <1>2, <3>1 DEF Past
  <2>2. CASE k = j /\ Past(h, j)
    <3>1. status' = status /\ document' = document /\ process'[h][j] = "none"
      BY <1>1, <1>5, <2>2, LastCall
    <3>2. g # h => process'[g][j] = process[g][j]
      BY <1>5, <2>2, ProcessEffect
    <3> QED
      BY <1>2, <3>1, <3>2 DEF Past
  <2>3. CASE k = j /\ ~Past(h, j)
    <3>1. status[j] \notin {"awaiting_review", "completed"}
      BY <1>1, <2>3 DEF LoopsInv, LoopIsPast, Rows
    <3>2. status'[j] \in {status[j], "processing", "failed"}
      BY <1>5, <2>3 DEF ProcessStep, CreateDocument, NoDocument, LinkDocument,
        RequestOcr, RecordWorkflow, FailJob, Write, TypeOK
    <3>3. document'[g][j] \in {"ongoing_ocr", "extracted"}
      BY <3>1, <3>2
    <3>4. CASE g # h
      BY <1>2, <1>5, <2>3, <3>3, <3>4, ProcessEffect DEF Past
    <3>5. CASE g = h
      <4>1. document[g][j] \notin {"ongoing_ocr", "extracted"}
        BY <1>2, <2>3, <3>5
      <4>2. RequestOcr(g, j)
        BY <1>5, <2>3, <3>3, <3>5, <4>1 DEF ProcessStep, CreateDocument,
          NoDocument, LinkDocument, RecordWorkflow, FailJob, SetDocument, TypeOK
      <4>3. process'[g][j] = "record"
        BY <3>3, <4>2 DEF RequestOcr, SetDocument, ProcessAt, TypeOK
      <4> QED
        BY <4>3 DEF Past
    <3> QED
      BY <3>4, <3>5
  <2> QED
    BY <2>1, <2>2, <2>3
<1>6. ASSUME NEW h \in Starts, NEW k \in Jobs,
             WorkflowEnds(h, k) \/ CompleteDocument(h, k)
      PROVE  Past(g, j)'
  <2>1. process' = process /\ status' = status
    BY <1>6, Frames
  <2>2. document[h][k] \in {"ongoing_ocr", "extracted"}
    BY <1>6 DEF WorkflowEnds, CompleteDocument
  <2>3. g # h \/ j # k => document'[g][j] = document[g][j]
    BY <1>6 DEF WorkflowEnds, CompleteDocument, SetDocument, TypeOK
  <2> QED
    BY <1>3, <2>1, <2>2, <2>3
<1>7. ASSUME NEW y \in Syncs, SyncStep(y), ~WriteJobs(y) PROVE Past(g, j)'
  <2>1. process' = process /\ document' = document
    BY <1>7, Frames
  <2>2. status' = status
    BY <1>7, SyncEffect DEF SyncStep
  <2> QED
    BY <1>3, <2>1, <2>2
<1>8. ASSUME NEW y \in Syncs, WriteJobs(y) PROVE Past(g, j)'
  <2>1. process' = process /\ document' = document
    BY <1>8, Frames DEF SyncStep
  <2>2. CASE j \in sync[y].extracted
    BY <1>1, <2>1, <2>2 DEF LoopsInv, LooksAreFresh, Rows, Past
  <2>3. CASE j \notin sync[y].extracted
    <3>1. status'[j] \in {status[j], "failed"}
      BY <1>1, <1>8, <2>3, SyncEffect DEF SyncStep
    <3> QED
      BY <1>3, <2>1, <3>1
  <2> QED
    BY <2>2, <2>3
<1>9. ASSUME NEW k \in Jobs, CompletionStep(k) PROVE Past(g, j)'
  <2>1. process' = process
    BY <1>9, Frames
  <2>2. document'[g][j] \in {document[g][j], "approved"}
    BY <1>9, CompletionEffect
  <2>3. CASE status'[j] = status[j]
    BY <1>3, <2>1, <2>2, <2>3
  <2>4. CASE status'[j] # status[j]
    <3>1. k = j /\ FinishCompletion(j)
      BY <1>9, <2>4, CompletionEffect DEF CompletionStep
    <3>2. complete[j].at # "idle"
      BY <3>1 DEF FinishCompletion
    <3>3. status[j] \in {"awaiting_review", "completed"}
      BY <1>1, <3>2 DEF LoopsInv, ReviewIsOpen, Rows
    <3> QED
      BY <1>2, <2>1, <3>3 DEF Past
  <2> QED
    BY <2>3, <2>4
<1>10. ASSUME NEW s \in Samples, EditStep(s) PROVE Past(g, j)'
  <2>1. process' = process
    BY <1>10, Frames
  <2>2. status'[j] = status[j]
    BY <1>1, <1>10, KeptStatus
  <2>3. document'[g][j] \in {document[g][j], "none"}
    BY <1>10 DEF EditStep, BeginEdit, WriteEdit, DeleteJobs
  <2> QED
    BY <1>3, <2>1, <2>2, <2>3
<1>11. CASE Stop
  BY <1>11 DEF Stop, Past
<1>12. CASE Freeze \/ UNCHANGED vars
  BY <1>3, <1>12 DEF Freeze, vars
<1>13. ~\E k \in Jobs : Reopen(k)
  BY DEF Reopen, NoneTakesBack
<1> QED
  BY <1>4, <1>5, <1>6, <1>7, <1>8, <1>9, <1>10, <1>11, <1>12, <1>13 DEF Next

\* What a look is about to write has not been overtaken by a review.
LEMMA LooksAreFreshStep ==
  ASSUME TypeOK, TypeOK', NewJobs, LoopsInv, NoneTakesBack, [Next]_vars
  PROVE  LooksAreFresh'
<1> DEFINE Fresh(j, y) ==
             /\ j \in sync[y].extracted =>
                  status[j] = "processing" /\ \A g \in Starts : Past(g, j)
             /\ j \in sync[y].failed \cup sync[y].open =>
                  j \notin sync[y].extracted /\ status[j] \in {"processing", "failed"}
<1> SUFFICES ASSUME NEW y \in Syncs, NEW j \in Jobs, HasRow(j)'
             PROVE  Fresh(j, y)'
  BY DEF LooksAreFresh, Rows
<1>1. CASE ~HasRow(j)
  <2>1. status[j] = "none" /\ sync' = sync
    BY <1>1, NoRowReturns
  <2> QED
    BY <2>1 DEF NewJobs, Untouched, InSync
<1>2. HasRow(j) => Fresh(j, y)
  BY DEF LoopsInv, LooksAreFresh, Rows
<1>3. ASSUME UNCHANGED <<status, process, sync>>, HasRow(j) PROVE Fresh(j, y)'
  BY <1>2, <1>3 DEF Past
<1>4. ASSUME NEW g \in Starts, GenerationStep(g), HasRow(j) PROVE Fresh(j, y)'
  <2>1. status'[j] = status[j] /\ sync' = sync
    BY <1>4, KeptStatus, Frames
  <2>2. status[j] = "processing" /\ (\A h \in Starts : Past(h, j)) =>
          \A h \in Starts : Past(h, j)'
    <3>1. CASE FindPendingJobs(g)
      BY <3>1 DEF FindPendingJobs, Past, TypeOK
    <3>2. CASE ~FindPendingJobs(g)
      BY <1>4, <3>2 DEF GenerationStep, BeginGeneration, FindStaleJobs,
        DeleteStaleJobs, CreateJobs, CreateFor, Past
    <3> QED
      BY <3>1, <3>2
  <2> QED
    BY <1>2, <1>4, <2>1, <2>2
<1>5. ASSUME NEW g \in Starts, NEW k \in Jobs, ProcessStep(g, k), HasRow(j)
      PROVE  Fresh(j, y)'
  <2>1. sync' = sync
    BY <1>5, Frames
  <2>2. CASE k # j
    <3>1. status'[j] = status[j] /\ \A h \in Starts : process'[h][j] = process[h][j]
      BY <1>5, <2>2, ProcessEffect
    <3> QED
      BY <1>2, <1>5, <2>1, <3>1 DEF Past
  <2>3. CASE k = j /\ Past(g, j)
    <3>1. status' = status /\ process'[g][j] = "none"
      BY <1>5, <2>3, LastCall
    <3>2. \A h \in Starts : h # g => process'[h][j] = process[h][j]
      BY <1>5, <2>3, ProcessEffect
    <3> QED
      BY <1>2, <1>5, <2>1, <3>1, <3>2 DEF Past
  <2>4. CASE k = j /\ ~Past(g, j)
    <3>1. j \notin sync[y].extracted
      BY <1>2, <1>5, <2>4
    <3>2. status'[j] \in {status[j], "processing", "failed"}
      BY <1>5, <2>4 DEF ProcessStep, CreateDocument, NoDocument, LinkDocument,
        RequestOcr, RecordWorkflow, FailJob, Write, TypeOK
    <3> QED
      BY <1>2, <1>5, <2>1, <3>1, <3>2
  <2> QED
    BY <2>2, <2>3, <2>4
<1>6. ASSUME NEW g \in Starts, NEW k \in Jobs, HasRow(j),
             WorkflowEnds(g, k) \/ CompleteDocument(g, k)
      PROVE  Fresh(j, y)'
  BY <1>3, <1>6, Frames
<1>7. ASSUME NEW z \in Syncs, ReadJobs(z), HasRow(j) PROVE Fresh(j, y)'
  <2>1. process' = process /\ status' = status
    BY <1>7, Frames, SyncEffect DEF SyncStep
  <2>2. CASE y # z
    BY <1>2, <1>7, <2>1, <2>2, SyncEffect DEF SyncStep, Past
  <2>3. CASE y = z
    <3>1. ASSUME j \in sync'[y].extracted PROVE \A g \in Starts : Past(g, j)
      <4>1. DocumentStatus(j) = "extracted"
        BY <1>7, <2>3, <3>1, SyncEffect DEF SyncStep
      <4>2. documentOf[j] \in Starts /\ document[documentOf[j]][j] = "extracted"
        BY <4>1 DEF DocumentStatus, TypeOK
      <4>3. Past(documentOf[j], j)
        BY <1>7, <4>2 DEF LoopsInv, LoopIsPast, Rows
      <4>4. \A g \in Starts : g # documentOf[j] => process[g][j] = "none"
        BY <4>2 DEF LoopsInv, OwnLoop
      <4> QED
        BY <4>3, <4>4 DEF Past
    <3> QED
      BY <1>7, <2>1, <2>3, <3>1, SyncEffect DEF SyncStep, Past
  <2> QED
    BY <2>2, <2>3
<1>8. ASSUME NEW z \in Syncs, SyncStep(z), ~ReadJobs(z), HasRow(j)
      PROVE  Fresh(j, y)'
  <2>1. CASE y # z
    <3>1. sync[y] = NoSync
      <4>1. sync[z] # NoSync
        BY <1>8, SyncEffect DEF SyncStep
      <4> QED
        BY <2>1, <4>1 DEF LoopsInv, OneLook
    <3>2. sync'[y] = NoSync
      BY <1>8, <2>1, <3>1, SyncEffect
    <3> QED
      BY <3>2 DEF NoSync
  <2>2. CASE y = z
    <3>1. sync'[y].extracted = {}
      BY <1>8, <2>2, SyncEffect DEF SyncStep
    <3>2. sync'[y].failed \cup sync'[y].open \subseteq sync[y].open
      BY <1>8, <2>2, SyncEffect DEF SyncStep
    <3>3. j \in sync[y].open => status'[j] \in {"processing", "failed"}
      BY <1>2, <1>8, <2>2, SyncEffect DEF SyncStep
    <3> QED
      BY <3>1, <3>2, <3>3
  <2> QED
    BY <2>1, <2>2
<1>9. ASSUME NEW k \in Jobs, CompletionStep(k), HasRow(j) PROVE Fresh(j, y)'
  <2>1. process' = process /\ sync' = sync
    BY <1>9, Frames
  <2>2. CASE status'[j] = status[j]
    BY <1>2, <1>9, <2>1, <2>2 DEF Past
  <2>3. CASE status'[j] # status[j]
    <3>1. k = j /\ FinishCompletion(j)
      BY <1>9, <2>3, CompletionEffect DEF CompletionStep
    <3>2. complete[j].at # "idle"
      BY <3>1 DEF FinishCompletion
    <3>3. status[j] \in {"awaiting_review", "completed"}
      BY <1>9, <3>2 DEF LoopsInv, ReviewIsOpen, Rows
    <3> QED
      BY <1>2, <1>9, <2>1, <3>3
  <2> QED
    BY <2>2, <2>3
<1>10. ASSUME NEW s \in Samples, EditStep(s), HasRow(j) PROVE Fresh(j, y)'
  <2>1. process' = process /\ sync' = sync /\ status'[j] = status[j]
    BY <1>10, Frames, KeptStatus
  <2> QED
    BY <1>2, <1>10, <2>1 DEF Past
<1>11. CASE Stop
  BY <1>11 DEF Stop, NoSync
<1>12. CASE (Freeze \/ UNCHANGED vars) /\ HasRow(j)
  BY <1>3, <1>12 DEF Freeze, vars
<1>13. ~\E k \in Jobs : Reopen(k)
  BY DEF Reopen, NoneTakesBack
<1> QED
  BY <1>1, <1>4, <1>5, <1>6, <1>7, <1>8, <1>9, <1>10, <1>11, <1>12, <1>13
  DEF Next

\* What is awaiting review or completed is out of the reach of loops and looks.
LEMMA ReviewedStays ==
  ASSUME TypeOK, NewJobs, LoopsInv, NoneTakesBack, [Next]_vars,
         NEW j \in Jobs, HasRow(j), HasRow(j)',
         status[j] \in {"awaiting_review", "completed"}
  PROVE  \/ status'[j] = status[j]
         \/ FinishCompletion(j) /\ status'[j] = "completed"
<1>1. ASSUME NEW g \in Starts, GenerationStep(g) PROVE status'[j] = status[j]
  BY <1>1, KeptStatus
<1>2. ASSUME NEW g \in Starts, NEW k \in Jobs, ProcessStep(g, k)
      PROVE  status'[j] = status[j]
  <2>1. CASE k # j
    BY <1>2, <2>1, ProcessEffect
  <2>2. CASE k = j
    <3>1. Past(g, j)
      BY DEF LoopsInv, LoopIsPast, Rows
    <3> QED
      BY <1>2, <2>2, <3>1, LastCall
  <2> QED
    BY <2>1, <2>2
<1>3. ASSUME NEW y \in Syncs, SyncStep(y) PROVE status'[j] = status[j]
  <2>1. j \notin sync[y].extracted /\ j \notin sync[y].failed
    BY DEF LoopsInv, LooksAreFresh, Rows
  <2> QED
    BY <1>3, <2>1, SyncEffect DEF SyncStep
<1>4. ASSUME NEW k \in Jobs, CompletionStep(k)
      PROVE  \/ status'[j] = status[j]
             \/ FinishCompletion(j) /\ status'[j] = "completed"
  BY <1>4, CompletionEffect DEF CompletionStep
<1>5. ASSUME NEW s \in Samples, EditStep(s) PROVE status'[j] = status[j]
  BY <1>5, KeptStatus
<1>6. ~\E k \in Jobs : Reopen(k)
  BY DEF Reopen, NoneTakesBack
<1>7. CASE Freeze \/ Stop \/ UNCHANGED vars
  BY <1>7 DEF Freeze, Stop, vars
<1> QED
  BY <1>1, <1>2, <1>3, <1>4, <1>5, <1>6, <1>7, Frames DEF Next

\* A review that goes on is of a job that awaits it or is completed.
LEMMA ReviewIsOpenStep ==
  ASSUME TypeOK, NewJobs, LoopsInv, NoneTakesBack, [Next]_vars
  PROVE  ReviewIsOpen'
<1> SUFFICES ASSUME NEW j \in Jobs, HasRow(j)', complete'[j].at # "idle"
             PROVE  status'[j] \in {"awaiting_review", "completed"}
  BY DEF ReviewIsOpen, Rows
<1>1. HasRow(j)
  <2> SUFFICES ASSUME ~HasRow(j) PROVE FALSE
    OBVIOUS
  <2>1. status[j] = "none" /\ complete' = complete
    BY NoRowReturns
  <2> QED
    BY <2>1 DEF NewJobs, Untouched, NoCompletion
<1>2. ~FinishCompletion(j)
  <2> SUFFICES ASSUME FinishCompletion(j) PROVE FALSE
    OBVIOUS
  <2>1. complete'[j] = NoCompletion
    BY CompletionEffect DEF CompletionStep
  <2> QED
    BY <2>1 DEF NoCompletion
<1>3. status[j] \in {"awaiting_review", "completed"}
  <2>1. CASE complete[j].at # "idle"
    BY <1>1, <2>1 DEF LoopsInv, ReviewIsOpen, Rows
  <2>2. CASE complete[j].at = "idle"
    <3>1. ASSUME NEW k \in Jobs, CompletionStep(k)
          PROVE  status[j] \in {"awaiting_review", "completed"}
      <4>1. k = j
        BY <2>2, <3>1, CompletionEffect
      <4>2. BeginCompletion(j)
        BY <2>2, <3>1, <4>1 DEF CompletionStep, ReadManifest, WriteManifest,
          FinishCompletion, CompletionFails
      <4> QED
        BY <4>2 DEF BeginCompletion, NoneTakesBack
    <3>2. complete' # complete
      BY <2>2
    <3>3. ~Stop /\ ~Freeze
      BY <3>2 DEF Stop, Freeze, NoCompletion
    <3> QED
      BY <3>1, <3>2, <3>3, Frames DEF Next, vars
  <2> QED
    BY <2>1, <2>2
<1> QED
  BY <1>1, <1>2, <1>3, ReviewedStays

\* Besides its own jobs a request leaves completed ones only.
LEMMA RestIsCompletedStep ==
  ASSUME TypeOK, NewJobs, LoopsInv, NoneTakesBack, RestIsCompleted, [Next]_vars
  PROVE  RestIsCompleted'
<1> SUFFICES ASSUME NEW g \in Starts, NEW j \in Jobs, HasRow(j)'
             PROVE  /\ gen'[g].at = "delete" =>
                         j \in gen'[g].stale \/ status'[j] = "completed"
                    /\ gen'[g].at \in {"create", "loop"} =>
                         j[1] = g \/ status'[j] = "completed"
  BY DEF RestIsCompleted, Rows
<1>1. ASSUME NEW h \in Starts, GenerationStep(h), g # h
      PROVE  /\ gen'[g] = gen[g]
             /\ \/ gen[g].at \notin {"find", "delete", "create", "loop"}
                \/ BeginGeneration(h)
  <2>1. gen'[g] = gen[g]
    BY <1>1 DEF TypeOK, GenerationStep, BeginGeneration, FindStaleJobs,
      DeleteStaleJobs, CreateJobs, CreateFor, FindPendingJobs, GenAt
  <2>2. CASE h \in AtWork
    BY <1>1, <2>1, <2>2 DEF LoopsInv, OneGeneration, AtWork
  <2>3. CASE h \notin AtWork
    BY <1>1, <2>1, <2>3 DEF GenerationStep, FindStaleJobs, DeleteStaleJobs,
      CreateJobs, FindPendingJobs, AtWork
  <2> QED
    BY <2>2, <2>3
<1>2. CASE ~HasRow(j)
  <2>1. PICK h \in Starts : CreateJobs(h) /\ j[1] = h
    BY <1>2, NoRowReturns
  <2>2. gen'[h].at \in {"loop", "over"}
    BY <2>1, GenerationEffect DEF CreateJobs
  <2>3. g # h => gen'[g] = gen[g] /\ gen[g].at \notin {"delete", "create", "loop"}
    BY <1>1, <2>1 DEF GenerationStep, CreateJobs, BeginGeneration
  <2> QED
    BY <2>1, <2>2, <2>3
<1>3. CASE HasRow(j)
  <2>1. status[j] = "completed" => status'[j] = "completed"
    BY <1>3, ReviewedStays
  <2>2. ASSUME gen'[g] = gen[g] \/ gen'[g].at \in {"unused", "find", "over"}
        PROVE  /\ gen'[g].at = "delete" =>
                    j \in gen'[g].stale \/ status'[j] = "completed"
               /\ gen'[g].at \in {"create", "loop"} =>
                    j[1] = g \/ status'[j] = "completed"
    BY <1>3, <2>1, <2>2 DEF RestIsCompleted, Rows
  <2>3. ASSUME GenerationStep(g)
        PROVE  /\ gen'[g].at = "delete" =>
                    j \in gen'[g].stale \/ status'[j] = "completed"
               /\ gen'[g].at \in {"create", "loop"} =>
                    j[1] = g \/ status'[j] = "completed"
    <3>1. CASE BeginGeneration(g)
      BY <3>1, <2>2, GenerationEffect
    <3>2. CASE FindStaleJobs(g)
      BY <1>3, <2>1, <3>2, GenerationEffect DEF Rows
    <3>3. CASE DeleteStaleJobs(g)
      <4>1. gen'[g].at = "create"
        BY <3>3, GenerationEffect
      <4>2. gen[g].at = "delete" /\ j \notin gen[g].stale
        BY <3>3 DEF DeleteStaleJobs, HasRow
      <4>3. status'[j] = "completed"
        BY <1>3, <2>1, <4>2 DEF RestIsCompleted, Rows
      <4> QED
        BY <4>1, <4>3
    <3>4. CASE CreateJobs(g)
      <4>1. gen'[g].at \in {"loop", "over"}
        BY <3>4, GenerationEffect DEF CreateJobs
      <4>2. gen[g].at = "create"
        BY <3>4 DEF CreateJobs
      <4>3. j[1] = g \/ status'[j] = "completed"
        BY <1>3, <2>1, <4>2 DEF RestIsCompleted, Rows
      <4> QED
        BY <4>1, <4>3
    <3>5. CASE FindPendingJobs(g)
      BY <3>5, <2>2, GenerationEffect
    <3> QED
      BY <2>3, <3>1, <3>2, <3>3, <3>4, <3>5 DEF GenerationStep
  <2>4. ASSUME NEW h \in Starts, GenerationStep(h)
        PROVE  g = h \/ gen'[g] = gen[g]
    BY <1>1, <2>4
  <2>5. Stop => gen'[g] = gen[g] \/ gen'[g].at = "over"
    BY DEF Stop
  <2>6. Freeze \/ UNCHANGED vars => gen' = gen
    BY DEF Freeze, vars
  <2> QED
    BY <2>2, <2>3, <2>4, <2>5, <2>6, Frames DEF Next
<1> QED
  BY <1>2, <1>3

\* The samples that the jobs are created for have no completed job.
LEMMA CreatedFor ==
  ASSUME TypeOK, TypeOK', NewJobs, NEW g \in Starts, CreateJobs(g),
         NEW j \in Jobs, ~HasRow(j), HasRow(j)',
         NEW k \in Jobs, status[k] = "completed"
  PROVE  SampleOf(j) # SampleOf(k)
<1> DEFINE done == {SampleOf(i) : i \in {i \in Jobs : status[i] = "completed"}}
<1>1. PICK todo : todo = gen[g].without \ done /\ CreateFor(g, todo)
  BY DEF CreateJobs
<1>2. status'[j] # status[j]
  BY DEF HasRow
<1>3. SampleOf(j) \in todo
  BY <1>1, <1>2 DEF CreateFor
<1>4. SampleOf(k) \in done
  OBVIOUS
<1> HIDE DEF done
<1> QED
  BY <1>1, <1>3, <1>4

\* No step gives a sample its second row.
LEMMA OneRowStep ==
  ASSUME TypeOK, TypeOK', NewJobs, LoopsInv, RestIsCompleted, OneRow,
         [Next]_vars
  PROVE  OneRow'
<1>1. ASSUME NEW j \in Jobs, NEW k \in Jobs, ~HasRow(j), HasRow(j)', HasRow(k),
             SampleOf(j) = SampleOf(k)
      PROVE  FALSE
  <2>1. PICK g \in Starts : CreateJobs(g) /\ j[1] = g
    BY <1>1, NoRowReturns
  <2>2. gen[g].at = "create"
    BY <2>1 DEF CreateJobs
  <2>3. k[1] # g
    BY <1>1, <2>2 DEF NewJobs, HasRow
  <2>4. status[k] = "completed"
    BY <1>1, <2>2, <2>3 DEF RestIsCompleted, Rows
  <2> QED
    BY <1>1, <2>1, <2>4, CreatedFor
<1>2. ASSUME NEW j \in Jobs, NEW k \in Jobs, ~HasRow(j), HasRow(j)',
             ~HasRow(k), HasRow(k)', SampleOf(j) = SampleOf(k)
      PROVE  j = k
  <2>1. PICK g \in Starts : CreateJobs(g) /\ j[1] = g
    BY <1>2, NoRowReturns
  <2>2. PICK h \in Starts : CreateJobs(h) /\ k[1] = h
    BY <1>2, NoRowReturns
  <2>3. g \in AtWork /\ h \in AtWork
    BY <2>1, <2>2 DEF CreateJobs, AtWork
  <2>4. g = h
    BY <2>3 DEF LoopsInv, OneGeneration
  <2> QED
    BY <1>2, <2>1, <2>2, <2>4 DEF Jobs, SampleOf
<1>3. ASSUME NEW j \in Jobs, NEW k \in Jobs, HasRow(j), HasRow(k),
             SampleOf(j) = SampleOf(k)
      PROVE  j = k
  BY <1>3 DEF OneRow, Rows
<1> SUFFICES ASSUME NEW j \in Jobs, NEW k \in Jobs, HasRow(j)', HasRow(k)',
                    SampleOf(j) = SampleOf(k)
             PROVE  j = k
  BY DEF OneRow, Rows, SampleOf
<1> QED
  BY <1>1, <1>2, <1>3

\* The part of the invariant about the jobs, put together.
LEMMA JobsStep ==
  ASSUME TypeOK, TypeOK', NewJobs, EditsAreAllowed, JobsInv, [Next]_vars
  PROVE  JobsInv'
<1>1. setup' = setup
  BY EditsStep
<1> SUFFICES ASSUME OneAtATime
             PROVE  LoopsInv' /\ RestIsCompleted' /\ OneRow'
  BY <1>1 DEF JobsInv, OneAtATime
<1>2. setup.starts <= 1 /\ setup.syncs <= 1 /\ NoneTakesBack
  BY DEF OneAtATime, NoneTakesBack
<1>3. LoopsInv /\ RestIsCompleted /\ OneRow
  BY DEF JobsInv
<1>4. OneGeneration'
  BY <1>2, <1>3, OneGenerationStep DEF LoopsInv
<1>5. OneLook'
  BY <1>2, <1>3, OneLookStep DEF LoopsInv
<1>6. OwnLoop'
  BY <1>3, OwnLoopStep DEF LoopsInv
<1>7. LoopIsPast' /\ LooksAreFresh' /\ ReviewIsOpen'
  BY <1>2, <1>3, LoopIsPastStep, LooksAreFreshStep, ReviewIsOpenStep
<1>8. RestIsCompleted' /\ OneRow'
  BY <1>2, <1>3, RestIsCompletedStep, OneRowStep
<1> QED
  BY <1>4, <1>5, <1>6, <1>7, <1>8 DEF LoopsInv

------------------------------------------------------------------------------
IInv ==
  /\ TypeOK
  /\ SeenIsClosed
  /\ NewJobs
  /\ EditsAreAllowed
  /\ ManifestInv
  /\ JobsInv

\* The invariant holds before anything was generated.
LEMMA InitIInv ==
  ASSUME Init
  PROVE  IInv
<1>1. TypeOK
  <2>1. NoManifest \in Manifests /\ NoManifest.truth \subseteq NoManifest.samples
    BY DEF NoManifest, Manifests
  <2>2. setup.samples \subseteq Samples
    BY DEF Init
  <2>3. manifest \in Manifests /\ manifest.truth \subseteq manifest.samples
    BY <2>2 DEF Init, Manifests
  <2> QED
    BY <2>1, <2>3 DEF Init, TypeOK, NoSync, NoCompletion, NoEdit
<1>2. /\ \A j \in Jobs : /\ complete[j] = NoCompletion /\ status[j] = "none"
                         /\ documentOf[j] = NoLoop
      /\ \A s \in Samples : edit[s] = NoEdit
      /\ \A y \in Syncs : sync[y] = NoSync
      /\ \A g \in Starts : /\ gen[g].at = "unused" /\ gen[g].stale = {}
                           /\ \A j \in Jobs : process[g][j] = "none"
                                              /\ document[g][j] = "none"
  BY DEF Init
<1>3. Rows = {}
  BY <1>2 DEF Rows, HasRow
<1>4. AtWork = {}
  BY <1>2 DEF AtWork
<1>5. SeenIsClosed
  BY <1>2 DEF SeenIsClosed, NoCompletion, NoEdit, NoManifest
<1>6. NewJobs
  BY <1>2 DEF NewJobs, Untouched, InSync, NoSync
<1>7. EditsAreAllowed
  BY <1>2 DEF EditsAreAllowed
<1>8. ManifestInv
  <2>1. OneWriter
    BY <1>2 DEF OneWriter, NoCompletion, NoEdit
  <2> QED
    BY <1>3, <2>1 DEF ManifestInv, AbsentIsNotBegun, Listed
<1>9. JobsInv
  <2>1. OneGeneration /\ OneLook /\ OwnLoop
    BY <1>2, <1>4 DEF OneGeneration, OneLook, OwnLoop
  <2> QED
    BY <1>3, <2>1 DEF JobsInv, LoopsInv, LoopIsPast, LooksAreFresh,
      ReviewIsOpen, RestIsCompleted, OneRow
<1> QED
  BY <1>1, <1>5, <1>6, <1>7, <1>8, <1>9 DEF IInv

\* The invariant is inductive.
LEMMA IInvAlways == Spec => []IInv
<1>1. Init => IInv
  BY InitIInv
<1>2. IInv /\ [Next]_vars => IInv'
  <2> SUFFICES ASSUME IInv, [Next]_vars PROVE IInv'
    OBVIOUS
  <2> USE DEF IInv
  <2>1. TypeOK'
    BY TypeStep
  <2>2. SeenIsClosed' /\ EditsAreAllowed'
    BY SeenStep, EditsStep
  <2>3. NewJobs' /\ ManifestInv' /\ JobsInv'
    BY <2>1, NewJobsStep, ManifestStep, JobsStep
  <2> QED
    BY <2>1, <2>2, <2>3
<1> QED
  BY <1>1, <1>2, PTL DEF Spec

\* The records of the requests, loops, looks, reviews and edits are well typed,
\* and the manifest never lists a ground truth without its sample.
THEOREM GroundTruthTypeCorrect == Spec => []TypeOK
<1>1. IInv => TypeOK
  BY DEF IInv
<1> QED
  BY <1>1, IInvAlways, PTL

\* With one writer of the manifest at a time, the ground truth of a job that
\* says completed is in the manifest as long as the sample is, however many
\* samples, requests and reviews there are.
THEOREM CompletedJobsAreListed == Spec => []CompletedIsListed
<1>1. IInv => CompletedIsListed
  <2> SUFFICES ASSUME IInv, Careful, NEW j \in Jobs, status[j] = "completed",
                      SampleOf(j) \in manifest.samples
               PROVE  SampleOf(j) \in manifest.truth
    BY DEF CompletedIsListed, Careful
  <2>1. Listed
    BY DEF IInv, ManifestInv
  <2> QED
    BY <2>1 DEF Listed, Rows, HasRow
<1> QED
  BY <1>1, IInvAlways, PTL

\* With one request and one look at the jobs at a time, and nothing reopened, no
\* sample ever has two jobs, however many requests follow each other.
THEOREM SamplesHaveOneJob == Spec => []OneJobPerSample
<1>1. IInv => OneJobPerSample
  BY DEF IInv, JobsInv, OneAtATime, OneRow, OneJobPerSample
<1> QED
  BY <1>1, IInvAlways, PTL
==============================================================================
