------------------------------ MODULE GroundTruth ------------------------------
(***************************************************************************)
(* The ground truth of one dataset version: the requests that generate it  *)
(* with a job for each sample (apps/backend-services/src/benchmark/        *)
(* ground-truth-generation.service.ts), the reviews that complete the jobs *)
(* (approveSession and reopenSession of hitl/hitl.service.ts), and the     *)
(* uploads and deletions of samples (dataset.service.ts).                  *)
(*                                                                         *)
(* The manifest is a file: whoever changes it reads it, and writes it whole *)
(* some calls later.  The status of the jobs follows the documents only    *)
(* when somebody looks at the list of jobs.  A job is the request that     *)
(* created it and its sample, a document the loop that created it and its  *)
(* job.  A loop takes its jobs ten at a time in the code, and at once here. *)
(***************************************************************************)
EXTENDS Naturals, FiniteSets

CONSTANTS
  Samples,
  Starts,        \* the requests to generate, each with its loop
  NoLoop,
  Syncs,         \* the looks at the list of jobs that may overlap
  Setups         \* how much happens at once in an execution

ASSUME NoLoopAssumption == NoLoop \notin Starts
ASSUME SetupsAssumption ==
  Setups \subseteq [samples : SUBSET Samples, requests : Nat, starts : Nat,
                    writers : Nat, syncs : Nat, edits : BOOLEAN,
                    reopen : BOOLEAN, direct : BOOLEAN,
                    unrecorded : BOOLEAN, faults : BOOLEAN]
ASSUME FinitenessAssumption ==
  IsFiniteSet(Samples) /\ IsFiniteSet(Starts) /\ IsFiniteSet(Syncs)

VARIABLES
  setup,         \* fixed for an execution:
                 \*   samples     the samples to begin with
                 \*   requests    the requests to generate
                 \*   starts      how many of them are worked on at a time
                 \*   writers     how many change the manifest at a time
                 \*   syncs       how many look at the jobs at a time
                 \*   edits       samples are uploaded and deleted
                 \*   reopen      sessions are reopened
                 \*   direct      sessions are opened outside the queue
                 \*   unrecorded  the id of a workflow may not be recorded
                 \*   faults      other calls fail and the backend may stop
  frozen,        \* DatasetVersion.frozen
  manifest,      \* the samples, and those of them with ground truth
  status,        \* job -> its status, "none" and "deleted" without a row
  documentOf,    \* job -> the loop whose document it names
  recorded,      \* the jobs with a temporalWorkflowId
  document,      \* loop -> job -> the document made for it; "dead" is
                 \* ongoing_ocr without a workflow that goes on, "approved"
                 \* is complete with a session that is approved
  gen,           \* request -> the next call of startGeneration
  process,       \* loop -> job -> the next call of processJob
  sync,          \* look -> the next call of syncJobStatuses
  complete,      \* job -> the next call of completeJob
  edit           \* sample -> the next call of an upload or a deletion

jobVars == <<status, documentOf, recorded>>
vars == <<setup, frozen, manifest, jobVars, document, gen, process, sync,
          complete, edit>>

Jobs == Starts \X Samples

SampleOf(j) == j[2]

Manifests == [samples : SUBSET Samples, truth : SUBSET Samples]

NoManifest == [samples |-> {}, truth |-> {}]
NoSync == [at |-> "idle", extracted |-> {}, failed |-> {}, open |-> {}]
NoCompletion == [at |-> "idle", seen |-> NoManifest]
NoEdit == [at |-> "idle", seen |-> NoManifest, what |-> "none"]

TypeOK ==
  /\ setup \in Setups
  /\ frozen \in BOOLEAN
  /\ manifest \in Manifests /\ manifest.truth \subseteq manifest.samples
  /\ status \in [Jobs -> {"none", "pending", "processing", "awaiting_review",
                          "completed", "failed", "deleted"}]
  /\ documentOf \in [Jobs -> Starts \cup {NoLoop}]
  /\ recorded \subseteq Jobs
  /\ document \in [Starts -> [Jobs -> {"none", "pre_ocr", "ongoing_ocr", "dead",
                                       "extracted", "complete", "approved",
                                       "failed"}]]
  /\ gen \in [Starts -> [at : {"unused", "find", "delete", "create", "loop", "over"},
                         without : SUBSET Samples, stale : SUBSET Jobs]]
  /\ process \in [Starts -> [Jobs -> {"none", "begin", "link", "request",
                                      "record", "fail"}]]
  /\ sync \in [Syncs -> [at : {"idle", "write", "ask"}, extracted : SUBSET Jobs,
                         failed : SUBSET Jobs, open : SUBSET Jobs]]
  /\ complete \in [Jobs -> [at : {"idle", "read", "write", "finish"},
                            seen : Manifests]]
  /\ edit \in [Samples -> [at : {"idle", "write", "jobs"}, seen : Manifests,
                           what : {"none", "add", "truth", "drop"}]]

Init ==
  /\ setup \in Setups
  /\ frozen = FALSE
  /\ manifest = [samples |-> setup.samples, truth |-> {}]
  /\ status = [j \in Jobs |-> "none"]
  /\ documentOf = [j \in Jobs |-> NoLoop]
  /\ recorded = {}
  /\ document = [g \in Starts |-> [j \in Jobs |-> "none"]]
  /\ gen = [g \in Starts |-> [at |-> "unused", without |-> {}, stale |-> {}]]
  /\ process = [g \in Starts |-> [j \in Jobs |-> "none"]]
  /\ sync = [y \in Syncs |-> NoSync]
  /\ complete = [j \in Jobs |-> NoCompletion]
  /\ edit = [s \in Samples |-> NoEdit]

------------------------------------------------------------------------------
HasRow(j) == status[j] \notin {"none", "deleted"}

Rows == {j \in Jobs : HasRow(j)}

\* An update of a row that is gone fails and changes nothing.
Write(j, s) == status' = IF HasRow(j) THEN [status EXCEPT ![j] = s] ELSE status

\* The status of the document that a row names.
DocumentStatus(j) ==
  IF documentOf[j] = NoLoop THEN "none" ELSE document[documentOf[j]][j]

------------------------------------------------------------------------------
\* startGeneration, and the loop that it leaves behind.  A request counts as at
\* work until its loop has read the jobs that it will work on, although its
\* user is answered before.

AtWork == {g \in Starts : gen[g].at \in {"find", "delete", "create", "loop"}}

GenAt(g, next) == gen' = [gen EXCEPT ![g].at = next]

BeginGeneration(g) ==
  /\ gen[g].at = "unused"
  /\ Cardinality({h \in Starts : gen[h].at # "unused"}) < setup.requests
  /\ Cardinality(AtWork) < setup.starts
  /\ ~frozen
  /\ manifest.samples \ manifest.truth # {}
  /\ gen' = [gen EXCEPT ![g].at = "find",
                        ![g].without = manifest.samples \ manifest.truth]
  /\ UNCHANGED <<setup, frozen, manifest, jobVars, document, process, sync,
                 complete, edit>>

\* Jobs that are not completed are stale; the workflows they name are ended.
FindStaleJobs(g) ==
  /\ gen[g].at = "find"
  /\ LET stale == {j \in Rows : status[j] # "completed"} IN
       /\ gen' = [gen EXCEPT ![g].at = "delete", ![g].stale = stale]
       /\ document' = [h \in Starts |-> [j \in Jobs |->
            IF /\ j \in stale \cap recorded /\ documentOf[j] = h
               /\ document[h][j] = "ongoing_ocr"
            THEN "dead" ELSE document[h][j]]]
  /\ UNCHANGED <<setup, frozen, manifest, jobVars, process, sync, complete,
                 edit>>

DeleteStaleJobs(g) ==
  /\ gen[g].at = "delete"
  /\ status' = [j \in Jobs |-> IF j \in gen[g].stale THEN "deleted" ELSE status[j]]
  /\ gen' = [gen EXCEPT ![g].at = "create", ![g].stale = {}]
  /\ UNCHANGED <<setup, frozen, manifest, documentOf, recorded, document,
                 process, sync, complete, edit>>

CreateFor(g, todo) ==
  /\ status' = [j \in Jobs |-> IF j[1] = g /\ SampleOf(j) \in todo THEN "pending"
                               ELSE status[j]]
  /\ gen' = [gen EXCEPT ![g].at = IF todo = {} THEN "over" ELSE "loop",
                        ![g].without = {}]
  /\ UNCHANGED <<setup, frozen, manifest, documentOf, recorded, document,
                 process, sync, complete, edit>>

\* Mutant of CreateJobs: the manifest alone says which samples need a job.
CreateAllJobs(g) ==
  /\ gen[g].at = "create"
  /\ CreateFor(g, gen[g].without)

CreateJobs(g) ==
  /\ gen[g].at = "create"
  /\ CreateFor(g, gen[g].without \ {SampleOf(j) : j \in
                                      {k \in Jobs : status[k] = "completed"}})

\* The loop works on every job of the version that is pending by then.
FindPendingJobs(g) ==
  /\ gen[g].at = "loop"
  /\ process' = [process EXCEPT ![g] = [j \in Jobs |->
                   IF status[j] = "pending" THEN "begin" ELSE "none"]]
  /\ GenAt(g, "over")
  /\ UNCHANGED <<setup, frozen, manifest, jobVars, document, sync, complete,
                 edit>>

------------------------------------------------------------------------------
\* processJob.

ProcessAt(g, j, next) == process' = [process EXCEPT ![g][j] = next]

SetDocument(g, j, s) == document' = [document EXCEPT ![g][j] = s]

\* The job is looked at again, the files are copied and the document is made.
CreateDocument(g, j) ==
  /\ process[g][j] = "begin"
  /\ status[j] = "pending" => SampleOf(j) \in manifest.samples
  /\ IF status[j] = "pending"
       THEN SetDocument(g, j, "pre_ocr") /\ ProcessAt(g, j, "link")
       ELSE UNCHANGED document /\ ProcessAt(g, j, "none")
  /\ UNCHANGED <<setup, frozen, manifest, jobVars, gen, sync, complete, edit>>

\* The sample is gone or has no inputs, or its file cannot be read or converted.
NoDocument(g, j) ==
  /\ process[g][j] = "begin"
  /\ status[j] = "pending"
  /\ setup.faults \/ setup.edits
  /\ ProcessAt(g, j, "fail")
  /\ UNCHANGED <<setup, frozen, manifest, jobVars, document, gen, sync,
                 complete, edit>>

LinkDocument(g, j) ==
  /\ process[g][j] = "link"
  /\ \/ /\ HasRow(j)
        /\ Write(j, "processing")
        /\ documentOf' = [documentOf EXCEPT ![j] = g]
        /\ ProcessAt(g, j, "request")
     \/ /\ setup.faults \/ ~HasRow(j)
        /\ UNCHANGED <<status, documentOf>>
        /\ ProcessAt(g, j, "fail")
  /\ UNCHANGED <<setup, frozen, manifest, recorded, document, gen, sync,
                 complete, edit>>

\* requestOcr: the workflow is started, or the document is marked failed.  A
\* document that was deleted with its sample is not found.
RequestOcr(g, j) ==
  /\ process[g][j] = "request"
  /\ \/ /\ document[g][j] # "none"
        /\ SetDocument(g, j, "ongoing_ocr") /\ ProcessAt(g, j, "record")
     \/ /\ setup.faults \/ document[g][j] = "none"
        /\ SetDocument(g, j, IF document[g][j] = "none" THEN "none" ELSE "failed")
        /\ ProcessAt(g, j, "fail")
  /\ UNCHANGED <<setup, frozen, manifest, jobVars, gen, sync, complete, edit>>

RecordWorkflow(g, j) ==
  /\ process[g][j] = "record"
  /\ \/ HasRow(j) /\ recorded' = recorded \cup {j} /\ ProcessAt(g, j, "none")
     \/ /\ setup.unrecorded \/ ~HasRow(j)
        /\ UNCHANGED recorded /\ ProcessAt(g, j, "fail")
  /\ UNCHANGED <<setup, frozen, manifest, status, documentOf, document, gen,
                 sync, complete, edit>>

FailJob(g, j) ==
  /\ process[g][j] = "fail"
  /\ \/ Write(j, "failed")
     \/ setup.faults /\ UNCHANGED status
  /\ ProcessAt(g, j, "none")
  /\ UNCHANGED <<setup, frozen, manifest, documentOf, recorded, document, gen,
                 sync, complete, edit>>

\* The workflow stores a result, or fails, or dies and says nothing.
WorkflowEnds(g, j) ==
  /\ document[g][j] = "ongoing_ocr"
  /\ \E s \in {"extracted"} \cup IF setup.faults THEN {"failed", "dead"} ELSE {} :
       SetDocument(g, j, s)
  /\ UNCHANGED <<setup, frozen, manifest, jobVars, gen, process, sync,
                 complete, edit>>

\* The workflow's last step, once it has completed.
CompleteDocument(g, j) ==
  /\ document[g][j] = "extracted"
  /\ SetDocument(g, j, "complete")
  /\ UNCHANGED <<setup, frozen, manifest, jobVars, gen, process, sync,
                 complete, edit>>

------------------------------------------------------------------------------
\* syncJobStatuses: one list of the jobs in processing and of their documents,
\* one write of those that moved on, and then, for each of the others whose
\* workflow is on record, a call to Temporal and a write.

LookOn(open) ==
  IF open = {} THEN NoSync
  ELSE [at |-> "ask", extracted |-> {}, failed |-> {}, open |-> open]

ReadJobs(y) ==
  /\ sync[y] = NoSync
  /\ Cardinality({z \in Syncs : sync[z] # NoSync}) < setup.syncs
  /\ LET processing == {j \in Rows : status[j] = "processing"}
         in(states) == {j \in processing : DocumentStatus(j) \in states} IN
       sync' = [sync EXCEPT ![y] =
         [at |-> "write", extracted |-> in({"extracted"}),
          failed |-> in({"failed"}),
          open |-> (processing \cap recorded) \ in({"extracted", "failed"})]]
  /\ UNCHANGED <<setup, frozen, manifest, jobVars, document, gen, process,
                 complete, edit>>

WriteJobs(y) ==
  /\ sync[y].at = "write"
  /\ status' = [j \in Jobs |->
       IF ~HasRow(j) THEN status[j]
       ELSE IF j \in sync[y].extracted THEN "awaiting_review"
       ELSE IF j \in sync[y].failed THEN "failed"
       ELSE status[j]]
  /\ sync' = [sync EXCEPT ![y] = LookOn(sync[y].open)]
  /\ UNCHANGED <<setup, frozen, manifest, documentOf, recorded, document, gen,
                 process, complete, edit>>

\* The workflow has ended without a word, or it has not, or Temporal is not
\* reached.
AskTemporal(y, j) ==
  /\ sync[y].at = "ask"
  /\ j \in sync[y].open
  /\ LET rest == sync[y].open \ {j} IN
       \/ /\ DocumentStatus(j) = "dead"
          /\ sync' = [sync EXCEPT ![y] = [at |-> "write", extracted |-> {},
                                         failed |-> {j}, open |-> rest]]
       \/ /\ setup.faults \/ DocumentStatus(j) # "dead"
          /\ sync' = [sync EXCEPT ![y] = LookOn(rest)]
  /\ UNCHANGED <<setup, frozen, manifest, jobVars, document, gen, process,
                 complete, edit>>

------------------------------------------------------------------------------
\* The manifest has two writers at a time at most.

Writers ==
  Cardinality({j \in Jobs : complete[j].at = "write"}) +
  Cardinality({s \in Samples : edit[s].at # "idle"})

\* approveSession of a document with a result.  It asks neither for the status
\* of the job nor for that of an earlier session; the review queue of the
\* dataset lists the jobs that await review or are completed, and a session that
\* is opened outside it may be of any.
BeginCompletion(j) ==
  /\ complete[j] = NoCompletion
  /\ HasRow(j)
  /\ setup.direct \/ status[j] \in {"awaiting_review", "completed"}
  /\ DocumentStatus(j) \in {"extracted", "complete", "approved"}
  /\ SetDocument(documentOf[j], j, "approved")
  /\ complete' = [complete EXCEPT ![j].at = "read"]
  /\ UNCHANGED <<setup, frozen, manifest, jobVars, gen, process, sync, edit>>

\* Mutant of ReadManifest: the job is completed before the manifest is written.
CompleteFirst(j) ==
  /\ complete[j].at = "read"
  /\ Writers < setup.writers
  /\ complete' = [complete EXCEPT ![j] = [at |-> "write", seen |-> manifest]]
  /\ Write(j, "completed")
  /\ UNCHANGED <<setup, frozen, manifest, documentOf, recorded, document, gen,
                 process, sync, edit>>

ReadManifest(j) ==
  /\ complete[j].at = "read"
  /\ Writers < setup.writers
  /\ complete' = [complete EXCEPT ![j] = [at |-> "write", seen |-> manifest]]
  /\ UNCHANGED <<setup, frozen, manifest, jobVars, document, gen, process,
                 sync, edit>>

\* Mutant of WriteManifest: the sample is not looked for in the manifest.
WriteManifestUnseen(j) ==
  /\ complete[j].at = "write"
  /\ manifest' = [complete[j].seen EXCEPT !.truth = @ \cup {SampleOf(j)}]
  /\ complete' = [complete EXCEPT ![j] = [at |-> "finish", seen |-> NoManifest]]
  /\ UNCHANGED <<setup, frozen, jobVars, document, gen, process, sync, edit>>

WriteManifest(j) ==
  /\ complete[j].at = "write"
  /\ manifest' = [complete[j].seen EXCEPT
                    !.truth = @ \cup ({SampleOf(j)} \cap complete[j].seen.samples)]
  /\ complete' = [complete EXCEPT ![j] = [at |-> "finish", seen |-> NoManifest]]
  /\ UNCHANGED <<setup, frozen, jobVars, document, gen, process, sync, edit>>

FinishCompletion(j) ==
  /\ complete[j].at = "finish"
  /\ Write(j, "completed")
  /\ complete' = [complete EXCEPT ![j] = NoCompletion]
  /\ UNCHANGED <<setup, frozen, manifest, documentOf, recorded, document, gen,
                 process, sync, edit>>

\* The hook's failure is logged, the session stays approved.
CompletionFails(j) ==
  /\ setup.faults
  /\ complete[j].at \in {"read", "write", "finish"}
  /\ complete' = [complete EXCEPT ![j] = NoCompletion]
  /\ UNCHANGED <<setup, frozen, manifest, jobVars, document, gen, process,
                 sync, edit>>

\* reopenSession of an approved session.
Reopen(j) ==
  /\ setup.reopen
  /\ ~frozen
  /\ HasRow(j) /\ DocumentStatus(j) = "approved"
  /\ Write(j, "awaiting_review")
  /\ UNCHANGED <<setup, frozen, manifest, documentOf, recorded, document, gen,
                 process, sync, complete, edit>>

------------------------------------------------------------------------------
\* uploadFilesToVersion, of inputs or of ground truth (either adds a sample that
\* is not listed), and deleteSample.

BeginEdit(s, what) ==
  /\ setup.edits
  /\ edit[s] = NoEdit
  /\ Writers < setup.writers
  /\ ~frozen
  /\ what = "drop" => s \in manifest.samples
  /\ edit' = [edit EXCEPT ![s] = [at |-> "write", seen |-> manifest, what |-> what]]
  /\ UNCHANGED <<setup, frozen, manifest, jobVars, document, gen, process,
                 sync, complete>>

WriteEdit(s) ==
  /\ edit[s].at = "write"
  /\ LET seen == edit[s].seen IN
       \/ /\ edit[s].what = "add"
          /\ manifest' = [seen EXCEPT !.samples = @ \cup {s}]
          /\ edit' = [edit EXCEPT ![s] = NoEdit]
       \/ /\ edit[s].what = "truth"
          /\ manifest' = [samples |-> seen.samples \cup {s}, truth |-> seen.truth \cup {s}]
          /\ edit' = [edit EXCEPT ![s] = NoEdit]
       \/ /\ edit[s].what = "drop"
          /\ manifest' = [samples |-> seen.samples \ {s}, truth |-> seen.truth \ {s}]
          /\ edit' = [edit EXCEPT ![s].at = "jobs", ![s].seen = NoManifest]
  /\ UNCHANGED <<setup, frozen, jobVars, document, gen, process, sync,
                 complete>>

\* deleteJobsForSample takes the documents that the jobs name along.
DeleteJobs(s) ==
  /\ edit[s].at = "jobs"
  /\ LET of == {j \in Rows : SampleOf(j) = s} IN
       /\ status' = [j \in Jobs |-> IF j \in of THEN "deleted" ELSE status[j]]
       /\ document' = [g \in Starts |-> [j \in Jobs |->
            IF j \in of /\ documentOf[j] = g THEN "none" ELSE document[g][j]]]
  /\ edit' = [edit EXCEPT ![s] = NoEdit]
  /\ UNCHANGED <<setup, frozen, manifest, documentOf, recorded, gen, process,
                 sync, complete>>

\* By hand, or by the first benchmark run.
Freeze ==
  /\ ~frozen
  /\ frozen' = TRUE
  /\ UNCHANGED <<setup, manifest, jobVars, document, gen, process, sync,
                 complete, edit>>

------------------------------------------------------------------------------
\* The backend stops; what is under way is lost.
Stop ==
  /\ setup.faults
  /\ gen' = [g \in Starts |-> IF gen[g].at = "unused" THEN gen[g] ELSE
               [at |-> "over", without |-> {}, stale |-> {}]]
  /\ process' = [g \in Starts |-> [j \in Jobs |-> "none"]]
  /\ sync' = [y \in Syncs |-> NoSync]
  /\ complete' = [j \in Jobs |-> NoCompletion]
  /\ edit' = [s \in Samples |-> NoEdit]
  /\ UNCHANGED <<setup, frozen, manifest, jobVars, document>>

GenerationStep(g) ==
  \/ BeginGeneration(g) \/ FindStaleJobs(g) \/ DeleteStaleJobs(g)
  \/ CreateJobs(g) \/ FindPendingJobs(g)

ProcessStep(g, j) ==
  \/ CreateDocument(g, j) \/ NoDocument(g, j) \/ LinkDocument(g, j)
  \/ RequestOcr(g, j) \/ RecordWorkflow(g, j) \/ FailJob(g, j)

CompletionStep(j) ==
  \/ BeginCompletion(j) \/ ReadManifest(j) \/ WriteManifest(j)
  \/ FinishCompletion(j) \/ CompletionFails(j)

SyncStep(y) ==
  \/ ReadJobs(y) \/ WriteJobs(y)
  \/ \E j \in Jobs : AskTemporal(y, j)

EditStep(s) ==
  \/ \E what \in {"add", "truth", "drop"} : BeginEdit(s, what)
  \/ WriteEdit(s) \/ DeleteJobs(s)

Next ==
  \/ \E g \in Starts : GenerationStep(g)
  \/ \E g \in Starts, j \in Jobs :
       ProcessStep(g, j) \/ WorkflowEnds(g, j) \/ CompleteDocument(g, j)
  \/ \E y \in Syncs : SyncStep(y)
  \/ \E j \in Jobs : CompletionStep(j) \/ Reopen(j)
  \/ \E s \in Samples : EditStep(s)
  \/ Freeze
  \/ Stop

Spec == Init /\ [][Next]_vars

\* Requests and workflows go on to their end, and the page that shows the jobs
\* asks for them again and again (every five seconds while it is open).
Fairness ==
  /\ \A g \in Starts : WF_vars(GenerationStep(g))
  /\ \A g \in Starts, j \in Jobs :
       WF_vars(ProcessStep(g, j)) /\ WF_vars(WorkflowEnds(g, j))
  /\ \A y \in Syncs : WF_vars(SyncStep(y))

FairSpec == Spec /\ Fairness

------------------------------------------------------------------------------
\* As long as one at a time changes the manifest, the ground truth of a job
\* that says completed is in it, wherever the completion fails or the backend
\* stops, the sample is deleted and uploaded again or the session reopened.
\* (A failure between the two halves of a deletion leaves a completed job to the
\* sample that is uploaded again under the same name.)
CompletedIsListed ==
  setup.writers <= 1 /\ ~(setup.edits /\ setup.faults) =>
    \A j \in Jobs :
      /\ status[j] = "completed"
      /\ SampleOf(j) \in manifest.samples
      => SampleOf(j) \in manifest.truth

\* The executions that OneJobPerSample is about.
OneAtATime ==
  /\ setup.starts <= 1 /\ setup.syncs <= 1
  /\ ~setup.reopen /\ ~setup.direct /\ ~setup.unrecorded

\* A request to generate deletes what is not completed and skips what is.
\* When requests do not overlap (until their loops have read their jobs), nor
\* looks at the jobs, and nothing is reopened meanwhile, no sample gets a second
\* job, though reviews complete jobs at any moment of a request and the loop of
\* an earlier one goes on.  It rests on a completed job that stays completed.
\* A session that is opened outside the queue on a job in processing is not
\* covered: a look or a loop takes the completion back.  Neither is a loop that
\* cannot record the workflow and writes failed over what a review has made.
OneJobPerSample ==
  OneAtATime => \A j, k \in Rows : SampleOf(j) = SampleOf(k) => j = k

\* "Workflow runs OCR -> stores results", then "Job status lazily transitions to
\* awaiting_review" (docs-md/ground-truth-generation.md:41): a job whose result
\* is stored does not stay in processing.  Not so: a workflow that completes
\* moves the document on from extracted at once, and a look that comes later
\* finds neither a document to review nor one that failed.
ResultsReachReview ==
  \A j \in Jobs : status[j] = "processing" /\ DocumentStatus(j) = "extracted"
                  ~> status[j] # "processing"

==============================================================================
