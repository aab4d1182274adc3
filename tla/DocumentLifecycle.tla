-------------------------- MODULE DocumentLifecycle --------------------------
(***************************************************************************)
(* One uploaded document: its row, its OCR result, its files, and everyone *)
(* who writes them at the same time: requests to the backend (upload and   *)
(* re-run with requestOcr, delete), the graph workflow with its hooks and  *)
(* the activities of its nodes, the reviewers, and the purge job.          *)
(*                                                                         *)
(* A step is one database, storage or Temporal call together with the      *)
(* local decisions that follow it.  Nothing holds a lock or a transaction  *)
(* from one call to the next.  A request that is refused at once changes   *)
(* nothing and is not a step.                                              *)
(*                                                                         *)
(* Temporal runs at most one workflow graph-<documentId> at a time; a run  *)
(* is named here by the request that starts it.  Of a graph only the nodes *)
(* that touch the document are kept: an activity that reports the status,  *)
(* a humanGate, ocr.storeResults, and one node that stands for the others. *)
(***************************************************************************)
EXTENDS Naturals, FiniteSets

CONSTANTS
  Requests,   \* each is served once: a bound on re-runs and deletions
  Creator,    \* the request that uploads the document
  Setups      \* the circumstances an execution may be in

Nodes == {"report", "work", "review", "store"}
Targets == {"files", "record"}

ASSUME CreatorAssumption == Creator \in Requests
\* A graph maps each of its nodes to the nodes that must be done before it.
ASSUME SetupsAssumption == \A s \in Setups :
  /\ s.rerun \in BOOLEAN /\ s.faults \in BOOLEAN
  /\ s.ephemeral \subseteq Targets
  /\ \E N \in SUBSET Nodes : s.graph \in [N -> SUBSET N]

VARIABLES
  setup,      \* the workflow's graph, what metadata.ephemeral purges, whether
              \* documents are re-run, whether backend calls fail; fixed
  doc,        \* the document's row and its row in ocr_results
  files,      \* the blobs under the document's prefix exist
  request,    \* request -> the call it makes next
  run,        \* request -> the workflow execution it started
  reviewing,  \* a review session on the document is open
  janitor     \* what the purge job still has to do for the document

vars == <<setup, doc, files, request, run, reviewing, janitor>>

Processing == {"pre_ocr", "ongoing_ocr"}
Progressed == {"extracted", "awaiting_review", "complete"}
Purgeable == {"complete", "failed", "conversion_failed"}

NoRow == [status |-> "absent", result |-> FALSE, purged |-> FALSE,
          execution |-> FALSE]
Rows == [status : Processing \cup Progressed \cup Purgeable, result : BOOLEAN,
         purged : BOOLEAN, execution : BOOLEAN]

Calls == {"upload", "source", "query", "find", "read", "start", "record",
          "fail", "delete", "unlink"}
OpenPhases == {"starting", "graph", "completed", "completing", "failing",
               "marking"}
Phases == OpenPhases \cup {"none", "closed", "cut"}
InFlight == {"running", "stored", "waiting"}
Progress == InFlight \cup {"todo", "done", "dropped"}

NoRun == [phase |-> "none", cancelled |-> FALSE,
          node |-> [n \in Nodes |-> "todo"]]
Executions == [phase : Phases, cancelled : BOOLEAN,
               node : [Nodes -> Progress]]

\* Types; a deleted document leaves neither row nor OCR result.
TypeOK ==
  /\ setup \in Setups
  /\ doc \in Rows \cup {NoRow}
  /\ files \in BOOLEAN
  /\ request \in [Requests -> Calls \cup {"todo", "over"}]
  /\ run \in [Requests -> Executions]
  /\ reviewing \in BOOLEAN
  /\ janitor \in SUBSET (Targets \cup {"stamp"})

Init ==
  /\ setup \in Setups
  /\ doc = NoRow
  /\ files = FALSE
  /\ request = [q \in Requests |-> IF q = Creator THEN "upload" ELSE "todo"]
  /\ run = [q \in Requests |-> NoRun]
  /\ reviewing = FALSE
  /\ janitor = {}

------------------------------------------------------------------------------
Exists == doc # NoRow

\* Every status is written without a look at the one it replaces; a write to
\* a row that is gone (P2025) is swallowed.
SetStatus(s) == doc' = IF Exists THEN [doc EXCEPT !.status = s] ELSE doc

Running == \E r \in Requests : run[r].phase \in OpenPhases

Goto(q, call) == request' = [request EXCEPT ![q] = call]

\* The request moves on and nothing else changes.
Proceed(q, call) ==
  /\ Goto(q, call)
  /\ UNCHANGED <<setup, doc, files, run, reviewing, janitor>>

(***************************************************************************)
(* Requests to the backend.                                                *)
(***************************************************************************)
\* uploadDocument, or the document of a ground-truth job ("pre_ocr").  Without
\* a normalized PDF the request ends; otherwise OCR is requested next.
CreateDocument(q, s) ==
  /\ request[q] = "upload"
  /\ doc' = [NoRow EXCEPT !.status = s]
  /\ files' = TRUE
  /\ Goto(q, IF s = "conversion_failed" THEN "over" ELSE "find")
  /\ UNCHANGED <<setup, run, reviewing, janitor>>

\* reprocessDocument looks at the row that the controller has read.
BeginReprocess(q) ==
  /\ request[q] = "todo" /\ setup.rerun
  /\ doc.status \in {"failed", "ongoing_ocr"}
  /\ ~doc.purged
  /\ Proceed(q, "source")

CheckSource(q) ==
  /\ request[q] = "source"
  /\ Proceed(q, IF files THEN "query" ELSE "over")

CheckRunning(q) ==
  /\ request[q] = "query"
  /\ Proceed(q, IF Running THEN "over" ELSE "find")

FindDocument(q) ==
  /\ request[q] = "find"
  /\ Proceed(q, IF Exists THEN "read" ELSE "over")

ReadFile(q) ==
  /\ request[q] = "read"
  /\ Proceed(q, IF files THEN "start" ELSE "fail")

\* Temporal refuses a second running execution with the id of the first.
StartGraphWorkflow(q) ==
  /\ request[q] = "start"
  /\ IF Running THEN UNCHANGED run /\ Goto(q, "fail")
     ELSE run' = [run EXCEPT ![q].phase = "starting"] /\ Goto(q, "record")
  /\ UNCHANGED <<setup, doc, files, reviewing, janitor>>

RecordExecution(q) ==
  /\ request[q] = "record"
  /\ doc' = IF Exists THEN [doc EXCEPT !.execution = TRUE] ELSE doc
  /\ Goto(q, "over")
  /\ UNCHANGED <<setup, files, run, reviewing, janitor>>

\* The catch of requestOcr.
MarkFailed(q) ==
  /\ request[q] = "fail"
  /\ SetStatus("failed")
  /\ Goto(q, "over")
  /\ UNCHANGED <<setup, files, run, reviewing, janitor>>

BeginDelete(q) ==
  /\ request[q] = "todo"
  /\ Exists /\ doc.status \notin Processing
  /\ Proceed(q, "delete")

\* The result and the review sessions go with the row (onDelete: Cascade).
DeleteRow(q) ==
  /\ request[q] = "delete"
  /\ doc' = NoRow
  /\ reviewing' = FALSE
  /\ Goto(q, "unlink")
  /\ UNCHANGED <<setup, files, run, janitor>>

DeleteFiles(q) ==
  /\ request[q] = "unlink"
  /\ files' = FALSE
  /\ Goto(q, "over")
  /\ UNCHANGED <<setup, doc, run, reviewing, janitor>>

\* The call fails, or the backend stops and forgets the request.  requestOcr
\* catches what fails from the storage read on.
FailRequest(q) ==
  /\ setup.faults
  /\ request[q] \in Calls
  /\ \/ Proceed(q, "over")
     \/ request[q] \in {"read", "start", "record"} /\ Proceed(q, "fail")

------------------------------------------------------------------------------
(***************************************************************************)
(* The workflow execution.                                                 *)
(***************************************************************************)
Enter(r, phase) == run' = [run EXCEPT ![r].phase = phase]

NodeAt(r, n, at) == run' = [run EXCEPT ![r].node[n] = at]

\* The workflow function throws: the failure hook is skipped if cancelled.
AfterError(r) == IF run[r].cancelled THEN "closed" ELSE "failing"

Quiet(r) == \A n \in Nodes : run[r].node[n] \notin InFlight

Ready(r) == {n \in DOMAIN setup.graph :
  /\ run[r].node[n] = "todo"
  /\ \A m \in setup.graph[n] : run[r].node[m] = "done"}

\* The pre-execution hook.
PreExecution(r) ==
  /\ run[r].phase = "starting"
  /\ SetStatus("ongoing_ocr")
  /\ Enter(r, "graph")
  /\ UNCHANGED <<setup, files, request, reviewing, janitor>>

\* Runner version, configuration hash and graph are checked before the hook.
RejectConfig(r) ==
  /\ run[r].phase = "starting"
  /\ Enter(r, AfterError(r))
  /\ UNCHANGED <<setup, doc, files, request, reviewing, janitor>>

BeginBatch(r) ==
  /\ run[r].phase = "graph" /\ Quiet(r) /\ ~run[r].cancelled
  /\ Ready(r) # {}
  /\ run' = [run EXCEPT ![r].node =
               [n \in Nodes |->
                  IF n \in Ready(r) THEN "running" ELSE run[r].node[n]]]
  /\ UNCHANGED <<setup, doc, files, request, reviewing, janitor>>

\* An activity that is in flight ends whatever has become of its workflow.
ReportStatus(r) ==
  /\ run[r].node["report"] = "running"
  /\ SetStatus("ongoing_ocr")
  /\ NodeAt(r, "report", "done")
  /\ UNCHANGED <<setup, files, request, reviewing, janitor>>

Work(r) ==
  /\ run[r].node["work"] = "running"
  /\ NodeAt(r, "work", "done")
  /\ UNCHANGED <<setup, doc, files, request, reviewing, janitor>>

\* Mutant of StoreResult: the status is written before the result.
StoreStatusFirst(r) ==
  /\ run[r].node["store"] = "running"
  /\ SetStatus("extracted")
  /\ NodeAt(r, "store", "stored")
  /\ UNCHANGED <<setup, files, request, reviewing, janitor>>

\* The first write of ocr.storeResults; without a document (P2003) its last.
StoreResult(r) ==
  /\ run[r].node["store"] = "running"
  /\ doc' = IF Exists THEN [doc EXCEPT !.result = TRUE] ELSE doc
  /\ NodeAt(r, "store", IF Exists THEN "stored" ELSE "done")
  /\ UNCHANGED <<setup, files, request, reviewing, janitor>>

StoreStatus(r) ==
  /\ run[r].node["store"] = "stored"
  /\ SetStatus("extracted")
  /\ NodeAt(r, "store", "done")
  /\ UNCHANGED <<setup, files, request, reviewing, janitor>>

RequestReview(r) ==
  /\ run[r].node["review"] = "running"
  /\ SetStatus("awaiting_review")
  /\ NodeAt(r, "review", "waiting")
  /\ UNCHANGED <<setup, files, request, reviewing, janitor>>

\* The gate's signal has come, or its timeout lets the workflow continue.
PassGate(r) ==
  /\ run[r].phase = "graph"
  /\ run[r].node["review"] = "waiting"
  /\ NodeAt(r, "review", "done")
  /\ UNCHANGED <<setup, doc, files, request, reviewing, janitor>>

\* A node fails for good (or the gate is rejected): Promise.all rejects, the
\* other nodes of the batch stay in flight.
FailNode(r, n) ==
  /\ run[r].node[n] \in InFlight
  /\ run' = [run EXCEPT ![r].node[n] = "dropped",
               ![r].phase = IF @ = "graph" THEN AfterError(r) ELSE @]
  /\ UNCHANGED <<setup, doc, files, request, reviewing, janitor>>

FinishGraph(r) ==
  /\ run[r].phase = "graph" /\ Quiet(r)
  /\ run[r].cancelled \/ Ready(r) = {}
  /\ Enter(r, IF run[r].cancelled THEN "closed" ELSE "completed")
  /\ UNCHANGED <<setup, doc, files, request, reviewing, janitor>>

\* The post-execution hook: two activities, what it reads may be gone when it
\* writes.
ReadAfterSuccess(r) ==
  /\ run[r].phase = "completed"
  /\ Enter(r, IF doc.status = "extracted" THEN "completing" ELSE "closed")
  /\ UNCHANGED <<setup, doc, files, request, reviewing, janitor>>

Complete(r) ==
  /\ run[r].phase = "completing"
  /\ SetStatus("complete")
  /\ Enter(r, "closed")
  /\ UNCHANGED <<setup, files, request, reviewing, janitor>>

\* Mutant of ReadAfterFailure: the document is marked whatever its status.
ReadWithoutGuard(r) ==
  /\ run[r].phase = "failing"
  /\ Enter(r, "marking")
  /\ UNCHANGED <<setup, doc, files, request, reviewing, janitor>>

\* Mutant of ReadAfterFailure: only a document that waits is marked.
ReadForWaiting(r) ==
  /\ run[r].phase = "failing"
  /\ Enter(r, IF doc.status = "pre_ocr" THEN "marking" ELSE "closed")
  /\ UNCHANGED <<setup, doc, files, request, reviewing, janitor>>

\* The failure hook, likewise two activities.
ReadAfterFailure(r) ==
  /\ run[r].phase = "failing"
  /\ Enter(r, IF doc.status \in Processing THEN "marking" ELSE "closed")
  /\ UNCHANGED <<setup, doc, files, request, reviewing, janitor>>

MarkRunFailed(r) ==
  /\ run[r].phase = "marking"
  /\ SetStatus("failed")
  /\ Enter(r, "closed")
  /\ UNCHANGED <<setup, files, request, reviewing, janitor>>

\* An activity of a hook fails for good: the hook swallows the error.
FailHook(r) ==
  /\ setup.faults
  /\ run[r].phase \in {"completed", "completing", "failing", "marking"}
  /\ Enter(r, "closed")
  /\ UNCHANGED <<setup, doc, files, request, reviewing, janitor>>

\* The only caller of cancelWorkflow cancels immediately.
Cancel(r) ==
  /\ run[r].phase \in OpenPhases /\ ~run[r].cancelled
  /\ run' = [run EXCEPT ![r].cancelled = TRUE]
  /\ UNCHANGED <<setup, doc, files, request, reviewing, janitor>>

\* workflowExecutionTimeout: the run ends without a hook.
TimeOut(r) ==
  /\ run[r].phase \in OpenPhases
  /\ Enter(r, "cut")
  /\ UNCHANGED <<setup, doc, files, request, reviewing, janitor>>

------------------------------------------------------------------------------
(***************************************************************************)
(* Reviewers (in detail in ReviewLock) and the purge job.                  *)
(***************************************************************************)
\* The review queue offers the document: it waits for a review, or has been
\* extracted and is asked for, and there is a result to look at.
Offered == doc.status \in {"extracted", "awaiting_review"} /\ doc.result

StartReview ==
  /\ Offered /\ ~reviewing
  /\ reviewing' = TRUE
  /\ UNCHANGED <<setup, doc, files, request, run, janitor>>

ApproveReview ==
  /\ reviewing
  /\ SetStatus("complete")
  /\ reviewing' = FALSE
  /\ UNCHANGED <<setup, files, request, run, janitor>>

\* Mutant of FindPurgeable: a failed run's document need not have been marked.
FindAnyUnpurged ==
  /\ janitor = {}
  /\ setup.ephemeral # {} /\ Exists /\ ~doc.purged
  /\ janitor' = {"stamp"} \cup
       (setup.ephemeral \ (IF doc.execution THEN {} ELSE {"record"}))
  /\ UNCHANGED <<setup, doc, files, request, run, reviewing>>

FindPurgeable ==
  /\ janitor = {}
  /\ setup.ephemeral # {} /\ doc.status \in Purgeable /\ ~doc.purged
  /\ janitor' = {"stamp"} \cup
       (setup.ephemeral \ (IF doc.execution THEN {} ELSE {"record"}))
  /\ UNCHANGED <<setup, doc, files, request, run, reviewing>>

PurgeFiles ==
  /\ "files" \in janitor
  /\ files' = FALSE
  /\ janitor' = janitor \ {"files"}
  /\ UNCHANGED <<setup, doc, request, run, reviewing>>

\* Temporal terminates a running execution before it deletes its record.
DeleteExecution ==
  /\ "record" \in janitor /\ "files" \notin janitor
  /\ run' = [r \in Requests |->
       IF run[r].phase \in OpenPhases THEN [run[r] EXCEPT !.phase = "cut"]
       ELSE run[r]]
  /\ janitor' = janitor \ {"record"}
  /\ UNCHANGED <<setup, doc, files, request, reviewing>>

StampPurged ==
  /\ janitor = {"stamp"}
  /\ doc' = IF Exists THEN [doc EXCEPT !.purged = TRUE] ELSE doc
  /\ janitor' = {}
  /\ UNCHANGED <<setup, files, request, run, reviewing>>

FailPurge ==
  /\ setup.faults /\ janitor # {}
  /\ janitor' = {}
  /\ UNCHANGED <<setup, doc, files, request, run, reviewing>>

------------------------------------------------------------------------------
ServeRequest(q) ==
  \/ \E s \in Processing \cup {"conversion_failed"} : CreateDocument(q, s)
  \/ CheckSource(q) \/ CheckRunning(q)
  \/ FindDocument(q) \/ ReadFile(q) \/ StartGraphWorkflow(q)
  \/ RecordExecution(q) \/ MarkFailed(q)
  \/ DeleteRow(q) \/ DeleteFiles(q)

RunNode(r) ==
  \/ ReportStatus(r) \/ Work(r) \/ StoreResult(r) \/ StoreStatus(r)
  \/ RequestReview(r) \/ PassGate(r)
  \/ \E n \in Nodes : FailNode(r, n)

RunWorkflow(r) ==
  \/ PreExecution(r) \/ RejectConfig(r)
  \/ BeginBatch(r) \/ RunNode(r) \/ FinishGraph(r)
  \/ ReadAfterSuccess(r) \/ Complete(r)
  \/ ReadAfterFailure(r) \/ MarkRunFailed(r)

Purge == FindPurgeable \/ PurgeFiles \/ DeleteExecution \/ StampPurged

\* What users do, what fails and what is cut short.
Disturb ==
  \/ \E q \in Requests : BeginReprocess(q) \/ BeginDelete(q) \/ FailRequest(q)
  \/ \E r \in Requests : FailHook(r) \/ Cancel(r) \/ TimeOut(r)
  \/ StartReview \/ ApproveReview \/ FailPurge

Next ==
  \/ \E q \in Requests : ServeRequest(q) \/ RunWorkflow(q)
  \/ Purge
  \/ Disturb

Spec == Init /\ [][Next]_vars

(***************************************************************************)
(* A call that is awaited returns, and Temporal drives an execution and    *)
(* its activities to an end; a gate has a timeout.  Nobody has to re-run,  *)
(* delete or review a document.                                            *)
(***************************************************************************)
Fairness == \A q \in Requests :
  WF_vars(ServeRequest(q)) /\ WF_vars(RunWorkflow(q))

FairSpec == Spec /\ Fairness

------------------------------------------------------------------------------
(***************************************************************************)
(* Properties.                                                             *)
(***************************************************************************)
\* A document that counts as extracted or complete has its OCR result in the
\* database, whoever wrote the status and whatever was deleted, re-run, cut
\* short or approved on the way (the two writes of upsert-ocr-result.ts, the
\* post-execution hook, approveSession).
ExtractedHasResult == doc.status \in {"extracted", "complete"} => doc.result

\* No two nodes of the graph are ever in one batch.
Sequential == \A m, n \in DOMAIN setup.graph :
  m = n \/ m \in setup.graph[n] \/ n \in setup.graph[m]

\* A node that reports the status comes before those that move it on.
ReportsFirst == \A n \in {"store", "review"} \cap DOMAIN setup.graph :
  "report" \in DOMAIN setup.graph => n \notin setup.graph["report"]

Undisturbed ==
  ~setup.rerun /\ ~setup.faults /\ Sequential /\ ReportsFirst

\* A document that has been extracted, waits for a review or is complete is
\* never set back to processing or failed by a hook, a late activity or the
\* catch of requestOcr; for a document that is not re-run, under a graph
\* without parallel nodes that reports the status first, and a backend whose
\* calls succeed.
ProgressIsKept ==
  [][Undisturbed /\ doc.status \in Progressed
       => doc'.status \in Progressed \cup {"absent"}]_vars

\* Under the same circumstances the purge job, which works on what it has read,
\* never has a document in its hands that is still, or again, being processed.
PurgeSparesUndisturbed ==
  Undisturbed /\ janitor # {} => doc.status \notin Processing

Interrupted == \E r \in Requests : run[r].cancelled \/ run[r].phase = "cut"

\* The graph has an order, stores a result, and reports the status before it
\* does anything else.
StoresAResult ==
  /\ "store" \in DOMAIN setup.graph
  /\ \E level \in [Nodes -> 0..3] : \A n \in DOMAIN setup.graph :
       \A m \in setup.graph[n] : level[m] < level[n]
  /\ "report" \in DOMAIN setup.graph =>
       \A n \in DOMAIN setup.graph \ {"report"} : "report" \in setup.graph[n]

\* A request or a run has yet to write the status, or to look at it.
Carried == \E q \in Requests :
  \/ request[q] \in {"find", "read", "start", "fail"}
  \/ run[q].phase \in {"starting", "graph", "failing", "marking"}

\* Nobody drops a document that is in processing: as long as its status says so
\* somebody is there who will change it, however re-runs overlap, runs fail and
\* activities end late.  No fairness is asked for, but calls that succeed, a run
\* that is neither cancelled nor cut short, no purge, and a graph as above.
ProcessingIsCarried ==
  /\ ~setup.faults /\ setup.ephemeral = {} /\ StoresAResult
  /\ doc.status \in Processing
  => Carried \/ Interrupted

\* A document does not stay in processing: unless its run is cancelled or cut
\* short by Temporal's execution timeout, it gets out of it, however the run
\* and however overlapping re-runs end.  Calls succeed, nothing is purged, and
\* the graph stores a result.
GetsOutOfProcessing ==
  (~setup.faults /\ setup.ephemeral = {} /\ doc.status \in Processing)
    ~> (doc.status \notin Processing \/ Interrupted)
=============================================================================
