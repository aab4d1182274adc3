----------------------- MODULE DocumentLifecycleProofs -----------------------
(***************************************************************************)
(* Theorems about DocumentLifecycle, for any number of requests and any    *)
(* graphs; and, at the end, about the semaphore that bounds the uploads.   *)
(***************************************************************************)
EXTENDS DocumentLifecycle, UploadLimiter, FiniteSetTheorems, TLAPS

\* Rows keep their shape under the writes of the module.
LEMMA RowWrites ==
  ASSUME doc \in Rows \cup {NoRow}
  PROVE  /\ Exists <=> doc \in Rows
         /\ \A s \in Processing \cup Progressed \cup Purgeable :
              /\ [NoRow EXCEPT !.status = s] \in Rows
              /\ Exists => [doc EXCEPT !.status = s] \in Rows
         /\ Exists => /\ [doc EXCEPT !.result = TRUE] \in Rows
                      /\ [doc EXCEPT !.purged = TRUE] \in Rows
                      /\ [doc EXCEPT !.execution = TRUE] \in Rows
<1> DEFINE Statuses == Processing \cup Progressed \cup Purgeable
<1>1. "absent" \notin Statuses
  BY DEF Processing, Progressed, Purgeable
<1>2. NoRow.status = "absent" /\ \A d \in Rows : d.status \in Statuses
  BY DEF NoRow, Rows
<1>3. NoRow \notin Rows
  BY <1>1, <1>2
<1>4. ASSUME NEW s \in Statuses
      PROVE  [NoRow EXCEPT !.status = s] \in Rows
  BY DEF NoRow, Rows
<1>5. ASSUME NEW d \in Rows, NEW s \in Statuses
      PROVE  [d EXCEPT !.status = s] \in Rows
  BY DEF Rows
<1>6. ASSUME NEW d \in Rows
      PROVE  /\ [d EXCEPT !.result = TRUE] \in Rows
             /\ [d EXCEPT !.purged = TRUE] \in Rows
             /\ [d EXCEPT !.execution = TRUE] \in Rows
  BY DEF Rows
<1>7. Exists <=> doc \in Rows
  BY <1>3 DEF Exists
<1> HIDE DEF Statuses
<1>8. /\ \A s \in Statuses : [NoRow EXCEPT !.status = s] \in Rows
      /\ Exists => \A s \in Statuses : [doc EXCEPT !.status = s] \in Rows
  BY <1>4, <1>5, <1>7
<1> QED BY <1>6, <1>7, <1>8 DEF Statuses

LEMMA SetStatusType ==
  ASSUME doc \in Rows \cup {NoRow},
         NEW s \in Processing \cup Progressed \cup Purgeable,
         SetStatus(s)
  PROVE  doc' \in Rows \cup {NoRow}
  BY RowWrites DEF SetStatus

\* Executions keep their shape when one of them enters a phase or a node of
\* it moves on.
LEMMA EnterType ==
  ASSUME run \in [Requests -> Executions], NEW r \in Requests,
         NEW p \in Phases
  PROVE  [run EXCEPT ![r].phase = p] \in [Requests -> Executions]
<1>1. [run[r] EXCEPT !.phase = p] \in Executions
  BY DEF Executions
<1> QED BY <1>1

LEMMA NodeType ==
  ASSUME run \in [Requests -> Executions], NEW r \in Requests,
         NEW n \in Nodes, NEW at \in Progress
  PROVE  [run EXCEPT ![r].node[n] = at] \in [Requests -> Executions]
<1>1. [run[r].node EXCEPT ![n] = at] \in [Nodes -> Progress]
  BY DEF Executions
<1>2. [run[r] EXCEPT !.node = [run[r].node EXCEPT ![n] = at]] \in Executions
  BY <1>1 DEF Executions
<1> QED BY <1>2

LEMMA RequestTypes ==
  ASSUME TypeOK, NEW q \in Requests,
         ServeRequest(q) \/ BeginReprocess(q) \/ BeginDelete(q)
                         \/ FailRequest(q)
  PROVE  TypeOK'
<1> USE DEF TypeOK, Proceed, Goto, Calls
<1>1. ASSUME NEW s \in Processing \cup {"conversion_failed"},
             CreateDocument(q, s)
      PROVE  TypeOK'
  BY <1>1, RowWrites DEF CreateDocument, Purgeable
<1>2. CASE CheckSource(q) \/ CheckRunning(q) \/ FindDocument(q) \/ ReadFile(q)
  BY <1>2 DEF CheckSource, CheckRunning, FindDocument, ReadFile
<1>3. CASE StartGraphWorkflow(q)
  <2>1. CASE Running
    BY <1>3, <2>1 DEF StartGraphWorkflow
  <2>2. CASE ~Running
    <3>1. run' = [run EXCEPT ![q].phase = "starting"]
      BY <1>3, <2>2 DEF StartGraphWorkflow
    <3>2. "starting" \in Phases
      BY DEF Phases, OpenPhases
    <3>3. run' \in [Requests -> Executions]
      BY <3>1, <3>2, EnterType
    <3> QED BY <1>3, <2>2, <3>3 DEF StartGraphWorkflow
  <2> QED BY <2>1, <2>2
<1>4. CASE RecordExecution(q)
  BY <1>4, RowWrites DEF RecordExecution
<1>5. CASE MarkFailed(q)
  BY <1>5, SetStatusType DEF MarkFailed, Purgeable
<1>6. CASE DeleteRow(q) \/ DeleteFiles(q)
  BY <1>6 DEF DeleteRow, DeleteFiles
<1>7. CASE BeginReprocess(q) \/ BeginDelete(q)
  BY <1>7 DEF BeginReprocess, BeginDelete
<1>8. CASE FailRequest(q)
  BY <1>8 DEF FailRequest
<1> QED BY <1>1, <1>2, <1>3, <1>4, <1>5, <1>6, <1>7, <1>8 DEF ServeRequest

LEMMA RunTypes ==
  ASSUME TypeOK, NEW r \in Requests,
         RunWorkflow(r) \/ FailHook(r) \/ Cancel(r) \/ TimeOut(r)
  PROVE  TypeOK'
<1> USE DEF TypeOK
<1>1. ASSUME NEW p \in Phases, Enter(r, p)
      PROVE  run' \in [Requests -> Executions]
  BY <1>1, EnterType DEF Enter
<1>2. ASSUME NEW n \in Nodes, NEW at \in Progress, NodeAt(r, n, at)
      PROVE  run' \in [Requests -> Executions]
  BY <1>2, NodeType DEF NodeAt
<1>3. AfterError(r) \in Phases
  BY DEF AfterError, Phases, OpenPhases
<1>4. Nodes = {"report", "work", "review", "store"}
      /\ {"running", "stored", "waiting", "done", "dropped"} \subseteq Progress
      /\ OpenPhases \cup {"closed", "cut"} \subseteq Phases
  BY DEF Nodes, Progress, InFlight, Phases
<1>5. CASE PreExecution(r) \/ ReportStatus(r)
  BY <1>1, <1>2, <1>4, <1>5, SetStatusType
  DEF PreExecution, ReportStatus, Processing, OpenPhases
<1>6. CASE RejectConfig(r) \/ FinishGraph(r)
  BY <1>1, <1>3, <1>4, <1>6 DEF RejectConfig, FinishGraph, OpenPhases
<1>7. CASE BeginBatch(r)
  <2> DEFINE Begun == [n \in Nodes |-> IF n \in Ready(r) THEN "running"
                                      ELSE run[r].node[n]]
  <2>1. Begun \in [Nodes -> Progress]
    BY <1>4 DEF Executions
  <2>2. [run[r] EXCEPT !.node = Begun] \in Executions
    BY <2>1 DEF Executions
  <2>3. run' = [run EXCEPT ![r] = [run[r] EXCEPT !.node = Begun]]
    BY <1>7 DEF BeginBatch
  <2> QED BY <1>7, <2>2, <2>3 DEF BeginBatch
<1>8. CASE Work(r) \/ PassGate(r)
  BY <1>2, <1>4, <1>8 DEF Work, PassGate
<1>9. CASE StoreResult(r)
  <2>1. run' \in [Requests -> Executions]
    BY <1>2, <1>4, <1>9 DEF StoreResult
  <2> QED BY <1>9, <2>1, RowWrites DEF StoreResult
<1>10. CASE StoreStatus(r) \/ RequestReview(r)
  BY <1>2, <1>4, <1>10, SetStatusType
  DEF StoreStatus, RequestReview, Progressed
<1>11. ASSUME NEW n \in Nodes, FailNode(r, n)
       PROVE  TypeOK'
  <2> DEFINE Failed == [run[r] EXCEPT !.node[n] = "dropped",
                          !.phase = IF @ = "graph" THEN AfterError(r) ELSE @]
  <2>1. [run[r].node EXCEPT ![n] = "dropped"] \in [Nodes -> Progress]
    BY <1>4 DEF Executions
  <2>2. Failed \in Executions
    BY <1>3, <2>1 DEF Executions
  <2>3. run' = [run EXCEPT ![r] = Failed]
    BY <1>11 DEF FailNode
  <2> QED BY <1>11, <2>2, <2>3 DEF FailNode
<1>12. CASE ReadAfterSuccess(r) \/ ReadAfterFailure(r)
  BY <1>1, <1>4, <1>12 DEF ReadAfterSuccess, ReadAfterFailure, OpenPhases
<1>13. CASE Complete(r) \/ MarkRunFailed(r)
  BY <1>1, <1>4, <1>13, SetStatusType
  DEF Complete, MarkRunFailed, Progressed, Purgeable
<1>14. CASE FailHook(r) \/ TimeOut(r)
  BY <1>1, <1>4, <1>14 DEF FailHook, TimeOut
<1>15. CASE Cancel(r)
  <2>1. [run[r] EXCEPT !.cancelled = TRUE] \in Executions
    BY DEF Executions
  <2> QED BY <1>15, <2>1 DEF Cancel
<1> QED
  BY <1>5, <1>6, <1>7, <1>8, <1>9, <1>10, <1>11, <1>12, <1>13, <1>14, <1>15
  DEF RunWorkflow, RunNode

LEMMA OtherTypes ==
  ASSUME TypeOK, Purge \/ StartReview \/ ApproveReview \/ FailPurge
  PROVE  TypeOK'
<1> USE DEF TypeOK
<1>1. CASE StartReview \/ ApproveReview
  BY <1>1, SetStatusType DEF StartReview, ApproveReview, Progressed
<1>2. CASE FindPurgeable
  BY <1>2, SetupsAssumption DEF FindPurgeable
<1>3. CASE PurgeFiles \/ FailPurge
  BY <1>3 DEF PurgeFiles, FailPurge
<1>4. CASE DeleteExecution
  <2>1. \A r \in Requests : [run[r] EXCEPT !.phase = "cut"] \in Executions
    BY DEF Executions, Phases
  <2> QED BY <1>4, <2>1 DEF DeleteExecution
<1>5. CASE StampPurged
  BY <1>5, RowWrites DEF StampPurged
<1> QED BY <1>1, <1>2, <1>3, <1>4, <1>5 DEF Purge

\* The row, the result, the requests, the executions and the purge job are
\* well typed, and a deleted document leaves neither row nor OCR result.
THEOREM TypeCorrect == Spec => []TypeOK
<1>1. Init => TypeOK
  <2>1. NoRun \in Executions
    BY DEF NoRun, Executions, Phases, Progress
  <2> QED BY <2>1 DEF Init, TypeOK, Calls
<1>2. TypeOK /\ [Next]_vars => TypeOK'
  <2> SUFFICES ASSUME TypeOK, [Next]_vars PROVE TypeOK'
    OBVIOUS
  <2>1. CASE UNCHANGED vars
    BY <2>1 DEF vars, TypeOK
  <2>2. CASE Next
    BY <2>2, RequestTypes, RunTypes, OtherTypes DEF Next, Disturb
  <2> QED BY <2>1, <2>2
<1> QED BY <1>1, <1>2, PTL DEF Spec

------------------------------------------------------------------------------
(***************************************************************************)
(* ExtractedHasResult.  A status that needs a result is written after the  *)
(* result, by an activity between its two writes, by a hook that has read  *)
(* "extracted", or for a review session, which began with a result to look *)
(* at; nothing but the deletion of the row takes the result away, and no   *)
(* row is created a second time.                                           *)
(***************************************************************************)
HasResult == Exists => doc.result

UploadIsFirst == request[Creator] = "upload" =>
  /\ ~Exists /\ ~reviewing
  /\ \A q \in Requests \ {Creator} : request[q] = "todo"
  /\ \A r \in Requests :
       run[r].phase = "none" /\ \A n \in Nodes : run[r].node[n] = "todo"

ResultInv ==
  /\ ExtractedHasResult
  /\ \A r \in Requests : run[r].node["store"] = "stored" => HasResult
  /\ \A r \in Requests : run[r].phase = "completing" => HasResult
  /\ reviewing => Exists /\ doc.result
  /\ \A q \in Requests : request[q] = "upload" => q = Creator
  /\ UploadIsFirst

LEMMA AbsentRow ==
  ASSUME TypeOK
  PROVE  Exists <=> doc.status # "absent"
  BY DEF TypeOK, Exists, Rows, NoRow, Processing, Progressed, Purgeable

\* What the writes change, and what they leave alone.
LEMMA SetStatusEffect ==
  ASSUME TypeOK, NEW s \in Processing \cup Progressed \cup Purgeable,
         SetStatus(s)
  PROVE  /\ Exists' <=> Exists
         /\ doc'.result = doc.result
         /\ doc'.status = IF Exists THEN s ELSE doc.status
<1>1. CASE Exists
  <2>1. doc' \in Rows
    BY <1>1, RowWrites DEF SetStatus, TypeOK
  <2>2. doc' # NoRow
    BY <2>1, RowWrites DEF Exists, Rows, NoRow, Processing, Progressed,
      Purgeable
  <2> QED BY <1>1, <2>2, RowWrites DEF SetStatus, Exists, Rows, TypeOK
<1>2. CASE ~Exists
  BY <1>2 DEF SetStatus, Exists
<1> QED BY <1>1, <1>2

LEMMA EnterEffect ==
  ASSUME TypeOK, NEW r \in Requests, NEW p, Enter(r, p), NEW x \in Requests
  PROVE  /\ run'[x].phase = IF x = r THEN p ELSE run[x].phase
         /\ run'[x].node = run[x].node
         /\ run'[x].cancelled = run[x].cancelled
  BY DEF TypeOK, Enter, Executions

LEMMA NodeEffect ==
  ASSUME TypeOK, NEW r \in Requests, NEW n \in Nodes, NEW at,
         NodeAt(r, n, at), NEW x \in Requests
  PROVE  /\ run'[x].phase = run[x].phase
         /\ run'[x].cancelled = run[x].cancelled
         /\ \A m \in Nodes : run'[x].node[m] =
              IF x = r /\ m = n THEN at ELSE run[x].node[m]
  BY DEF TypeOK, NodeAt, Executions

LEMMA BeginEffect ==
  ASSUME TypeOK, NEW r \in Requests, BeginBatch(r), NEW x \in Requests
  PROVE  /\ run'[x].phase = run[x].phase
         /\ run'[x].cancelled = run[x].cancelled
         /\ \A m \in Nodes : run'[x].node[m] =
              IF x = r /\ m \in Ready(r) THEN "running" ELSE run[x].node[m]
<1>1. run' = [run EXCEPT ![r].node = [n \in Nodes |->
                IF n \in Ready(r) THEN "running" ELSE run[r].node[n]]]
  BY DEF BeginBatch
<1> QED BY <1>1 DEF TypeOK, Executions

LEMMA FailEffect ==
  ASSUME TypeOK, NEW r \in Requests, NEW n \in Nodes, FailNode(r, n),
         NEW x \in Requests
  PROVE  /\ run'[x].phase = IF x = r /\ run[r].phase = "graph"
                            THEN AfterError(r) ELSE run[x].phase
         /\ run'[x].cancelled = run[x].cancelled
         /\ \A m \in Nodes : run'[x].node[m] =
              IF x = r /\ m = n THEN "dropped" ELSE run[x].node[m]
<1>1. run' = [run EXCEPT ![r].node[n] = "dropped",
               ![r].phase = IF @ = "graph" THEN AfterError(r) ELSE @]
  BY DEF FailNode
<1> HIDE DEF AfterError
<1> QED BY <1>1 DEF TypeOK, Executions

LEMMA GotoEffect ==
  ASSUME TypeOK, NEW q \in Requests, NEW call, Goto(q, call),
         NEW x \in Requests
  PROVE  request'[x] = IF x = q THEN call ELSE request[x]
  BY DEF TypeOK, Goto

LEMMA RequestKeepsResult ==
  ASSUME TypeOK, ResultInv, NEW q \in Requests,
         ServeRequest(q) \/ BeginReprocess(q) \/ BeginDelete(q)
                         \/ FailRequest(q)
  PROVE  ResultInv'
<1> USE CreatorAssumption
    DEF ResultInv, ExtractedHasResult, HasResult, UploadIsFirst
<1>1. ASSUME NEW s \in Processing \cup {"conversion_failed"},
             CreateDocument(q, s)
      PROVE  ResultInv'
  <2>1. q = Creator /\ request[Creator] = "upload"
    BY <1>1 DEF CreateDocument
  <2>2. doc'.status = s /\ s \notin {"extracted", "complete"}
    BY <1>1 DEF CreateDocument, NoRow, Processing
  <2>3. \A x \in Requests : request'[x] # "upload"
    BY <1>1, <2>1, GotoEffect DEF CreateDocument
  <2>4. \A r \in Requests : /\ run'[r].node["store"] = "todo"
                             /\ run'[r].phase = "none"
    BY <1>1, <2>1 DEF CreateDocument, Nodes
  <2> QED BY <1>1, <2>1, <2>2, <2>3, <2>4 DEF CreateDocument
<1>2. ASSUME NEW call, call # "upload", request[q] # "todo" \/ Exists,
             Proceed(q, call)
      PROVE  ResultInv'
  BY <1>2, GotoEffect DEF Proceed, Exists
<1>3. CASE CheckSource(q) \/ CheckRunning(q) \/ FindDocument(q) \/ ReadFile(q)
  BY <1>2, <1>3 DEF CheckSource, CheckRunning, FindDocument, ReadFile
<1>4. CASE StartGraphWorkflow(q)
  <2>1. request[Creator] # "upload"
    BY <1>4 DEF StartGraphWorkflow
  <2>2. \A x \in Requests : request'[x] = "upload" => request[x] = "upload"
    BY <1>4, GotoEffect DEF StartGraphWorkflow
  <2>3. UNCHANGED run \/ Enter(q, "starting")
    BY <1>4 DEF StartGraphWorkflow, Enter
  <2>4. \A x \in Requests :
          /\ run'[x].node = run[x].node
          /\ run'[x].phase = "completing" => run[x].phase = "completing"
    BY <2>3, EnterEffect
  <2>5. UNCHANGED <<doc, reviewing>>
    BY <1>4 DEF StartGraphWorkflow
  <2>6. request'[Creator] # "upload"
    BY <2>1, <2>2
  <2> QED BY <2>2, <2>4, <2>5, <2>6 DEF Exists
<1>5. CASE RecordExecution(q)
  <2>1. /\ Exists' <=> Exists
        /\ doc'.result = doc.result /\ doc'.status = doc.status
    BY <1>5 DEF RecordExecution, Exists, TypeOK, Rows, NoRow
  <2>2. \A x \in Requests : request'[x] = "upload" => request[x] = "upload"
    BY <1>5, GotoEffect DEF RecordExecution
  <2>3. request[Creator] # "upload"
    BY <1>5 DEF RecordExecution
  <2> QED BY <1>5, <2>1, <2>2, <2>3 DEF RecordExecution
<1>6. CASE MarkFailed(q)
  <2>1. "failed" \in Purgeable
    BY DEF Purgeable
  <2>2. /\ Exists' <=> Exists
        /\ doc'.result = doc.result
        /\ doc'.status = IF Exists THEN "failed" ELSE doc.status
    BY <1>6, <2>1, SetStatusEffect DEF MarkFailed
  <2>3. \A x \in Requests : request'[x] = "upload" => request[x] = "upload"
    BY <1>6, GotoEffect DEF MarkFailed
  <2>4. request[Creator] # "upload"
    BY <1>6 DEF MarkFailed
  <2> QED BY <1>6, <2>2, <2>3, <2>4 DEF MarkFailed
<1>7. CASE DeleteRow(q) \/ DeleteFiles(q)
  <2>1. \A x \in Requests : request'[x] = "upload" => request[x] = "upload"
    BY <1>7, GotoEffect DEF DeleteRow, DeleteFiles
  <2>2. request[Creator] # "upload"
    BY <1>7 DEF DeleteRow, DeleteFiles
  <2>3. \/ UNCHANGED <<doc, reviewing>>
        \/ ~Exists' /\ doc'.status = "absent" /\ ~reviewing'
    BY <1>7 DEF DeleteRow, DeleteFiles, Exists, NoRow
  <2> QED BY <1>7, <2>1, <2>2, <2>3 DEF DeleteRow, DeleteFiles, Exists
<1>8. CASE BeginReprocess(q) \/ BeginDelete(q)
  BY <1>2, <1>8, AbsentRow DEF BeginReprocess, BeginDelete
<1>9. CASE FailRequest(q)
  BY <1>2, <1>9 DEF FailRequest, Calls
<1> QED
  BY <1>1, <1>3, <1>4, <1>5, <1>6, <1>7, <1>8, <1>9 DEF ServeRequest

\* An execution that takes a step is one that has been started.
LEMMA StartedRun ==
  ASSUME TypeOK, ResultInv, NEW r \in Requests,
         RunWorkflow(r) \/ FailHook(r) \/ Cancel(r) \/ TimeOut(r)
  PROVE  request[Creator] # "upload"
<1>1. \/ run[r].phase # "none"
      \/ \E n \in Nodes : run[r].node[n] # "todo"
  BY DEF RunWorkflow, RunNode, FailHook, Cancel, TimeOut, OpenPhases,
         PreExecution, RejectConfig, BeginBatch, ReportStatus, Work,
         StoreResult, StoreStatus, RequestReview, PassGate, FailNode,
         FinishGraph, ReadAfterSuccess, Complete, ReadAfterFailure,
         MarkRunFailed, Nodes, InFlight
<1> QED BY <1>1 DEF ResultInv, UploadIsFirst

\* What a step of an execution has to show.
LEMMA KeepsResult ==
  ASSUME TypeOK, ResultInv, request[Creator] # "upload",
         UNCHANGED <<request, reviewing>>,
         Exists' <=> Exists, doc.result => doc'.result,
         ExtractedHasResult',
         \A x \in Requests :
           /\ run'[x].node["store"] = "stored" =>
                run[x].node["store"] = "stored" \/ HasResult'
           /\ run'[x].phase = "completing" =>
                run[x].phase = "completing" \/ HasResult'
  PROVE  ResultInv'
  BY DEF ResultInv, HasResult, UploadIsFirst

LEMMA RunKeepsResult ==
  ASSUME TypeOK, ResultInv, NEW r \in Requests,
         RunWorkflow(r) \/ FailHook(r) \/ Cancel(r) \/ TimeOut(r)
  PROVE  ResultInv'
<1> USE StartedRun
<1> DEFINE Statuses == Processing \cup Progressed \cup Purgeable
           NeedsResult == {"extracted", "complete"}
<1>1. ASSUME NEW s \in Statuses, SetStatus(s),
             s \in NeedsResult => HasResult
      PROVE  /\ Exists' <=> Exists
             /\ doc.result => doc'.result
             /\ HasResult' <=> HasResult
             /\ ExtractedHasResult'
  BY <1>1, SetStatusEffect, AbsentRow
  DEF ResultInv, ExtractedHasResult, HasResult
<1>2. ASSUME UNCHANGED doc
      PROVE  /\ Exists' <=> Exists
             /\ doc.result => doc'.result
             /\ HasResult' <=> HasResult
             /\ ExtractedHasResult'
  BY <1>2 DEF ResultInv, ExtractedHasResult, HasResult, Exists
<1>3. ASSUME NEW p, Enter(r, p), p = "completing" => HasResult',
             UNCHANGED <<request, reviewing>>,
             Exists' <=> Exists, doc.result => doc'.result, ExtractedHasResult'
      PROVE  ResultInv'
  BY <1>3, EnterEffect, KeepsResult
<1>4. ASSUME NEW n \in Nodes, NEW at, NodeAt(r, n, at),
             n = "store" /\ at = "stored" => HasResult',
             UNCHANGED <<request, reviewing>>,
             Exists' <=> Exists, doc.result => doc'.result, ExtractedHasResult'
      PROVE  ResultInv'
  BY <1>4, NodeEffect, KeepsResult DEF Nodes
<1>5. Statuses = {"pre_ocr", "ongoing_ocr", "extracted", "awaiting_review",
                  "complete", "failed", "conversion_failed"}
      /\ Nodes = {"report", "work", "review", "store"}
  BY DEF Processing, Progressed, Purgeable, Nodes
<1> HIDE DEF Statuses
<1>6. CASE PreExecution(r)
  BY <1>1, <1>3, <1>5, <1>6 DEF PreExecution
<1>7. CASE ReportStatus(r)
  BY <1>1, <1>4, <1>5, <1>7 DEF ReportStatus
<1>8. CASE RejectConfig(r) \/ FinishGraph(r)
  BY <1>2, <1>3, <1>8 DEF RejectConfig, FinishGraph, AfterError
<1>9. CASE BeginBatch(r)
  <2>1. \A x \in Requests :
          /\ run'[x].node["store"] = "stored" => run[x].node["store"] = "stored"
          /\ run'[x].phase = run[x].phase
    BY <1>5, <1>9, BeginEffect
  <2> QED BY <1>2, <1>9, <2>1, KeepsResult DEF BeginBatch
<1>10. CASE Work(r) \/ PassGate(r)
  BY <1>2, <1>4, <1>5, <1>10 DEF Work, PassGate
<1>11. CASE StoreResult(r)
  <2>1. /\ Exists' <=> Exists
        /\ doc.result => doc'.result
        /\ HasResult'
        /\ doc'.status = doc.status
    BY <1>11, RowWrites DEF StoreResult, Exists, HasResult, TypeOK, Rows, NoRow
  <2>2. ExtractedHasResult'
    BY <2>1 DEF ResultInv, ExtractedHasResult
  <2> QED BY <1>4, <1>5, <1>11, <2>1, <2>2 DEF StoreResult
<1>12. CASE StoreStatus(r)
  <2>1. HasResult
    BY <1>12 DEF StoreStatus, ResultInv
  <2> QED BY <1>1, <1>4, <1>5, <1>12, <2>1 DEF StoreStatus
<1>13. CASE RequestReview(r)
  BY <1>1, <1>4, <1>5, <1>13 DEF RequestReview
<1>14. ASSUME NEW n \in Nodes, FailNode(r, n)
       PROVE  ResultInv'
  <2>1. \A x \in Requests :
          /\ run'[x].node["store"] = "stored" => run[x].node["store"] = "stored"
          /\ run'[x].phase = "completing" => run[x].phase = "completing"
    BY <1>5, <1>14, FailEffect DEF AfterError
  <2> QED BY <1>2, <1>14, <2>1, KeepsResult DEF FailNode
<1>15. CASE ReadAfterSuccess(r)
  <2>1. doc.status = "extracted" => HasResult
    BY DEF ResultInv, ExtractedHasResult, HasResult
  <2> QED BY <1>2, <1>3, <1>15, <2>1 DEF ReadAfterSuccess
<1>16. CASE ReadAfterFailure(r)
  BY <1>2, <1>3, <1>16 DEF ReadAfterFailure
<1>17. CASE Complete(r)
  <2>1. HasResult
    BY <1>17 DEF Complete, ResultInv
  <2> QED BY <1>1, <1>3, <1>5, <1>17, <2>1 DEF Complete
<1>18. CASE MarkRunFailed(r)
  BY <1>1, <1>3, <1>5, <1>18 DEF MarkRunFailed
<1>19. CASE FailHook(r) \/ TimeOut(r)
  BY <1>2, <1>3, <1>19 DEF FailHook, TimeOut
<1>20. CASE Cancel(r)
  <2>1. \A x \in Requests :
          run'[x].node = run[x].node /\ run'[x].phase = run[x].phase
    BY <1>20 DEF Cancel, TypeOK, Executions
  <2> QED BY <1>2, <1>20, <2>1, KeepsResult DEF Cancel
<1> QED
  BY <1>6, <1>7, <1>8, <1>9, <1>10, <1>11, <1>12, <1>13, <1>14, <1>15, <1>16,
     <1>17, <1>18, <1>19, <1>20
  DEF RunWorkflow, RunNode

LEMMA OthersKeepResult ==
  ASSUME TypeOK, ResultInv, Purge \/ StartReview \/ ApproveReview \/ FailPurge
  PROVE  ResultInv'
<1> USE DEF ResultInv, ExtractedHasResult, HasResult, UploadIsFirst, TypeOK,
            Exists
<1>1. CASE StartReview
  BY <1>1, AbsentRow DEF StartReview, Offered
<1>2. CASE ApproveReview
  BY <1>2 DEF ApproveReview, SetStatus, Rows, NoRow
<1>3. CASE FindPurgeable \/ PurgeFiles \/ FailPurge
  BY <1>3 DEF FindPurgeable, PurgeFiles, FailPurge
<1>4. CASE DeleteExecution
  BY <1>4 DEF DeleteExecution, Executions, OpenPhases
<1>5. CASE StampPurged
  BY <1>5 DEF StampPurged, Rows, NoRow
<1> QED BY <1>1, <1>2, <1>3, <1>4, <1>5 DEF Purge

LEMMA ResultCorrect == Spec => []ResultInv
<1>1. Init => ResultInv
  BY CreatorAssumption
  DEF Init, ResultInv, ExtractedHasResult, HasResult, UploadIsFirst, Exists,
      NoRow, NoRun, Nodes
<1>2. TypeOK /\ ResultInv /\ [Next]_vars => ResultInv'
  <2> SUFFICES ASSUME TypeOK, ResultInv, [Next]_vars PROVE ResultInv'
    OBVIOUS
  <2>1. CASE UNCHANGED vars
    BY <2>1 DEF vars, ResultInv, ExtractedHasResult, HasResult, UploadIsFirst,
                Exists
  <2>2. CASE Next
    BY <2>2, RequestKeepsResult, RunKeepsResult, OthersKeepResult
    DEF Next, Disturb
  <2> QED BY <2>1, <2>2
<1> QED BY <1>1, <1>2, TypeCorrect, PTL DEF Spec

\* Whatever requests, runs, reviews and purges do at the same time, and
\* whatever fails: a document that counts as extracted or complete has its OCR
\* result.
THEOREM ExtractedIsStored == Spec => []ExtractedHasResult
<1>1. ResultInv => ExtractedHasResult
  BY DEF ResultInv
<1> QED BY <1>1, ResultCorrect, PTL

------------------------------------------------------------------------------
(***************************************************************************)
(* ProgressIsKept and PurgeSparesUndisturbed.  Without re-runs one request *)
(* starts one execution; without parallel nodes one node is in flight, so  *)
(* a run that has failed leaves nothing behind that could still write, and *)
(* a late activity of a run that was cut short is the only one.  While the *)
(* document is in processing nobody else has laid hands on it: it cannot   *)
(* be deleted, reviewed or purged; and whatever could set it back, to      *)
(* processing or to failed, is pending only while it is in processing.     *)
(***************************************************************************)
Unstarted(r) ==
  run[r].phase = "none" /\ \A n \in Nodes : run[r].node[n] = "todo"

OnlyCreatorRuns == \A q \in Requests \ {Creator} :
  request[q] \in {"todo", "delete", "unlink", "over"} /\ Unstarted(q)

CreatorStarts ==
  /\ request[Creator] \in {"upload", "find", "read", "start", "record", "over"}
  /\ request[Creator] = "upload" => janitor = {}
  /\ request[Creator] \in {"find", "read", "start"} =>
       doc.status \in Processing
  /\ request[Creator] \in {"upload", "find", "read", "start"} =>
       Unstarted(Creator)

ProcessedAlone == doc.status \in Processing =>
  /\ files /\ ~reviewing /\ janitor = {}
  /\ \A q \in Requests : request[q] \notin {"delete", "unlink"}

InOrder ==
  /\ \A n \in Nodes \ DOMAIN setup.graph : run[Creator].node[n] = "todo"
  /\ \A n \in DOMAIN setup.graph : run[Creator].node[n] # "todo" =>
       \A m \in setup.graph[n] : run[Creator].node[m] = "done"
  /\ run[Creator].phase \notin {"graph", "cut"} => Quiet(Creator)
  /\ run[Creator].phase = "starting" =>
       \A n \in Nodes : run[Creator].node[n] = "todo"

\* Nothing has moved the document on yet.
Early ==
  \/ run[Creator].phase \in {"starting", "marking"}
  \/ run[Creator].node["report"] = "running"
  \/ /\ run[Creator].phase = "graph"
     /\ run[Creator].node["store"] = "todo"
     /\ run[Creator].node["review"] = "todo"

CalmInv ==
  /\ OnlyCreatorRuns /\ CreatorStarts /\ ProcessedAlone /\ InOrder
  /\ Early => doc.status \in Processing

UndisturbedInv == Undisturbed => CalmInv

\* A document that has made progress loses it in this step.
Regresses ==
  doc.status \in Progressed /\ doc'.status \notin Progressed \cup {"absent"}

\* Only the creator's execution takes steps, once its request has started it.
LEMMA CreatorRuns ==
  ASSUME CalmInv, NEW r \in Requests,
         RunWorkflow(r) \/ FailHook(r) \/ Cancel(r) \/ TimeOut(r)
  PROVE  r = Creator /\ request[Creator] \in {"record", "over"}
<1>1. ~Unstarted(r)
  BY DEF RunWorkflow, RunNode, FailHook, Cancel, TimeOut, OpenPhases,
         PreExecution, RejectConfig, BeginBatch, ReportStatus, Work,
         StoreResult, StoreStatus, RequestReview, PassGate, FailNode,
         FinishGraph, ReadAfterSuccess, Complete, ReadAfterFailure,
         MarkRunFailed, Nodes, InFlight, Unstarted
<1> QED BY <1>1 DEF CalmInv, OnlyCreatorRuns, CreatorStarts

\* Under a graph without parallel nodes one node is in flight, ...
LEMMA OneInFlight ==
  ASSUME InOrder, Sequential, NEW m \in Nodes, NEW n \in Nodes,
         run[Creator].node[m] \in InFlight, run[Creator].node[n] \in InFlight
  PROVE  m = n
<1>1. "done" \notin InFlight /\ "todo" \notin InFlight
  BY DEF InFlight
<1>2. m \in DOMAIN setup.graph /\ n \in DOMAIN setup.graph
  BY <1>1 DEF InOrder
<1>3. m \notin setup.graph[n] /\ n \notin setup.graph[m]
  BY <1>1, <1>2 DEF InOrder
<1> QED BY <1>2, <1>3 DEF Sequential

\* ... and if it reports the status first, the nodes that move the document on
\* wait for that.
LEMMA ReportIsFirst ==
  ASSUME InOrder, Sequential, ReportsFirst, "report" \in DOMAIN setup.graph,
         run[Creator].node["report"] # "done"
  PROVE  /\ run[Creator].node["store"] = "todo"
         /\ run[Creator].node["review"] = "todo"
<1>1. ASSUME NEW n \in {"store", "review"}
      PROVE  run[Creator].node[n] = "todo"
  <2>1. CASE n \in DOMAIN setup.graph
    <3>1. "report" \in setup.graph[n]
      BY <2>1, <1>1 DEF Sequential, ReportsFirst
    <3> QED BY <2>1, <3>1 DEF InOrder
  <2>2. CASE n \notin DOMAIN setup.graph
    BY <2>2 DEF InOrder, Nodes
  <2> QED BY <2>1, <2>2
<1> QED BY <1>1

\* What a step of the execution has to show.
LEMMA KeepsCalm ==
  ASSUME CalmInv, request[Creator] \in {"record", "over"},
         UNCHANGED <<setup, files, request, reviewing, janitor>>,
         \A x \in Requests \ {Creator} : Unstarted(x) => Unstarted(x)',
         InOrder', Early' => doc'.status \in Processing,
         doc'.status \in Processing => doc.status \in Processing
  PROVE  CalmInv'
  BY DEF CalmInv, OnlyCreatorRuns, CreatorStarts, ProcessedAlone

LEMMA NodeKeepsOrder ==
  ASSUME TypeOK, InOrder, UNCHANGED setup,
         NEW n \in Nodes, NEW at, at # "todo",
         run[Creator].node[n] \in InFlight, NodeAt(Creator, n, at)
  PROVE  /\ InOrder'
         /\ \A x \in Requests \ {Creator} : Unstarted(x) => Unstarted(x)'
         /\ Early' => \/ n = "report" /\ at = "running"
                     \/ Early
<1> USE CreatorAssumption
<1>1. run[Creator].node[n] \notin {"done", "todo"}
  BY DEF InFlight
<1>2. \A x \in Requests :
        /\ run'[x].phase = run[x].phase
        /\ \A m \in Nodes : run'[x].node[m] =
             IF x = Creator /\ m = n THEN at ELSE run[x].node[m]
  BY NodeEffect
<1>3. setup.graph' = setup.graph /\ DOMAIN setup.graph \subseteq Nodes
      /\ \A m \in DOMAIN setup.graph : setup.graph[m] \subseteq Nodes
  BY SetupsAssumption DEF TypeOK
<1>4. run[Creator].phase \in {"graph", "cut"}
  BY DEF InOrder, Quiet
<1>5. InOrder'
  BY <1>1, <1>2, <1>3, <1>4 DEF InOrder
<1>6. Early' => (n = "report" /\ at = "running") \/ Early
  BY <1>2 DEF Early, Nodes
<1> QED BY <1>2, <1>5, <1>6 DEF Unstarted

LEMMA PhaseKeepsOrder ==
  ASSUME TypeOK, InOrder, UNCHANGED setup, NEW p, Enter(Creator, p),
         p # "starting", p \in {"graph", "cut"} \/ Quiet(Creator)
  PROVE  /\ InOrder'
         /\ \A x \in Requests \ {Creator} : Unstarted(x) => Unstarted(x)'
         /\ Early' => \/ p = "marking" \/ p = "graph" \/ Early
<1>1. \A x \in Requests :
        /\ run'[x].phase = IF x = Creator THEN p ELSE run[x].phase
        /\ run'[x].node = run[x].node
  BY EnterEffect, CreatorAssumption
<1>2. InOrder'
  BY <1>1, CreatorAssumption DEF InOrder, Quiet
<1> QED BY <1>1, <1>2, CreatorAssumption DEF Unstarted, Early

LEMMA RunKeepsCalm ==
  ASSUME TypeOK, CalmInv, Sequential, ReportsFirst, NEW r \in Requests,
         RunWorkflow(r) \/ Cancel(r) \/ TimeOut(r)
  PROVE  CalmInv' /\ ~Regresses
<1> DEFINE Statuses == Processing \cup Progressed \cup Purgeable
           n(x) == run[Creator].node[x]
<1>1. r = Creator /\ request[Creator] \in {"record", "over"}
  BY CreatorRuns
<1>2. InOrder /\ (Early => doc.status \in Processing)
  BY DEF CalmInv
<1>3. /\ Nodes = {"report", "work", "review", "store"}
      /\ InFlight = {"running", "stored", "waiting"}
      /\ Processing = {"pre_ocr", "ongoing_ocr"}
      /\ Progressed = {"extracted", "awaiting_review", "complete"}
      /\ Statuses = {"pre_ocr", "ongoing_ocr", "extracted", "awaiting_review",
                     "complete", "failed", "conversion_failed"}
  BY DEF Processing, Progressed, Purgeable, Nodes, InFlight
<1>4. run[Creator].phase \notin {"graph", "cut"} =>
        \A x \in Nodes : n(x) \notin InFlight
  BY <1>2 DEF InOrder, Quiet
<1>5. ASSUME NEW s \in Statuses, SetStatus(s)
      PROVE  doc'.status = IF Exists THEN s ELSE doc.status
  BY <1>5, SetStatusEffect
<1>6. doc.status \in Processing => Exists
  BY <1>3, AbsentRow
<1>7. ASSUME doc'.status = doc.status
      PROVE  ~Regresses
  BY <1>7 DEF Regresses
<1> HIDE DEF Statuses
<1>8. CASE PreExecution(r)
  <2>1. doc.status \in Processing /\ doc'.status \in Processing
    BY <1>1, <1>2, <1>3, <1>5, <1>6, <1>8 DEF PreExecution, Early
  <2>2. InOrder'
        /\ \A x \in Requests \ {Creator} : Unstarted(x) => Unstarted(x)'
    BY <1>1, <1>2, <1>8, PhaseKeepsOrder DEF PreExecution
  <2> QED BY <1>1, <1>3, <1>8, <2>1, <2>2, KeepsCalm
     DEF PreExecution, Regresses
<1>9. CASE RejectConfig(r) \/ ReadAfterSuccess(r) \/ FinishGraph(r)
           \/ ReadAfterFailure(r) \/ TimeOut(r)
  <2>1. PICK p : /\ Enter(Creator, p)
                 /\ p \notin {"starting", "graph"}
                 /\ p = "marking" => doc.status \in Processing
                 /\ p = "cut" \/ Quiet(Creator)
    BY <1>1, <1>2, <1>9
    DEF RejectConfig, ReadAfterSuccess, FinishGraph, ReadAfterFailure, TimeOut,
        AfterError, InOrder
  <2>2. UNCHANGED <<setup, doc, files, request, reviewing, janitor>>
    BY <1>9 DEF RejectConfig, ReadAfterSuccess, FinishGraph, ReadAfterFailure,
                TimeOut
  <2>3. /\ InOrder'
        /\ \A x \in Requests \ {Creator} : Unstarted(x) => Unstarted(x)'
        /\ Early' => p = "marking" \/ Early
    BY <1>2, <2>1, <2>2, PhaseKeepsOrder
  <2> QED BY <1>1, <1>2, <1>7, <2>1, <2>2, <2>3, KeepsCalm
<1>10. CASE Complete(r) \/ MarkRunFailed(r)
  <2>1. /\ run[Creator].phase \in {"completing", "marking"}
        /\ Enter(Creator, "closed") /\ Quiet(Creator)
        /\ UNCHANGED <<setup, files, request, reviewing, janitor>>
    BY <1>1, <1>2, <1>10 DEF Complete, MarkRunFailed, InOrder
  <2>2. /\ InOrder'
        /\ \A x \in Requests \ {Creator} : Unstarted(x) => Unstarted(x)'
    BY <1>2, <2>1, PhaseKeepsOrder
  <2>3. ~Early'
    <3>1. /\ run'[Creator].phase = "closed"
          /\ run'[Creator].node = run[Creator].node
      BY <2>1, EnterEffect, CreatorAssumption
    <3>2. n("report") # "running"
      BY <1>3, <2>1 DEF Quiet
    <3> QED BY <3>1, <3>2 DEF Early
  <2>4. doc'.status \notin Processing \/ doc'.status = doc.status
    BY <1>3, <1>5, <1>10 DEF Complete, MarkRunFailed
  <2>5. ~Regresses
    BY <1>1, <1>2, <1>3, <1>5, <1>10
    DEF Complete, MarkRunFailed, Early, Regresses
  <2> QED BY <1>1, <2>1, <2>2, <2>3, <2>4, <2>5, KeepsCalm
<1>11. CASE Cancel(r)
  <2>1. \A x \in Requests :
          run'[x].node = run[x].node /\ run'[x].phase = run[x].phase
    BY <1>11 DEF Cancel, TypeOK, Executions
  <2>2. UNCHANGED <<setup, doc, files, request, reviewing, janitor>>
    BY <1>11 DEF Cancel
  <2>3. InOrder' /\ (Early' => Early)
    BY <1>2, <2>1, <2>2, CreatorAssumption DEF InOrder, Early, Quiet
  <2> QED BY <1>1, <1>2, <1>7, <2>1, <2>2, <2>3, KeepsCalm DEF Unstarted
<1>12. CASE BeginBatch(r)
  <2>1. \A x \in Requests :
          /\ run'[x].phase = run[x].phase
          /\ \A m \in Nodes : run'[x].node[m] =
               IF x = Creator /\ m \in Ready(Creator) THEN "running"
               ELSE run[x].node[m]
    BY <1>1, <1>12, BeginEffect
  <2>2. /\ UNCHANGED <<setup, doc, files, request, reviewing, janitor>>
        /\ run[Creator].phase = "graph" /\ Quiet(Creator)
    BY <1>1, <1>12 DEF BeginBatch
  <2>3. DOMAIN setup.graph \subseteq Nodes
        /\ \A m \in DOMAIN setup.graph : setup.graph[m] \subseteq Nodes
    BY SetupsAssumption DEF TypeOK
  <2>4. InOrder'
    BY <1>2, <2>1, <2>2, <2>3, CreatorAssumption DEF InOrder, Ready
  <2>5. Early' => Early
    <3>1. CASE "report" \in Ready(Creator)
      BY <1>2, <2>2, <3>1, ReportIsFirst DEF Ready, Early
    <3>2. CASE "report" \notin Ready(Creator)
      BY <1>3, <2>1, <2>2, <3>2, CreatorAssumption DEF Early, Quiet
    <3> QED BY <3>1, <3>2
  <2>6. \A x \in Requests \ {Creator} : Unstarted(x) => Unstarted(x)'
    BY <2>1 DEF Unstarted
  <2> QED BY <1>1, <1>2, <1>7, <2>2, <2>4, <2>5, <2>6, KeepsCalm
<1>13. CASE ReportStatus(r)
  <2>1. doc.status \in Processing /\ doc'.status \in Processing
    BY <1>1, <1>2, <1>3, <1>5, <1>6, <1>13 DEF ReportStatus, Early
  <2>2. InOrder'
        /\ \A x \in Requests \ {Creator} : Unstarted(x) => Unstarted(x)'
    BY <1>1, <1>2, <1>3, <1>13, NodeKeepsOrder DEF ReportStatus
  <2> QED BY <1>1, <1>3, <1>13, <2>1, <2>2, KeepsCalm
     DEF ReportStatus, Regresses
<1>14. CASE Work(r) \/ PassGate(r)
  <2>1. PICK m \in Nodes :
          n(m) \in InFlight /\ NodeAt(Creator, m, "done")
    BY <1>1, <1>3, <1>14 DEF Work, PassGate
  <2>2. UNCHANGED <<setup, doc, files, request, reviewing, janitor>>
    BY <1>14 DEF Work, PassGate
  <2>3. /\ InOrder' /\ (Early' => Early)
        /\ \A x \in Requests \ {Creator} : Unstarted(x) => Unstarted(x)'
    BY <1>2, <2>1, <2>2, NodeKeepsOrder
  <2> QED BY <1>1, <1>2, <1>7, <2>2, <2>3, KeepsCalm
<1>15. CASE StoreResult(r)
  <2>1. PICK at : /\ at \in {"stored", "done"} /\ n("store") \in InFlight
                  /\ NodeAt(Creator, "store", at)
    BY <1>1, <1>3, <1>15 DEF StoreResult
  <2>2. UNCHANGED <<setup, files, request, reviewing, janitor>>
        /\ doc'.status = doc.status
    BY <1>15 DEF StoreResult, TypeOK, Exists, Rows
  <2>3. /\ InOrder' /\ (Early' => Early)
        /\ \A x \in Requests \ {Creator} : Unstarted(x) => Unstarted(x)'
    BY <1>2, <1>3, <2>1, <2>2, NodeKeepsOrder
  <2> QED BY <1>1, <1>2, <1>7, <2>2, <2>3, KeepsCalm
<1>16. CASE StoreStatus(r) \/ RequestReview(r)
  <2>1. PICK m \in {"store", "review"}, at \in {"done", "waiting"} :
          n(m) \in InFlight /\ NodeAt(Creator, m, at)
    BY <1>1, <1>3, <1>16 DEF StoreStatus, RequestReview
  <2>2. UNCHANGED <<setup, files, request, reviewing, janitor>>
    BY <1>16 DEF StoreStatus, RequestReview
  <2>3. /\ InOrder'
        /\ \A x \in Requests \ {Creator} : Unstarted(x) => Unstarted(x)'
    BY <1>2, <1>3, <2>1, <2>2, NodeKeepsOrder
  <2>4. ~Early'
    <3>1. n("report") \notin InFlight
      BY <1>2, <1>3, <2>1, OneInFlight
    <3>2. run[Creator].phase \in {"graph", "cut"}
      BY <1>3, <1>4, <2>1
    <3>3. /\ run'[Creator].phase = run[Creator].phase
          /\ \A x \in Nodes : run'[Creator].node[x] =
               IF x = m THEN at ELSE run[Creator].node[x]
      BY <1>3, <2>1, NodeEffect, CreatorAssumption
    <3> QED BY <1>3, <2>1, <3>1, <3>2, <3>3 DEF Early
  <2>5. /\ doc'.status \notin Processing \/ doc'.status = doc.status
        /\ ~Regresses
    BY <1>3, <1>5, <1>16 DEF StoreStatus, RequestReview, Regresses
  <2> QED BY <1>1, <2>2, <2>3, <2>4, <2>5, KeepsCalm
<1>17. ASSUME NEW m \in Nodes, FailNode(r, m)
       PROVE  CalmInv' /\ ~Regresses
  <2>1. /\ n(m) \in InFlight
        /\ UNCHANGED <<setup, doc, files, request, reviewing, janitor>>
    BY <1>1, <1>17 DEF FailNode
  <2>2. \A x \in Requests :
          /\ run'[x].phase = IF x = Creator /\ run[x].phase = "graph"
                             THEN AfterError(x) ELSE run[x].phase
          /\ \A k \in Nodes : run'[x].node[k] =
               IF x = Creator /\ k = m THEN "dropped" ELSE run[x].node[k]
    BY <1>1, <1>17, FailEffect
  <2>3. run[Creator].phase \in {"graph", "cut"}
    BY <1>4, <2>1
  <2>4. \A k \in Nodes : run'[Creator].node[k] \notin InFlight
    BY <1>2, <1>3, <2>1, <2>2, OneInFlight, CreatorAssumption
  <2>5. DOMAIN setup.graph \subseteq Nodes
        /\ \A k \in DOMAIN setup.graph : setup.graph[k] \subseteq Nodes
    BY SetupsAssumption DEF TypeOK
  <2>6. InOrder'
    <3>1. run[Creator].node[m] \notin {"done", "todo"}
      BY <1>3, <2>1
    <3>2. run'[Creator].phase # "starting"
      BY <2>2, <2>3, CreatorAssumption DEF AfterError
    <3> QED BY <1>2, <2>1, <2>2, <2>4, <2>5, <3>1, <3>2, CreatorAssumption
            DEF InOrder, Quiet
  <2>7. ~Early'
    BY <1>3, <2>2, <2>3, <2>4, CreatorAssumption DEF Early, AfterError
  <2>8. \A x \in Requests \ {Creator} : Unstarted(x) => Unstarted(x)'
    BY <2>2 DEF Unstarted
  <2> QED BY <1>1, <1>7, <2>1, <2>6, <2>7, <2>8, KeepsCalm
<1> QED
  BY <1>8, <1>9, <1>10, <1>11, <1>12, <1>13, <1>14, <1>15, <1>16, <1>17
  DEF RunWorkflow, RunNode

LEMMA RequestKeepsCalm ==
  ASSUME TypeOK, ResultInv, CalmInv, NEW q \in Requests,
         ServeRequest(q) \/ BeginDelete(q)
  PROVE  CalmInv' /\ ~Regresses
<1> USE CreatorAssumption
<1>1. /\ OnlyCreatorRuns /\ CreatorStarts /\ ProcessedAlone /\ InOrder
      /\ Early => doc.status \in Processing
  BY DEF CalmInv
<1>2. Unstarted(Creator) => ~Early
  BY DEF Unstarted, Early, Nodes
<1>3. ASSUME UNCHANGED <<setup, run>>
      PROVE  /\ InOrder' /\ (Early' <=> Early)
             /\ \A x \in Requests : Unstarted(x)' <=> Unstarted(x)
  BY <1>1, <1>3 DEF InOrder, Early, Unstarted, Quiet
<1>4. ASSUME doc'.status = doc.status \/ doc'.status = "absent"
             \/ doc.status = "absent"
      PROVE  ~Regresses
  BY <1>4 DEF Regresses, Progressed
<1>5. ASSUME NEW s \in Processing \cup {"conversion_failed"},
             CreateDocument(q, s)
      PROVE  CalmInv' /\ ~Regresses
  <2>1. /\ q = Creator /\ request[Creator] = "upload"
        /\ doc.status = "absent" /\ janitor = {} /\ ~reviewing
        /\ \A x \in Requests \ {Creator} : request[x] = "todo"
        /\ Unstarted(Creator)
    BY <1>1, <1>5, AbsentRow
    DEF CreateDocument, ResultInv, UploadIsFirst, CreatorStarts
  <2>2. /\ doc'.status = s /\ files' = TRUE
        /\ UNCHANGED <<setup, run, reviewing, janitor>>
        /\ \A x \in Requests : request'[x] = IF x # Creator THEN request[x]
             ELSE IF s = "conversion_failed" THEN "over" ELSE "find"
    BY <1>5, <2>1, GotoEffect DEF CreateDocument, NoRow
  <2>3. OnlyCreatorRuns' /\ CreatorStarts' /\ ProcessedAlone'
    BY <1>1, <1>3, <2>1, <2>2
    DEF OnlyCreatorRuns, CreatorStarts, ProcessedAlone, Processing
  <2> QED BY <1>2, <1>3, <1>4, <2>1, <2>2, <2>3 DEF CalmInv
<1>6. CASE \/ CheckSource(q) \/ CheckRunning(q) \/ MarkFailed(q)
  BY <1>1, <1>6
  DEF CheckSource, CheckRunning, MarkFailed, OnlyCreatorRuns, CreatorStarts
<1>7. CASE FindDocument(q) \/ ReadFile(q)
  <2>1. q = Creator /\ request[Creator] \in {"find", "read"}
    BY <1>1, <1>7 DEF FindDocument, ReadFile, OnlyCreatorRuns
  <2>2. doc.status \in Processing /\ Unstarted(Creator) /\ Exists /\ files
    BY <1>1, <2>1, AbsentRow DEF CreatorStarts, ProcessedAlone, Processing
  <2>3. /\ UNCHANGED <<setup, doc, files, run, reviewing, janitor>>
        /\ Goto(Creator, IF request[Creator] = "find" THEN "read" ELSE "start")
    BY <1>7, <2>1, <2>2 DEF FindDocument, ReadFile, Proceed
  <2>4. \A x \in Requests : request'[x] = IF x # Creator THEN request[x]
          ELSE IF request[Creator] = "find" THEN "read" ELSE "start"
    BY <2>3, GotoEffect
  <2>5. OnlyCreatorRuns' /\ CreatorStarts' /\ ProcessedAlone'
    BY <1>1, <1>3, <2>2, <2>3, <2>4
    DEF OnlyCreatorRuns, CreatorStarts, ProcessedAlone
  <2> QED BY <1>1, <1>3, <1>4, <2>3, <2>5 DEF CalmInv
<1>8. CASE StartGraphWorkflow(q)
  <2>1. q = Creator /\ request[Creator] = "start"
    BY <1>1, <1>8 DEF StartGraphWorkflow, OnlyCreatorRuns
  <2>2. doc.status \in Processing /\ Unstarted(Creator)
    BY <1>1, <2>1 DEF CreatorStarts
  <2>3. ~Running
    BY <1>1, <2>2 DEF Running, OnlyCreatorRuns, Unstarted, OpenPhases
  <2>4. /\ UNCHANGED <<setup, doc, files, reviewing, janitor>>
        /\ Enter(Creator, "starting") /\ Goto(Creator, "record")
    BY <1>8, <2>1, <2>3 DEF StartGraphWorkflow, Enter
  <2>5. \A x \in Requests :
          /\ request'[x] = IF x = Creator THEN "record" ELSE request[x]
          /\ run'[x].phase = IF x = Creator THEN "starting" ELSE run[x].phase
          /\ run'[x].node = run[x].node
    BY <2>4, GotoEffect, EnterEffect
  <2>6. OnlyCreatorRuns' /\ CreatorStarts' /\ ProcessedAlone'
    BY <1>1, <2>4, <2>5
    DEF OnlyCreatorRuns, CreatorStarts, ProcessedAlone, Unstarted
  <2>7. InOrder'
    BY <1>1, <2>2, <2>4, <2>5 DEF InOrder, Unstarted, Quiet, InFlight
  <2> QED BY <1>4, <2>2, <2>4, <2>6, <2>7 DEF CalmInv
<1>9. CASE RecordExecution(q)
  <2>1. q = Creator /\ request[Creator] = "record"
    BY <1>1, <1>9 DEF RecordExecution, OnlyCreatorRuns
  <2>2. UNCHANGED <<setup, files, run, reviewing, janitor>>
        /\ doc'.status = doc.status
    BY <1>9 DEF RecordExecution, Exists, TypeOK, Rows
  <2>3. \A x \in Requests :
          request'[x] = IF x = Creator THEN "over" ELSE request[x]
    BY <1>9, <2>1, GotoEffect DEF RecordExecution
  <2>4. OnlyCreatorRuns' /\ CreatorStarts' /\ ProcessedAlone'
    BY <1>1, <1>3, <2>2, <2>3
    DEF OnlyCreatorRuns, CreatorStarts, ProcessedAlone
  <2> QED BY <1>1, <1>3, <1>4, <2>2, <2>4 DEF CalmInv
<1>10. CASE BeginDelete(q) \/ DeleteRow(q) \/ DeleteFiles(q)
  <2>1. q # Creator /\ doc.status \notin Processing
    BY <1>1, <1>10
    DEF BeginDelete, DeleteRow, DeleteFiles, CreatorStarts, ProcessedAlone
  <2>2. /\ doc'.status \in {doc.status, "absent"}
        /\ UNCHANGED <<setup, run, janitor>>
    BY <1>10 DEF BeginDelete, DeleteRow, DeleteFiles, Proceed, NoRow
  <2>3. \A x \in Requests :
          \/ request'[x] = request[x]
          \/ x = q /\ request'[x] \in {"delete", "unlink", "over"}
    <3>1. PICK call \in {"delete", "unlink", "over"} : Goto(q, call)
      BY <1>10 DEF BeginDelete, DeleteRow, DeleteFiles, Proceed
    <3> QED BY <3>1, GotoEffect
  <2>4. doc'.status \notin Processing
    BY <2>1, <2>2 DEF Processing
  <2>5. OnlyCreatorRuns' /\ CreatorStarts' /\ ProcessedAlone'
    BY <1>1, <1>3, <2>1, <2>2, <2>3, <2>4
    DEF OnlyCreatorRuns, CreatorStarts, ProcessedAlone
  <2> QED BY <1>1, <1>3, <1>4, <2>1, <2>2, <2>5 DEF CalmInv
<1> QED BY <1>5, <1>6, <1>7, <1>8, <1>9, <1>10 DEF ServeRequest

LEMMA OthersKeepCalm ==
  ASSUME TypeOK, ResultInv, CalmInv, Purge \/ StartReview \/ ApproveReview
  PROVE  CalmInv' /\ ~Regresses
<1>1. /\ OnlyCreatorRuns /\ CreatorStarts /\ ProcessedAlone /\ InOrder
      /\ Early => doc.status \in Processing
  BY DEF CalmInv
<1>2. /\ UNCHANGED <<setup, request>>
      /\ \A x \in Requests :
           /\ \/ run'[x].phase = run[x].phase
              \/ run[x].phase \in OpenPhases /\ run'[x].phase = "cut"
           /\ run'[x].node = run[x].node
  <2>1. CASE DeleteExecution
    <3>1. ASSUME NEW x \in Requests
          PROVE  run'[x] = IF run[x].phase \in OpenPhases
                           THEN [run[x] EXCEPT !.phase = "cut"] ELSE run[x]
      BY <2>1 DEF DeleteExecution
    <3>2. \A x \in Requests : run[x] \in Executions
      BY DEF TypeOK
    <3> QED BY <2>1, <3>1, <3>2 DEF DeleteExecution, Executions
  <2>2. CASE ~DeleteExecution
    BY <2>2 DEF Purge, FindPurgeable, PurgeFiles, StampPurged, StartReview,
                ApproveReview
  <2> QED BY <2>1, <2>2
<1>3. doc.status \notin Processing /\ request[Creator] # "upload"
  BY <1>1
  DEF Purge, FindPurgeable, PurgeFiles, DeleteExecution, StampPurged,
      StartReview, ApproveReview, Offered, Purgeable, Processing,
      ProcessedAlone, CreatorStarts, ResultInv, UploadIsFirst, Exists, NoRow
<1>4. doc'.status = doc.status \/ doc'.status = "complete"
  <2>1. CASE StampPurged
    BY <2>1 DEF StampPurged, Exists, TypeOK, Rows
  <2>2. CASE ApproveReview
    BY <2>2, SetStatusEffect DEF ApproveReview, Progressed
  <2> QED BY <2>1, <2>2
          DEF Purge, FindPurgeable, PurgeFiles, DeleteExecution, StartReview
<1>5. ~Regresses /\ doc'.status \notin Processing
  BY <1>3, <1>4 DEF Regresses, Progressed, Processing
<1>6. \A x \in Requests : Unstarted(x) => Unstarted(x)'
  BY <1>2 DEF Unstarted, OpenPhases
<1>7. InOrder'
  BY <1>1, <1>2, CreatorAssumption DEF InOrder, Quiet, OpenPhases
<1>8. ~Early'
  BY <1>1, <1>2, <1>3, CreatorAssumption DEF Early, OpenPhases
<1>9. OnlyCreatorRuns' /\ CreatorStarts' /\ ProcessedAlone'
  BY <1>1, <1>2, <1>3, <1>5, <1>6, CreatorAssumption
  DEF OnlyCreatorRuns, CreatorStarts, ProcessedAlone
<1> QED BY <1>5, <1>7, <1>8, <1>9 DEF CalmInv

\* Invariant and progress of one step.
LEMMA CalmStep ==
  ASSUME TypeOK, ResultInv, UndisturbedInv, [Next]_vars
  PROVE  UndisturbedInv' /\ (Undisturbed => ~Regresses)
<1>1. UNCHANGED setup
  BY DEF vars, Next, ServeRequest, RunWorkflow, RunNode, Purge, Disturb,
         CreateDocument, CheckSource, CheckRunning, FindDocument, ReadFile,
         StartGraphWorkflow, RecordExecution, MarkFailed, DeleteRow,
         DeleteFiles, Proceed, PreExecution, RejectConfig, BeginBatch,
         ReportStatus, Work, StoreResult, StoreStatus, RequestReview, PassGate,
         FailNode, FinishGraph, ReadAfterSuccess, Complete, ReadAfterFailure,
         MarkRunFailed, FindPurgeable, PurgeFiles, DeleteExecution,
         StampPurged, BeginReprocess, BeginDelete, FailRequest, FailHook,
         Cancel, TimeOut,
         StartReview, ApproveReview, FailPurge
<1>2. Undisturbed' <=> Undisturbed
  BY <1>1 DEF Undisturbed, Sequential, ReportsFirst
<1>3. ASSUME Undisturbed
      PROVE  CalmInv' /\ ~Regresses
  <2>1. CalmInv /\ Sequential /\ ReportsFirst /\ ~setup.rerun /\ ~setup.faults
    BY <1>3 DEF UndisturbedInv, Undisturbed
  <2>2. CASE UNCHANGED vars
    BY <2>1, <2>2
    DEF vars, CalmInv, OnlyCreatorRuns, CreatorStarts, ProcessedAlone, InOrder,
        Early, Unstarted, Quiet, Regresses
  <2>3. CASE Next
    BY <2>1, <2>3, RequestKeepsCalm, RunKeepsCalm, OthersKeepCalm
    DEF Next, Disturb, BeginReprocess, FailRequest, FailHook, FailPurge
  <2> QED BY <2>2, <2>3
<1> QED BY <1>2, <1>3 DEF UndisturbedInv

LEMMA UndisturbedCorrect == Spec => [](TypeOK /\ ResultInv /\ UndisturbedInv)
<1>1. Init => UndisturbedInv
  <2> SUFFICES ASSUME Init PROVE CalmInv
    BY DEF UndisturbedInv
  <2>1. /\ doc.status = "absent" /\ janitor = {}
        /\ \A q \in Requests :
             request[q] = IF q = Creator THEN "upload" ELSE "todo"
    BY DEF Init, NoRow
  <2>2. \A r \in Requests :
          run[r].phase = "none" /\ \A n \in Nodes : run[r].node[n] = "todo"
    BY DEF Init, NoRun
  <2>3. DOMAIN setup.graph \subseteq Nodes
    BY SetupsAssumption DEF Init
  <2>4. OnlyCreatorRuns /\ CreatorStarts /\ ProcessedAlone
    BY <2>1, <2>2, CreatorAssumption
    DEF OnlyCreatorRuns, CreatorStarts, ProcessedAlone, Unstarted, Processing
  <2>5. InOrder /\ ~Early
    BY <2>2, <2>3, CreatorAssumption
    DEF InOrder, Early, Quiet, InFlight, Nodes
  <2> QED BY <2>4, <2>5 DEF CalmInv
<1>2. TypeOK /\ ResultInv /\ UndisturbedInv /\ [Next]_vars => UndisturbedInv'
  BY CalmStep
<1> QED BY <1>1, <1>2, TypeCorrect, ResultCorrect, PTL DEF Spec

\* A document that is neither re-run nor hit by a failing call is never purged
\* while it is, or again is, being processed, for any graph without parallel
\* nodes that reports the status first: whoever reviews, deletes or cancels.
THEOREM PurgeSparesProcessing == Spec => []PurgeSparesUndisturbed
<1>1. UndisturbedInv => PurgeSparesUndisturbed
  BY DEF UndisturbedInv, CalmInv, ProcessedAlone, PurgeSparesUndisturbed
<1> QED BY <1>1, UndisturbedCorrect, PTL

\* Under the same circumstances no hook, late activity or catch takes back what
\* a document has reached.
THEOREM ProgressNeverLost == Spec => ProgressIsKept
<1>1. TypeOK /\ ResultInv /\ UndisturbedInv /\ [Next]_vars
        => [Undisturbed /\ doc.status \in Progressed
              => doc'.status \in Progressed \cup {"absent"}]_vars
  BY CalmStep DEF Regresses
<1> QED BY <1>1, UndisturbedCorrect, PTL DEF Spec, ProgressIsKept

------------------------------------------------------------------------------
(***************************************************************************)
(* ProcessingIsCarried.  A run that may still set the document back to     *)
(* processing is open, there is one at a time, and an open run gets to a   *)
(* hook that looks at the status, or through its graph and so past the     *)
(* node that stores the result; nothing but the deletion of the row takes  *)
(* the files from a request that is about to start a run.                  *)
(***************************************************************************)
BeforeStart == {"todo", "upload", "source", "query", "find", "read", "start"}

\* A request names one run, which it has not started before it says so.
FreshInv ==
  /\ \A q \in Requests : request[q] \in BeforeStart => run[q].phase = "none"
  /\ \A r \in Requests : run[r].phase \in {"none", "starting"} =>
       \A n \in Nodes : run[r].node[n] = "todo"

FilesStay ==
  /\ Exists => files
  /\ janitor = {}
  /\ \A q \in Requests : request[q] = "unlink" => ~Exists

OneRun == \A r, s \in Requests :
  run[r].phase \in OpenPhases /\ run[s].phase \in OpenPhases => r = s

\* The report is alone in its batch.
ReportAlone(r) ==
  /\ run[r].node["report"] = "running" =>
       run[r].phase = "graph" /\ "report" \in DOMAIN setup.graph
  /\ "report" \in DOMAIN setup.graph /\ run[r].node["report"] # "done" =>
       \A n \in Nodes \ {"report"} : run[r].node[n] = "todo"

\* A graph is left by a failure or with everything done, the store included;
\* and then the document is out of processing.
StoreDone(r) ==
  /\ run[r].phase = "graph" => \A n \in Nodes : run[r].node[n] # "dropped"
  /\ run[r].phase \in {"completed", "completing"} => run[r].node["store"] = "done"
  /\ /\ run[r].phase \in {"graph", "completed", "completing"}
     /\ run[r].node["store"] = "done"
     => doc.status \notin Processing

GoesWell ==
  ~setup.faults /\ setup.ephemeral = {} /\ StoresAResult /\ ~Interrupted

CarryInv ==
  /\ FilesStay /\ OneRun
  /\ \A r \in Requests : ReportAlone(r) /\ StoreDone(r)
  /\ doc.status \in Processing => Carried

CarriedInv == FreshInv /\ (GoesWell => CarryInv)

\* What a step of run r leaves alone, and where its phase goes.
LEMMA RunSteps ==
  ASSUME TypeOK, NEW r \in Requests,
         RunWorkflow(r) \/ FailHook(r) \/ Cancel(r) \/ TimeOut(r)
  PROVE  /\ UNCHANGED <<setup, files, request, janitor>>
         /\ \A x \in Requests \ {r} : run'[x] = run[x]
         /\ run[r].cancelled => run'[r].cancelled
         /\ run[r].phase \in {"none", "closed", "cut"} =>
              run'[r].phase = run[r].phase
         /\ run'[r].phase # run[r].phase => run'[r].phase \notin {"none", "starting"}
<1>1. \A n \in Nodes : \A at : NodeAt(r, n, at) =>
        /\ \A x \in Requests \ {r} : run'[x] = run[x]
        /\ run'[r].phase = run[r].phase
        /\ run'[r].cancelled = run[r].cancelled
  BY DEF NodeAt, TypeOK, Executions
<1>2. \A p : Enter(r, p) =>
        /\ \A x \in Requests \ {r} : run'[x] = run[x]
        /\ run'[r].phase = p
        /\ run'[r].cancelled = run[r].cancelled
  BY DEF Enter, TypeOK, Executions
<1>3. AfterError(r) \in {"closed", "failing"}
  BY DEF AfterError
<1>4. Nodes = {"report", "work", "review", "store"}
  BY DEF Nodes
<1>5. CASE RunNode(r)
  <2>1. ASSUME NEW n \in Nodes, FailNode(r, n)
        PROVE  /\ UNCHANGED <<setup, files, request, janitor>>
               /\ \A x \in Requests \ {r} : run'[x] = run[x]
               /\ run'[r].cancelled = run[r].cancelled
               /\ run'[r].phase = IF run[r].phase = "graph"
                                  THEN AfterError(r) ELSE run[r].phase
    <3>1. run' = [run EXCEPT ![r].node[n] = "dropped",
                    ![r].phase = IF @ = "graph" THEN AfterError(r) ELSE @]
          /\ UNCHANGED <<setup, files, request, janitor>>
      BY <2>1 DEF FailNode
    <3> HIDE DEF AfterError
    <3> QED BY <3>1 DEF TypeOK, Executions
  <2>2. CASE \E n \in Nodes : FailNode(r, n)
    BY <2>1, <2>2, <1>3
  <2>3. CASE ~\E n \in Nodes : FailNode(r, n)
    <3>1. /\ UNCHANGED <<setup, files, request, janitor>>
          /\ \E n \in Nodes, at \in Progress : NodeAt(r, n, at)
      BY <1>4, <1>5, <2>3 DEF RunNode, ReportStatus, Work, StoreResult, StoreStatus,
        RequestReview, PassGate, Progress, InFlight
    <3> QED BY <1>1, <3>1
  <2> QED BY <2>2, <2>3
<1>6. CASE PreExecution(r) \/ RejectConfig(r) \/ FinishGraph(r)
  BY <1>2, <1>3, <1>6 DEF PreExecution, RejectConfig, FinishGraph
<1>7. CASE ReadAfterSuccess(r) \/ Complete(r) \/ ReadAfterFailure(r)
           \/ MarkRunFailed(r) \/ FailHook(r) \/ TimeOut(r)
  BY <1>2, <1>7 DEF ReadAfterSuccess, Complete, ReadAfterFailure, MarkRunFailed,
    FailHook, TimeOut, OpenPhases
<1>8. CASE BeginBatch(r) \/ Cancel(r)
  BY <1>8 DEF BeginBatch, Cancel, TypeOK, Executions
<1> QED BY <1>5, <1>6, <1>7, <1>8 DEF RunWorkflow

\* The node steps touch nodes that have been begun.
LEMMA UnbegunNodes ==
  ASSUME TypeOK, FreshInv, NEW r \in Requests,
         RunWorkflow(r) \/ FailHook(r) \/ Cancel(r) \/ TimeOut(r),
         run'[r].phase \in {"none", "starting"}
  PROVE  \A n \in Nodes : run'[r].node[n] = "todo"
<1>1. run'[r].phase = run[r].phase
  BY RunSteps
<1>2. \A n \in Nodes : run[r].node[n] = "todo"
  BY <1>1 DEF FreshInv
<1>3. Nodes = {"report", "work", "review", "store"}
  BY DEF Nodes
<1>4. ~RunNode(r)
  BY <1>2, <1>3 DEF RunNode, ReportStatus, Work, StoreResult, StoreStatus,
    RequestReview, PassGate, FailNode, InFlight
<1>5. ~BeginBatch(r)
  BY <1>1 DEF BeginBatch
<1>6. \A p : Enter(r, p) => run'[r].node = run[r].node
  BY DEF Enter, TypeOK, Executions
<1>7. CASE Cancel(r)
  BY <1>2, <1>7 DEF Cancel, TypeOK, Executions
<1>8. CASE ~Cancel(r)
  <2>1. \E p : Enter(r, p)
    BY <1>4, <1>5, <1>8 DEF RunWorkflow, PreExecution, RejectConfig, FinishGraph,
      ReadAfterSuccess, Complete, ReadAfterFailure, MarkRunFailed, FailHook, TimeOut
  <2> QED BY <2>1, <1>2, <1>6
<1> QED BY <1>7, <1>8

\* What a step of a request does to the runs.
LEMMA RequestSteps ==
  ASSUME TypeOK, NEW q \in Requests,
         ServeRequest(q) \/ BeginReprocess(q) \/ BeginDelete(q) \/ FailRequest(q)
  PROVE  /\ UNCHANGED <<setup, janitor>>
         /\ \A x \in Requests \ {q} : request'[x] = request[x] /\ run'[x] = run[x]
         /\ run'[q].cancelled = run[q].cancelled /\ run'[q].node = run[q].node
         /\ \/ run'[q] = run[q] /\ (request'[q] \in BeforeStart =>
                                      request[q] \in BeforeStart)
            \/ /\ request[q] = "start" /\ ~Running
               /\ run'[q].phase = "starting" /\ request'[q] = "record"
<1> USE DEF BeforeStart
<1>1. \A call : Goto(q, call) =>
        /\ \A x \in Requests \ {q} : request'[x] = request[x]
        /\ request'[q] = call
  BY DEF Goto, TypeOK
<1>2. CASE StartGraphWorkflow(q)
  <2>1. CASE Running
    BY <1>1, <1>2, <2>1 DEF StartGraphWorkflow
  <2>2. CASE ~Running
    <3>1. run' = [run EXCEPT ![q].phase = "starting"] /\ Goto(q, "record")
          /\ request[q] = "start" /\ UNCHANGED <<setup, janitor>>
      BY <1>2, <2>2 DEF StartGraphWorkflow
    <3>2. /\ \A x \in Requests \ {q} : run'[x] = run[x]
          /\ run'[q].cancelled = run[q].cancelled /\ run'[q].node = run[q].node
          /\ run'[q].phase = "starting"
      BY <3>1 DEF TypeOK, Executions
    <3> QED BY <1>1, <2>2, <3>1, <3>2
  <2> QED BY <2>1, <2>2
<1>3. CASE ~StartGraphWorkflow(q)
  <2>1. /\ UNCHANGED <<setup, run, janitor>>
        /\ \E call : Goto(q, call) /\ (call \in BeforeStart =>
                                         request[q] \in BeforeStart)
    BY <1>3 DEF ServeRequest, CreateDocument, CheckSource, CheckRunning, FindDocument,
      ReadFile, RecordExecution, MarkFailed, DeleteRow, DeleteFiles, BeginReprocess,
      BeginDelete, FailRequest, Proceed
  <2> QED BY <1>1, <2>1
<1> QED BY <1>2, <1>3

\* A request's run is fresh until the request starts it.
LEMMA StepFresh ==
  ASSUME TypeOK, FreshInv, [Next]_vars
  PROVE  FreshInv'
<1>1. ASSUME NEW q \in Requests,
             ServeRequest(q) \/ BeginReprocess(q) \/ BeginDelete(q) \/ FailRequest(q)
      PROVE  FreshInv'
  <2>1. request[q] = "start" => run[q].phase = "none"
    BY DEF FreshInv, BeforeStart
  <2>2. "record" \notin BeforeStart
    BY DEF BeforeStart
  <2> QED
    BY <1>1, <2>1, <2>2, RequestSteps DEF FreshInv
<1>2. ASSUME NEW r \in Requests,
             RunWorkflow(r) \/ FailHook(r) \/ Cancel(r) \/ TimeOut(r)
      PROVE  FreshInv'
  BY <1>2, RunSteps, UnbegunNodes DEF FreshInv
<1>3. CASE DeleteExecution
  <2>1. \A r \in Requests :
          run'[r] = IF run[r].phase \in OpenPhases
                    THEN [run[r] EXCEPT !.phase = "cut"] ELSE run[r]
    BY <1>3 DEF DeleteExecution
  <2>2. \A r \in Requests : run'[r] = run[r] \/ run'[r].phase = "cut"
    BY <2>1 DEF TypeOK, Executions
  <2>3. \A r \in Requests : run[r].phase = "none" => run'[r] = run[r]
    BY <2>1 DEF OpenPhases
  <2>4. request' = request
    BY <1>3 DEF DeleteExecution
  <2> QED
    BY <2>2, <2>3, <2>4 DEF FreshInv
<1>4. CASE UNCHANGED <<request, run>>
  BY <1>4 DEF FreshInv
<1> QED
  BY <1>1, <1>2, <1>3, <1>4 DEF Next, Purge, Disturb, FindPurgeable, PurgeFiles,
    StampPurged, StartReview, ApproveReview, FailPurge, vars

\* An interrupted run stays interrupted.
LEMMA StepInterrupted ==
  ASSUME TypeOK, FreshInv, [Next]_vars, Interrupted
  PROVE  Interrupted'
<1>1. PICK x \in Requests : run[x].cancelled \/ run[x].phase = "cut"
  BY DEF Interrupted
<1>2. ASSUME NEW q \in Requests,
             ServeRequest(q) \/ BeginReprocess(q) \/ BeginDelete(q) \/ FailRequest(q)
      PROVE  Interrupted'
  <2>1. request[q] = "start" => run[q].phase = "none"
    BY DEF FreshInv, BeforeStart
  <2> QED
    BY <1>1, <1>2, <2>1, RequestSteps DEF Interrupted
<1>3. ASSUME NEW r \in Requests,
             RunWorkflow(r) \/ FailHook(r) \/ Cancel(r) \/ TimeOut(r)
      PROVE  Interrupted'
  BY <1>1, <1>3, RunSteps DEF Interrupted
<1>4. CASE DeleteExecution
  <2>1. run'[x] = IF run[x].phase \in OpenPhases
                    THEN [run[x] EXCEPT !.phase = "cut"] ELSE run[x]
    BY <1>4 DEF DeleteExecution
  <2>2. run'[x].cancelled \/ run'[x].phase = "cut"
    BY <1>1, <2>1 DEF TypeOK, Executions
  <2> QED
    BY <2>2 DEF Interrupted
<1>5. CASE UNCHANGED run
  BY <1>5 DEF Interrupted
<1> QED
  BY <1>2, <1>3, <1>4, <1>5 DEF Next, Purge, Disturb, FindPurgeable, PurgeFiles,
    StampPurged, StartReview, ApproveReview, FailPurge, vars

\* Of the nodes of a set that the order of the graph knows, one comes first.
LEMMA LowestNode ==
  ASSUME NEW level \in [Nodes -> 0..3], NEW T, T \subseteq Nodes, T # {}
  PROVE  \E n \in T : \A m \in T : level[n] <= level[m]
<1>1. \A n \in T : level[n] \in 0..3
  OBVIOUS
<1> DEFINE At(k) == \E n \in T : level[n] = k
<1>2. At(0) \/ At(1) \/ At(2) \/ At(3)
  BY <1>1
<1>3. CASE At(0)
  BY <1>1, <1>3
<1>4. CASE At(1) /\ ~At(0)
  BY <1>1, <1>4
<1>5. CASE At(2) /\ ~At(1) /\ ~At(0)
  BY <1>1, <1>5
<1>6. CASE At(3) /\ ~At(2) /\ ~At(1) /\ ~At(0)
  BY <1>1, <1>6
<1> QED BY <1>2, <1>3, <1>4, <1>5, <1>6

\* A graph that is left without a failure has stored the result.
LEMMA GraphIsDone ==
  ASSUME TypeOK, GoesWell, NEW r \in Requests, StoreDone(r), FinishGraph(r)
  PROVE  run[r].node["store"] = "done" /\ run'[r].phase = "completed"
<1>1. /\ run[r].phase = "graph" /\ Quiet(r) /\ Ready(r) = {} /\ ~run[r].cancelled
      /\ Enter(r, "completed")
  BY DEF FinishGraph, GoesWell, Interrupted
<1>2. run'[r].phase = "completed"
  BY <1>1, EnterEffect
<1>3. setup.graph \in [DOMAIN setup.graph -> SUBSET DOMAIN setup.graph]
      /\ DOMAIN setup.graph \subseteq Nodes
  BY SetupsAssumption DEF TypeOK
<1>4. \A n \in DOMAIN setup.graph : run[r].node[n] \in {"todo", "done"}
  BY <1>1, <1>3 DEF StoreDone, Quiet, TypeOK, Executions, Progress
<1> DEFINE Open == {n \in DOMAIN setup.graph : run[r].node[n] # "done"}
<1>5. Open = {}
  <2> SUFFICES ASSUME Open # {} PROVE FALSE
    OBVIOUS
  <2>1. PICK level \in [Nodes -> 0..3] : \A n \in DOMAIN setup.graph :
          \A m \in setup.graph[n] : level[m] < level[n]
    BY DEF GoesWell, StoresAResult
  <2>2. Open \subseteq Nodes
    BY <1>3
  <2>3. PICK n \in Open : \A m \in Open : level[n] <= level[m]
    <3> HIDE DEF Open
    <3> QED BY <2>2, LowestNode
  <2>4. \A m \in setup.graph[n] : m \in DOMAIN setup.graph /\ m \notin Open
    <3> SUFFICES ASSUME NEW m \in setup.graph[n] PROVE m \in DOMAIN setup.graph
                                                     /\ m \notin Open
      OBVIOUS
    <3>1. m \in DOMAIN setup.graph
      BY <1>3
    <3>2. level[m] < level[n] /\ level[m] \in 0..3 /\ level[n] \in 0..3
      BY <1>3, <2>1, <3>1
    <3>3. ~(level[n] <= level[m])
      BY <3>2
    <3> HIDE DEF Open
    <3> QED BY <2>3, <3>1, <3>3
  <2>5. n \in Ready(r)
    BY <1>4, <2>4 DEF Ready
  <2> QED BY <1>1, <2>5
<1>6. "store" \in DOMAIN setup.graph
  BY DEF GoesWell, StoresAResult
<1> QED BY <1>2, <1>5, <1>6

\* A step of a request.
LEMMA RequestKeepsCarry ==
  ASSUME TypeOK, ResultInv, FreshInv, GoesWell, CarryInv, NEW q \in Requests,
         ServeRequest(q) \/ BeginReprocess(q) \/ BeginDelete(q)
  PROVE  CarryInv'
<1> USE CreatorAssumption DEF CarryInv
<1>1. /\ UNCHANGED <<setup, janitor>>
      /\ \A x \in Requests \ {q} : request'[x] = request[x] /\ run'[x] = run[x]
      /\ run'[q].node = run[q].node
      /\ \/ run'[q] = run[q]
         \/ /\ request[q] = "start" /\ ~Running
            /\ run'[q].phase = "starting" /\ request'[q] = "record"
  BY RequestSteps
<1>2. OneRun'
  <2>1. CASE run'[q] = run[q]
    BY <1>1, <2>1 DEF OneRun
  <2>2. CASE ~Running
    BY <1>1, <2>2 DEF OneRun, Running
  <2> QED BY <1>1, <2>1, <2>2
<1>3. \A r \in Requests : run'[r] = run[r] \/ (run'[r].phase = "starting"
        /\ run'[r].node = run[r].node /\ \A n \in Nodes : run[r].node[n] = "todo")
  <2>1. request[q] = "start" => \A n \in Nodes : run[q].node[n] = "todo"
    BY DEF FreshInv, BeforeStart
  <2> QED BY <1>1, <2>1
<1>4. \A r \in Requests : ReportAlone(r)'
  BY <1>1, <1>3 DEF ReportAlone, Nodes
<1>5. ASSUME doc'.status \in Processing => doc.status \in Processing
      PROVE  \A r \in Requests : StoreDone(r)'
  BY <1>3, <1>5 DEF StoreDone
<1>6. \A call : Goto(q, call) =>
        /\ \A x \in Requests \ {q} : request'[x] = request[x]
        /\ request'[q] = call
  BY DEF Goto, TypeOK
<1>7. ASSUME NEW s \in Processing \cup {"conversion_failed"}, CreateDocument(q, s)
      PROVE  CarryInv'
  <2>1. /\ q = Creator /\ request[q] = "upload" /\ ~Exists
        /\ \A r \in Requests : run[r].phase = "none"
        /\ \A x \in Requests \ {q} : request[x] = "todo"
    BY <1>7 DEF CreateDocument, ResultInv, UploadIsFirst
  <2>2. files' = TRUE /\ run' = run /\ doc'.status = s
        /\ request'[q] = IF s = "conversion_failed" THEN "over" ELSE "find"
    BY <1>6, <1>7 DEF CreateDocument, NoRow
  <2>3. FilesStay'
    BY <1>1, <2>1, <2>2 DEF FilesStay
  <2>4. \A r \in Requests : StoreDone(r)'
    BY <2>1, <2>2 DEF StoreDone
  <2>5. doc'.status \in Processing => Carried'
    BY <2>2 DEF Carried, Processing
  <2> QED BY <1>2, <1>4, <2>3, <2>4, <2>5
<1>8. ASSUME UNCHANGED <<files, run>>, Exists' => Exists,
             doc'.status \in Processing => doc.status \in Processing,
             request'[q] # "unlink",
             /\ request[q] \in {"find", "read", "start", "fail"}
             /\ doc'.status \in Processing
             => request'[q] \in {"find", "read", "start", "fail"}
      PROVE  CarryInv'
  <2>1. FilesStay'
    BY <1>1, <1>8 DEF FilesStay
  <2>2. doc'.status \in Processing => Carried'
    BY <1>1, <1>8 DEF Carried
  <2> QED BY <1>2, <1>4, <1>5, <1>8, <2>1, <2>2
<1>9. CASE CheckSource(q) \/ CheckRunning(q) \/ BeginReprocess(q) \/ BeginDelete(q)
  BY <1>6, <1>8, <1>9 DEF CheckSource, CheckRunning, BeginReprocess, BeginDelete,
    Proceed, Exists
<1>10. CASE FindDocument(q)
  BY <1>6, <1>8, <1>10, AbsentRow DEF FindDocument, Proceed, Exists, Processing
<1>11. CASE ReadFile(q)
  BY <1>6, <1>8, <1>11 DEF ReadFile, Proceed, Exists
<1>12. CASE StartGraphWorkflow(q)
  <2>1. UNCHANGED <<doc, files>> /\ request'[q] \in {"fail", "record"}
    BY <1>6, <1>12 DEF StartGraphWorkflow
  <2>2. FilesStay'
    BY <1>1, <2>1 DEF FilesStay, Exists
  <2>3. request'[q] = "fail" \/ run'[q].phase = "starting"
    <3>1. CASE Running
      BY <1>6, <1>12, <3>1 DEF StartGraphWorkflow
    <3>2. CASE ~Running
      BY <1>12, <3>2 DEF StartGraphWorkflow, TypeOK, Executions
    <3> QED BY <3>1, <3>2
  <2>4. Carried'
    BY <2>3 DEF Carried
  <2> QED BY <1>2, <1>4, <1>5, <2>1, <2>2, <2>4
<1>13. CASE RecordExecution(q)
  <2>1. Exists' => Exists
    BY <1>13 DEF RecordExecution, Exists
  <2>2. doc'.status = doc.status
    <3>1. Exists => doc \in Rows
      BY RowWrites DEF TypeOK
    <3> QED BY <1>13, <3>1 DEF RecordExecution, Rows
  <2> QED BY <1>6, <1>8, <1>13, <2>1, <2>2 DEF RecordExecution
<1>14. CASE MarkFailed(q)
  <2>1. (Exists' <=> Exists) /\ doc'.status \notin Processing
    <3>1. SetStatus("failed") /\ "failed" \in Purgeable
      BY <1>14 DEF MarkFailed, Purgeable
    <3> QED BY <3>1, SetStatusEffect, AbsentRow DEF Processing
  <2> QED BY <1>6, <1>8, <1>14, <2>1 DEF MarkFailed
<1>15. CASE DeleteRow(q)
  <2>1. ~Exists' /\ doc'.status \notin Processing
    BY <1>15 DEF DeleteRow, Exists, NoRow, Processing
  <2>2. FilesStay'
    BY <1>1, <2>1 DEF FilesStay
  <2> QED BY <1>2, <1>4, <1>5, <2>1, <2>2
<1>16. CASE DeleteFiles(q)
  <2>1. ~Exists /\ ~Exists' /\ doc'.status \notin Processing
    BY <1>16, AbsentRow DEF DeleteFiles, FilesStay, Exists, Processing
  <2>2. FilesStay'
    BY <1>1, <2>1 DEF FilesStay
  <2> QED BY <1>2, <1>4, <1>5, <2>1, <2>2
<1> QED
  BY <1>7, <1>9, <1>10, <1>11, <1>12, <1>13, <1>14, <1>15, <1>16 DEF ServeRequest

\* A step of a run.
LEMMA RunKeepsCarry ==
  ASSUME TypeOK, ResultInv, FreshInv, GoesWell, GoesWell', CarryInv,
         NEW r \in Requests, RunWorkflow(r)
  PROVE  CarryInv'
<1> USE DEF CarryInv
<1>1. /\ UNCHANGED <<setup, files, request, janitor>>
      /\ \A x \in Requests \ {r} : run'[x] = run[x]
      /\ run[r].phase \in {"none", "closed", "cut"} => run'[r].phase = run[r].phase
  BY RunSteps
<1>2. OneRun'
  <2>1. run'[r].phase \in OpenPhases => run[r].phase \in OpenPhases
    BY <1>1 DEF OpenPhases, TypeOK, Executions, Phases
  <2> QED BY <1>1, <2>1 DEF OneRun
<1>3. \A x \in Requests \ {r} : ReportAlone(x)'
  BY <1>1 DEF ReportAlone
<1>4. ~run[r].cancelled /\ AfterError(r) = "failing"
  BY DEF GoesWell, Interrupted, AfterError
\* What a write of a status leaves to show.
<1>5. ASSUME Exists' => Exists, doc'.status \in Processing => doc.status \in Processing
      PROVE  /\ FilesStay'
             /\ \A x \in Requests \ {r} : StoreDone(x)'
             /\ /\ run[r].phase \in {"starting", "graph", "failing", "marking"}
                  => run'[r].phase \in {"starting", "graph", "failing", "marking"}
                /\ doc'.status \in Processing
                => Carried'
  BY <1>1, <1>5 DEF FilesStay, StoreDone, Carried
<1>6. ASSUME NEW s \in Progressed \cup Purgeable, SetStatus(s)
      PROVE  (Exists' => Exists) /\ doc'.status \notin Processing
  <2>1. s \notin Processing
    BY DEF Progressed, Purgeable, Processing
  <2> QED BY <1>6, <2>1, SetStatusEffect, AbsentRow DEF Processing
<1>7. ASSUME NEW p, Enter(r, p)
      PROVE  run'[r].phase = p /\ run'[r].node = run[r].node
  BY <1>7, EnterEffect
<1>8. ASSUME NEW n \in Nodes, NEW at, NodeAt(r, n, at)
      PROVE  /\ run'[r].phase = run[r].phase
             /\ \A m \in Nodes :
                  run'[r].node[m] = IF m = n THEN at ELSE run[r].node[m]
  BY <1>8, NodeEffect
\* Only one run is open.
<1>9. ASSUME run[r].phase \in OpenPhases
      PROVE  \A x \in Requests \ {r} :
               run'[x].phase \notin {"graph", "completed", "completing"}
  BY <1>1, <1>9 DEF OneRun, OpenPhases
<1>10. CASE PreExecution(r)
  <2>1. run[r].phase = "starting" /\ SetStatus("ongoing_ocr")
        /\ run'[r].phase = "graph" /\ run'[r].node = run[r].node
    BY <1>7, <1>10 DEF PreExecution
  <2>2. \A n \in Nodes : run'[r].node[n] = "todo"
    BY <2>1 DEF FreshInv
  <2>3. Exists' <=> Exists
    BY <2>1, SetStatusEffect DEF Processing
  <2>4. FilesStay' /\ Carried'
    BY <1>1, <2>1, <2>3 DEF FilesStay, Carried
  <2>5. \A x \in Requests : StoreDone(x)'
    BY <1>1, <1>9, <2>1, <2>2 DEF StoreDone, OpenPhases, Nodes
  <2>6. ReportAlone(r)'
    BY <2>2 DEF ReportAlone, Nodes
  <2> QED BY <1>2, <1>3, <2>4, <2>5, <2>6
<1>11. CASE RejectConfig(r) \/ ReadAfterFailure(r)
  <2>1. /\ UNCHANGED doc /\ run'[r].node = run[r].node
        /\ run[r].phase \in {"starting", "failing"}
        /\ run'[r].phase \in {"failing", "marking", "closed"}
        /\ doc.status \in Processing => run'[r].phase \in {"failing", "marking"}
    BY <1>4, <1>7, <1>11 DEF RejectConfig, ReadAfterFailure
  <2>2. StoreDone(r)'
    BY <2>1 DEF StoreDone
  <2>3. ReportAlone(r)'
    BY <1>1, <2>1 DEF ReportAlone
  <2>4. doc'.status \in Processing => Carried'
    BY <2>1 DEF Carried
  <2> QED BY <1>2, <1>3, <1>5, <2>1, <2>2, <2>3, <2>4 DEF Exists
<1>12. CASE BeginBatch(r)
  <2>1. /\ UNCHANGED doc /\ run[r].phase = "graph" /\ run'[r].phase = "graph"
        /\ \A m \in Nodes : run'[r].node[m] =
             IF m \in Ready(r) THEN "running" ELSE run[r].node[m]
    BY <1>12, BeginEffect DEF BeginBatch
  <2>2. StoreDone(r)'
    BY <2>1 DEF StoreDone, Nodes
  <2>3. ReportAlone(r)'
    <3>1. ASSUME "report" \in DOMAIN setup.graph, run[r].node["report"] # "done",
                 NEW n \in Nodes \ {"report"}
          PROVE  n \notin Ready(r)
      BY <3>1 DEF Ready, GoesWell, StoresAResult
    <3>2. "report" \in Ready(r) =>
            "report" \in DOMAIN setup.graph /\ run[r].node["report"] = "todo"
      BY DEF Ready
    <3>3. "report" \in Nodes /\ setup' = setup
      BY <1>1 DEF Nodes
    <3>4. run'[r].node["report"] # "done" => run[r].node["report"] # "done"
      BY <2>1, <3>2, <3>3
    <3>5. run'[r].node["report"] = "running" => "report" \in DOMAIN setup.graph
      BY <2>1, <3>2, <3>3 DEF ReportAlone
    <3>6. "report" \in DOMAIN setup.graph /\ run[r].node["report"] # "done" =>
            \A n \in Nodes \ {"report"} : run'[r].node[n] = "todo"
      BY <2>1, <3>1 DEF ReportAlone
    <3> QED BY <2>1, <3>3, <3>4, <3>5, <3>6 DEF ReportAlone
  <2> QED BY <1>2, <1>3, <1>5, <2>1, <2>2, <2>3 DEF Exists
<1>13. CASE ReportStatus(r)
  <2>1. run[r].node["report"] = "running" /\ SetStatus("ongoing_ocr")
        /\ NodeAt(r, "report", "done") /\ "report" \in Nodes
    BY <1>13 DEF ReportStatus, Nodes
  <2>2. run[r].phase = "graph" /\ "report" \in DOMAIN setup.graph
    BY <2>1 DEF ReportAlone
  <2>3. \A n \in Nodes \ {"report"} : run[r].node[n] = "todo"
    BY <2>1, <2>2 DEF ReportAlone
  <2>4. run'[r].phase = "graph" /\ \A n \in Nodes :
          run'[r].node[n] = IF n = "report" THEN "done" ELSE "todo"
    BY <1>8, <2>1, <2>2, <2>3
  <2>5. Exists' <=> Exists
    BY <2>1, SetStatusEffect DEF Processing
  <2>6. FilesStay' /\ Carried'
    BY <1>1, <2>4, <2>5 DEF FilesStay, Carried
  <2>7. \A x \in Requests : StoreDone(x)'
    BY <1>1, <1>9, <2>2, <2>4 DEF StoreDone, OpenPhases, Nodes
  <2>8. ReportAlone(r)'
    BY <2>4 DEF ReportAlone, Nodes
  <2> QED BY <1>2, <1>3, <2>6, <2>7, <2>8
\* The other steps of a node: it had been begun, so the report is done.
<1>14. ASSUME NEW n \in Nodes \ {"report"}, NEW at \in {"stored", "waiting", "done"},
              NodeAt(r, n, at), run[r].node[n] \in InFlight, Exists' => Exists,
              doc'.status \in Processing => doc.status \in Processing,
              n = "store" /\ at = "done" => doc'.status \notin Processing
       PROVE  CarryInv'
  <2>1. /\ run'[r].phase = run[r].phase
        /\ \A m \in Nodes : run'[r].node[m] = IF m = n THEN at ELSE run[r].node[m]
    BY <1>8, <1>14
  <2>2. ReportAlone(r)'
    <3>1. run'[r].node["report"] = run[r].node["report"]
      BY <2>1 DEF Nodes
    <3>2. run[r].node[n] # "todo"
      BY <1>14 DEF InFlight
    <3>3. "report" \in DOMAIN setup.graph => run[r].node["report"] = "done"
      BY <3>2 DEF ReportAlone
    <3> QED BY <1>1, <2>1, <3>1, <3>3 DEF ReportAlone
  <2>3. StoreDone(r)'
    <3>1. run[r].node[n] \notin {"todo", "done"}
      BY <1>14 DEF InFlight
    <3>2. n = "store" => run[r].phase \notin {"completed", "completing"}
      BY <3>1 DEF StoreDone
    <3>3. run[r].phase = "graph" => \A m \in Nodes : run'[r].node[m] # "dropped"
      BY <2>1 DEF StoreDone
    <3>4. run'[r].node["store"] = IF n = "store" THEN at ELSE run[r].node["store"]
      BY <2>1 DEF Nodes
    <3>5. CASE n = "store"
      BY <1>14, <2>1, <3>2, <3>3, <3>4, <3>5 DEF StoreDone
    <3>6. CASE n # "store"
      BY <1>14, <2>1, <3>3, <3>4, <3>6 DEF StoreDone
    <3> QED BY <3>5, <3>6
  <2>4. doc'.status \in Processing => Carried'
    BY <1>1, <1>14, <2>1 DEF Carried
  <2> QED BY <1>1, <1>2, <1>3, <1>5, <1>14, <2>2, <2>3, <2>4
<1>15. CASE Work(r) \/ PassGate(r)
  <2>1. \E n \in Nodes \ {"report"} :
          n # "store" /\ NodeAt(r, n, "done") /\ run[r].node[n] \in InFlight
    BY <1>15 DEF Work, PassGate, Nodes, InFlight
  <2>2. UNCHANGED doc
    BY <1>15 DEF Work, PassGate
  <2> QED BY <1>14, <2>1, <2>2 DEF Exists
<1>16. CASE StoreResult(r)
  <2>1. run[r].node["store"] \in InFlight /\ "store" \in Nodes \ {"report"}
        /\ NodeAt(r, "store", IF Exists THEN "stored" ELSE "done")
    BY <1>16 DEF StoreResult, Nodes, InFlight
  <2>2. (Exists' => Exists) /\ doc'.status = doc.status
    <3>1. Exists => doc \in Rows
      BY RowWrites DEF TypeOK
    <3> QED BY <1>16, <3>1 DEF StoreResult, Exists, Rows
  <2>3. CASE Exists
    BY <1>14, <2>1, <2>2, <2>3
  <2>4. CASE ~Exists
    <3>1. doc'.status \notin Processing
      BY <2>2, <2>4, AbsentRow DEF Processing
    <3> QED BY <1>14, <2>1, <2>2, <2>4, <3>1
  <2> QED BY <2>3, <2>4
<1>17. CASE StoreStatus(r)
  <2>1. run[r].node["store"] \in InFlight /\ "store" \in Nodes \ {"report"}
        /\ NodeAt(r, "store", "done") /\ SetStatus("extracted")
        /\ "extracted" \in Progressed
    BY <1>17 DEF StoreStatus, Nodes, InFlight, Progressed
  <2> QED BY <1>6, <1>14, <2>1
<1>18. CASE RequestReview(r)
  <2>1. run[r].node["review"] \in InFlight /\ "review" \in Nodes \ {"report"}
        /\ NodeAt(r, "review", "waiting") /\ SetStatus("awaiting_review")
        /\ "awaiting_review" \in Progressed
    BY <1>18 DEF RequestReview, Nodes, InFlight, Progressed
  <2> QED BY <1>6, <1>14, <2>1
<1>19. ASSUME NEW n \in Nodes, FailNode(r, n)
       PROVE  CarryInv'
  <2>1. /\ run[r].node[n] \in InFlight /\ UNCHANGED doc
        /\ run'[r].phase = IF run[r].phase = "graph" THEN "failing"
                           ELSE run[r].phase
        /\ \A m \in Nodes : run'[r].node[m] =
             IF m = n THEN "dropped" ELSE run[r].node[m]
    <3>1. run[r].node[n] \in InFlight /\ UNCHANGED doc
      BY <1>19 DEF FailNode
    <3> QED BY <1>4, <1>19, <3>1, FailEffect
  <2>2. run[r].node[n] \notin {"todo", "done"}
    BY <2>1 DEF InFlight
  <2>3. StoreDone(r)'
    <3>1. run'[r].phase # "graph"
      BY <2>1
    <3>2. run'[r].phase \in {"completed", "completing"} =>
            run'[r].phase = run[r].phase /\ n # "store"
      BY <2>1, <2>2 DEF StoreDone
    <3> QED BY <2>1, <3>1, <3>2 DEF StoreDone, Nodes
  <2>4. ReportAlone(r)'
    <3>1. n # "report" => run[r].node["report"] # "running"
      <4>1. "report" \in Nodes
        BY DEF Nodes
      <4> QED BY <2>2, <4>1 DEF ReportAlone
    <3> QED BY <1>1, <2>1, <2>2, <3>1 DEF ReportAlone, Nodes
  <2> QED BY <1>2, <1>3, <1>5, <2>1, <2>3, <2>4 DEF Exists
<1>20. CASE FinishGraph(r)
  <2>1. /\ run[r].node["store"] = "done" /\ run[r].phase = "graph"
        /\ run'[r].phase = "completed" /\ UNCHANGED doc
        /\ run'[r].node = run[r].node
    BY <1>4, <1>7, <1>20, GraphIsDone DEF FinishGraph
  <2>2. doc.status \notin Processing
    BY <2>1 DEF StoreDone
  <2>3. StoreDone(r)'
    BY <2>1, <2>2 DEF StoreDone
  <2>4. ReportAlone(r)'
    <3>1. run[r].node["report"] # "running"
      BY <1>20 DEF FinishGraph, Quiet, Nodes, InFlight
    <3> QED BY <1>1, <2>1, <3>1 DEF ReportAlone
  <2> QED BY <1>2, <1>3, <1>5, <2>1, <2>2, <2>3, <2>4 DEF Exists
<1>21. CASE ReadAfterSuccess(r) \/ Complete(r) \/ MarkRunFailed(r)
  <2>1. /\ run'[r].node = run[r].node /\ run[r].phase # "graph"
        /\ \/ run'[r].phase = "closed"
           \/ run[r].phase = "completed" /\ run'[r].phase = "completing"
    BY <1>7, <1>21 DEF ReadAfterSuccess, Complete, MarkRunFailed
  <2>2. (Exists' => Exists) /\ doc'.status \notin Processing
    <3>1. CASE ReadAfterSuccess(r)
      BY <3>1 DEF ReadAfterSuccess, StoreDone, Exists
    <3>2. CASE Complete(r)
      BY <1>6, <3>2 DEF Complete, Progressed
    <3>3. CASE MarkRunFailed(r)
      BY <1>6, <3>3 DEF MarkRunFailed, Purgeable
    <3> QED BY <1>21, <3>1, <3>2, <3>3
  <2>3. StoreDone(r)'
    BY <2>1, <2>2 DEF StoreDone
  <2>4. ReportAlone(r)'
    BY <1>1, <2>1 DEF ReportAlone
  <2> QED BY <1>2, <1>3, <1>5, <2>1, <2>2, <2>3, <2>4
<1> QED
  BY <1>10, <1>11, <1>12, <1>13, <1>15, <1>16, <1>17, <1>18, <1>19, <1>20, <1>21
  DEF RunWorkflow, RunNode

\* A step of a reviewer; the purge job finds nothing to do.
LEMMA OthersKeepCarry ==
  ASSUME TypeOK, ResultInv, GoesWell, CarryInv,
         Purge \/ StartReview \/ ApproveReview \/ FailPurge
  PROVE  CarryInv'
<1> USE DEF CarryInv
<1>1. janitor = {} /\ setup.ephemeral = {}
  BY DEF FilesStay, GoesWell
<1>2. StartReview \/ ApproveReview
  BY <1>1 DEF Purge, FindPurgeable, PurgeFiles, DeleteExecution, StampPurged, FailPurge
<1>3. UNCHANGED <<setup, files, request, run, janitor>>
  BY <1>2 DEF StartReview, ApproveReview
<1>4. (Exists' => Exists) /\ (doc'.status \in Processing => doc.status \in Processing)
  <2>1. CASE StartReview
    BY <2>1 DEF StartReview, Exists
  <2>2. CASE ApproveReview
    <3>1. SetStatus("complete") /\ "complete" \in Progressed
      BY <2>2 DEF ApproveReview, Progressed
    <3> QED BY <3>1, SetStatusEffect, AbsentRow DEF Processing
  <2> QED BY <1>2, <2>1, <2>2
<1> QED
  BY <1>3, <1>4 DEF FilesStay, OneRun, ReportAlone, StoreDone, Carried

\* Every step keeps the invariant.
LEMMA StepCarried ==
  ASSUME TypeOK, ResultInv, CarriedInv, [Next]_vars
  PROVE  CarriedInv'
<1>1. FreshInv'
  BY StepFresh DEF CarriedInv
<1>2. ASSUME GoesWell'
      PROVE  CarryInv'
  <2>1. setup' = setup
    BY DEF Next, vars, ServeRequest, RunWorkflow, Purge, Disturb, Proceed, CreateDocument,
      CheckSource, CheckRunning, FindDocument, ReadFile, StartGraphWorkflow,
      RecordExecution, MarkFailed, DeleteRow, DeleteFiles, BeginReprocess, BeginDelete,
      FailRequest, PreExecution, RejectConfig, BeginBatch, RunNode, ReportStatus, Work,
      StoreResult, StoreStatus, RequestReview, PassGate, FailNode, FinishGraph,
      ReadAfterSuccess, Complete, ReadAfterFailure, MarkRunFailed, FailHook, Cancel,
      TimeOut, StartReview, ApproveReview, FindPurgeable, PurgeFiles, DeleteExecution,
      StampPurged, FailPurge
  <2>2. GoesWell
    BY <1>2, <2>1, StepInterrupted DEF CarriedInv, GoesWell, StoresAResult
  <2>3. CarryInv
    BY <2>2 DEF CarriedInv
  <2>4. ASSUME NEW r \in Requests
        PROVE  ~FailRequest(r) /\ ~FailHook(r) /\ ~Cancel(r) /\ ~TimeOut(r)
    <3>1. ~FailRequest(r) /\ ~FailHook(r)
      BY <2>2 DEF GoesWell, FailRequest, FailHook
    <3>2. Cancel(r) => Interrupted'
      <4>1. Cancel(r) => run'[r].cancelled
        BY DEF Cancel, TypeOK, Executions
      <4> QED BY <4>1 DEF Interrupted
    <3>3. TimeOut(r) => Interrupted'
      <4>1. TimeOut(r) => run'[r].phase = "cut"
        BY EnterEffect DEF TimeOut
      <4> QED BY <4>1 DEF Interrupted
    <3> QED BY <1>2, <3>1, <3>2, <3>3 DEF GoesWell
  <2>5. CASE UNCHANGED vars
    BY <2>3, <2>5 DEF vars, CarryInv, FilesStay, OneRun, ReportAlone, StoreDone, Carried,
      Exists
  <2>6. CASE Next
    <3>1. ASSUME NEW q \in Requests,
                 ServeRequest(q) \/ BeginReprocess(q) \/ BeginDelete(q)
          PROVE  CarryInv'
      BY <2>2, <2>3, <3>1, RequestKeepsCarry DEF CarriedInv
    <3>2. ASSUME NEW r \in Requests, RunWorkflow(r)
          PROVE  CarryInv'
      BY <1>2, <2>2, <2>3, <3>2, RunKeepsCarry DEF CarriedInv
    <3>3. CASE Purge \/ StartReview \/ ApproveReview \/ FailPurge
      BY <2>2, <2>3, <3>3, OthersKeepCarry
    <3> QED BY <2>4, <2>6, <3>1, <3>2, <3>3 DEF Next, Disturb
  <2> QED BY <2>5, <2>6
<1> QED BY <1>1, <1>2 DEF CarriedInv

\* For any number of requests and any graph that reports first and stores a
\* result, somebody always stands behind a document that is in processing.
THEOREM NobodyIsDropped == Spec => []ProcessingIsCarried
<1>1. Init => CarriedInv
  <2> SUFFICES ASSUME Init PROVE CarriedInv
    OBVIOUS
  <2>1. /\ ~Exists /\ doc.status = "absent" /\ janitor = {}
        /\ \A q \in Requests : request[q] \in {"upload", "todo"}
    BY DEF Init, Exists, NoRow
  <2>2. \A r \in Requests :
          run[r].phase = "none" /\ \A n \in Nodes : run[r].node[n] = "todo"
    BY DEF Init, NoRun
  <2>3. "report" \in Nodes /\ "store" \in Nodes
    BY DEF Nodes
  <2>4. FilesStay /\ OneRun
    BY <2>1, <2>2 DEF FilesStay, OneRun, OpenPhases
  <2>5. \A r \in Requests : ReportAlone(r) /\ StoreDone(r)
    BY <2>2, <2>3 DEF ReportAlone, StoreDone
  <2> QED BY <2>1, <2>2, <2>4, <2>5 DEF CarriedInv, FreshInv, CarryInv, Processing
<1>2. TypeOK /\ ResultInv /\ CarriedInv /\ [Next]_vars => CarriedInv'
  BY StepCarried
<1>3. CarriedInv => ProcessingIsCarried
  BY DEF CarriedInv, GoesWell, CarryInv, ProcessingIsCarried
<1> QED BY <1>1, <1>2, <1>3, TypeCorrect, ResultCorrect, PTL DEF Spec

------------------------------------------------------------------------------
(***************************************************************************)
(* The semaphore that a document passes on its way in (UploadLimiter), for *)
(* every limit and every finite set of requests.                           *)
(*                                                                         *)
(* The inductive invariant: the counter is the number of slots held, the   *)
(* queue lists the queued requests once each, and it is empty unless every *)
(* slot is taken.                                                          *)
(***************************************************************************)
QueueMatches ==
  /\ \A k \in 1..Len(waiting) : stage[waiting[k]] = "queued"
  /\ \A u \in Uploads : stage[u] = "queued" =>
       \E k \in 1..Len(waiting) : waiting[k] = u
  /\ \A k, l \in 1..Len(waiting) : waiting[k] = waiting[l] => k = l

CounterMatches ==
  /\ active = Cardinality(Holding)
  /\ active <= Limit
  /\ waiting # <<>> => active = Limit

LimiterIInv == LimiterTypeOK /\ QueueMatches /\ CounterMatches

USE LimitAssumption, UploadsAssumption

LEMMA HoldingFinite ==
  IsFiniteSet(Holding) /\ Cardinality(Holding) \in Nat
<1>1. Holding \in SUBSET Uploads
  BY DEF Holding
<1>2. IsFiniteSet(Holding)
  BY <1>1, FS_Subset
<1> QED
  BY <1>2, FS_CardinalityType

LEMMA LimiterInitIInv == LimiterInit => LimiterIInv
<1> SUFFICES ASSUME LimiterInit PROVE LimiterIInv
  OBVIOUS
<1>1. Holding = {}
  BY DEF LimiterInit, Holding
<1>2. Cardinality(Holding) = 0
  BY <1>1, FS_EmptySet
<1> QED
  BY <1>2 DEF LimiterInit, LimiterIInv, LimiterTypeOK, QueueMatches,
    CounterMatches

LEMMA AcquireIInv ==
  ASSUME LimiterIInv, NEW u \in Uploads, Acquire(u)
  PROVE  LimiterIInv'
<1>1. CASE active < Limit
  <2>1. /\ active' = active + 1 /\ waiting' = waiting
        /\ stage' = [stage EXCEPT ![u] = "granted"]
    BY <1>1 DEF Acquire, LimiterIInv, LimiterTypeOK
  <2>2. Holding' = Holding \cup {u} /\ u \notin Holding
    BY <2>1 DEF Acquire, Holding, LimiterIInv, LimiterTypeOK
  <2>3. Cardinality(Holding') = Cardinality(Holding) + 1
    BY <2>2, HoldingFinite, FS_AddElement
  <2>4. LimiterTypeOK'
    BY <2>1 DEF LimiterIInv, LimiterTypeOK
  <2>5. QueueMatches'
    BY <2>1 DEF LimiterIInv, LimiterTypeOK, QueueMatches, Acquire
  <2>6. CounterMatches'
    BY <1>1, <2>1, <2>3 DEF LimiterIInv, LimiterTypeOK, CounterMatches
  <2> QED
    BY <2>4, <2>5, <2>6 DEF LimiterIInv
<1>2. CASE active >= Limit
  <2>1. /\ active' = active /\ waiting' = Append(waiting, u)
        /\ stage' = [stage EXCEPT ![u] = "queued"]
    BY <1>2 DEF Acquire, LimiterIInv, LimiterTypeOK
  <2>2. Holding' = Holding
    BY <2>1 DEF Acquire, Holding, LimiterIInv, LimiterTypeOK
  <2>3. /\ Len(waiting') = Len(waiting) + 1
        /\ \A k \in 1..Len(waiting) : waiting'[k] = waiting[k]
        /\ waiting'[Len(waiting) + 1] = u
        /\ Len(waiting) \in Nat
    BY <2>1 DEF LimiterIInv, LimiterTypeOK
  <2>4. LimiterTypeOK'
    BY <2>1 DEF LimiterIInv, LimiterTypeOK
  <2>5. QueueMatches'
    <3>1. \A k \in 1..Len(waiting) : waiting[k] \in Uploads /\ waiting[k] # u
      BY DEF LimiterIInv, LimiterTypeOK, QueueMatches, Acquire
    <3>2. \A k \in 1..Len(waiting') : stage'[waiting'[k]] = "queued"
      BY <2>1, <2>3, <3>1 DEF LimiterIInv, LimiterTypeOK, QueueMatches
    <3>3. \A v \in Uploads : stage'[v] = "queued" =>
            \E k \in 1..Len(waiting') : waiting'[k] = v
      BY <2>1, <2>3 DEF LimiterIInv, LimiterTypeOK, QueueMatches
    <3>4. \A k, l \in 1..Len(waiting') : waiting'[k] = waiting'[l] => k = l
      BY <2>3, <3>1 DEF LimiterIInv, QueueMatches
    <3> QED
      BY <3>2, <3>3, <3>4 DEF QueueMatches
  <2>6. CounterMatches'
    BY <1>2, <2>1, <2>2 DEF LimiterIInv, LimiterTypeOK, CounterMatches
  <2> QED
    BY <2>4, <2>5, <2>6 DEF LimiterIInv
<1> QED
  BY <1>1, <1>2 DEF LimiterIInv, LimiterTypeOK

LEMMA ReleaseIInv ==
  ASSUME LimiterIInv, NEW u \in Uploads, Release(u)
  PROVE  LimiterIInv'
<1>1. CASE waiting = <<>>
  <2>1. /\ active' = active - 1 /\ waiting' = waiting
        /\ stage' = [stage EXCEPT ![u] = "idle"]
    BY <1>1 DEF Release
  <2>2. Holding' = Holding \ {u} /\ u \in Holding
    BY <2>1 DEF Release, Holding, LimiterIInv, LimiterTypeOK
  <2>3. Cardinality(Holding') = Cardinality(Holding) - 1
    BY <2>2, HoldingFinite, FS_RemoveElement
  <2>4. Cardinality(Holding') \in Nat
    BY HoldingFinite, <2>2, FS_RemoveElement, FS_CardinalityType
  <2>5. LimiterTypeOK'
    BY <2>1, <2>3, <2>4 DEF LimiterIInv, LimiterTypeOK, CounterMatches
  <2>6. QueueMatches'
    BY <1>1, <2>1 DEF LimiterIInv, LimiterTypeOK, QueueMatches, Release
  <2>7. CounterMatches'
    BY <1>1, <2>1, <2>3 DEF LimiterIInv, LimiterTypeOK, CounterMatches
  <2> QED
    BY <2>5, <2>6, <2>7 DEF LimiterIInv
<1>2. CASE waiting # <<>>
  <2> DEFINE h == Head(waiting)
  <2>1. /\ active' = active /\ waiting' = Tail(waiting)
        /\ stage' = [stage EXCEPT ![u] = "idle", ![h] = "granted"]
    BY <1>2 DEF Release, LimiterIInv, LimiterTypeOK
  <2>2. h \in Uploads /\ h = waiting[1] /\ stage[h] = "queued" /\ h # u
    BY <1>2 DEF LimiterIInv, LimiterTypeOK, QueueMatches, Release
  <2>3. /\ Len(waiting) \in Nat \ {0}
        /\ Len(waiting') = Len(waiting) - 1
        /\ \A k \in 1..Len(waiting') : waiting'[k] = waiting[k + 1]
    BY <1>2, <2>1 DEF LimiterIInv, LimiterTypeOK
  <2>4. /\ Holding' = (Holding \ {u}) \cup {h}
        /\ u \in Holding /\ h \notin Holding \ {u}
    BY <2>1, <2>2 DEF Release, Holding, LimiterIInv, LimiterTypeOK
  <2>5. /\ IsFiniteSet(Holding \ {u})
        /\ Cardinality(Holding \ {u}) = Cardinality(Holding) - 1
    BY <2>4, HoldingFinite, FS_RemoveElement
  <2>6. Cardinality(Holding') = Cardinality(Holding \ {u}) + 1
    BY <2>4, <2>5, FS_AddElement
  <2>7. LimiterTypeOK'
    BY <1>2, <2>1, <2>2 DEF LimiterIInv, LimiterTypeOK
  <2>8. QueueMatches'
    <3>1. ASSUME NEW k \in 1..Len(waiting')
          PROVE  /\ k + 1 \in 1..Len(waiting) /\ waiting'[k] = waiting[k + 1]
                 /\ waiting'[k] \in Uploads /\ waiting'[k] \notin {h, u}
      BY <2>2, <2>3 DEF LimiterIInv, LimiterTypeOK, QueueMatches, Release
    <3>2. \A k \in 1..Len(waiting') : stage'[waiting'[k]] = "queued"
      <4>1. \A v \in Uploads \ {h, u} : stage'[v] = stage[v]
        BY <2>1 DEF LimiterIInv, LimiterTypeOK
      <4>2. \A k \in 1..Len(waiting') : stage[waiting'[k]] = "queued"
        BY <3>1 DEF LimiterIInv, QueueMatches
      <4> QED
        BY <3>1, <4>1, <4>2
    <3>3. ASSUME NEW v \in Uploads, stage'[v] = "queued"
          PROVE  \E k \in 1..Len(waiting') : waiting'[k] = v
      <4>1. stage[v] = "queued" /\ v # h
        BY <2>1, <2>2, <3>3 DEF LimiterIInv, LimiterTypeOK
      <4>2. PICK k \in 1..Len(waiting) : waiting[k] = v
        BY <4>1 DEF LimiterIInv, QueueMatches
      <4>3. k # 1
        BY <2>2, <4>1, <4>2
      <4>4. k - 1 \in 1..Len(waiting') /\ waiting'[k - 1] = v
        BY <2>3, <4>2, <4>3
      <4> QED
        BY <4>4
    <3>4. \A k, l \in 1..Len(waiting') : waiting'[k] = waiting'[l] => k = l
      BY <2>3, <3>1 DEF LimiterIInv, QueueMatches
    <3> QED
      BY <3>2, <3>3, <3>4 DEF QueueMatches
  <2>9. CounterMatches'
    BY <1>2, <2>1, <2>5, <2>6, HoldingFinite
    DEF LimiterIInv, LimiterTypeOK, CounterMatches
  <2> QED
    BY <2>7, <2>8, <2>9 DEF LimiterIInv
<1> QED
  BY <1>1, <1>2

LEMMA LimiterStepIInv == LimiterIInv /\ [LimiterNext]_limiterVars => LimiterIInv'
<1> SUFFICES ASSUME LimiterIInv, [LimiterNext]_limiterVars PROVE LimiterIInv'
  OBVIOUS
<1>1. ASSUME NEW u \in Uploads, Begin(u) PROVE LimiterIInv'
  <2>1. Holding' = Holding
    BY <1>1 DEF Begin, Holding, LimiterIInv, LimiterTypeOK
  <2> QED
    BY <1>1, <2>1 DEF Begin, LimiterIInv, LimiterTypeOK, QueueMatches,
      CounterMatches
<1>2. CASE UNCHANGED limiterVars
  BY <1>2 DEF limiterVars, LimiterIInv, LimiterTypeOK, QueueMatches,
    CounterMatches, Holding
<1> QED
  BY <1>1, <1>2, AcquireIInv, ReleaseIInv DEF LimiterNext

LEMMA LimiterIInvAlways == LimiterSafeSpec => []LimiterIInv
BY LimiterInitIInv, LimiterStepIInv, PTL DEF LimiterSafeSpec

\* The semaphore's counter never drops below zero and its queue only ever
\* holds requests.
THEOREM LimiterTypeCorrect == LimiterSafeSpec => []LimiterTypeOK
<1>1. LimiterIInv => LimiterTypeOK
  BY DEF LimiterIInv
<1> QED
  BY <1>1, LimiterIInvAlways, PTL

\* The limit holds for every number of requests.
THEOREM LimitHolds == LimiterSafeSpec => []SlotsAreBounded
<1>1. LimiterIInv => SlotsAreBounded
  BY DEF LimiterIInv, CounterMatches, SlotsAreBounded
<1> QED
  BY <1>1, LimiterIInvAlways, PTL

\* No wake-up is lost, for every number of requests and every limit.
THEOREM NoLostWakeUp == LimiterSafeSpec => []QueueOnlyWhenFull
<1>1. LimiterIInv => QueueOnlyWhenFull
  BY DEF LimiterIInv, CounterMatches, QueueMatches, QueueOnlyWhenFull,
    LimiterTypeOK
<1> QED
  BY <1>1, LimiterIInvAlways, PTL

\* The queue is served in the order of arrival, for every limit and every finite
\* set of requests.
THEOREM QueueIsServedInOrder == LimiterSafeSpec => ServedInOrder
<1>1. LimiterIInv /\ [LimiterNext]_limiterVars
        => [\A u, v \in Uploads : NotOvertaken(u, v)]_limiterVars
  <2> SUFFICES ASSUME LimiterIInv, LimiterNext, NEW u \in Uploads,
                      NEW v \in Uploads, stage[u] = "queued", stage'[u] = "queued"
               PROVE  /\ stage[v] = "idle" /\ stage'[v] # "idle" => Before(u, v)'
                      /\ Before(u, v) => Before(u, v)'
    BY DEF NotOvertaken
  <2> USE DEF LimiterIInv, LimiterTypeOK, QueueMatches
  <2>1. PICK i \in 1..Len(waiting) : waiting[i] = u
    OBVIOUS
  <2>2. active = Limit
    BY <2>1 DEF CounterMatches
  <2>3. ASSUME NEW w \in Uploads, Acquire(w)
        PROVE  /\ stage[v] = "idle" /\ stage'[v] # "idle" => Before(u, v)'
               /\ Before(u, v) => Before(u, v)'
    <3>1. waiting' = Append(waiting, w) /\ stage' = [stage EXCEPT ![w] = "queued"]
      BY <2>2, <2>3 DEF Acquire
    <3>2. /\ Len(waiting) \in Nat /\ Len(waiting') = Len(waiting) + 1
          /\ \A k \in 1..Len(waiting) : waiting'[k] = waiting[k]
          /\ waiting'[Len(waiting) + 1] = w
      BY <3>1
    <3>3. stage[v] = "idle" /\ stage'[v] # "idle" => Before(u, v)'
      <4> SUFFICES ASSUME stage[v] = "idle", stage'[v] # "idle"
                   PROVE  Before(u, v)'
        OBVIOUS
      <4>1. v = w
        BY <3>1
      <4>2. i \in 1..Len(waiting') /\ waiting'[i] = u /\ i < Len(waiting) + 1
        BY <2>1, <3>2
      <4>3. Len(waiting) + 1 \in 1..Len(waiting')
        BY <3>2
      <4> QED
        BY <3>2, <4>1, <4>2, <4>3 DEF Before
    <3>4. Before(u, v) => Before(u, v)'
      BY <3>2 DEF Before
    <3> QED
      BY <3>3, <3>4
  <2>4. ASSUME NEW w \in Uploads, Begin(w)
        PROVE  /\ stage[v] = "idle" /\ stage'[v] # "idle" => Before(u, v)'
               /\ Before(u, v) => Before(u, v)'
    BY <2>4 DEF Begin, Before
  <2>5. ASSUME NEW w \in Uploads, Release(w)
        PROVE  /\ stage[v] = "idle" /\ stage'[v] # "idle" => Before(u, v)'
               /\ Before(u, v) => Before(u, v)'
    <3>1. /\ waiting # <<>> /\ waiting' = Tail(waiting)
          /\ Head(waiting) = waiting[1] /\ 1 \in 1..Len(waiting)
          /\ stage' = [stage EXCEPT ![w] = "idle", ![waiting[1]] = "granted"]
      BY <2>1, <2>5 DEF Release
    <3>2. /\ Len(waiting) \in Nat /\ Len(waiting') = Len(waiting) - 1
          /\ \A k \in 1..Len(waiting') : waiting'[k] = waiting[k + 1]
      BY <3>1
    <3>3. stage[waiting[1]] = "queued" /\ waiting[1] \in Uploads
      BY <3>1
    <3>4. ~(stage[v] = "idle" /\ stage'[v] # "idle")
      BY <3>1, <3>3
    <3>5. u # waiting[1]
      BY <3>1, <3>3
    <3>6. ASSUME Before(u, v) PROVE Before(u, v)'
      <4>1. PICK k \in 1..Len(waiting), l \in 1..Len(waiting) :
              k < l /\ waiting[k] = u /\ waiting[l] = v
        BY <3>6 DEF Before
      <4>2. k # 1
        BY <3>5, <4>1
      <4> DEFINE m == k - 1
                 n == l - 1
      <4>3. /\ m \in 1..Len(waiting') /\ n \in 1..Len(waiting')
            /\ m < n /\ k = m + 1 /\ l = n + 1
        BY <3>2, <4>1, <4>2
      <4> HIDE DEF m, n
      <4>4. waiting'[m] = u /\ waiting'[n] = v
        BY <3>2, <4>1, <4>3
      <4> QED
        BY <4>3, <4>4 DEF Before
    <3> QED
      BY <3>4, <3>6
  <2> QED
    BY <2>3, <2>4, <2>5 DEF LimiterNext
<1>2. LimiterSafeSpec => [][\A u, v \in Uploads : NotOvertaken(u, v)]_limiterVars
  BY <1>1, LimiterIInvAlways, PTL DEF LimiterSafeSpec
<1> QED
  BY <1>2 DEF ServedInOrder
==============================================================================
