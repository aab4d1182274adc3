-------------------------- MODULE ClassifierProofs ---------------------------
(***************************************************************************)
(* Proofs about Classifier, for every set of requests to train and of rounds *)
(* of the cron, and for every set of executions.                           *)
(***************************************************************************)
EXTENDS Classifier, TLAPS

(***************************************************************************)
(* The inductive invariant.  Before the first row there is no work.  While *)
(* a row exists whose name was not used again too early, nobody is about   *)
(* to delete the model, and whatever can lead to READY has its model: the  *)
(* status itself, a poll about to write it, and a build that succeeded and *)
(* that the row, a background task or a poll still refers to.              *)
(***************************************************************************)
NothingBeforeRows ==
  rows = 0 =>
    /\ ~HasRow /\ ~UnderWay
    /\ model = "none" /\ \A r \in Requests : build[r] # "running"

\* The operations that the present row may still hear of.
Heard(r) ==
  \/ operation = r
  \/ task[r] = "record"
  \/ \E p \in Pollers : poll[p].of = r

RowKeepsModel ==
  HasRow /\ ~reused =>
    /\ delete.at # "model" /\ clean # "delete"
    /\ \/ model # "none"
       \/ /\ status # "READY"
          /\ \A p \in Pollers : poll[p].at # "ready"
          /\ \A r \in Requests : Heard(r) => build[r] # "succeeded"

IInv == TypeOK /\ NothingBeforeRows /\ RowKeepsModel

USE NoRequestAssumption, SetupsAssumption

\* The invariant holds before the name is used.
LEMMA InitIInv == Init => IInv
<1> SUFFICES ASSUME Init PROVE IInv
  OBVIOUS
<1>1. setup.rows \in Nat
  BY DEF Init
<1>2. TypeOK
  <2>1. rows \in 0..setup.rows
    BY <1>1 DEF Init
  <2>2. poll \in [Pollers -> {NoPoll} \cup [at : {"ask", "check", "ready", "fail"},
                                             of : Requests]]
    BY DEF Init
  <2>3. delete \in [at : {"idle", "row", "model"}, read : Statuses \cup {"NONE"}]
    BY DEF Init, NoDelete
  <2> QED
    BY <2>1, <2>2, <2>3 DEF Init, TypeOK
<1>3. NothingBeforeRows
  BY DEF Init, NothingBeforeRows, HasRow, UnderWay
<1>4. RowKeepsModel
  BY DEF Init, RowKeepsModel, HasRow
<1> QED
  BY <1>2, <1>3, <1>4 DEF IInv

\* The poll of a poller is idle, or at a call about an operation.
LEMMA PollIsRecord ==
  ASSUME TypeOK, NEW p \in Pollers, poll[p] # NoPoll
  PROVE  poll[p] \in [at : {"ask", "check", "ready", "fail"}, of : Requests]
BY DEF TypeOK

\* Every step keeps the types.
LEMMA TypeStep ==
  ASSUME TypeOK, [Next]_vars
  PROVE  TypeOK'
<1> USE DEF rowVars, azureVars
<1>1. ASSUME CreateClassifier PROVE TypeOK'
  <2>1. setup.rows \in Nat
    BY DEF TypeOK
  <2> QED
    BY <1>1, <2>1 DEF CreateClassifier, TypeOK, Statuses, HasRow
<1>2. ASSUME NEW r \in Requests, RequestTraining(r) PROVE TypeOK'
  BY <1>2 DEF RequestTraining, TaskAt, TypeOK, Statuses
<1>3. ASSUME NEW r \in Requests, SubmitBuild(r) PROVE TypeOK'
  BY <1>3 DEF SubmitBuild, TaskAt, TypeOK
<1>4. ASSUME NEW r \in Requests, SubmitFails(r) PROVE TypeOK'
  BY <1>4 DEF SubmitFails, TaskAt, TypeOK
<1>5. ASSUME NEW r \in Requests, RecordOperation(r) PROVE TypeOK'
  BY <1>5 DEF RecordOperation, TaskAt, TypeOK, Statuses
<1>6. ASSUME BackendStops
      PROVE  /\ task' \in [Requests -> {"unused", "submit", "record", "fail", "over"}]
             /\ poll' \in [Pollers -> {NoPoll}]
             /\ delete' \in [at : {"idle"}, read : {"NONE"}]
             /\ clean' = "idle"
  BY <1>6 DEF BackendStops, TypeOK, NoDelete
<1>7. ASSUME NEW r \in Requests, RecordFailure(r) PROVE TypeOK'
  <2>1. CASE HasRow
    BY <1>7, <2>1 DEF RecordFailure, TaskAt, TypeOK, Statuses
  <2>2. CASE ~HasRow
    BY <1>6, <1>7, <2>2 DEF RecordFailure, TypeOK
  <2> QED
    BY <2>1, <2>2
<1>8. ASSUME NEW r \in Requests, BuildEnds(r) PROVE TypeOK'
  BY <1>8 DEF BuildEnds, TypeOK
<1>9. ASSUME NEW r \in Requests, OperationExpires(r) PROVE TypeOK'
  BY <1>9 DEF OperationExpires, TypeOK
<1>10. ASSUME NEW p \in Pollers, BeginPoll(p) PROVE TypeOK'
  BY <1>10 DEF BeginPoll, TypeOK
<1>11. ASSUME NEW p \in Pollers, poll[p] # NoPoll,
              NEW at \in {"ask", "check", "ready", "fail"}, PollAt(p, at)
       PROVE  poll' \in [Pollers -> {NoPoll} \cup
                           [at : {"ask", "check", "ready", "fail"}, of : Requests]]
  <2>1. [poll[p] EXCEPT !.at = at]
          \in [at : {"ask", "check", "ready", "fail"}, of : Requests]
    BY <1>11, PollIsRecord
  <2> QED
    BY <1>11, <2>1 DEF PollAt, TypeOK
<1>12. ASSUME NEW p \in Pollers, PollIsOver(p)
       PROVE  poll' \in [Pollers -> {NoPoll} \cup
                           [at : {"ask", "check", "ready", "fail"}, of : Requests]]
  BY <1>12 DEF PollIsOver, TypeOK
<1>13. ASSUME NEW p \in Pollers, PollStep(p) \/ PollErrs(p)
       PROVE  TypeOK'
  <2>1. poll[p] # NoPoll
    BY <1>13 DEF PollStep, AskOperation, CheckModel, MarkReady, MarkFailed,
                 PollErrs, NoPoll
  <2>2. \/ PollIsOver(p)
        \/ \E at \in {"ask", "check", "ready", "fail"} : PollAt(p, at)
    BY <1>13 DEF PollStep, AskOperation, CheckModel, MarkReady, MarkFailed,
                 PollErrs
  <2>3. poll' \in [Pollers -> {NoPoll} \cup
                     [at : {"ask", "check", "ready", "fail"}, of : Requests]]
    BY <1>11, <1>12, <2>1, <2>2
  <2>4. status' \in {status, "READY", "FAILED"}
    BY <1>13 DEF PollStep, AskOperation, CheckModel, MarkReady, MarkFailed,
                 PollErrs
  <2>5. UNCHANGED <<setup, operation, rows, reused, task, azureVars, delete, clean>>
    BY <1>13 DEF PollStep, AskOperation, CheckModel, MarkReady, MarkFailed,
                 PollErrs
  <2> QED
    BY <2>3, <2>4, <2>5 DEF TypeOK, Statuses
<1>14. ASSUME BeginDelete \/ DeleteRow PROVE TypeOK'
  BY <1>14 DEF BeginDelete, DeleteRow, TypeOK, Statuses, NoDelete
<1>15. ASSUME AzureDeletes
       PROVE  /\ model' = "none"
              /\ build' \in [Requests -> {"none", "running", "succeeded",
                                          "failed", "expired"}]
  BY <1>15 DEF AzureDeletes, TypeOK
<1>16. ASSUME DeleteModel PROVE TypeOK'
  BY <1>15, <1>16 DEF DeleteModel, TypeOK, NoDelete
<1>17. ASSUME ListModels \/ ReadRows \/ DeleteOrphan \/ DeleteOrphanFails
       PROVE  TypeOK'
  BY <1>15, <1>17 DEF ListModels, ReadRows, DeleteOrphan, DeleteOrphanFails,
                      TypeOK
<1>18. ASSUME Stop PROVE TypeOK'
  BY <1>6, <1>18 DEF Stop, TypeOK
<1>19. CASE UNCHANGED vars
  BY <1>19 DEF vars, TypeOK
<1> QED
  BY <1>1, <1>2, <1>3, <1>4, <1>5, <1>7, <1>8, <1>9, <1>10, <1>13, <1>14,
     <1>16, <1>17, <1>18, <1>19 DEF Next, TaskStep

\* Work is only under way once there has been a row.
LEMMA NothingStep ==
  ASSUME IInv, TypeOK', [Next]_vars
  PROVE  NothingBeforeRows'
<1> SUFFICES ASSUME rows' = 0
             PROVE  /\ ~HasRow' /\ ~UnderWay'
                    /\ model' = "none"
                    /\ \A r \in Requests : build'[r] # "running"
  BY DEF NothingBeforeRows
<1> USE DEF rowVars, azureVars, HasRow
<1>1. CASE CreateClassifier
  BY <1>1 DEF CreateClassifier, IInv, TypeOK
<1>2. CASE ~CreateClassifier
  <2>1. rows = 0
    BY <1>2 DEF Next, vars, RequestTraining, TaskStep, SubmitBuild,
      SubmitFails, RecordOperation, RecordFailure, BuildEnds,
      OperationExpires, BeginPoll, PollStep, AskOperation, CheckModel,
      MarkReady, MarkFailed, PollErrs, BeginDelete, DeleteRow, DeleteModel,
      ListModels, ReadRows, DeleteOrphan, DeleteOrphanFails, Stop
  <2>2. /\ status = "NONE" /\ delete = NoDelete /\ clean = "idle"
        /\ model = "none" /\ \A p \in Pollers : poll[p] = NoPoll
        /\ \A r \in Requests : task[r] \notin {"submit", "record", "fail"}
        /\ \A r \in Requests : build[r] # "running"
    BY <2>1 DEF IInv, NothingBeforeRows, UnderWay
  <2>3. CASE UNCHANGED vars
    BY <2>2, <2>3 DEF vars, UnderWay
  <2>4. ASSUME NEW r \in Requests, RequestTraining(r) \/ TaskStep(r) \/ BuildEnds(r)
        PROVE  FALSE
    BY <2>2, <2>4 DEF RequestTraining, TaskStep, SubmitBuild, SubmitFails,
      RecordOperation, RecordFailure, BuildEnds
  <2>5. ASSUME NEW r \in Requests, OperationExpires(r)
        PROVE  /\ ~HasRow' /\ ~UnderWay' /\ model' = "none"
               /\ \A q \in Requests : build'[q] # "running"
    BY <2>2, <2>5 DEF OperationExpires, UnderWay, IInv, TypeOK
  <2>6. ASSUME NEW p \in Pollers, BeginPoll(p) \/ PollStep(p) \/ PollErrs(p)
        PROVE  FALSE
    BY <2>2, <2>6 DEF BeginPoll, PollStep, AskOperation, CheckModel,
      MarkReady, MarkFailed, PollErrs, NoPoll
  <2>7. ~BeginDelete /\ ~DeleteRow /\ ~DeleteModel /\ ~ListModels /\ ~ReadRows
    BY <2>2 DEF BeginDelete, DeleteRow, DeleteModel, ListModels, ReadRows,
      NoDelete
  <2>8. ~DeleteOrphan /\ ~DeleteOrphanFails
    BY <2>2 DEF DeleteOrphan, DeleteOrphanFails
  <2>9. CASE Stop
    BY <2>2, <2>9 DEF Stop, BackendStops, UnderWay, IInv, TypeOK
  <2> QED
    BY <1>2, <2>3, <2>4, <2>5, <2>6, <2>7, <2>8, <2>9 DEF Next
<1> QED
  BY <1>1, <1>2

\* A row that is created and does not count as reused starts with nothing to
\* hear of: there is no work, be it that it is the first, or that it waited.
LEMMA CreateKeepsModel ==
  ASSUME IInv, CreateClassifier
  PROVE  RowKeepsModel'
<1> SUFFICES ASSUME ~reused' PROVE RowKeepsModel'
  BY DEF RowKeepsModel
<1>1. ~UnderWay
  <2>1. setup.rows \in Nat /\ rows \in 0..setup.rows
    BY DEF IInv, TypeOK
  <2>2. CASE rows = 0
    BY <2>2 DEF IInv, NothingBeforeRows
  <2>3. CASE rows > 0
    BY <2>3 DEF CreateClassifier
  <2> QED
    BY <2>1, <2>2, <2>3
<1>2. /\ delete = NoDelete /\ clean = "idle"
      /\ \A p \in Pollers : poll[p] = NoPoll
      /\ \A r \in Requests : task[r] # "record"
  BY <1>1 DEF UnderWay
<1>3. \A r \in Requests : ~Heard(r)'
  BY <1>2 DEF Heard, CreateClassifier, NoPoll
<1> QED
  BY <1>2, <1>3 DEF CreateClassifier, RowKeepsModel, NoDelete, NoPoll

\* A step that deletes no model, and lets the row hear of nothing that has
\* succeeded without one.
LEMMA KeepsModel ==
  ASSUME RowKeepsModel, HasRow, ~reused,
         delete'.at # "model", clean' # "delete",
         \/ model' # "none"
         \/ /\ model = "none"
            /\ status' = "READY" =>
                 status = "READY" \/ \E p \in Pollers : poll[p].at = "ready"
            /\ \A p \in Pollers : poll'[p].at = "ready" =>
                 \/ \E q \in Pollers : poll[q].at = "ready"
                 \/ \E r \in Requests : Heard(r) /\ build[r] = "succeeded"
            /\ \A r \in Requests : Heard(r)' /\ build'[r] = "succeeded" =>
                 Heard(r) /\ build[r] = "succeeded"
  PROVE  RowKeepsModel'
<1>1. CASE model' # "none"
  BY <1>1 DEF RowKeepsModel
<1>2. CASE model' = "none"
  <2>1. /\ status # "READY"
        /\ \A p \in Pollers : poll[p].at # "ready"
        /\ \A r \in Requests : Heard(r) => build[r] # "succeeded"
    BY <1>2 DEF RowKeepsModel
  <2> QED
    BY <1>2, <2>1 DEF RowKeepsModel
<1> QED
  BY <1>1, <1>2

\* Every step keeps the model of a row that can become ready.
LEMMA ModelStep ==
  ASSUME IInv, TypeOK', [Next]_vars
  PROVE  RowKeepsModel'
<1> USE DEF rowVars, azureVars
<1>1. CASE CreateClassifier
  BY <1>1, CreateKeepsModel
<1>2. SUFFICES ASSUME ~CreateClassifier, HasRow', ~reused'
               PROVE  RowKeepsModel'
  BY <1>1 DEF RowKeepsModel
<1>3. HasRow /\ ~reused
  <2>1. CASE UNCHANGED <<status, reused>>
    BY <1>2, <2>1 DEF HasRow
  <2>2. CASE UNCHANGED reused /\ (status' # "NONE" => status # "NONE")
    BY <1>2, <2>2 DEF HasRow
  <2>3. ASSUME NEW r \in Requests, RequestTraining(r) \/ TaskStep(r)
        PROVE  UNCHANGED reused /\ (status' # "NONE" => status # "NONE")
    BY <2>3 DEF RequestTraining, TaskStep, SubmitBuild, SubmitFails,
      RecordOperation, RecordFailure, HasRow
  <2>4. ASSUME NEW r \in Requests, BuildEnds(r) \/ OperationExpires(r)
        PROVE  UNCHANGED <<status, reused>>
    BY <2>4 DEF BuildEnds, OperationExpires
  <2>5. ASSUME NEW p \in Pollers, BeginPoll(p) \/ PollStep(p) \/ PollErrs(p)
        PROVE  UNCHANGED reused /\ (status' # "NONE" => status # "NONE")
    BY <2>5 DEF BeginPoll, PollStep, AskOperation, CheckModel, MarkReady,
      MarkFailed, PollErrs, HasRow
  <2>6. CASE BeginDelete \/ DeleteRow \/ DeleteModel
    BY <2>2, <2>6 DEF BeginDelete, DeleteRow, DeleteModel, HasRow
  <2>7. CASE ListModels \/ ReadRows \/ DeleteOrphan \/ DeleteOrphanFails \/ Stop
    BY <2>1, <2>7 DEF ListModels, ReadRows, DeleteOrphan, DeleteOrphanFails,
      Stop
  <2> QED
    BY <1>2, <2>1, <2>2, <2>3, <2>4, <2>5, <2>6, <2>7 DEF Next, vars
<1>4. /\ RowKeepsModel /\ TypeOK
      /\ delete.at # "model" /\ clean # "delete"
  BY <1>3 DEF IInv, RowKeepsModel
<1> USE <1>3, <1>4
<1>5. ASSUME NEW r \in Requests, RequestTraining(r) PROVE RowKeepsModel'
  <2>1. \A q \in Requests : Heard(q)' => Heard(q)
    BY <1>5 DEF RequestTraining, TaskAt, Heard, TypeOK
  <2> QED
    BY <1>5, <2>1, KeepsModel DEF RequestTraining
<1>6. ASSUME NEW r \in Requests, SubmitBuild(r) PROVE RowKeepsModel'
  <2>1. \A q \in Requests : q # r => (Heard(q)' => Heard(q)) /\ build'[q] = build[q]
    BY <1>6 DEF SubmitBuild, TaskAt, Heard, TypeOK
  <2>2. build'[r] = "running"
    BY <1>6 DEF SubmitBuild, TypeOK
  <2>3. model' = model \/ model' = "replaced"
    BY <1>6 DEF SubmitBuild
  <2> QED
    BY <1>6, <2>1, <2>2, <2>3, KeepsModel DEF SubmitBuild
<1>7. ASSUME NEW r \in Requests, SubmitFails(r) PROVE RowKeepsModel'
  <2>1. \A q \in Requests : Heard(q)' => Heard(q)
    BY <1>7 DEF SubmitFails, TaskAt, Heard, TypeOK
  <2> QED
    BY <1>7, <2>1, KeepsModel DEF SubmitFails
<1>8. ASSUME NEW r \in Requests, RecordOperation(r) PROVE RowKeepsModel'
  <2>1. \A q \in Requests : Heard(q)' => Heard(q)
    BY <1>8 DEF RecordOperation, TaskAt, Heard, TypeOK
  <2>2. status' = "READY" => status = "READY"
    BY <1>8 DEF RecordOperation
  <2> QED
    BY <1>8, <2>1, <2>2, KeepsModel DEF RecordOperation
<1>9. ASSUME NEW r \in Requests, RecordFailure(r) PROVE RowKeepsModel'
  <2>1. status' = "FAILED" /\ TaskAt(r, "over") /\ UNCHANGED <<poll, delete, clean>>
    BY <1>9 DEF RecordFailure
  <2>2. \A q \in Requests : Heard(q)' => Heard(q)
    BY <1>9, <2>1 DEF RecordFailure, TaskAt, Heard, TypeOK
  <2> QED
    BY <1>9, <2>1, <2>2, KeepsModel DEF RecordFailure
<1>10. ASSUME NEW r \in Requests, BuildEnds(r) PROVE RowKeepsModel'
  <2>1. CASE model' = "built"
    BY <1>10, <2>1, KeepsModel DEF BuildEnds
  <2>2. CASE build' = [build EXCEPT ![r] = "failed"] /\ UNCHANGED model
    <3>1. \A q \in Requests : build'[q] = "succeeded" => build[q] = "succeeded"
      BY <2>2 DEF TypeOK
    <3>2. \A q \in Requests : Heard(q)' => Heard(q)
      BY <1>10 DEF BuildEnds, Heard
    <3> QED
      BY <1>10, <2>2, <3>1, <3>2, KeepsModel DEF BuildEnds
  <2> QED
    BY <1>10, <2>1, <2>2 DEF BuildEnds
<1>11. ASSUME NEW r \in Requests, OperationExpires(r) PROVE RowKeepsModel'
  <2>1. \A q \in Requests : build'[q] = "succeeded" => build[q] = "succeeded"
    BY <1>11 DEF OperationExpires, TypeOK
  <2>2. \A q \in Requests : Heard(q)' => Heard(q)
    BY <1>11 DEF OperationExpires, Heard
  <2> QED
    BY <1>11, <2>1, <2>2, KeepsModel DEF OperationExpires
<1>12. ASSUME NEW p \in Pollers, BeginPoll(p) PROVE RowKeepsModel'
  <2>1. poll'[p] = [at |-> "ask", of |-> operation]
    BY <1>12 DEF BeginPoll, TypeOK
  <2>2. \A q \in Pollers : q # p => poll'[q] = poll[q]
    BY <1>12 DEF BeginPoll, TypeOK
  <2>3. \A r \in Requests : Heard(r)' => Heard(r)
    BY <1>12, <2>1, <2>2 DEF BeginPoll, Heard
  <2> QED
    BY <1>12, <2>1, <2>2, <2>3, KeepsModel DEF BeginPoll
<1>13. ASSUME NEW p \in Pollers, PollIsOver(p)
       PROVE  /\ \A q \in Pollers : poll'[q].at = "ready" => poll[q].at = "ready"
              /\ \A q \in Pollers, r \in Requests :
                   poll'[q].of = r => poll[q].of = r
  BY <1>13 DEF PollIsOver, TypeOK, NoPoll
<1>14. ASSUME NEW p \in Pollers, poll[p] # NoPoll,
              NEW at \in {"ask", "check", "ready", "fail"}, PollAt(p, at)
       PROVE  /\ poll'[p].at = at
              /\ \A q \in Pollers : q # p => poll'[q] = poll[q]
              /\ \A q \in Pollers : poll'[q].of = poll[q].of
  <2>1. poll[p] \in [at : {"ask", "check", "ready", "fail"}, of : Requests]
    BY <1>14, PollIsRecord
  <2> QED
    BY <1>14, <2>1 DEF PollAt, TypeOK
<1>15. ASSUME NEW p \in Pollers, AskOperation(p) PROVE RowKeepsModel'
  <2>1. poll[p] # NoPoll
    BY <1>15 DEF AskOperation, NoPoll
  <2>2. poll[p].of \in Requests
    BY <2>1, PollIsRecord
  <2>3. Heard(poll[p].of)
    BY DEF Heard
  <2>4. CASE PollIsOver(p)
    <3>1. \A r \in Requests : Heard(r)' => Heard(r)
      BY <1>13, <1>15, <2>4 DEF AskOperation, Heard
    <3> QED
      BY <1>13, <1>15, <2>4, <3>1, KeepsModel DEF AskOperation
  <2>5. CASE ~PollIsOver(p)
    <3>1. PICK at \in {"check", "ready", "fail"} :
            /\ PollAt(p, at)
            /\ at = "ready" => build[poll[p].of] = "succeeded"
      BY <1>15, <2>5 DEF AskOperation
    <3>2. \A r \in Requests : Heard(r)' => Heard(r)
      BY <1>14, <1>15, <2>1, <3>1 DEF AskOperation, Heard
    <3> QED
      BY <1>14, <1>15, <2>1, <2>2, <2>3, <3>1, <3>2, KeepsModel
      DEF AskOperation
  <2> QED
    BY <2>4, <2>5
<1>16. ASSUME NEW p \in Pollers, CheckModel(p) PROVE RowKeepsModel'
  <2>1. poll[p] # NoPoll
    BY <1>16 DEF CheckModel, NoPoll
  <2>2. PICK at \in {"ready", "fail"} :
          PollAt(p, at) /\ (at = "ready" => model = "built")
    BY <1>16 DEF CheckModel
  <2>3. \A r \in Requests : Heard(r)' => Heard(r)
    BY <1>14, <1>16, <2>1, <2>2 DEF CheckModel, Heard
  <2> QED
    BY <1>14, <1>16, <2>1, <2>2, <2>3, KeepsModel DEF CheckModel
<1>17. ASSUME NEW p \in Pollers, PollErrs(p) \/ MarkReady(p) \/ MarkFailed(p)
       PROVE  RowKeepsModel'
  <2>1. /\ PollIsOver(p)
        /\ UNCHANGED <<operation, task, azureVars, delete, clean>>
    BY <1>17 DEF PollErrs, MarkReady, MarkFailed
  <2>2. status' = "READY" =>
          status = "READY" \/ \E q \in Pollers : poll[q].at = "ready"
    BY <1>17 DEF PollErrs, MarkReady, MarkFailed
  <2>3. \A r \in Requests : Heard(r)' => Heard(r)
    BY <1>13, <2>1 DEF Heard
  <2> QED
    BY <1>13, <2>1, <2>2, <2>3, KeepsModel
<1>18. CASE BeginDelete \/ ListModels \/ ReadRows \/ UNCHANGED vars
  <2>1. UNCHANGED <<status, operation, task, azureVars, poll>>
    BY <1>18 DEF BeginDelete, ListModels, ReadRows, vars
  <2>2. delete'.at # "model" /\ clean' # "delete"
    BY <1>18 DEF BeginDelete, ListModels, ReadRows, vars
  <2>3. \A r \in Requests : Heard(r)' => Heard(r)
    BY <2>1 DEF Heard
  <2> QED
    BY <2>1, <2>2, <2>3, KeepsModel
<1>19. ~DeleteRow /\ ~DeleteModel /\ ~DeleteOrphan /\ ~DeleteOrphanFails
  BY <1>2 DEF DeleteRow, DeleteModel, DeleteOrphan, DeleteOrphanFails, HasRow
<1>20. CASE Stop
  <2>1. /\ UNCHANGED <<status, operation, azureVars>>
        /\ delete'.at # "model" /\ clean' # "delete"
        /\ \A p \in Pollers : poll'[p] = NoPoll
        /\ \A r \in Requests : task'[r] # "record"
    BY <1>20 DEF Stop, BackendStops, NoDelete
  <2>2. \A r \in Requests : Heard(r)' => Heard(r)
    BY <2>1 DEF Heard, NoPoll
  <2> QED
    BY <2>1, <2>2, KeepsModel DEF NoPoll
<1> QED
  BY <1>2, <1>5, <1>6, <1>7, <1>8, <1>9, <1>10, <1>11, <1>12, <1>15, <1>16,
     <1>17, <1>18, <1>19, <1>20 DEF Next, TaskStep, PollStep

\* The invariant is inductive.
LEMMA IInvAlways == Spec => []IInv
<1>1. IInv /\ [Next]_vars => IInv'
  BY TypeStep, NothingStep, ModelStep DEF IInv
<1> QED
  BY <1>1, InitIInv, PTL DEF Spec

\* The row, the operations in Azure and the calls under way are well typed, and
\* no more rows are created than the execution allows.
THEOREM ClassifierTypeCorrect == Spec => []TypeOK
<1>1. IInv => TypeOK
  BY DEF IInv
<1> QED
  BY <1>1, IInvAlways, PTL

\* A row that says READY has its model in Azure, unless its name was used again
\* while work on an earlier row went on; for any number of requests to train,
\* of overlapping rounds of the cron and of rows.
THEOREM ReadyClassifierHasModel == Spec => []ReadyHasModel
<1>1. IInv => ReadyHasModel
  BY DEF IInv, RowKeepsModel, ReadyHasModel, HasRow
<1> QED
  BY <1>1, IInvAlways, PTL

------------------------------------------------------------------------------
\* A row that says TRAINING is never without somebody who will change that: the
\* background task of a request, or the cron, which only lists rows with an
\* operation on record.
TrainingIsCarried ==
  ~setup.stop /\ status = "TRAINING" =>
    \/ operation # NoRequest
    \/ \E r \in Requests : task[r] \in {"submit", "record", "fail"}

\* As long as the backend is not stopped from outside TRAINING is carried, for any
\* number of trainings and whatever deletions, reuses of the name and failures do.
THEOREM TrainingsAreCarried == Spec => []TrainingIsCarried
<1> USE NoRequestAssumption DEF TrainingIsCarried
<1>1. Init => TrainingIsCarried
  BY DEF Init
<1>2. TypeOK /\ TrainingIsCarried /\ [Next]_vars => TrainingIsCarried'
  <2> SUFFICES ASSUME TypeOK, TrainingIsCarried, [Next]_vars, ~setup'.stop,
                      status' = "TRAINING"
               PROVE  \/ operation' # NoRequest
                      \/ \E r \in Requests : task'[r] \in {"submit", "record", "fail"}
    OBVIOUS
  <2> DEFINE IsCarried == \/ operation # NoRequest
                          \/ \E r \in Requests : task[r] \in {"submit", "record", "fail"}
  <2>1. ASSUME UNCHANGED <<setup, operation, task>>, status = "TRAINING"
        PROVE  IsCarried'
    BY <2>1
  <2>2. ASSUME NEW r \in Requests, RequestTraining(r) \/ SubmitBuild(r) \/ SubmitFails(r)
                                   \/ RecordOperation(r)
        PROVE  IsCarried'
    <3>1. TaskAt(r, "submit") \/ TaskAt(r, "record") \/ TaskAt(r, "fail")
          \/ operation' = r
      BY <2>2 DEF RequestTraining, SubmitBuild, SubmitFails, RecordOperation
    <3>2. \A next : TaskAt(r, next) => task'[r] = next
      BY DEF TaskAt, TypeOK
    <3> QED BY <3>1, <3>2
  <2>3. ASSUME NEW r \in Requests, RecordFailure(r)
        PROVE  IsCarried'
    BY <2>3 DEF RecordFailure, HasRow
  <2>4. ASSUME NEW p \in Pollers, BeginPoll(p) \/ PollStep(p) \/ PollErrs(p)
        PROVE  IsCarried'
    BY <2>1, <2>4 DEF BeginPoll, PollStep, AskOperation, CheckModel, MarkReady,
      MarkFailed, PollErrs, rowVars
  <2>5. ASSUME \/ CreateClassifier \/ BeginDelete \/ DeleteRow \/ DeleteModel
               \/ ListModels \/ ReadRows \/ DeleteOrphan \/ DeleteOrphanFails
               \/ \E r \in Requests : BuildEnds(r) \/ OperationExpires(r)
               \/ UNCHANGED vars
        PROVE  IsCarried'
    BY <2>1, <2>5 DEF CreateClassifier, BeginDelete, DeleteRow, DeleteModel, ListModels,
      ReadRows, DeleteOrphan, DeleteOrphanFails, BuildEnds, OperationExpires, vars,
      rowVars
  <2>6. ~Stop
    BY DEF Stop
  <2> QED
    BY <2>2, <2>3, <2>4, <2>5, <2>6 DEF Next, TaskStep
<1> QED BY <1>1, <1>2, ClassifierTypeCorrect, PTL DEF Spec

==============================================================================
