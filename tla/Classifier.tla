------------------------------- MODULE Classifier ------------------------------
(***************************************************************************)
(* One name of a document classifier: the row that is created, trained and *)
(* deleted under it (apps/backend-services/src/azure/azure.controller.ts,  *)
(* classifier.service.ts), the cron that asks Azure how the builds go      *)
(* (classifier-poller.service.ts) and the weekly cleaner of models without *)
(* a row (classifier-orphan-cleanup.service.ts).                           *)
(*                                                                         *)
(* Nothing but the name ties a request, a build, a poll and a model to a   *)
(* row, and a name can be used again once its row is deleted.  A step of   *)
(* the model is one query or one call to Azure; the training files and     *)
(* their copies are left out.  getTrainingResult takes no step: it hands   *)
(* the identifier that is kept of an operation to a check that accepts     *)
(* URLs only, and so it answers with an error before it writes.            *)
(***************************************************************************)
EXTENDS Naturals, FiniteSets

CONSTANTS
  Requests,      \* the requests to train, each asks Azure for a build at most
  NoRequest,
  Pollers,       \* the rounds of the cron
  Setups         \* what may go wrong in an execution

ASSUME NoRequestAssumption == NoRequest \notin Requests
ASSUME SetupsAssumption ==
  Setups \subseteq [rows : Nat, polls : Nat, faults : BOOLEAN, stop : BOOLEAN]

VARIABLES
  setup,         \* fixed for an execution:
                 \*   rows    how often the name is created
                 \*   polls   the rounds of the cron that may overlap
                 \*   faults  calls to Azure may fail
                 \*   stop    the backend may stop at any time
  status,        \* ClassifierModel.status, "NONE" without a row
  operation,     \* operation_location: the request whose build is on record
  rows,          \* the rows created so far
  reused,        \* a row was created while work on an earlier one went on
  task,          \* request -> the next call of its background task
  build,         \* request -> the operation in Azure
  model,         \* the model in Azure under the name; "replaced" when a build
                 \* that has not succeeded has taken its place
  poll,          \* poller -> the next call and the operation it is about
  delete,        \* the next call of deleteClassifier and the status it read
  clean          \* the next call of the cleaner

rowVars == <<status, operation, rows, reused>>
azureVars == <<build, model>>
vars == <<setup, rowVars, task, azureVars, poll, delete, clean>>

Statuses == {"PRETRAINING", "TRAINING", "READY", "FAILED"}

NoPoll == [at |-> "idle", of |-> NoRequest]
NoDelete == [at |-> "idle", read |-> "NONE"]

TypeOK ==
  /\ setup \in Setups
  /\ status \in Statuses \cup {"NONE"}
  /\ operation \in Requests \cup {NoRequest}
  /\ rows \in 0..setup.rows
  /\ reused \in BOOLEAN
  /\ task \in [Requests -> {"unused", "submit", "record", "fail", "over"}]
  /\ build \in [Requests -> {"none", "running", "succeeded", "failed", "expired"}]
  /\ model \in {"none", "replaced", "built"}
  /\ poll \in [Pollers -> {NoPoll} \cup [at : {"ask", "check", "ready", "fail"},
                                         of : Requests]]
  /\ delete \in [at : {"idle", "row", "model"}, read : Statuses \cup {"NONE"}]
  /\ clean \in {"idle", "rows", "delete"}

Init ==
  /\ setup \in Setups
  /\ status = "NONE" /\ operation = NoRequest
  /\ rows = 0 /\ reused = FALSE
  /\ task = [r \in Requests |-> "unused"]
  /\ build = [r \in Requests |-> "none"]
  /\ model = "none"
  /\ poll = [p \in Pollers |-> NoPoll]
  /\ delete = NoDelete
  /\ clean = "idle"

------------------------------------------------------------------------------
HasRow == status # "NONE"

UnderWay ==
  \/ \E r \in Requests : task[r] \in {"submit", "record", "fail"}
  \/ \E p \in Pollers : poll[p] # NoPoll
  \/ delete # NoDelete
  \/ clean # "idle"

CreateClassifier ==
  /\ ~HasRow /\ rows < setup.rows
  /\ status' = "PRETRAINING"
  /\ operation' = NoRequest
  /\ rows' = rows + 1
  /\ reused' = (reused \/ (rows > 0 /\ UnderWay))
  /\ UNCHANGED <<setup, task, azureVars, poll, delete, clean>>

TaskAt(r, next) == task' = [task EXCEPT ![r] = next]

\* The request answers at once and leaves the rest to a background task.  The
\* row keeps the operation of the training before.
RequestTraining(r) ==
  /\ task[r] = "unused"
  /\ HasRow
  /\ status' = "TRAINING"
  /\ TaskAt(r, "submit")
  /\ UNCHANGED <<setup, operation, rows, reused, azureVars, poll, delete,
                 clean>>

\* Azure accepts the build and may drop the model it is to overwrite.
SubmitBuild(r) ==
  /\ task[r] = "submit"
  /\ HasRow
  /\ build' = [build EXCEPT ![r] = "running"]
  /\ \/ UNCHANGED model
     \/ model = "built" /\ model' = "replaced"
  /\ TaskAt(r, "record")
  /\ UNCHANGED <<setup, rowVars, poll, delete, clean>>

\* The copies, the layouts or the build fail, or the row is gone.
SubmitFails(r) ==
  /\ task[r] = "submit"
  /\ setup.faults \/ ~HasRow
  /\ TaskAt(r, "fail")
  /\ UNCHANGED <<setup, rowVars, azureVars, poll, delete, clean>>

\* Without an operation in Azure's answer there is nothing to record.
RecordOperation(r) ==
  /\ task[r] = "record"
  /\ \/ /\ HasRow
        /\ status' = "TRAINING" /\ operation' = r
        /\ TaskAt(r, "over")
     \/ /\ setup.faults \/ ~HasRow
        /\ TaskAt(r, "fail")
        /\ UNCHANGED <<status, operation>>
  /\ UNCHANGED <<setup, rows, reused, azureVars, poll, delete, clean>>

\* Everything that is under way in the backend is lost.
BackendStops ==
  /\ task' = [r \in Requests |-> IF task[r] = "unused" THEN "unused" ELSE "over"]
  /\ poll' = [p \in Pollers |-> NoPoll]
  /\ delete' = NoDelete
  /\ clean' = "idle"

\* Mutant of RecordFailure: the background task only logs its failure.
RecordNoFailure(r) ==
  /\ task[r] = "fail"
  /\ TaskAt(r, "over")
  /\ UNCHANGED <<setup, rowVars, azureVars, poll, delete, clean>>

\* An update of a row that is gone fails; nothing catches what the handler of
\* the failure throws, and the process ends.
RecordFailure(r) ==
  /\ task[r] = "fail"
  /\ \/ /\ HasRow
        /\ status' = "FAILED"
        /\ TaskAt(r, "over")
        /\ UNCHANGED <<poll, delete, clean>>
     \/ /\ ~HasRow
        /\ BackendStops
        /\ UNCHANGED status
  /\ UNCHANGED <<setup, operation, rows, reused, azureVars>>

------------------------------------------------------------------------------
\* Azure's side.

BuildEnds(r) ==
  /\ build[r] = "running"
  /\ \/ /\ build' = [build EXCEPT ![r] = "succeeded"]
        /\ model' = "built"
     \/ /\ build' = [build EXCEPT ![r] = "failed"]
        /\ UNCHANGED model
  /\ UNCHANGED <<setup, rowVars, task, poll, delete, clean>>

OperationExpires(r) ==
  /\ build[r] \in {"succeeded", "failed"}
  /\ build' = [build EXCEPT ![r] = "expired"]
  /\ UNCHANGED <<setup, rowVars, task, model, poll, delete, clean>>

\* DELETE of the model.  It may stop a build that runs, or find nothing yet.
AzureDeletes ==
  /\ model' = "none"
  /\ \/ UNCHANGED build
     \/ build' = [r \in Requests |->
                    IF build[r] = "running" THEN "failed" ELSE build[r]]

------------------------------------------------------------------------------
\* The cron.

PollAt(p, next) == poll' = [poll EXCEPT ![p].at = next]

PollIsOver(p) == poll' = [poll EXCEPT ![p] = NoPoll]

\* Mutant of BeginPoll: every row in training is listed.
BeginPollOfAny(p) ==
  /\ poll[p] = NoPoll
  /\ Cardinality({q \in Pollers : poll[q] # NoPoll}) < setup.polls
  /\ status = "TRAINING"
  /\ poll' = [poll EXCEPT ![p] = [at |-> "ask", of |-> operation]]
  /\ UNCHANGED <<setup, rowVars, task, azureVars, delete, clean>>

\* Rows in training with an operation on record are listed.
BeginPoll(p) ==
  /\ poll[p] = NoPoll
  /\ Cardinality({q \in Pollers : poll[q] # NoPoll}) < setup.polls
  /\ status = "TRAINING" /\ operation # NoRequest
  /\ poll' = [poll EXCEPT ![p] = [at |-> "ask", of |-> operation]]
  /\ UNCHANGED <<setup, rowVars, task, azureVars, delete, clean>>

\* An error that Azure answers with passes for an operation it has forgotten.
AskOperation(p) ==
  /\ poll[p].at = "ask"
  /\ LET s == build[poll[p].of] IN
       \/ s = "running" /\ PollIsOver(p)
       \/ s = "succeeded" /\ PollAt(p, "ready")
       \/ s = "failed" /\ PollAt(p, "fail")
       \/ (s = "expired" \/ setup.faults) /\ PollAt(p, "check")
  /\ UNCHANGED <<setup, rowVars, task, azureVars, delete, clean>>

\* Any answer but the model passes for its absence.
CheckModel(p) ==
  /\ poll[p].at = "check"
  /\ \/ model = "built" /\ PollAt(p, "ready")
     \/ (model # "built" \/ setup.faults) /\ PollAt(p, "fail")
  /\ UNCHANGED <<setup, rowVars, task, azureVars, delete, clean>>

PollErrs(p) ==
  /\ setup.faults
  /\ poll[p].at \in {"ask", "check"}
  /\ PollIsOver(p)
  /\ UNCHANGED <<setup, rowVars, task, azureVars, delete, clean>>

\* markClassifierReadyIfTraining.
MarkReady(p) ==
  /\ poll[p].at = "ready"
  /\ status' = IF status = "TRAINING" THEN "READY" ELSE status
  /\ PollIsOver(p)
  /\ UNCHANGED <<setup, operation, rows, reused, task, azureVars, delete,
                 clean>>

\* systemUpdateClassifierModel, whatever the row says by now.
MarkFailed(p) ==
  /\ poll[p].at = "fail"
  /\ status' = IF HasRow THEN "FAILED" ELSE status
  /\ PollIsOver(p)
  /\ UNCHANGED <<setup, operation, rows, reused, task, azureVars, delete,
                 clean>>

------------------------------------------------------------------------------
\* deleteClassifier.  The row goes first.

BeginDelete ==
  /\ delete = NoDelete
  /\ HasRow
  /\ delete' = [at |-> "row", read |-> status]
  /\ UNCHANGED <<setup, rowVars, task, azureVars, poll, clean>>

DeleteRow ==
  /\ delete.at = "row"
  /\ IF HasRow
       THEN /\ status' = "NONE" /\ operation' = NoRequest
            /\ delete' = IF delete.read = "PRETRAINING" THEN NoDelete
                         ELSE [delete EXCEPT !.at = "model"]
       ELSE /\ delete' = NoDelete
            /\ UNCHANGED <<status, operation>>
  /\ UNCHANGED <<setup, rows, reused, task, azureVars, poll, clean>>

\* By the status that was read the model is deleted at once or after a look
\* at the list of models; a failure is logged and left to the cleaner.
DeleteModel ==
  /\ delete.at = "model"
  /\ \/ AzureDeletes
     \/ setup.faults /\ UNCHANGED azureVars
  /\ delete' = NoDelete
  /\ UNCHANGED <<setup, rowVars, task, poll, clean>>

------------------------------------------------------------------------------
\* The cleaner: the list of models first, then the rows.

\* Mutant of ListModels: the rows are read before the models are listed.
ListModelsLast ==
  /\ clean = "idle"
  /\ ~HasRow
  /\ clean' = "delete"
  /\ UNCHANGED <<setup, rowVars, task, azureVars, poll, delete>>

\* The call to Azure is taken to list the model.  listAzureClassifiers reads one
\* response and follows no link to a next one: a model further down a list that
\* Azure divides is not seen, and the round leaves it.
ListModels ==
  /\ clean = "idle"
  /\ model = "built"
  /\ clean' = "rows"
  /\ UNCHANGED <<setup, rowVars, task, azureVars, poll, delete>>

ReadRows ==
  /\ clean = "rows"
  /\ clean' = IF HasRow THEN "idle" ELSE "delete"
  /\ UNCHANGED <<setup, rowVars, task, azureVars, poll, delete>>

\* Mutant of DeleteOrphan: only the files of the orphan are deleted.
DeleteOrphanFiles ==
  /\ clean = "delete"
  /\ clean' = "idle"
  /\ UNCHANGED <<setup, rowVars, task, azureVars, poll, delete>>

DeleteOrphan ==
  /\ clean = "delete"
  /\ AzureDeletes
  /\ clean' = "idle"
  /\ UNCHANGED <<setup, rowVars, task, poll, delete>>

DeleteOrphanFails ==
  /\ clean = "delete"
  /\ setup.faults
  /\ clean' = "idle"
  /\ UNCHANGED <<setup, rowVars, task, azureVars, poll, delete>>

------------------------------------------------------------------------------
Stop ==
  /\ setup.stop
  /\ BackendStops
  /\ UNCHANGED <<setup, rowVars, azureVars>>

TaskStep(r) ==
  SubmitBuild(r) \/ SubmitFails(r) \/ RecordOperation(r) \/ RecordFailure(r)

PollStep(p) ==
  AskOperation(p) \/ CheckModel(p) \/ MarkReady(p) \/ MarkFailed(p)

Next ==
  \/ CreateClassifier
  \/ \E r \in Requests :
       RequestTraining(r) \/ TaskStep(r) \/ BuildEnds(r) \/ OperationExpires(r)
  \/ \E p \in Pollers : BeginPoll(p) \/ PollStep(p) \/ PollErrs(p)
  \/ BeginDelete \/ DeleteRow \/ DeleteModel
  \/ ListModels \/ ReadRows \/ DeleteOrphan \/ DeleteOrphanFails
  \/ Stop

Spec == Init /\ [][Next]_vars

\* Background tasks and builds go on, the crons fire again and again, and not
\* every call to Azure fails.
Fairness ==
  /\ WF_vars(\E r \in Requests : TaskStep(r))
  /\ WF_vars(\E r \in Requests : BuildEnds(r))
  /\ WF_vars(\E p \in Pollers : BeginPoll(p))
  /\ SF_vars(\E p \in Pollers : AskOperation(p))
  /\ SF_vars(\E p \in Pollers : CheckModel(p))
  /\ WF_vars(\E p \in Pollers : MarkReady(p) \/ MarkFailed(p))
  /\ WF_vars(ListModels) /\ SF_vars(ReadRows) /\ SF_vars(DeleteOrphan)

FairSpec == Spec /\ Fairness

------------------------------------------------------------------------------
\* deleteClassifier takes the row away before the model, and the cleaner lists
\* the models before the rows: neither takes its model from a classifier that
\* says READY, and neither do polls that overlap, builds that a deletion has
\* not stopped and operations that Azure has forgotten.  A name used again
\* while work on its earlier row goes on is excepted, nothing keeps the two
\* apart; a build that has replaced the model and fails is another matter.
ReadyHasModel ==
  status = "READY" /\ ~reused => model # "none"

\* A model that is left without a row, because its deletion failed or because
\* a build outlived the row, does not stay: the cleaner collects it, however
\* often the backend stops and Azure refuses, as long as Azure's first response
\* to the call that lists the models holds it (ListModels).
OrphansAreCollected ==
  model = "built" /\ ~HasRow ~> model # "built" \/ HasRow

\* As long as the backend does not stop, a classifier that says TRAINING gets
\* another status, although nothing limits the time, also when it is trained
\* again with the operation of its last training still on record.
TrainingEnds ==
  status = "TRAINING" /\ ~setup.stop ~> status # "TRAINING" \/ reused

==============================================================================
