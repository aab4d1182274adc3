------------------------------- MODULE Training -------------------------------
(***************************************************************************)
(* The training jobs of one template model and the trained versions they   *)
(* leave (apps/backend-services/src/training/).                            *)
(*                                                                         *)
(* A start looks for a job in flight, takes the next version number and    *)
(* creates its job; an upload that nobody awaits then walks the job to     *)
(* TRAINING; a cron polls Azure and, when the build has succeeded, writes  *)
(* SUCCEEDED and then replaces the active version.  Users cancel jobs and  *)
(* activate or delete versions.  No update looks at the row it writes, so  *)
(* a step of the model is one call that writes, with the reads before it.  *)
(*                                                                         *)
(* A job creates at most one trained model (training_job_id is unique), so *)
(* a version is named by its job.  A transaction is two steps: the         *)
(* statement that finds the rows to demote (under READ COMMITTED it sees   *)
(* no row that commits later) and the commit.  Which artifacts lie under a *)
(* model name at Azure is left out; a refused request is not a step.       *)
(***************************************************************************)
EXTENDS Naturals, FiniteSets

CONSTANTS
  Jobs,
  NoJob,
  Pollers,       \* runs of the cron that may overlap
  Users,         \* requests that cancel, activate or delete
  Setups         \* which of these overlap, and what may happen

ASSUME NoJobAssumption == NoJob \notin Jobs
ASSUME SetupsAssumption ==
  Setups \subseteq [starts : Nat, polls : Nat, users : Nat,
                    cancel : BOOLEAN, restart : BOOLEAN]
ASSUME FinitenessAssumption ==
  IsFiniteSet(Jobs) /\ IsFiniteSet(Pollers) /\ IsFiniteSet(Users)

VARIABLES
  setup,         \* fixed for an execution
  stage,         \* job -> the call its start, then its upload, makes next
  version,       \* job -> TrainingJob.target_version, 0 before it is read
  status,        \* job -> TrainingJob.status, "none" before it is created
  recorded,      \* the jobs with an operation_id
  build,         \* job -> the build at Azure
  late,          \* the jobs older than TRAINING_MAX_WALL_CLOCK_HOURS
  trained,       \* the jobs with a TrainedModel
  active,        \* those with is_active
  deleted,       \* those with deleted_at
  poll,          \* poller -> what it does next
  user           \* user -> what its request does next

jobVars == <<stage, version, recorded, build>>
modelVars == <<trained, active, deleted>>
vars == <<setup, jobVars, status, late, modelVars, poll, user>>

InFlightStatus == {"PENDING", "UPLOADING", "UPLOADED", "TRAINING"}

Starting == {"checked", "numbered"}
Uploading == {"begin", "files", "build", "record", "fail"}

NoRound == [at |-> "idle", todo |-> {}, job |-> NoJob, rows |-> {}]
NoRequest == [at |-> "idle", job |-> NoJob, rows |-> {}]

TypeOK ==
  /\ setup \in Setups
  /\ stage \in [Jobs -> {"unused", "over"} \cup Starting \cup Uploading]
  /\ version \in [Jobs -> Nat]
  /\ status \in [Jobs -> {"none", "SUCCEEDED", "FAILED"} \cup InFlightStatus]
  /\ recorded \subseteq Jobs
  /\ build \in [Jobs -> {"none", "running", "succeeded", "failed"}]
  /\ late \subseteq Jobs
  /\ trained \subseteq Jobs
  /\ active \subseteq trained
  /\ deleted \subseteq trained
  /\ poll \in [Pollers -> [at : {"idle", "ask", "fail", "succeed", "demote",
                                 "insert"},
                           todo : SUBSET Jobs, job : Jobs \cup {NoJob},
                           rows : SUBSET Jobs]]
  /\ user \in [Users -> [at : {"idle", "cancel", "activate", "tombstone"},
                         job : Jobs \cup {NoJob}, rows : SUBSET Jobs]]

Init ==
  /\ setup \in Setups
  /\ stage = [j \in Jobs |-> "unused"]
  /\ version = [j \in Jobs |-> 0]
  /\ status = [j \in Jobs |-> "none"]
  /\ recorded = {} /\ late = {}
  /\ build = [j \in Jobs |-> "none"]
  /\ trained = {} /\ active = {} /\ deleted = {}
  /\ poll = [p \in Pollers |-> NoRound]
  /\ user = [u \in Users |-> NoRequest]

------------------------------------------------------------------------------
(* A start, and the upload it leaves behind.                                *)

Goto(j, next) == stage' = [stage EXCEPT ![j] = next]

Write(j, s) == status' = [status EXCEPT ![j] = s]

InFlight == {j \in Jobs : status[j] \in InFlightStatus}

\* findInFlightJobForTemplate found none.
BeginStart(j) ==
  /\ stage[j] = "unused"
  /\ Cardinality({k \in Jobs : stage[k] \in Starting}) < setup.starts
  /\ InFlight = {}
  /\ Goto(j, "checked")
  /\ UNCHANGED <<setup, version, status, recorded, build, late, modelVars,
                 poll, user>>

\* getNextVersionNumber: one above the greatest, the deleted ones included.
TakeVersion(j) ==
  LET taken == {version[k] : k \in trained} IN
  /\ stage[j] = "checked"
  /\ \E n \in {1} \cup {v + 1 : v \in taken} :
       /\ \A v \in taken : v < n
       /\ version' = [version EXCEPT ![j] = n]
  /\ Goto(j, "numbered")
  /\ UNCHANGED <<setup, status, recorded, build, late, modelVars, poll, user>>

\* The training data is not valid.
RefuseStart(j) ==
  /\ stage[j] = "numbered"
  /\ Goto(j, "over")
  /\ UNCHANGED <<setup, version, status, recorded, build, late, modelVars,
                 poll, user>>

CreateJob(j) ==
  /\ stage[j] = "numbered"
  /\ Write(j, "PENDING")
  /\ Goto(j, "begin")
  /\ UNCHANGED <<setup, version, recorded, build, late, modelVars, poll, user>>

BeginUpload(j) ==
  /\ stage[j] = "begin"
  /\ Write(j, "UPLOADING")
  /\ Goto(j, "files")
  /\ UNCHANGED <<setup, version, recorded, build, late, modelVars, poll, user>>

\* The files are in the container and the link to it is made.
EndUpload(j) ==
  /\ stage[j] = "files"
  /\ Write(j, "UPLOADED")
  /\ Goto(j, "build")
  /\ UNCHANGED <<setup, version, recorded, build, late, modelVars, poll, user>>

RequestBuild(j) ==
  /\ stage[j] = "build"
  /\ build' = [build EXCEPT ![j] = "running"]
  /\ Goto(j, "record")
  /\ UNCHANGED <<setup, version, status, recorded, late, modelVars, poll,
                 user>>

RecordBuild(j) ==
  /\ stage[j] = "record"
  /\ Write(j, "TRAINING")
  /\ recorded' = recorded \cup {j}
  /\ Goto(j, "over")
  /\ UNCHANGED <<setup, version, build, late, modelVars, poll, user>>

\* A file, the link, the request for the build or its answer is bad.
UploadFails(j) ==
  /\ stage[j] \in {"files", "build", "record"}
  /\ Goto(j, "fail")
  /\ UNCHANGED <<setup, version, status, recorded, build, late, modelVars,
                 poll, user>>

RecordFailure(j) ==
  /\ stage[j] = "fail"
  /\ Write(j, "FAILED")
  /\ Goto(j, "over")
  /\ UNCHANGED <<setup, version, recorded, build, late, modelVars, poll, user>>

AzureEnds(j, result) ==
  /\ build[j] = "running"
  /\ build' = [build EXCEPT ![j] = result]
  /\ UNCHANGED <<setup, stage, version, status, recorded, late, modelVars,
                 poll, user>>

\* The wall-clock limit of a job that is polled passes.
TimePasses(j) ==
  /\ j \in recorded \ late
  /\ late' = late \cup {j}
  /\ UNCHANGED <<setup, jobVars, status, modelVars, poll, user>>

------------------------------------------------------------------------------
(* The cron: a round lists the active jobs once and asks for one after the  *)
(* other.                                                                   *)

Step(p, next, j) ==
  poll' = [poll EXCEPT ![p].at = next, ![p].job = j, ![p].rows = {}]

\* The poll of the job at hand ends; the round ends with its last job.
EndOfPoll(p) ==
  poll' = [poll EXCEPT ![p] =
             IF @.todo = {} THEN NoRound
             ELSE [at |-> "ask", todo |-> @.todo, job |-> NoJob, rows |-> {}]]

Busy == {p \in Pollers : poll[p].at # "idle"}

Polled == {j \in recorded : status[j] \in {"TRAINING", "UPLOADED"}}

BeginRound(p) ==
  /\ poll[p].at = "idle"
  /\ Cardinality(Busy) < setup.polls
  /\ Polled # {}
  /\ poll' = [poll EXCEPT ![p] =
                [at |-> "ask", todo |-> Polled, job |-> NoJob, rows |-> {}]]
  /\ UNCHANGED <<setup, jobVars, status, late, modelVars, user>>

\* Mutant of Verdicts: a job that Azure never ends is asked for without end.
VerdictsOfAzure(j) ==
  {"fail"} \cup CASE build[j] = "succeeded" -> {"succeed"}
                  [] build[j] = "running" -> {"return"}
                  [] OTHER -> {}

\* What pollTrainingStatus may make of a job of the list, whose status it does
\* not read again; every error of a call to Azure fails the job.
Verdicts(j) ==
  {"fail"} \cup CASE j \in late -> {}
                  [] build[j] = "succeeded" -> {"succeed"}
                  [] build[j] = "running" -> {"return"}
                  [] OTHER -> {}

Ask(p, j) ==
  /\ poll[p].at = "ask"
  /\ j \in poll[p].todo
  /\ \E verdict \in Verdicts(j) :
       poll' = [poll EXCEPT ![p] =
         LET rest == @.todo \ {j} IN
         IF verdict # "return" THEN
           [at |-> verdict, todo |-> rest, job |-> j, rows |-> {}]
         ELSE IF rest = {} THEN NoRound
         ELSE [at |-> "ask", todo |-> rest, job |-> NoJob, rows |-> {}]]
  /\ UNCHANGED <<setup, jobVars, status, late, modelVars, user>>

PollFails(p) ==
  /\ poll[p].at = "fail"
  /\ Write(poll[p].job, "FAILED")
  /\ EndOfPoll(p)
  /\ UNCHANGED <<setup, jobVars, late, modelVars, user>>

PollSucceeds(p) ==
  /\ poll[p].at = "succeed"
  /\ Write(poll[p].job, "SUCCEEDED")
  /\ Step(p, "demote", poll[p].job)
  /\ UNCHANGED <<setup, jobVars, late, modelVars, user>>

\* Mutant of SnapshotFails: the error of the snapshot is only logged.
SnapshotIsSkipped(p) ==
  /\ poll[p].at = "demote"
  /\ EndOfPoll(p)
  /\ UNCHANGED <<setup, jobVars, status, late, modelVars, user>>

\* The snapshot of the labels cannot be taken.
SnapshotFails(p) ==
  /\ poll[p].at = "demote"
  /\ Step(p, "fail", poll[p].job)
  /\ UNCHANGED <<setup, jobVars, status, late, modelVars, user>>

\* Mutant of Demote: the demotion is not in the transaction of the insert.
DemoteAtOnce(p) ==
  /\ poll[p].at = "demote"
  /\ active' = {}
  /\ poll' = [poll EXCEPT ![p].at = "insert", ![p].rows = {}]
  /\ UNCHANGED <<setup, jobVars, status, late, trained, deleted, user>>

\* Mutant of Demote: nothing is demoted.
DemoteNothing(p) ==
  /\ poll[p].at = "demote"
  /\ Step(p, "insert", poll[p].job)
  /\ UNCHANGED <<setup, jobVars, status, late, modelVars, user>>

\* replaceActiveTrainedModel finds the rows that are active.
Demote(p) ==
  /\ poll[p].at = "demote"
  /\ poll' = [poll EXCEPT ![p].at = "insert", ![p].rows = active]
  /\ UNCHANGED <<setup, jobVars, status, late, modelVars, user>>

\* training_job_id and (template_model_id, version) are unique.
Duplicate(j) == j \in trained \/ \E k \in trained : version[k] = version[j]

Insert(p) ==
  LET j == poll[p].job IN
  /\ poll[p].at = "insert"
  /\ IF Duplicate(j)
     THEN Step(p, "fail", j) /\ UNCHANGED modelVars
     ELSE /\ trained' = trained \cup {j}
          /\ active' = (active \ poll[p].rows) \cup {j}
          /\ EndOfPoll(p)
          /\ UNCHANGED deleted
  /\ UNCHANGED <<setup, jobVars, status, late, user>>

------------------------------------------------------------------------------
(* The users.                                                               *)

CanAsk(u) ==
  /\ user[u] = NoRequest
  /\ Cardinality({v \in Users : user[v] # NoRequest}) < setup.users

Request(u, next, j, rows) ==
  user' = [user EXCEPT ![u] = [at |-> next, job |-> j, rows |-> rows]]

BeginCancel(u, j) ==
  /\ setup.cancel /\ CanAsk(u)
  /\ status[j] \in InFlightStatus
  /\ Request(u, "cancel", j, {})
  /\ UNCHANGED <<setup, jobVars, status, late, modelVars, poll>>

\* Only the row says that the job is cancelled: upload and build go on.
EndCancel(u) ==
  /\ user[u].at = "cancel"
  /\ Write(user[u].job, "FAILED")
  /\ user' = [user EXCEPT ![u] = NoRequest]
  /\ UNCHANGED <<setup, jobVars, late, modelVars, poll>>

\* setActiveTrainedModel finds the rows of the other versions.
BeginActivate(u, j) ==
  /\ CanAsk(u)
  /\ j \in trained \ deleted
  /\ Request(u, "activate", j, trained \ {j})
  /\ UNCHANGED <<setup, jobVars, status, late, modelVars, poll>>

EndActivate(u) ==
  /\ user[u].at = "activate"
  /\ active' = (active \ user[u].rows) \cup {user[u].job}
  /\ user' = [user EXCEPT ![u] = NoRequest]
  /\ UNCHANGED <<setup, jobVars, status, late, trained, deleted, poll>>

\* deleteTrainedVersion: the version is not active, no definition names it.
BeginDelete(u, j) ==
  /\ CanAsk(u)
  /\ j \in trained \ (deleted \cup active)
  /\ Request(u, "tombstone", j, {})
  /\ UNCHANGED <<setup, jobVars, status, late, modelVars, poll>>

Tombstone(u) ==
  /\ user[u].at = "tombstone"
  /\ active' = active \ {user[u].job}
  /\ deleted' = deleted \cup {user[u].job}
  /\ user' = [user EXCEPT ![u] = NoRequest]
  /\ UNCHANGED <<setup, jobVars, status, late, trained, poll>>

------------------------------------------------------------------------------
\* The backend stops and starts again: only rows and builds are left.
Restart ==
  /\ setup.restart
  /\ stage' = [j \in Jobs |-> IF stage[j] = "unused" THEN "unused" ELSE "over"]
  /\ poll' = [p \in Pollers |-> NoRound]
  /\ user' = [u \in Users |-> NoRequest]
  /\ UNCHANGED <<setup, version, status, recorded, build, late, modelVars>>

StartStep(j) ==
  \/ BeginStart(j) \/ TakeVersion(j) \/ RefuseStart(j) \/ CreateJob(j)

UploadStep(j) ==
  \/ BeginUpload(j) \/ EndUpload(j) \/ RequestBuild(j) \/ RecordBuild(j)
  \/ UploadFails(j) \/ RecordFailure(j)

PollStep(p) ==
  \/ \E j \in Jobs : Ask(p, j)
  \/ PollFails(p) \/ PollSucceeds(p) \/ SnapshotFails(p)
  \/ Demote(p) \/ Insert(p)

UserStep(u) ==
  \/ \E j \in Jobs : BeginCancel(u, j) \/ BeginActivate(u, j) \/ BeginDelete(u, j)
  \/ EndCancel(u) \/ EndActivate(u) \/ Tombstone(u)

Next ==
  \/ \E j \in Jobs : StartStep(j) \/ UploadStep(j) \/ TimePasses(j)
  \/ \E j \in Jobs, result \in {"succeeded", "failed"} : AzureEnds(j, result)
  \/ \E p \in Pollers : BeginRound(p) \/ PollStep(p)
  \/ \E u \in Users : UserStep(u)
  \/ Restart

Spec == Init /\ [][Next]_vars

\* An upload and a poll go on, the cron fires again and again, time passes.
\* Nothing is asked of the users, of Azure or of a start.
Fairness ==
  /\ \A j \in Jobs : WF_vars(UploadStep(j)) /\ WF_vars(TimePasses(j))
  /\ \A p \in Pollers : WF_vars(PollStep(p))
  /\ WF_vars(\E p \in Pollers : BeginRound(p))

FairSpec == Spec /\ Fairness

------------------------------------------------------------------------------
\* A poller is between SUCCEEDED and the trained model of the job, or about
\* to take SUCCEEDED back.
Storing(j) ==
  \E p \in Pollers : poll[p].job = j /\ poll[p].at \in {"demote", "insert", "fail"}

\* SUCCEEDED is written before the trained model is created (training-poller
\* .service.ts:286 and 310), by polls that may overlap, on jobs that a user
\* may have cancelled or whose number another start has taken: without a
\* restart, a job that says SUCCEEDED has a trained model all the same.
SucceededHasModel ==
  ~setup.restart =>
    \A j \in Jobs : status[j] = "SUCCEEDED" => j \in trained \/ Storing(j)

\* As long as rounds do not overlap and nothing is cancelled, a trained
\* model belongs to a job that says SUCCEEDED, also after a restart between
\* two writes of a poll and under two starts that took one version number.
ModelHasSucceeded ==
  setup.polls <= 1 /\ ~setup.cancel =>
    \A j \in trained : status[j] = "SUCCEEDED"

\* What a job says and what there is agree.
OutcomeAgrees == SucceededHasModel /\ ModelHasSucceeded

\* While no user activates or deletes and rounds do not overlap, a template
\* has at most one active version, and has one once it has a version.
OneActive ==
  setup.polls <= 1 /\ setup.users = 0 =>
    Cardinality(active) = IF trained = {} THEN 0 ELSE 1

\* A template that has an active version keeps having one, whatever activates
\* and replaces meanwhile and whenever the backend stops; only the deletion
\* of a version that was activated after the deletion's check takes it away.
ActiveIsReplaced ==
  [][active # {} /\ active' = {} => active \subseteq deleted']_vars

\* As long as the backend is not restarted every job gets out of the states
\* in which it blocks the next training of its template.
JobsEnd ==
  \A j \in Jobs :
    ~setup.restart /\ status[j] \in InFlightStatus
      ~> status[j] \notin InFlightStatus

==============================================================================
