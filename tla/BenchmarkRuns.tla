----------------------------- MODULE BenchmarkRuns -----------------------------
(***************************************************************************)
(* The benchmark runs of the definitions that use one dataset version: the *)
(* requests that start, cancel and delete them                             *)
(* (apps/backend-services/src/benchmark/benchmark-run*.ts) and the         *)
(* workflow that executes each (apps/temporal/src/benchmark-workflow.ts).  *)
(*                                                                         *)
(* Both sides write the status of a run without a look at the row.  A step *)
(* of the model is one write, with the reads before it, one call to        *)
(* Temporal or one phase of the workflow.  A cancellation reaches the      *)
(* workflow at any await; every activity it asks for afterwards is refused *)
(* to it, the ones of its own clean-up too, and an activity that it no     *)
(* longer awaits may still write.  The phases from the materialization to  *)
(* the aggregation are one phase, a sample that fails does not fail it.    *)
(***************************************************************************)
EXTENDS Naturals, FiniteSets

CONSTANTS
  Runs,
  Definitions,
  NoDefinition,
  Setups         \* what may go wrong in an execution

ASSUME NoDefinitionAssumption == NoDefinition \notin Definitions
ASSUME SetupsAssumption ==
  Setups \subseteq [prompt : BOOLEAN, faults : BOOLEAN, crash : BOOLEAN,
                    race : BOOLEAN]

VARIABLES
  setup,         \* fixed for an execution:
                 \*   prompt  calls take effect before what is decided later
                 \*   faults  clean-ups, status writes and calls may fail
                 \*   crash   the backend may stop
                 \*   race    runs are deleted while others are started
  status,        \* run -> BenchmarkRun.status, "none" and "deleted" without row
  definition,    \* run -> its definition
  recorded,      \* the runs whose start was recorded (temporalWorkflowId)
  immutable,     \* the definitions that are immutable
  frozen,        \* DatasetVersion.frozen
  flow,          \* run -> the phase of its workflow
  asked,         \* the runs whose workflow is asked to stop
  late,          \* run -> the status an abandoned activity is about to write
  start,         \* run -> the next call of startRun
  cancel,        \* run -> the next call of cancelRun
  delete         \* run -> the next call of deleteRun

vars == <<setup, status, definition, recorded, immutable, frozen, flow, asked,
          late, start, cancel, delete>>

Active == {"pending", "running"}
Final == {"completed", "failed", "cancelled"}

Open == {"begin", "work", "complete", "clean", "tidy", "fail"}

TypeOK ==
  /\ setup \in Setups
  /\ status \in [Runs -> Active \cup Final \cup {"none", "deleted"}]
  /\ definition \in [Runs -> Definitions \cup {NoDefinition}]
  /\ recorded \subseteq Runs /\ asked \subseteq recorded
  /\ immutable \subseteq Definitions
  /\ frozen \in BOOLEAN
  /\ flow \in [Runs -> Open \cup {"none", "closed"}]
  /\ late \in [Runs -> {"none", "running", "completed", "failed"}]
  /\ start \in [Runs -> {"unused", "call", "record", "fail", "over"}]
  /\ cancel \in [Runs -> {"idle", "ask", "write"}]
  /\ delete \in [Runs -> {"idle", "delete", "count", "reset", "version",
                          "unfreeze"}]

Init ==
  /\ setup \in Setups
  /\ status = [r \in Runs |-> "none"]
  /\ definition = [r \in Runs |-> NoDefinition]
  /\ recorded = {} /\ asked = {} /\ immutable = {}
  /\ frozen = FALSE
  /\ flow = [r \in Runs |-> "none"]
  /\ late = [r \in Runs |-> "none"]
  /\ start = [r \in Runs |-> "unused"]
  /\ cancel = [r \in Runs |-> "idle"]
  /\ delete = [r \in Runs |-> "idle"]

------------------------------------------------------------------------------
HasRow(r) == status[r] \notin {"none", "deleted"}

\* An update of a row that is gone fails and changes nothing.
Write(r, s) ==
  status' = IF HasRow(r) THEN [status EXCEPT ![r] = s] ELSE status

Starting == {r \in Runs : start[r] \in {"call", "record", "fail"}}

Deleting == {r \in Runs : delete[r] # "idle"}

RunsOf(d) == {r \in Runs : HasRow(r) /\ definition[r] = d}

StartAt(r, next) == start' = [start EXCEPT ![r] = next]

CreateRun(r, d) ==
  /\ start[r] = "unused"
  /\ setup.race \/ Deleting = {}
  /\ status' = [status EXCEPT ![r] = "pending"]
  /\ definition' = [definition EXCEPT ![r] = d]
  /\ StartAt(r, "call")
  /\ UNCHANGED <<setup, recorded, immutable, frozen, flow, asked, late, cancel,
                 delete>>

StartWorkflow(r) ==
  /\ start[r] = "call"
  /\ flow' = [flow EXCEPT ![r] = "begin"]
  /\ StartAt(r, "record")
  /\ UNCHANGED <<setup, status, definition, recorded, immutable, frozen, asked,
                 late, cancel, delete>>

\* Temporal does not answer; the workflow may have been started.
StartWorkflowFails(r) ==
  /\ start[r] = "call"
  /\ \/ UNCHANGED flow
     \/ setup.faults /\ flow' = [flow EXCEPT ![r] = "begin"]
  /\ StartAt(r, "fail")
  /\ UNCHANGED <<setup, status, definition, recorded, immutable, frozen, asked,
                 late, cancel, delete>>

\* postTemporalStartTransaction.
RecordStart(r) ==
  /\ start[r] = "record"
  /\ HasRow(r)
  /\ status' = [status EXCEPT ![r] = "running"]
  /\ recorded' = recorded \cup {r}
  /\ immutable' = immutable \cup {definition[r]}
  /\ frozen' = TRUE
  /\ StartAt(r, "over")
  /\ UNCHANGED <<setup, definition, flow, asked, late, cancel, delete>>

RecordStartFails(r) ==
  /\ start[r] = "record"
  /\ setup.faults \/ ~HasRow(r)
  /\ StartAt(r, "fail")
  /\ UNCHANGED <<setup, status, definition, recorded, immutable, frozen, flow,
                 asked, late, cancel, delete>>

StartFails(r) ==
  /\ start[r] = "fail"
  /\ Write(r, "failed")
  /\ StartAt(r, "over")
  /\ UNCHANGED <<setup, definition, recorded, immutable, frozen, flow, asked,
                 late, cancel, delete>>

------------------------------------------------------------------------------
(* The workflow.  When all is prompt it goes on neither before its start is *)
(* recorded nor after it is asked to stop.                                  *)

GoesOn(r) == setup.prompt => start[r] = "over" /\ r \notin asked

FlowAt(r, next) == flow' = [flow EXCEPT ![r] = next]

\* An activity that writes a status; after its last attempt failed the
\* workflow continues elsewhere.
WriteActivity(r, s, done, failed) ==
  /\ GoesOn(r)
  /\ \/ HasRow(r) /\ Write(r, s) /\ FlowAt(r, done)
     \/ (setup.faults \/ ~HasRow(r)) /\ UNCHANGED status /\ FlowAt(r, failed)
  /\ UNCHANGED <<setup, definition, recorded, immutable, frozen, asked, late,
                 start, cancel, delete>>

\* The steps of the workflow that change nothing but its phase.
Advance(r, next) ==
  /\ GoesOn(r)
  /\ FlowAt(r, next)
  /\ UNCHANGED <<setup, status, definition, recorded, immutable, frozen, asked,
                 late, start, cancel, delete>>

SetRunning(r) ==
  flow[r] = "begin" /\ WriteActivity(r, "running", "work", "fail")

\* With something materialized a failure is tidied up first.
Work(r) ==
  /\ flow[r] = "work"
  /\ \E next \in {"complete", "tidy", "fail"} : Advance(r, next)

Complete(r) ==
  flow[r] = "complete" /\ WriteActivity(r, "completed", "clean", "tidy")

\* Mutant of Clean: a comparison with the baseline that fails is an error.
CleanAfterComparison(r) ==
  /\ flow[r] = "clean"
  /\ Advance(r, "closed") \/ Advance(r, "tidy")

\* The comparison with the baseline, whose failure is swallowed, and the last
\* clean-up, whose failure leads a completed run into the catch.
Clean(r) ==
  /\ flow[r] = "clean"
  /\ Advance(r, "closed") \/ (setup.faults /\ Advance(r, "tidy"))

\* A clean-up that fails in the catch ends the workflow.
Tidy(r) ==
  /\ flow[r] = "tidy"
  /\ Advance(r, "fail") \/ (setup.faults /\ Advance(r, "closed"))

SetFailed(r) ==
  flow[r] = "fail" /\ WriteActivity(r, "failed", "closed", "closed")

\* What the activity that the workflow awaits is about to write.
Writing(r) ==
  CASE flow[r] = "begin" -> "running"
    [] flow[r] = "complete" -> "completed"
    [] flow[r] = "fail" -> "failed"
    [] OTHER -> "none"

\* The workflow was asked to stop, or Temporal ends it after a day.
Abandon(r) ==
  /\ r \in asked \/ setup.faults
  /\ flow[r] \in Open
  /\ FlowAt(r, "closed")
  /\ \/ UNCHANGED late
     \/ ~setup.prompt /\ late' = [late EXCEPT ![r] = Writing(r)]
  /\ UNCHANGED <<setup, status, definition, recorded, immutable, frozen, asked,
                 start, cancel, delete>>

LateWrite(r) ==
  /\ late[r] # "none"
  /\ Write(r, late[r])
  /\ late' = [late EXCEPT ![r] = "none"]
  /\ UNCHANGED <<setup, definition, recorded, immutable, frozen, flow, asked,
                 start, cancel, delete>>

------------------------------------------------------------------------------
CancelAt(r, next) == cancel' = [cancel EXCEPT ![r] = next]

\* Without the id of its workflow Temporal refuses the call, and cancelRun
\* goes on.
BeginCancel(r) ==
  /\ cancel[r] = "idle" /\ status[r] \in Active
  /\ CancelAt(r, IF r \in recorded THEN "ask" ELSE "write")
  /\ UNCHANGED <<setup, status, definition, recorded, immutable, frozen, flow,
                 asked, late, start, delete>>

\* The call, which may fail as well.
AskWorkflow(r) ==
  /\ cancel[r] = "ask"
  /\ \/ asked' = asked \cup {r}
     \/ setup.faults /\ UNCHANGED asked
  /\ CancelAt(r, "write")
  /\ UNCHANGED <<setup, status, definition, recorded, immutable, frozen, flow,
                 late, start, delete>>

\* Mutant of EndCancel: that the run is cancelled is left to its workflow.
EndCancelSilently(r) ==
  /\ cancel[r] = "write"
  /\ CancelAt(r, "idle")
  /\ UNCHANGED <<setup, status, definition, recorded, immutable, frozen, flow,
                 asked, late, start, delete>>

EndCancel(r) ==
  /\ cancel[r] = "write"
  /\ Write(r, "cancelled")
  /\ CancelAt(r, "idle")
  /\ UNCHANGED <<setup, definition, recorded, immutable, frozen, flow, asked,
                 late, start, delete>>

------------------------------------------------------------------------------
DeleteAt(r, next) == delete' = [delete EXCEPT ![r] = next]

BeginDelete(r) ==
  /\ delete[r] = "idle" /\ status[r] \in Final
  /\ setup.race \/ Starting = {}
  /\ DeleteAt(r, "delete")
  /\ UNCHANGED <<setup, status, definition, recorded, immutable, frozen, flow,
                 asked, late, start, cancel>>

DeleteRow(r) ==
  /\ delete[r] = "delete"
  /\ IF HasRow(r)
     THEN status' = [status EXCEPT ![r] = "deleted"] /\ DeleteAt(r, "count")
     ELSE UNCHANGED status /\ DeleteAt(r, "idle")
  /\ UNCHANGED <<setup, definition, recorded, immutable, frozen, flow, asked,
                 late, start, cancel>>

\* The two counts, each read before the write that depends on it.
CountRuns(r) ==
  /\ delete[r] = "count"
  /\ DeleteAt(r, IF RunsOf(definition[r]) = {} THEN "reset" ELSE "idle")
  /\ UNCHANGED <<setup, status, definition, recorded, immutable, frozen, flow,
                 asked, late, start, cancel>>

ResetImmutable(r) ==
  /\ delete[r] = "reset"
  /\ immutable' = immutable \ {definition[r]}
  /\ DeleteAt(r, "version")
  /\ UNCHANGED <<setup, status, definition, recorded, frozen, flow, asked,
                 late, start, cancel>>

\* Mutant of CountOfVersion: only the runs of the definition are counted.
CountOfDefinition(r) ==
  /\ delete[r] = "version"
  /\ DeleteAt(r, IF RunsOf(definition[r]) = {} THEN "unfreeze" ELSE "idle")
  /\ UNCHANGED <<setup, status, definition, recorded, immutable, frozen, flow,
                 asked, late, start, cancel>>

CountOfVersion(r) ==
  /\ delete[r] = "version"
  /\ DeleteAt(r, IF \A d \in Definitions : RunsOf(d) = {}
                 THEN "unfreeze" ELSE "idle")
  /\ UNCHANGED <<setup, status, definition, recorded, immutable, frozen, flow,
                 asked, late, start, cancel>>

Unfreeze(r) ==
  /\ delete[r] = "unfreeze"
  /\ frozen' = FALSE
  /\ DeleteAt(r, "idle")
  /\ UNCHANGED <<setup, status, definition, recorded, immutable, flow, asked,
                 late, start, cancel>>

------------------------------------------------------------------------------
\* The backend stops; its requests end where they are.
Crash ==
  /\ setup.crash
  /\ start' = [r \in Runs |-> IF start[r] = "unused" THEN "unused" ELSE "over"]
  /\ cancel' = [r \in Runs |-> "idle"]
  /\ delete' = [r \in Runs |-> "idle"]
  /\ UNCHANGED <<setup, status, definition, recorded, immutable, frozen, flow,
                 asked, late>>

StartStep(r) ==
  \/ \E d \in Definitions : CreateRun(r, d)
  \/ StartWorkflow(r) \/ StartWorkflowFails(r)
  \/ RecordStart(r) \/ RecordStartFails(r) \/ StartFails(r)

FlowStep(r) ==
  \/ SetRunning(r) \/ Work(r) \/ Complete(r) \/ Clean(r) \/ Tidy(r)
  \/ SetFailed(r) \/ Abandon(r) \/ LateWrite(r)

CancelStep(r) == BeginCancel(r) \/ AskWorkflow(r) \/ EndCancel(r)

DeleteStep(r) ==
  \/ BeginDelete(r) \/ DeleteRow(r) \/ CountRuns(r) \/ ResetImmutable(r)
  \/ CountOfVersion(r) \/ Unfreeze(r)

Next ==
  \/ \E r \in Runs : StartStep(r) \/ FlowStep(r) \/ CancelStep(r) \/ DeleteStep(r)
  \/ Crash

Spec == Init /\ [][Next]_vars

------------------------------------------------------------------------------
Quiet(r) ==
  /\ start[r] \in {"unused", "over"} /\ cancel[r] = "idle"
  /\ flow[r] \notin Open /\ late[r] = "none"

\* Two sides write the status and neither looks at it.  When nothing fails,
\* the backend does not stop and every call takes effect before what is
\* decided after it, no run is left pending or running once the requests and
\* the workflow are done with it, although a cancelled workflow can no longer
\* write that it is cancelled.
NoRunIsStuck ==
  setup.prompt /\ ~setup.faults /\ ~setup.crash =>
    \A r \in Runs : Quiet(r) => status[r] \notin Active

\* Under the same conditions, and also when the backend stops, a run that has
\* completed or failed keeps its outcome: only a cancellation that began while
\* it was active (benchmark-run.service.ts:557) still overwrites it.
OutcomeIsKept ==
  [][setup.prompt /\ ~setup.faults =>
       \A r \in Runs :
         status[r] \in {"completed", "failed"} /\ status'[r] # status[r] =>
           \/ status'[r] = "deleted"
           \/ status'[r] = "cancelled" /\ cancel[r] = "write"]_vars

\* As long as no run is deleted while another one is started, a run that was
\* recorded has an immutable definition and a frozen dataset version, whatever
\* other runs of this or other definitions are deleted meanwhile and wherever
\* the backend stops in a start or a deletion.
StartedRunIsFrozen ==
  ~setup.race =>
    \A r \in recorded : HasRow(r) => frozen /\ definition[r] \in immutable

==============================================================================
