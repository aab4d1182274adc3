------------------------- MODULE BenchmarkRunsProofs -------------------------
(***************************************************************************)
(* Theorems about BenchmarkRuns, for any number of runs and definitions.   *)
(***************************************************************************)
EXTENDS BenchmarkRuns, TLAPS

\* What the rows and the requests of a run have to do with each other.
Kin(r) ==
  /\ start[r] = "unused" => status[r] = "none"
  /\ start[r] # "unused" => definition[r] \in Definitions
  /\ start[r] # "over" => r \notin recorded
  /\ cancel[r] = "ask" => r \in recorded

TypeInv == TypeOK /\ \A r \in Runs : Kin(r)

------------------------------------------------------------------------------
LEMMA InitType == Init => TypeInv
<1> SUFFICES ASSUME Init PROVE TypeInv
  OBVIOUS
<1>1. /\ setup \in Setups
      /\ status \in [Runs -> Active \cup Final \cup {"none", "deleted"}]
      /\ definition \in [Runs -> Definitions \cup {NoDefinition}]
  BY DEF Init
<1>2. /\ recorded \subseteq Runs /\ asked \subseteq recorded
      /\ immutable \subseteq Definitions /\ frozen \in BOOLEAN
      /\ flow \in [Runs -> Open \cup {"none", "closed"}]
      /\ late \in [Runs -> {"none", "running", "completed", "failed"}]
  BY DEF Init
<1>3. TypeOK
  BY <1>1, <1>2 DEF Init, TypeOK
<1>4. \A r \in Runs : Kin(r)
  BY DEF Init, Kin
<1> QED BY <1>3, <1>4 DEF TypeInv

LEMMA StartType ==
  ASSUME TypeInv, NEW r \in Runs, StartStep(r)
  PROVE  TypeInv'
<1> USE DEF TypeInv, TypeOK, Kin, StartAt, Write, HasRow
<1>1. ASSUME NEW d \in Definitions, CreateRun(r, d) PROVE TypeInv'
  BY <1>1 DEF CreateRun, Active
<1>2. CASE StartWorkflow(r) \/ StartWorkflowFails(r)
  BY <1>2 DEF StartWorkflow, StartWorkflowFails, Open
<1>3. CASE RecordStart(r)
  <2>1. status' \in [Runs -> Active \cup Final \cup {"none", "deleted"}]
    BY <1>3 DEF RecordStart, Active
  <2>2. immutable' \subseteq Definitions /\ frozen' \in BOOLEAN
    BY <1>3 DEF RecordStart
  <2>3. recorded' \subseteq Runs /\ asked' \subseteq recorded'
    BY <1>3 DEF RecordStart
  <2>4. start' = [start EXCEPT ![r] = "over"] /\ recorded' = recorded \cup {r}
    BY <1>3 DEF RecordStart
  <2>5. UNCHANGED <<setup, definition, flow, late, cancel, delete>>
    BY <1>3 DEF RecordStart
  <2>6. TypeOK'
    BY <2>1, <2>2, <2>3, <2>4, <2>5
  <2>7. \A q \in Runs : Kin(q)'
    BY <1>3, <2>4, <2>5 DEF RecordStart
  <2> QED BY <2>6, <2>7
<1>5. CASE RecordStartFails(r)
  BY <1>5 DEF RecordStartFails
<1>4. CASE StartFails(r)
  BY <1>4 DEF StartFails, Final
<1> QED BY <1>1, <1>2, <1>3, <1>4, <1>5 DEF StartStep

LEMMA FlowType ==
  ASSUME TypeInv, NEW r \in Runs, FlowStep(r)
  PROVE  TypeInv'
<1> USE DEF TypeInv, TypeOK, Kin, Write, HasRow, FlowAt, Open
<1>1. CASE SetRunning(r)
  BY <1>1 DEF SetRunning, WriteActivity, Active
<1>2. CASE Complete(r)
  BY <1>2 DEF Complete, WriteActivity, Final
<1>3. CASE SetFailed(r)
  BY <1>3 DEF SetFailed, WriteActivity, Final
<1>4. CASE Work(r) \/ Clean(r) \/ Tidy(r)
  BY <1>4 DEF Work, Clean, Tidy, Advance
<1>5. CASE Abandon(r)
  <2>1. Writing(r) \in {"none", "running", "completed", "failed"}
    BY DEF Writing
  <2> QED BY <1>5, <2>1 DEF Abandon
<1>6. CASE LateWrite(r)
  BY <1>6 DEF LateWrite, Active, Final
<1> QED BY <1>1, <1>2, <1>3, <1>4, <1>5, <1>6 DEF FlowStep

LEMMA CancelType ==
  ASSUME TypeInv, NEW r \in Runs, CancelStep(r)
  PROVE  TypeInv'
BY DEF CancelStep, BeginCancel, AskWorkflow, EndCancel, CancelAt, TypeInv,
       TypeOK, Kin, Write, HasRow, Final

LEMMA DeleteType ==
  ASSUME TypeInv, NEW r \in Runs, DeleteStep(r)
  PROVE  TypeInv'
<1> USE DEF TypeInv, TypeOK, Kin, DeleteAt
<1>1. CASE BeginDelete(r) \/ CountRuns(r) \/ CountOfVersion(r)
  BY <1>1 DEF BeginDelete, CountRuns, CountOfVersion
<1>2. CASE DeleteRow(r)
  BY <1>2 DEF DeleteRow, HasRow
<1>3. CASE ResetImmutable(r) \/ Unfreeze(r)
  BY <1>3 DEF ResetImmutable, Unfreeze
<1> QED BY <1>1, <1>2, <1>3 DEF DeleteStep

LEMMA StepType == TypeInv /\ [Next]_vars => TypeInv'
<1> SUFFICES ASSUME TypeInv, [Next]_vars PROVE TypeInv'
  OBVIOUS
<1>1. CASE Crash
  BY <1>1 DEF Crash, TypeInv, TypeOK, Kin
<1>2. CASE UNCHANGED vars
  BY <1>2 DEF vars, TypeInv, TypeOK, Kin
<1> QED
  BY <1>1, <1>2, StartType, FlowType, CancelType, DeleteType DEF Next

LEMMA TypeAlways == Spec => []TypeInv
BY InitType, StepType, PTL DEF Spec

\* Rows, workflows and requests are well typed, and only workflows whose start
\* was recorded are asked to stop.
THEOREM TypeCorrect == Spec => []TypeOK
<1>1. TypeInv => TypeOK
  BY DEF TypeInv
<1> QED BY <1>1, TypeAlways, PTL

------------------------------------------------------------------------------
(* The freezing.                                                            *)

\* Starts and deletions exclude each other, so what a deletion has counted
\* still holds when it acts on it.
Apart ==
  ~setup.race =>
    /\ Starting = {} \/ Deleting = {}
    /\ \A r \in Runs :
         /\ delete[r] = "reset" => RunsOf(definition[r]) = {}
         /\ delete[r] = "unfreeze" => \A q \in Runs : ~HasRow(q)

FrozenInv == Apart /\ StartedRunIsFrozen

LEMMA InitFrozen == Init => FrozenInv
BY DEF Init, FrozenInv, Apart, StartedRunIsFrozen, Starting, Deleting, HasRow

\* Steps that neither start, delete nor freeze: no row appears, and no request
\* of a start or a deletion begins or moves.
LEMMA OtherFrozen ==
  ASSUME TypeInv, FrozenInv,
         UNCHANGED <<setup, definition, recorded, immutable, frozen, delete>>,
         Starting' \subseteq Starting,
         \A r \in Runs : HasRow(r)' => HasRow(r)
  PROVE  FrozenInv'
<1>1. \A d : (RunsOf(d) = {}) => (RunsOf(d)' = {})
  BY DEF RunsOf
<1>2. Deleting' = Deleting
  BY DEF Deleting
<1>3. Apart'
  BY <1>1, <1>2 DEF FrozenInv, Apart
<1>4. StartedRunIsFrozen'
  BY DEF FrozenInv, StartedRunIsFrozen, TypeInv, TypeOK
<1> QED BY <1>3, <1>4 DEF FrozenInv

LEMMA StepFrozen == TypeInv /\ FrozenInv /\ [Next]_vars => FrozenInv'
<1> SUFFICES ASSUME TypeInv, FrozenInv, [Next]_vars PROVE FrozenInv'
  OBVIOUS
<1>1. ASSUME NEW r \in Runs, StartStep(r) PROVE FrozenInv'
  <2>1. ASSUME NEW d \in Definitions, CreateRun(r, d) PROVE FrozenInv'
    <3>1. /\ setup' = setup /\ recorded' = recorded /\ immutable' = immutable
          /\ frozen' = frozen /\ delete' = delete
          /\ setup.race \/ Deleting = {}
          /\ r \notin recorded
          /\ \A q \in Runs : q # r => /\ status'[q] = status[q]
                                      /\ definition'[q] = definition[q]
      BY <2>1 DEF CreateRun, TypeInv, TypeOK, Kin
    <3>2. ~setup.race => Deleting' = {} /\ \A q \in Runs : delete'[q] = "idle"
      BY <3>1 DEF Deleting
    <3>3. Apart'
      BY <3>1, <3>2 DEF Apart
    <3>4. StartedRunIsFrozen'
      BY <3>1 DEF FrozenInv, StartedRunIsFrozen, HasRow, TypeInv, TypeOK
    <3> QED BY <3>3, <3>4 DEF FrozenInv
  <2>2. CASE RecordStart(r)
    <3>1. /\ r \in Starting
          /\ Starting' \subseteq Starting
          /\ \A q \in Runs : HasRow(q)' => HasRow(q)
      BY <2>2 DEF RecordStart, Starting, StartAt, HasRow, TypeInv, TypeOK
    <3>2. /\ setup' = setup /\ delete' = delete /\ definition' = definition
          /\ recorded' = recorded \cup {r} /\ frozen' = TRUE
          /\ immutable' = immutable \cup {definition[r]}
      BY <2>2 DEF RecordStart
    <3>3. ~setup.race => Deleting' = {} /\ \A q \in Runs : delete'[q] = "idle"
      BY <3>1, <3>2 DEF Deleting, FrozenInv, Apart
    <3>4. Apart'
      BY <3>2, <3>3 DEF Apart
    <3>5. StartedRunIsFrozen'
      BY <3>1, <3>2 DEF FrozenInv, StartedRunIsFrozen, TypeInv, TypeOK
    <3> QED BY <3>4, <3>5 DEF FrozenInv
  <2>3. CASE \/ StartWorkflow(r) \/ StartWorkflowFails(r)
             \/ RecordStartFails(r) \/ StartFails(r)
    <3>1. /\ Starting' \subseteq Starting
          /\ \A q \in Runs : HasRow(q)' => HasRow(q)
          /\ UNCHANGED <<setup, definition, recorded, immutable, frozen, delete>>
      BY <2>3 DEF StartWorkflow, StartWorkflowFails, RecordStartFails,
         StartFails, Starting, StartAt, HasRow, Write, TypeInv, TypeOK
    <3> QED BY <3>1, OtherFrozen
  <2> QED BY <1>1, <2>1, <2>2, <2>3 DEF StartStep
<1>2. ASSUME NEW r \in Runs, FlowStep(r) \/ CancelStep(r) PROVE FrozenInv'
  <2>1. UNCHANGED <<setup, definition, recorded, immutable, frozen, delete, start>>
    BY <1>2 DEF FlowStep, SetRunning, Complete, SetFailed, WriteActivity, Work,
       Clean, Tidy, Advance, Abandon, LateWrite, CancelStep, BeginCancel,
       AskWorkflow, EndCancel
  <2>2. \/ UNCHANGED status
        \/ \E s \in {"running", "completed", "failed", "cancelled"} : Write(r, s)
    BY <1>2 DEF FlowStep, SetRunning, Complete, SetFailed, WriteActivity, Work,
       Clean, Tidy, Advance, Abandon, LateWrite, CancelStep, BeginCancel,
       AskWorkflow, EndCancel, TypeInv, TypeOK
  <2>3. \A q \in Runs : HasRow(q)' => HasRow(q)
    BY <2>2 DEF HasRow, Write, TypeInv, TypeOK
  <2>4. Starting' = Starting
    BY <2>1 DEF Starting
  <2> QED BY <2>1, <2>3, <2>4, OtherFrozen
<1>3. ASSUME NEW r \in Runs, DeleteStep(r) PROVE FrozenInv'
  <2>1. UNCHANGED <<setup, definition, recorded, start>>
    BY <1>3 DEF DeleteStep, BeginDelete, DeleteRow, CountRuns, ResetImmutable,
       CountOfVersion, Unfreeze
  <2>2. \A q \in Runs : HasRow(q)' => HasRow(q)
    BY <1>3 DEF DeleteStep, BeginDelete, DeleteRow, CountRuns, ResetImmutable,
       CountOfVersion, Unfreeze, HasRow, TypeInv, TypeOK
  <2>3. \A q \in Runs : q # r => delete'[q] = delete[q]
    BY <1>3 DEF DeleteStep, BeginDelete, DeleteRow, CountRuns, ResetImmutable,
       CountOfVersion, Unfreeze, DeleteAt, TypeInv, TypeOK
  <2>4. ~setup.race => Starting' = {} \/ Deleting' = {}
    <3>1. BeginDelete(r) \/ delete[r] # "idle"
      BY <1>3 DEF DeleteStep, DeleteRow, CountRuns, ResetImmutable,
         CountOfVersion, Unfreeze
    <3>2. Starting' = Starting
      BY <2>1 DEF Starting
    <3> QED
      BY <3>1, <3>2 DEF BeginDelete, FrozenInv, Apart, Deleting
  <2>5. \A d : (RunsOf(d) = {}) => (RunsOf(d)' = {})
    BY <2>1, <2>2 DEF RunsOf
  <2>6. delete'[r] = "reset" => RunsOf(definition[r]) = {}
    BY <1>3 DEF DeleteStep, BeginDelete, DeleteRow, CountRuns, ResetImmutable,
       CountOfVersion, Unfreeze, DeleteAt, TypeInv, TypeOK
  <2>7. delete'[r] = "unfreeze" => \A d \in Definitions : RunsOf(d) = {}
    BY <1>3 DEF DeleteStep, BeginDelete, DeleteRow, CountRuns, ResetImmutable,
       CountOfVersion, Unfreeze, DeleteAt, TypeInv, TypeOK
  <2>8. ASSUME \A d \in Definitions : RunsOf(d) = {}, NEW q \in Runs
        PROVE  ~HasRow(q)
    BY <2>8 DEF RunsOf, HasRow, TypeInv, Kin
  <2>9. Apart'
    <3>1. ASSUME ~setup'.race, NEW q \in Runs, delete'[q] = "reset"
          PROVE  RunsOf(definition[q])' = {}
      <4>1. RunsOf(definition[q]) = {}
        BY <2>1, <2>3, <2>6, <3>1 DEF FrozenInv, Apart
      <4>2. PICK d \in Definitions \cup {NoDefinition} : d = definition[q]
        BY DEF TypeInv, TypeOK
      <4> QED BY <2>1, <2>5, <4>1, <4>2
    <3>2. ASSUME ~setup'.race, NEW q \in Runs, delete'[q] = "unfreeze", NEW p \in Runs
          PROVE  ~HasRow(p)'
      BY <2>1, <2>2, <2>3, <2>7, <2>8, <3>2 DEF FrozenInv, Apart
    <3> QED BY <2>1, <2>4, <3>1, <3>2 DEF Apart
  <2>10. StartedRunIsFrozen'
    <3>1. CASE ResetImmutable(r)
      <4>1. /\ immutable' = immutable \ {definition[r]} /\ UNCHANGED frozen
            /\ ~setup.race => RunsOf(definition[r]) = {}
        BY <3>1 DEF ResetImmutable, FrozenInv, Apart
      <4> QED
        BY <2>1, <2>2, <4>1 DEF FrozenInv, StartedRunIsFrozen, RunsOf, TypeInv, TypeOK
    <3>2. CASE Unfreeze(r)
      <4>1. ~setup.race => \A q \in Runs : ~HasRow(q)
        BY <3>2 DEF Unfreeze, FrozenInv, Apart
      <4> QED
        BY <2>1, <2>2, <4>1 DEF FrozenInv, StartedRunIsFrozen, TypeInv, TypeOK
    <3>3. CASE UNCHANGED <<immutable, frozen>>
      BY <2>1, <2>2, <3>3 DEF FrozenInv, StartedRunIsFrozen, TypeInv, TypeOK
    <3> QED
      BY <1>3, <3>1, <3>2, <3>3 DEF DeleteStep, BeginDelete, DeleteRow, CountRuns,
         CountOfVersion
  <2> QED BY <2>9, <2>10 DEF FrozenInv
<1>4. CASE Crash
  <2>1. Starting' = {} /\ Deleting' = {} /\ \A q \in Runs : delete'[q] = "idle"
    BY <1>4 DEF Crash, Starting, Deleting
  <2>2. Apart'
    BY <2>1 DEF Apart
  <2>3. StartedRunIsFrozen'
    BY <1>4 DEF Crash, FrozenInv, StartedRunIsFrozen, HasRow
  <2> QED BY <2>2, <2>3 DEF FrozenInv
<1>5. CASE UNCHANGED vars
  <2>1. /\ UNCHANGED <<setup, definition, recorded, immutable, frozen, delete>>
        /\ Starting' \subseteq Starting
        /\ \A r \in Runs : HasRow(r)' => HasRow(r)
    BY <1>5 DEF vars, Starting, HasRow
  <2> QED BY <2>1, OtherFrozen
<1> QED BY <1>1, <1>2, <1>3, <1>4, <1>5 DEF Next

\* For any number of runs and definitions, whatever is deleted and wherever the
\* backend stops: a recorded run works on frozen data, as long as no run is
\* deleted while another one is started.
THEOREM StartedRunsAreFrozen == Spec => []StartedRunIsFrozen
<1>1. FrozenInv => StartedRunIsFrozen
  BY DEF FrozenInv
<1> QED
  BY <1>1, InitFrozen, StepFrozen, TypeAlways, PTL DEF Spec

------------------------------------------------------------------------------
(* The outcome of a run, when calls take effect before what is decided       *)
(* later and nothing fails.                                                  *)

Smooth == setup.prompt /\ ~setup.faults

\* Where start and workflow of a run are, and what they have written.
Course(r) ==
  /\ late[r] = "none"
  /\ start[r] \in {"unused", "call"} => flow[r] = "none"
  /\ start[r] = "record" => flow[r] = "begin"
  /\ start[r] = "fail" /\ HasRow(r) => flow[r] = "none"
  /\ start[r] = "call" => status[r] \notin {"completed", "failed"}
  /\ status[r] = "completed" => flow[r] \in {"clean", "closed"}
  /\ status[r] = "failed" => flow[r] \in {"none", "closed"}

CourseInv == Smooth => \A r \in Runs : Course(r)

LEMMA InitCourse == Init => CourseInv
BY DEF Init, CourseInv, Course

\* A step that concerns one run leaves the course of the others alone.
LEMMA OthersCourse ==
  ASSUME CourseInv, NEW r \in Runs, setup' = setup,
         \A q \in Runs : q # r =>
           UNCHANGED <<late[q], start[q], flow[q], status[q]>>,
         Smooth => Course(r)'
  PROVE  CourseInv'
BY DEF CourseInv, Course, Smooth, HasRow

LEMMA OnlyOne ==
  ASSUME TypeInv, NEW r \in Runs,
         StartStep(r) \/ FlowStep(r) \/ CancelStep(r) \/ DeleteStep(r)
  PROVE  /\ setup' = setup
         /\ \A q \in Runs : q # r =>
              UNCHANGED <<late[q], start[q], flow[q], status[q], cancel[q]>>
<1> USE DEF TypeInv, TypeOK
<1>1. CASE StartStep(r)
  BY <1>1 DEF StartStep, CreateRun, StartWorkflow, StartWorkflowFails,
     RecordStart, RecordStartFails, StartFails, StartAt, Write
<1>2. CASE FlowStep(r)
  BY <1>2 DEF FlowStep, SetRunning, Complete, SetFailed, WriteActivity, Work,
     Clean, Tidy, Advance, Abandon, LateWrite, FlowAt, Write
<1>3. CASE CancelStep(r)
  BY <1>3 DEF CancelStep, BeginCancel, AskWorkflow, EndCancel, CancelAt, Write
<1>4. CASE DeleteStep(r)
  BY <1>4 DEF DeleteStep, BeginDelete, DeleteRow, CountRuns, ResetImmutable,
     CountOfVersion, Unfreeze
<1> QED BY <1>1, <1>2, <1>3, <1>4

LEMMA StepCourse == TypeInv /\ CourseInv /\ [Next]_vars => CourseInv'
<1> SUFFICES ASSUME TypeInv, CourseInv, [Next]_vars PROVE CourseInv'
  OBVIOUS
<1>1. ASSUME NEW r \in Runs, StartStep(r), Smooth PROVE Course(r)'
  <2> USE <1>1 DEF TypeInv, TypeOK, Kin, CourseInv, Course, Smooth, HasRow, StartAt, Write
  <2>1. ASSUME NEW d \in Definitions, CreateRun(r, d) PROVE Course(r)'
    BY <2>1 DEF CreateRun
  <2>2. CASE StartWorkflow(r)
    BY <2>2 DEF StartWorkflow
  <2>3. CASE StartWorkflowFails(r)
    BY <2>3 DEF StartWorkflowFails
  <2>4. CASE RecordStart(r)
    BY <2>4 DEF RecordStart
  <2>5. CASE RecordStartFails(r)
    BY <2>5 DEF RecordStartFails
  <2>6. CASE StartFails(r)
    BY <2>6 DEF StartFails
  <2> QED BY <2>1, <2>2, <2>3, <2>4, <2>5, <2>6 DEF StartStep
<1>2. ASSUME NEW r \in Runs, FlowStep(r), Smooth PROVE Course(r)'
  <2> USE <1>2 DEF TypeInv, TypeOK, Kin, CourseInv, Course, Smooth, HasRow, FlowAt, Write
  <2>1. CASE SetRunning(r)
    BY <2>1 DEF SetRunning, WriteActivity, GoesOn
  <2>2. CASE Work(r)
    BY <2>2 DEF Work, Advance, GoesOn
  <2>3. CASE Complete(r)
    BY <2>3 DEF Complete, WriteActivity, GoesOn
  <2>4. CASE Clean(r) \/ Tidy(r)
    BY <2>4 DEF Clean, Tidy, Advance, GoesOn
  <2>5. CASE SetFailed(r)
    BY <2>5 DEF SetFailed, WriteActivity, GoesOn
  <2>6. CASE Abandon(r)
    BY <2>6 DEF Abandon
  <2>7. CASE LateWrite(r)
    BY <2>7 DEF LateWrite
  <2> QED BY <2>1, <2>2, <2>3, <2>4, <2>5, <2>6, <2>7 DEF FlowStep
<1>3. ASSUME NEW r \in Runs, CancelStep(r) \/ DeleteStep(r), Smooth
      PROVE  Course(r)'
  <2>1. UNCHANGED <<late, start, flow>> /\ Course(r)
    BY <1>3 DEF CancelStep, BeginCancel, AskWorkflow, EndCancel, DeleteStep,
       BeginDelete, DeleteRow, CountRuns, ResetImmutable, CountOfVersion,
       Unfreeze, CourseInv
  <2>2. \/ status'[r] = status[r]
        \/ HasRow(r) /\ status'[r] \in {"cancelled", "deleted"}
    BY <1>3 DEF CancelStep, BeginCancel, AskWorkflow, EndCancel, DeleteStep,
       BeginDelete, DeleteRow, CountRuns, ResetImmutable, CountOfVersion,
       Unfreeze, Write, TypeInv, TypeOK
  <2> QED BY <2>1, <2>2 DEF Course, HasRow
<1>4. CASE Crash
  BY <1>4 DEF Crash, CourseInv, Course, Smooth, HasRow
<1>5. CASE UNCHANGED vars
  BY <1>5 DEF vars, CourseInv, Course, Smooth, HasRow
<1> QED
  BY <1>1, <1>2, <1>3, <1>4, <1>5, OthersCourse, OnlyOne DEF Next

LEMMA CourseAlways == Spec => []CourseInv
BY InitCourse, StepCourse, TypeAlways, PTL DEF Spec

\* For any number of runs, also when the backend stops: a run that has completed
\* or failed keeps its outcome but for a deletion and a late cancellation.
THEOREM OutcomesAreKept == Spec => OutcomeIsKept
<1> DEFINE Kept ==
      setup.prompt /\ ~setup.faults =>
       \A r \in Runs :
         status[r] \in {"completed", "failed"} /\ status'[r] # status[r] =>
           \/ status'[r] = "deleted"
           \/ status'[r] = "cancelled" /\ cancel[r] = "write"
<1>1. ASSUME TypeInv, CourseInv, Next PROVE Kept
  <2> SUFFICES ASSUME Smooth, NEW r \in Runs,
                      status[r] \in {"completed", "failed"},
                      status'[r] # status[r]
               PROVE  \/ status'[r] = "deleted"
                      \/ status'[r] = "cancelled" /\ cancel[r] = "write"
    BY DEF Smooth
  <2> USE <1>1 DEF TypeInv, TypeOK
  <2>1. Course(r) /\ Kin(r)
    BY DEF CourseInv
  <2>2. \/ StartStep(r) \/ FlowStep(r) \/ CancelStep(r) \/ DeleteStep(r)
    <3>1. ~Crash
      BY DEF Crash
    <3> QED BY <3>1, OnlyOne DEF Next
  <2>3. ~StartStep(r)
    <3>1. ~StartFails(r)
      BY <2>1 DEF StartFails, Write, HasRow, Course
    <3> QED
      BY <2>1, <3>1 DEF StartStep, CreateRun, StartWorkflow, StartWorkflowFails,
         RecordStart, RecordStartFails, Course, Kin
  <2>4. ~FlowStep(r)
    BY <2>1 DEF FlowStep, SetRunning, Complete, SetFailed, WriteActivity, Work,
       Clean, Tidy, Advance, Abandon, LateWrite, Write, Course
  <2>5. CASE CancelStep(r)
    BY <2>5 DEF CancelStep, BeginCancel, AskWorkflow, EndCancel, Write
  <2>6. CASE DeleteStep(r)
    BY <2>6 DEF DeleteStep, BeginDelete, DeleteRow, CountRuns, ResetImmutable,
       CountOfVersion, Unfreeze
  <2> QED BY <2>2, <2>3, <2>4, <2>5, <2>6
<1>2. TypeInv /\ CourseInv /\ [Next]_vars => [Kept]_vars
  BY <1>1
<1>3. Spec => [][Kept]_vars
  BY <1>2, TypeAlways, CourseAlways, PTL DEF Spec
<1> QED BY <1>3 DEF OutcomeIsKept

------------------------------------------------------------------------------
(* No run is left behind.                                                   *)

\* A run that is pending or running after its start has a workflow that goes on
\* and is not asked to stop, or a cancellation that is about to end it.
Carried(r) ==
  status[r] \in Active /\ start[r] = "over" =>
    \/ flow[r] \in {"begin", "work", "complete", "tidy", "fail"} /\ r \notin asked
    \/ cancel[r] = "write"

CarriedInv == Smooth /\ ~setup.crash => \A r \in Runs : Carried(r)

LEMMA InitCarried == Init => CarriedInv
BY DEF Init, CarriedInv, Carried, Active

LEMMA OthersCarried ==
  ASSUME CarriedInv, NEW r \in Runs, setup' = setup,
         \A q \in Runs : q # r =>
           UNCHANGED <<start[q], flow[q], status[q], cancel[q]>>,
         asked' \subseteq asked \cup {r},
         Smooth /\ ~setup.crash => Carried(r)'
  PROVE  CarriedInv'
BY DEF CarriedInv, Carried, Smooth

LEMMA OnlyOneAsked ==
  ASSUME NEW r \in Runs,
         StartStep(r) \/ FlowStep(r) \/ CancelStep(r) \/ DeleteStep(r)
  PROVE  asked' \subseteq asked \cup {r}
BY DEF StartStep, CreateRun, StartWorkflow, StartWorkflowFails, RecordStart,
   RecordStartFails, StartFails, FlowStep, SetRunning, Complete, SetFailed,
   WriteActivity, Work, Clean, Tidy, Advance, Abandon, LateWrite, CancelStep,
   BeginCancel, AskWorkflow, EndCancel, DeleteStep, BeginDelete, DeleteRow,
   CountRuns, ResetImmutable, CountOfVersion, Unfreeze

LEMMA StepCarried ==
  TypeInv /\ CourseInv /\ CarriedInv /\ [Next]_vars => CarriedInv'
<1> SUFFICES ASSUME TypeInv, CourseInv, CarriedInv, [Next]_vars
             PROVE  CarriedInv'
  OBVIOUS
<1> DEFINE Here == Smooth /\ ~setup.crash
<1>1. ASSUME NEW r \in Runs, StartStep(r), Here PROVE Carried(r)'
  <2> USE <1>1 DEF TypeInv, TypeOK, Kin, CourseInv, Course, HasRow, StartAt, Carried, Active
  <2>1. ASSUME NEW d \in Definitions, CreateRun(r, d) PROVE Carried(r)'
    BY <2>1 DEF CreateRun
  <2>2. CASE StartWorkflow(r) \/ StartWorkflowFails(r) \/ RecordStartFails(r)
    BY <2>2 DEF StartWorkflow, StartWorkflowFails, RecordStartFails
  <2>3. CASE RecordStart(r)
    BY <2>3 DEF RecordStart
  <2>4. CASE StartFails(r)
    BY <2>4 DEF StartFails, Write
  <2> QED BY <2>1, <2>2, <2>3, <2>4 DEF StartStep
<1>2. ASSUME NEW r \in Runs, FlowStep(r), Here PROVE Carried(r)'
  <2> USE <1>2 DEF TypeInv, TypeOK, CarriedInv, Carried, Active, HasRow, FlowAt, Write
  <2>1. CASE SetRunning(r)
    BY <2>1 DEF SetRunning, WriteActivity, GoesOn, Smooth
  <2>2. CASE Complete(r)
    BY <2>2 DEF Complete, WriteActivity, GoesOn
  <2>3. CASE SetFailed(r)
    BY <2>3 DEF SetFailed, WriteActivity, GoesOn, Smooth
  <2>4. CASE Work(r)
    BY <2>4 DEF Work, Advance
  <2>5. CASE Clean(r) \/ Tidy(r)
    BY <2>5 DEF Clean, Tidy, Advance, Smooth
  <2>6. CASE Abandon(r)
    BY <2>6 DEF Abandon, Smooth
  <2>7. CASE LateWrite(r)
    BY <2>7 DEF LateWrite, CourseInv, Course
  <2> QED BY <2>1, <2>2, <2>3, <2>4, <2>5, <2>6, <2>7 DEF FlowStep
<1>3. ASSUME NEW r \in Runs, CancelStep(r), Here PROVE Carried(r)'
  BY <1>3 DEF CancelStep, BeginCancel, AskWorkflow, EndCancel, CancelAt, Write,
     HasRow, Active, TypeInv, TypeOK, CarriedInv, Carried
<1>4. ASSUME NEW r \in Runs, DeleteStep(r), Here PROVE Carried(r)'
  BY <1>4 DEF DeleteStep, BeginDelete, DeleteRow, CountRuns, ResetImmutable,
     CountOfVersion, Unfreeze, Active, TypeInv, TypeOK, CarriedInv, Carried
<1>5. CASE Crash
  BY <1>5 DEF Crash, CarriedInv
<1>6. CASE UNCHANGED vars
  BY <1>6 DEF vars, CarriedInv, Carried, Smooth
<1> QED
  BY <1>1, <1>2, <1>3, <1>4, <1>5, <1>6, OthersCarried, OnlyOne, OnlyOneAsked
  DEF Next

\* For any number of runs: when nothing fails, no run stays pending or running
\* once its requests and its workflow are done with it.
THEOREM NothingIsStuck == Spec => []NoRunIsStuck
<1>1. TypeInv /\ CarriedInv => NoRunIsStuck
  BY DEF TypeInv, Kin, CarriedInv, Carried, Smooth, NoRunIsStuck, Quiet,
     Active, Open
<1> QED
  BY <1>1, InitCarried, StepCarried, TypeAlways, CourseAlways, PTL DEF Spec
==============================================================================
