---------------------------- MODULE TrainingProofs ----------------------------
(***************************************************************************)
(* Theorems about Training, for any number of jobs, pollers and users.     *)
(***************************************************************************)
EXTENDS Training, FiniteSetTheorems, TLAPS

Stages == {"unused", "over"} \cup Starting \cup Uploading
Statuses == {"none", "SUCCEEDED", "FAILED"} \cup InFlightStatus
Rounds ==
  [at : {"idle", "ask", "fail", "succeed", "demote", "insert"},
   todo : SUBSET Jobs, job : Jobs \cup {NoJob}, rows : SUBSET Jobs]
Asked ==
  [at : {"idle", "cancel", "activate", "tombstone"},
   job : Jobs \cup {NoJob}, rows : SUBSET Jobs]

AtJob == {"fail", "succeed", "demote", "insert"}

\* Only jobs on record are polled, and their upload is over; requests name
\* versions that exist.
Kin ==
  /\ \A j \in recorded : stage[j] = "over"
  /\ trained \subseteq recorded
  /\ \A p \in Pollers : /\ poll[p].todo \subseteq recorded
                        /\ poll[p].at \in AtJob => poll[p].job \in recorded
  /\ \A u \in Users : /\ user[u].at = "cancel" => user[u].job \in Jobs
                      /\ user[u].at \in {"activate", "tombstone"} =>
                           user[u].job \in trained

TypeInv == TypeOK /\ Kin

------------------------------------------------------------------------------
LEMMA NothingAsked == NoRound \in Rounds /\ NoRequest \in Asked
BY DEF NoRound, NoRequest, Rounds, Asked

LEMMA RowsTyped ==
  TypeOK => poll \in [Pollers -> Rounds] /\ user \in [Users -> Asked]
BY DEF TypeOK, Rounds, Asked

LEMMA InitType == Init => TypeInv
<1> SUFFICES ASSUME Init PROVE TypeInv
  OBVIOUS
<1>1. poll \in [Pollers -> Rounds] /\ user \in [Users -> Asked]
  BY NothingAsked DEF Init
<1>2. TypeOK
  BY <1>1 DEF Init, TypeOK, Rounds, Asked
<1>3. Kin
  BY DEF Init, Kin, NoRound, NoRequest, AtJob
<1> QED BY <1>2, <1>3 DEF TypeInv

\* A write to a status and a step of an upload.
LEMMA UploadType ==
  ASSUME TypeInv, NEW j \in Jobs, StartStep(j) \/ UploadStep(j)
  PROVE  TypeInv'
<1>1. /\ UNCHANGED <<setup, late, trained, active, deleted, poll, user>>
  BY DEF StartStep, UploadStep, BeginStart, TakeVersion, RefuseStart, CreateJob,
     BeginUpload, EndUpload, RequestBuild, RecordBuild, UploadFails,
     RecordFailure, modelVars
<1>2. stage[j] # "over"
  BY DEF StartStep, UploadStep, BeginStart, TakeVersion, RefuseStart, CreateJob,
     BeginUpload, EndUpload, RequestBuild, RecordBuild, UploadFails, RecordFailure
<1>3. \E s \in Stages : stage' = [stage EXCEPT ![j] = s]
  BY DEF StartStep, UploadStep, BeginStart, TakeVersion, RefuseStart, CreateJob,
     BeginUpload, EndUpload, RequestBuild, RecordBuild, UploadFails,
     RecordFailure, Goto, Stages, Starting, Uploading
<1>4. \/ UNCHANGED status
      \/ \E s \in Statuses : status' = [status EXCEPT ![j] = s]
  BY DEF StartStep, UploadStep, BeginStart, TakeVersion, RefuseStart, CreateJob,
     BeginUpload, EndUpload, RequestBuild, RecordBuild, UploadFails,
     RecordFailure, Write, Statuses, InFlightStatus
<1>5. version' \in [Jobs -> Nat]
  <2>1. CASE TakeVersion(j)
    <3>1. \A n \in {1} \cup {v + 1 : v \in {version[k] : k \in trained}} : n \in Nat
      BY DEF TypeInv, TypeOK
    <3> QED BY <2>1, <3>1 DEF TakeVersion, TypeInv, TypeOK
  <2>2. CASE UNCHANGED version
    BY <2>2 DEF TypeInv, TypeOK
  <2> QED
    BY <2>1, <2>2 DEF StartStep, UploadStep, BeginStart, RefuseStart, CreateJob,
       BeginUpload, EndUpload, RequestBuild, RecordBuild, UploadFails, RecordFailure
<1>6. /\ build' \in [Jobs -> {"none", "running", "succeeded", "failed"}]
      /\ \/ UNCHANGED recorded
         \/ recorded' = recorded \cup {j} /\ stage' = [stage EXCEPT ![j] = "over"]
  BY DEF StartStep, UploadStep, BeginStart, TakeVersion, RefuseStart, CreateJob,
     BeginUpload, EndUpload, RequestBuild, RecordBuild, UploadFails,
     RecordFailure, Goto, TypeInv, TypeOK
<1>7. TypeOK'
  <2>1. stage' \in [Jobs -> Stages] /\ status' \in [Jobs -> Statuses]
    BY <1>3, <1>4 DEF TypeInv, TypeOK, Stages, Statuses
  <2>2. recorded' \subseteq Jobs
    BY <1>6 DEF TypeInv, TypeOK
  <2> QED
    BY <1>1, <1>5, <1>6, <2>1, <2>2 DEF TypeInv, TypeOK, Stages, Statuses
<1>8. Kin'
  BY <1>1, <1>2, <1>3, <1>6 DEF TypeInv, TypeOK, Kin
<1> QED BY <1>7, <1>8 DEF TypeInv

\* What a poll leaves of its round.
LEMMA EndOfPollType ==
  ASSUME TypeInv, NEW p \in Pollers, EndOfPoll(p)
  PROVE  /\ poll' \in [Pollers -> Rounds]
         /\ poll'[p].at \in {"idle", "ask"} /\ poll'[p].todo \subseteq poll[p].todo
         /\ \A q \in Pollers : q # p => poll'[q] = poll[q]
<1>1. poll[p] \in Rounds /\ poll \in [Pollers -> Rounds]
  BY RowsTyped DEF TypeInv
<1> DEFINE r == IF poll[p].todo = {} THEN NoRound
                ELSE [at |-> "ask", todo |-> poll[p].todo, job |-> NoJob, rows |-> {}]
<1>2. r \in Rounds /\ r.at \in {"idle", "ask"} /\ r.todo \subseteq poll[p].todo
  BY <1>1 DEF Rounds, NoRound
<1>3. poll' = [poll EXCEPT ![p] = r]
  BY DEF EndOfPoll
<1> HIDE DEF r
<1> QED BY <1>1, <1>2, <1>3

LEMMA StepOfPollType ==
  ASSUME TypeInv, NEW p \in Pollers, NEW next \in AtJob,
         NEW rows \in SUBSET Jobs, poll[p].at \in AtJob,
         poll' = [poll EXCEPT ![p].at = next, ![p].rows = rows]
  PROVE  /\ poll' \in [Pollers -> Rounds]
         /\ poll'[p].at = next /\ poll'[p].rows = rows
         /\ poll'[p].job = poll[p].job /\ poll'[p].todo = poll[p].todo
         /\ \A q \in Pollers : q # p => poll'[q] = poll[q]
<1>1. poll[p] \in Rounds /\ poll \in [Pollers -> Rounds]
  BY RowsTyped DEF TypeInv
<1> QED BY <1>1 DEF Rounds, AtJob

\* The same, for the calls that go on with the job at hand.
LEMMA StepIs ==
  ASSUME TypeInv, NEW p \in Pollers, NEW next \in AtJob, poll[p].at \in AtJob,
         Step(p, next, poll[p].job)
  PROVE  poll' = [poll EXCEPT ![p].at = next, ![p].rows = {}]
<1>1. poll[p] \in Rounds /\ poll \in [Pollers -> Rounds]
  BY RowsTyped DEF TypeInv
<1> QED BY <1>1 DEF Step, Rounds

LEMMA AskType ==
  ASSUME TypeInv, NEW p \in Pollers, NEW j \in Jobs, Ask(p, j)
  PROVE  /\ poll' \in [Pollers -> Rounds]
         /\ \A q \in Pollers : q # p => poll'[q] = poll[q]
         /\ j \in poll[p].todo
         /\ poll'[p].todo \subseteq poll[p].todo \ {j}
         /\ \/ poll'[p].at \in {"fail", "succeed"} /\ poll'[p].job = j
            \/ poll'[p].at \in {"idle", "ask"}
<1>1. poll[p] \in Rounds /\ poll \in [Pollers -> Rounds] /\ j \in poll[p].todo
  BY RowsTyped DEF TypeInv, Ask
<1>2. PICK verdict \in Verdicts(j) :
        poll' = [poll EXCEPT ![p] =
          LET rest == @.todo \ {j} IN
          IF verdict # "return" THEN
            [at |-> verdict, todo |-> rest, job |-> j, rows |-> {}]
          ELSE IF rest = {} THEN NoRound
          ELSE [at |-> "ask", todo |-> rest, job |-> NoJob, rows |-> {}]]
  BY DEF Ask
<1> DEFINE rest == poll[p].todo \ {j}
           r == IF verdict # "return" THEN
                  [at |-> verdict, todo |-> rest, job |-> j, rows |-> {}]
                ELSE IF rest = {} THEN NoRound
                ELSE [at |-> "ask", todo |-> rest, job |-> NoJob, rows |-> {}]
<1>3. verdict \in {"fail", "succeed", "return"}
  BY <1>2 DEF Verdicts
<1>4. /\ r \in Rounds /\ r.todo \subseteq rest
      /\ \/ r.at \in {"fail", "succeed"} /\ r.job = j
         \/ r.at \in {"idle", "ask"}
  BY <1>1, <1>3 DEF Rounds, NoRound
<1>5. poll' = [poll EXCEPT ![p] = r]
  BY <1>2
<1> HIDE DEF r
<1> QED BY <1>1, <1>4, <1>5

\* What the steps of the others have in common: they leave the uploads alone.
LEMMA OtherType ==
  ASSUME TypeInv,
         UNCHANGED <<setup, stage, version, recorded>>,
         \/ UNCHANGED status
         \/ \E j \in Jobs \cup {NoJob}, s \in Statuses :
              status' = [status EXCEPT ![j] = s],
         build' \in [Jobs -> {"none", "running", "succeeded", "failed"}],
         late' \subseteq Jobs,
         trained \subseteq trained', trained' \subseteq recorded,
         active' \subseteq trained', deleted' \subseteq trained',
         poll' \in [Pollers -> Rounds], user' \in [Users -> Asked],
         \A p \in Pollers :
           /\ poll'[p].todo \subseteq recorded
           /\ poll'[p].at \in AtJob => poll'[p].job \in recorded,
         \A u \in Users :
           /\ user'[u].at = "cancel" => user'[u].job \in Jobs
           /\ user'[u].at \in {"activate", "tombstone"} => user'[u].job \in trained'
  PROVE  TypeInv'
<1>1. status' \in [Jobs -> Statuses]
  BY DEF TypeInv, TypeOK, Statuses
<1>2. TypeOK'
  BY <1>1 DEF TypeInv, TypeOK, Rounds, Asked, Statuses
<1>3. Kin'
  BY DEF TypeInv, Kin
<1> QED BY <1>2, <1>3 DEF TypeInv

LEMMA AzureType ==
  ASSUME TypeInv,
         \/ \E j \in Jobs, result \in {"succeeded", "failed"} : AzureEnds(j, result)
         \/ \E j \in Jobs : TimePasses(j)
  PROVE  TypeInv'
<1>1. /\ build' \in [Jobs -> {"none", "running", "succeeded", "failed"}]
      /\ late' \subseteq Jobs
      /\ UNCHANGED <<setup, stage, version, recorded, status, trained, active,
                     deleted, poll, user>>
  BY DEF AzureEnds, TimePasses, TypeInv, TypeOK, jobVars, modelVars
<1> QED
  BY <1>1 DEF TypeInv, TypeOK, Kin

LEMMA PollType ==
  ASSUME TypeInv, NEW p \in Pollers, BeginRound(p) \/ PollStep(p)
  PROVE  TypeInv'
<1> DEFINE Rest == UNCHANGED <<setup, stage, version, recorded, build, late, user>>
           Models == UNCHANGED <<trained, active, deleted>>
           Kept == \A q \in Pollers : q # p => poll'[q] = poll[q]
           Fits == /\ poll' \in [Pollers -> Rounds]
                   /\ Kept
                   /\ poll'[p].todo \subseteq recorded
                   /\ poll'[p].at \in AtJob => poll'[p].job \in recorded
<1> USE DEF jobVars, modelVars
<1>1. poll[p] \in Rounds /\ poll \in [Pollers -> Rounds] /\ user \in [Users -> Asked]
  BY RowsTyped DEF TypeInv
<1>2. /\ \A q \in Pollers : poll[q].todo \subseteq recorded
      /\ \A q \in Pollers : poll[q].at \in AtJob => poll[q].job \in recorded
  BY DEF TypeInv, Kin
<1>3. ASSUME Rest, Models, Fits,
             \/ UNCHANGED status
             \/ \E s \in Statuses : status' = [status EXCEPT ![poll[p].job] = s]
      PROVE  TypeInv'
  <2>1. poll[p].job \in Jobs \cup {NoJob}
    BY <1>1 DEF Rounds
  <2>2. /\ UNCHANGED <<setup, stage, version, recorded>>
        /\ \/ UNCHANGED status
           \/ \E j \in Jobs \cup {NoJob}, s \in Statuses :
                status' = [status EXCEPT ![j] = s]
    BY <1>3, <2>1
  <2>3. /\ build' \in [Jobs -> {"none", "running", "succeeded", "failed"}]
        /\ late' \subseteq Jobs
        /\ trained \subseteq trained' /\ trained' \subseteq recorded
        /\ active' \subseteq trained' /\ deleted' \subseteq trained'
    BY <1>3 DEF TypeInv, TypeOK, Kin
  <2>4. \A q \in Pollers :
          /\ poll'[q].todo \subseteq recorded
          /\ poll'[q].at \in AtJob => poll'[q].job \in recorded
    BY <1>2, <1>3
  <2>5. \A u \in Users :
          /\ user'[u].at = "cancel" => user'[u].job \in Jobs
          /\ user'[u].at \in {"activate", "tombstone"} => user'[u].job \in trained'
    BY <1>3 DEF TypeInv, Kin
  <2> QED
    BY <1>1, <1>3, <2>2, <2>3, <2>4, <2>5, OtherType
<1>4. CASE BeginRound(p)
  <2>1. Polled \subseteq recorded /\ recorded \subseteq Jobs
    BY DEF Polled, TypeInv, TypeOK
  <2>2. [at |-> "ask", todo |-> Polled, job |-> NoJob, rows |-> {}] \in Rounds
    BY <2>1 DEF Rounds
  <2>3. Fits
    BY <1>1, <1>4, <2>1, <2>2 DEF BeginRound, AtJob
  <2> QED BY <1>3, <1>4, <2>3 DEF BeginRound
<1>5. ASSUME NEW j \in Jobs, Ask(p, j) PROVE TypeInv'
  <2>1. Fits
    BY <1>2, <1>5, AskType DEF AtJob
  <2> QED BY <1>3, <1>5, <2>1 DEF Ask
<1>6. ASSUME EndOfPoll(p) PROVE Fits
  BY <1>2, <1>6, EndOfPollType DEF AtJob
<1>7. ASSUME NEW next \in AtJob, poll[p].at \in AtJob, NEW rows \in SUBSET Jobs,
             poll' = [poll EXCEPT ![p].at = next, ![p].rows = rows]
      PROVE  Fits
  BY <1>2, <1>7, StepOfPollType
<1>8. ASSUME NEW next \in AtJob, poll[p].at \in AtJob, Step(p, next, poll[p].job)
      PROVE  Fits
  <2>1. poll' = [poll EXCEPT ![p].at = next, ![p].rows = {}]
    BY <1>8, StepIs
  <2>2. {} \in SUBSET Jobs
    OBVIOUS
  <2> HIDE DEF Fits
  <2> QED BY <1>7, <1>8, <2>1, <2>2
<1>9. CASE PollFails(p)
  <2>1. Fits
    BY <1>6, <1>9 DEF PollFails
  <2> QED BY <1>3, <1>9, <2>1 DEF PollFails, Write, Statuses
<1>10. CASE PollSucceeds(p)
  <2>1. Fits
    BY <1>8, <1>10 DEF PollSucceeds, AtJob
  <2> QED BY <1>3, <1>10, <2>1 DEF PollSucceeds, Write, Statuses
<1>11. CASE SnapshotFails(p)
  <2>1. Fits
    BY <1>8, <1>11 DEF SnapshotFails, AtJob
  <2> QED BY <1>3, <1>11, <2>1 DEF SnapshotFails
<1>12. CASE Demote(p)
  <2>1. active \in SUBSET Jobs
    BY DEF TypeInv, TypeOK
  <2>2. Fits
    BY <1>7, <1>12, <2>1 DEF Demote, AtJob
  <2> QED BY <1>3, <1>12, <2>2 DEF Demote
<1>13. CASE Insert(p)
  <2> DEFINE j == poll[p].job
  <2>1. poll[p].at = "insert" /\ j \in recorded /\ recorded \subseteq Jobs
    BY <1>2, <1>13 DEF Insert, AtJob, TypeInv, TypeOK
  <2>2. CASE Duplicate(j)
    <3>1. Fits
      BY <1>8, <1>13, <2>1, <2>2 DEF Insert, AtJob
    <3> QED BY <1>3, <1>13, <2>2, <3>1 DEF Insert
  <2>3. CASE ~Duplicate(j)
    <3>1. Fits
      BY <1>6, <1>13, <2>3 DEF Insert
    <3>2. /\ trained' = trained \cup {j} /\ deleted' = deleted
          /\ active' = (active \ poll[p].rows) \cup {j}
          /\ Rest /\ UNCHANGED status
      BY <1>13, <2>3 DEF Insert
    <3>3. /\ build' \in [Jobs -> {"none", "running", "succeeded", "failed"}]
          /\ late' \subseteq Jobs
          /\ trained \subseteq trained' /\ trained' \subseteq recorded
          /\ active' \subseteq trained' /\ deleted' \subseteq trained'
      BY <2>1, <3>2 DEF TypeInv, TypeOK, Kin
    <3>4. \A q \in Pollers :
            /\ poll'[q].todo \subseteq recorded
            /\ poll'[q].at \in AtJob => poll'[q].job \in recorded
      BY <1>2, <3>1
    <3>5. \A u \in Users :
            /\ user'[u].at = "cancel" => user'[u].job \in Jobs
            /\ user'[u].at \in {"activate", "tombstone"} => user'[u].job \in trained'
      BY <3>2 DEF TypeInv, Kin
    <3> HIDE DEF j
    <3> QED
      BY <1>1, <3>1, <3>2, <3>3, <3>4, <3>5, OtherType
  <2> QED BY <2>2, <2>3
<1> QED
  BY <1>4, <1>5, <1>9, <1>10, <1>11, <1>12, <1>13 DEF PollStep

LEMMA UserType ==
  ASSUME TypeInv, NEW u \in Users, UserStep(u)
  PROVE  TypeInv'
<1> DEFINE Rest == UNCHANGED <<setup, stage, version, recorded, build, late, poll>>
           Asks == /\ user' \in [Users -> Asked]
                   /\ \A v \in Users :
                       /\ user'[v].at = "cancel" => user'[v].job \in Jobs
                       /\ user'[v].at \in {"activate", "tombstone"} =>
                            user'[v].job \in trained
<1> USE DEF jobVars, modelVars
<1>1. poll \in [Pollers -> Rounds] /\ user \in [Users -> Asked]
  BY RowsTyped DEF TypeInv
<1>2. ASSUME Rest, trained' = trained, active' \subseteq trained,
             deleted' \subseteq trained, Asks,
             \/ UNCHANGED status
             \/ \E j \in Jobs \cup {NoJob}, s \in Statuses :
                  status' = [status EXCEPT ![j] = s]
      PROVE  TypeInv'
  <2>1. /\ build' \in [Jobs -> {"none", "running", "succeeded", "failed"}]
        /\ late' \subseteq Jobs /\ trained' \subseteq recorded
    BY <1>2 DEF TypeInv, TypeOK, Kin
  <2>2. \A p \in Pollers :
          /\ poll'[p].todo \subseteq recorded
          /\ poll'[p].at \in AtJob => poll'[p].job \in recorded
    BY <1>2 DEF TypeInv, Kin
  <2>3. poll' \in [Pollers -> Rounds]
    BY <1>1, <1>2
  <2> QED BY <1>2, <2>1, <2>2, <2>3, OtherType
<1>3. ASSUME NEW next \in {"cancel", "activate", "tombstone"}, NEW j \in Jobs,
             NEW rows \in SUBSET Jobs, Request(u, next, j, rows),
             next # "cancel" => j \in trained
      PROVE  Asks
  <2>1. [at |-> next, job |-> j, rows |-> rows] \in Asked
    BY DEF Asked
  <2> QED BY <1>1, <1>3, <2>1 DEF Request, TypeInv, Kin
<1>4. ASSUME user' = [user EXCEPT ![u] = NoRequest] PROVE Asks
  BY <1>1, <1>4, NothingAsked DEF NoRequest, TypeInv, Kin
<1>5. active \subseteq trained /\ deleted \subseteq trained /\ trained \subseteq Jobs
  BY DEF TypeInv, TypeOK
<1>6. user[u].at \in {"activate", "tombstone"} => user[u].job \in trained
  BY DEF TypeInv, Kin
<1> HIDE DEF Asks
<1>7. ASSUME NEW j \in Jobs, BeginCancel(u, j) PROVE TypeInv'
  <2>1. Asks
    BY <1>3, <1>7 DEF BeginCancel
  <2> QED BY <1>2, <1>5, <1>7, <2>1 DEF BeginCancel
<1>8. ASSUME NEW j \in Jobs, BeginActivate(u, j) PROVE TypeInv'
  <2>1. Asks
    BY <1>3, <1>5, <1>8 DEF BeginActivate
  <2> QED BY <1>2, <1>5, <1>8, <2>1 DEF BeginActivate
<1>9. ASSUME NEW j \in Jobs, BeginDelete(u, j) PROVE TypeInv'
  <2>1. Asks
    BY <1>3, <1>5, <1>9 DEF BeginDelete
  <2> QED BY <1>2, <1>5, <1>9, <2>1 DEF BeginDelete
<1>10. CASE EndCancel(u)
  <2>1. Asks /\ user[u].job \in Jobs \cup {NoJob}
    BY <1>1, <1>4, <1>10 DEF EndCancel, Asked
  <2> QED BY <1>2, <1>5, <1>10, <2>1 DEF EndCancel, Write, Statuses
<1>11. CASE EndActivate(u)
  <2>1. Asks
    BY <1>4, <1>11 DEF EndActivate
  <2> QED BY <1>2, <1>5, <1>6, <1>11, <2>1 DEF EndActivate
<1>12. CASE Tombstone(u)
  <2>1. Asks
    BY <1>4, <1>12 DEF Tombstone
  <2> QED BY <1>2, <1>5, <1>6, <1>12, <2>1 DEF Tombstone
<1> QED
  BY <1>7, <1>8, <1>9, <1>10, <1>11, <1>12 DEF UserStep

LEMMA StepType == TypeInv /\ [Next]_vars => TypeInv'
<1> SUFFICES ASSUME TypeInv, [Next]_vars PROVE TypeInv'
  OBVIOUS
<1>1. CASE Restart
  <2>1. poll' \in [Pollers -> Rounds] /\ user' \in [Users -> Asked]
    BY <1>1, NothingAsked DEF Restart
  <2>2. stage' \in [Jobs -> Stages]
    BY <1>1 DEF Restart, Stages
  <2>3. TypeOK'
    BY <1>1, <2>1, <2>2 DEF Restart, modelVars, TypeInv, TypeOK, Rounds, Asked, Stages
  <2>4. Kin'
    BY <1>1 DEF Restart, modelVars, TypeInv, TypeOK, Kin, NoRound, NoRequest, AtJob
  <2> QED BY <2>3, <2>4 DEF TypeInv
<1>2. CASE UNCHANGED vars
  BY <1>2 DEF vars, jobVars, modelVars, TypeInv, TypeOK, Kin
<1> QED
  BY <1>1, <1>2, UploadType, AzureType, PollType, UserType DEF Next

LEMMA TypeAlways == Spec => []TypeInv
BY InitType, StepType, PTL DEF Spec

\* Jobs, versions, polls and requests are well typed: an active version and a
\* deleted one exist.
THEOREM TypeCorrect == Spec => []TypeOK
<1>1. TypeInv => TypeOK
  BY DEF TypeInv
<1> QED BY <1>1, TypeAlways, PTL

------------------------------------------------------------------------------
\* For any number of jobs, polls and users, with restarts: the last active
\* version goes only by its deletion.
THEOREM ActiveVersionsAreReplaced == Spec => ActiveIsReplaced
<1> DEFINE Replaced == active # {} /\ active' = {} => active \subseteq deleted'
<1>1. ASSUME TypeInv, Next PROVE Replaced
  <2> SUFFICES ASSUME active # {}, active' = {} PROVE active \subseteq deleted'
    OBVIOUS
  <2>1. PICK u \in Users : Tombstone(u)
    <3>1. ASSUME NEW p \in Pollers, BeginRound(p) \/ PollStep(p) PROVE FALSE
      BY <3>1 DEF BeginRound, PollStep, Ask, PollFails, PollSucceeds,
         SnapshotFails, Demote, Insert, modelVars
    <3>2. ASSUME NEW j \in Jobs, StartStep(j) \/ UploadStep(j) \/ TimePasses(j)
          PROVE  FALSE
      BY <3>2 DEF StartStep, UploadStep, BeginStart, TakeVersion, RefuseStart,
         CreateJob, BeginUpload, EndUpload, RequestBuild, RecordBuild,
         UploadFails, RecordFailure, TimePasses, modelVars
    <3>3. ASSUME NEW j \in Jobs, NEW result, AzureEnds(j, result) PROVE FALSE
      BY <3>3 DEF AzureEnds, modelVars
    <3>4. ASSUME NEW u \in Users, UserStep(u) PROVE Tombstone(u)
      BY <3>4 DEF UserStep, BeginCancel, BeginActivate, BeginDelete, EndCancel,
         EndActivate, modelVars
    <3>5. ~Restart
      BY DEF Restart, modelVars
    <3> QED BY <1>1, <3>1, <3>2, <3>3, <3>4, <3>5 DEF Next
  <2> QED BY <2>1 DEF Tombstone
<1>2. TypeInv /\ [Next]_vars => [Replaced]_vars
  BY <1>1
<1>3. Spec => [][Replaced]_vars
  BY <1>2, TypeAlways, PTL DEF Spec
<1> QED BY <1>3 DEF ActiveIsReplaced

------------------------------------------------------------------------------
(* A job that says SUCCEEDED has a trained model.                           *)

LEMMA PollIsTyped ==
  ASSUME TypeInv, NEW p \in Pollers
  PROVE  /\ poll \in [Pollers -> Rounds] /\ poll[p] \in Rounds
         /\ poll[p].at \in AtJob => poll[p].job \in Jobs
<1>1. poll \in [Pollers -> Rounds]
  BY RowsTyped DEF TypeInv
<1>2. poll[p].at \in AtJob => poll[p].job \in Jobs
  BY DEF TypeInv, TypeOK, Kin
<1> QED BY <1>1, <1>2

\* No step of a start or of an upload writes SUCCEEDED.
LEMMA UploadWrites ==
  ASSUME TypeInv, NEW j \in Jobs, StartStep(j) \/ UploadStep(j)
  PROVE  /\ UNCHANGED <<setup, trained, active, poll, user>>
         /\ \A k \in Jobs : k # j => status'[k] = status[k]
         /\ status'[j] = "SUCCEEDED" => status[j] = "SUCCEEDED"
         /\ j \notin recorded
BY DEF StartStep, UploadStep, BeginStart, TakeVersion, RefuseStart, CreateJob,
   BeginUpload, EndUpload, RequestBuild, RecordBuild, UploadFails,
   RecordFailure, Write, Goto, modelVars, TypeInv, TypeOK, Kin

\* Users write no status but FAILED.
LEMMA UserWrites ==
  ASSUME TypeInv, NEW u \in Users, UserStep(u)
  PROVE  /\ UNCHANGED <<setup, recorded, trained, poll>>
         /\ \A k \in Jobs : status'[k] = "SUCCEEDED" => status[k] = "SUCCEEDED"
         /\ user[u].at # "cancel" => UNCHANGED status
BY DEF UserStep, BeginCancel, BeginActivate, BeginDelete, EndCancel,
   EndActivate, Tombstone, Write, jobVars, modelVars, TypeInv, TypeOK, Kin

\* What a call of a poll writes, and where it goes on.
LEMMA PollWrites ==
  ASSUME TypeInv, NEW p \in Pollers, PollStep(p)
  PROVE  /\ UNCHANGED <<setup, recorded, user>>
         /\ trained \subseteq trained' /\ trained' \subseteq trained \cup {poll[p].job}
         /\ \A q \in Pollers : q # p => poll'[q] = poll[q]
         /\ poll'[p].todo \subseteq poll[p].todo
         /\ \/ /\ poll[p].at = "ask" /\ UNCHANGED <<status, trained, active>>
               /\ poll'[p].at \in {"fail", "succeed"} =>
                    /\ poll'[p].job \in poll[p].todo
                    /\ poll'[p].job \notin poll'[p].todo
               /\ poll'[p].at \in {"idle", "ask", "fail", "succeed"}
            \/ /\ poll[p].at = "fail" /\ poll'[p].at \in {"idle", "ask"}
               /\ status' = [status EXCEPT ![poll[p].job] = "FAILED"]
               /\ UNCHANGED <<trained, active>>
            \/ /\ poll[p].at = "succeed" /\ poll'[p].at = "demote"
               /\ poll'[p].job = poll[p].job
               /\ status' = [status EXCEPT ![poll[p].job] = "SUCCEEDED"]
               /\ UNCHANGED <<trained, active>>
            \/ /\ poll[p].at = "demote" /\ poll'[p].at \in {"fail", "insert"}
               /\ poll'[p].job = poll[p].job
               /\ poll'[p].at = "insert" => poll'[p].rows = active
               /\ UNCHANGED <<status, trained, active>>
            \/ /\ poll[p].at = "insert" /\ poll'[p].at = "fail"
               /\ poll'[p].job = poll[p].job
               /\ UNCHANGED <<status, trained, active>>
            \/ /\ poll[p].at = "insert" /\ poll'[p].at \in {"idle", "ask"}
               /\ trained' = trained \cup {poll[p].job}
               /\ active' = (active \ poll[p].rows) \cup {poll[p].job}
               /\ UNCHANGED status
<1> USE DEF jobVars, modelVars
<1>1. ASSUME NEW j \in Jobs, Ask(p, j)
      PROVE  /\ poll'[p].at \in {"fail", "succeed"} =>
                  poll'[p].job \in poll[p].todo /\ poll'[p].job \notin poll'[p].todo
             /\ poll'[p].at \in {"idle", "ask", "fail", "succeed"}
             /\ poll'[p].todo \subseteq poll[p].todo
             /\ \A q \in Pollers : q # p => poll'[q] = poll[q]
  BY <1>1, AskType
<1>2. CASE \E j \in Jobs : Ask(p, j)
  BY <1>1, <1>2 DEF Ask
<1>3. CASE PollFails(p)
  BY <1>3, EndOfPollType DEF PollFails, Write
<1>4. ASSUME NEW next \in AtJob, poll[p].at \in AtJob, Step(p, next, poll[p].job)
      PROVE  /\ poll'[p].at = next /\ poll'[p].job = poll[p].job
             /\ poll'[p].todo = poll[p].todo
             /\ \A q \in Pollers : q # p => poll'[q] = poll[q]
  <2>1. poll' = [poll EXCEPT ![p].at = next, ![p].rows = {}]
    BY <1>4, StepIs
  <2> QED BY <1>4, <2>1, {} \in SUBSET Jobs, StepOfPollType
<1>5. CASE PollSucceeds(p)
  BY <1>4, <1>5 DEF PollSucceeds, Write, AtJob
<1>6. CASE SnapshotFails(p)
  BY <1>4, <1>6 DEF SnapshotFails, AtJob
<1>7. CASE Demote(p)
  <2>1. poll'[p] = [poll[p] EXCEPT !.at = "insert", !.rows = active]
    BY <1>7, PollIsTyped DEF Demote
  <2> QED BY <1>7, <2>1, PollIsTyped DEF Demote, Rounds
<1>8. CASE Insert(p)
  <2>1. CASE Duplicate(poll[p].job)
    BY <1>4, <1>8, <2>1 DEF Insert, AtJob
  <2>2. CASE ~Duplicate(poll[p].job)
    BY <1>8, <2>2, EndOfPollType DEF Insert
  <2> QED BY <2>1, <2>2
<1> QED BY <1>2, <1>3, <1>5, <1>6, <1>7, <1>8 DEF PollStep

LEMMA OtherSteps ==
  ASSUME \/ \E j \in Jobs : TimePasses(j)
         \/ \E j \in Jobs, result \in {"succeeded", "failed"} : AzureEnds(j, result)
         \/ UNCHANGED vars
  PROVE  UNCHANGED <<setup, recorded, status, trained, active, poll, user>>
BY DEF TimePasses, AzureEnds, jobVars, modelVars, vars

LEMMA RoundBegins ==
  ASSUME TypeInv, NEW p \in Pollers, BeginRound(p)
  PROVE  /\ UNCHANGED <<setup, recorded, status, trained, active, user>>
         /\ poll[p].at = "idle" /\ poll'[p].at = "ask" /\ poll'[p].todo = Polled
         /\ \A q \in Pollers : q # p => poll'[q] = poll[q]
BY PollIsTyped DEF BeginRound, jobVars, modelVars

LEMMA StepSucceeded ==
  TypeInv /\ SucceededHasModel /\ [Next]_vars => SucceededHasModel'
<1> SUFFICES ASSUME TypeInv, SucceededHasModel, [Next]_vars, ~setup'.restart,
                    NEW j \in Jobs, status'[j] = "SUCCEEDED"
             PROVE  j \in trained' \/ Storing(j)'
  BY DEF SucceededHasModel
<1>1. ~setup.restart
  BY DEF Next, StartStep, UploadStep, PollStep, UserStep, BeginStart, TakeVersion,
     RefuseStart, CreateJob, BeginUpload, EndUpload, RequestBuild, RecordBuild,
     UploadFails, RecordFailure, TimePasses, AzureEnds, BeginRound, Ask,
     PollFails, PollSucceeds, SnapshotFails, Demote, Insert, BeginCancel,
     BeginActivate, BeginDelete, EndCancel, EndActivate, Tombstone, Restart, vars
<1>2. status[j] = "SUCCEEDED" => j \in trained \/ Storing(j)
  BY <1>1 DEF SucceededHasModel
<1>3. ASSUME UNCHANGED <<trained, poll>>, status[j] = "SUCCEEDED"
      PROVE  j \in trained' \/ Storing(j)'
  BY <1>2, <1>3 DEF Storing
<1>4. ASSUME NEW k \in Jobs, StartStep(k) \/ UploadStep(k)
      PROVE  j \in trained' \/ Storing(j)'
  BY <1>3, <1>4, UploadWrites
<1>5. ASSUME NEW u \in Users, UserStep(u)
      PROVE  j \in trained' \/ Storing(j)'
  BY <1>3, <1>5, UserWrites
<1>6. ASSUME NEW p \in Pollers, BeginRound(p)
      PROVE  j \in trained' \/ Storing(j)'
  BY <1>2, <1>6, RoundBegins DEF Storing
<1>7. ASSUME NEW p \in Pollers, PollStep(p)
      PROVE  j \in trained' \/ Storing(j)'
  <2>1. ASSUME NEW q \in Pollers, q # p, poll[q].job = j,
               poll[q].at \in {"demote", "insert", "fail"}
        PROVE  Storing(j)'
    BY <1>7, <2>1, PollWrites DEF Storing
  <2>2. CASE poll[p].job = j /\ poll[p].at \in AtJob
    BY <1>7, <2>2, PollWrites DEF Storing, AtJob, TypeInv, TypeOK
  <2>3. CASE ~(poll[p].job = j /\ poll[p].at \in AtJob)
    <3>1. status[j] = "SUCCEEDED" /\ trained \subseteq trained'
      BY <1>7, <2>3, PollWrites DEF AtJob, TypeInv, TypeOK
    <3> QED BY <1>2, <2>1, <2>3, <3>1 DEF Storing, AtJob
  <2> QED BY <2>2, <2>3
<1>8. CASE \/ \E k \in Jobs : TimePasses(k)
           \/ \E k \in Jobs, result \in {"succeeded", "failed"} : AzureEnds(k, result)
           \/ UNCHANGED vars
  BY <1>3, <1>8, OtherSteps
<1>9. ~Restart
  BY <1>1 DEF Restart
<1> QED BY <1>4, <1>5, <1>6, <1>7, <1>8, <1>9 DEF Next

------------------------------------------------------------------------------
(* Rounds that do not overlap.                                              *)

Serial == setup.polls <= 1

\* The poller of a round that is under way is the only one.
Alone ==
  Serial =>
    \A p, q \in Pollers : poll[p].at # "idle" /\ poll[q].at # "idle" => p = q

\* No trained model is asked for again, and a job of which a model is stored
\* says SUCCEEDED.
Orderly ==
  Serial /\ ~setup.cancel =>
    /\ \A u \in Users : user[u].at # "cancel"
    /\ \A j \in trained : status[j] = "SUCCEEDED"
    /\ \A p \in Pollers :
         /\ poll[p].at # "idle" => poll[p].todo \cap trained = {}
         /\ poll[p].at \in AtJob =>
              poll[p].job \notin trained /\ poll[p].job \notin poll[p].todo
         /\ poll[p].at \in {"demote", "insert"} =>
              status[poll[p].job] = "SUCCEEDED"

\* Without users the rows that a poll found are the active ones.
Unmoved ==
  Serial /\ setup.users = 0 =>
    /\ \A u \in Users : user[u] = NoRequest
    /\ \A p \in Pollers : poll[p].at = "insert" => poll[p].rows = active
    /\ \/ trained = {} /\ active = {}
       \/ \E j \in Jobs : active = {j}

SerialInv == Alone /\ Orderly /\ Unmoved

LEMMA SetupStays == [Next]_vars => UNCHANGED setup
BY DEF Next, StartStep, UploadStep, PollStep, UserStep, BeginStart, TakeVersion,
   RefuseStart, CreateJob, BeginUpload, EndUpload, RequestBuild, RecordBuild,
   UploadFails, RecordFailure, TimePasses, AzureEnds, BeginRound, Ask,
   PollFails, PollSucceeds, SnapshotFails, Demote, Insert, BeginCancel,
   BeginActivate, BeginDelete, EndCancel, EndActivate, Tombstone, Restart, vars

LEMMA BusyCounts ==
  /\ IsFiniteSet(Busy) /\ Cardinality(Busy) \in Nat
  /\ Cardinality(Busy) = 0 <=> Busy = {}
<1>1. Busy \subseteq Pollers
  BY DEF Busy
<1>2. IsFiniteSet(Busy)
  BY <1>1, FinitenessAssumption, FS_Subset
<1> QED BY <1>2, FS_CardinalityType, FS_EmptySet

LEMMA InitSerial == Init => SerialInv
BY DEF Init, SerialInv, Alone, Orderly, Unmoved, NoRound, NoRequest, AtJob

LEMMA StepAlone == TypeInv /\ Alone /\ [Next]_vars => Alone'
<1> SUFFICES ASSUME TypeInv, Alone, [Next]_vars, Serial,
                    NEW p \in Pollers, NEW q \in Pollers, p # q,
                    poll'[p].at # "idle", poll'[q].at # "idle"
             PROVE  FALSE
  BY SetupStays DEF Alone, Serial
<1>1. poll[p].at = "idle" \/ poll[q].at = "idle"
  BY DEF Alone
<1>2. PICK r \in Pollers : BeginRound(r)
  <2>1. poll' # poll
    BY <1>1
  <2>2. ASSUME NEW r \in Pollers, PollStep(r) PROVE FALSE
    <3>1. poll[r].at # "idle"
      BY <2>2, PollWrites
    <3>2. /\ p # r => poll'[p] = poll[p]
          /\ q # r => poll'[q] = poll[q]
      BY <2>2, PollWrites
    <3> QED BY <1>1, <3>1, <3>2 DEF Alone
  <2>3. ASSUME NEW j \in Jobs, StartStep(j) \/ UploadStep(j) PROVE FALSE
    BY <2>1, <2>3, UploadWrites
  <2>4. ASSUME NEW u \in Users, UserStep(u) PROVE FALSE
    BY <2>1, <2>4, UserWrites
  <2>5. ~Restart
    BY DEF Restart, NoRound
  <2> QED BY <2>1, <2>2, <2>3, <2>4, <2>5, OtherSteps DEF Next
<1>3. Cardinality(Busy) = 0
  <2>1. setup.polls \in Nat
    BY SetupsAssumption DEF TypeInv, TypeOK
  <2>2. Cardinality(Busy) < setup.polls
    BY <1>2 DEF BeginRound
  <2> QED BY <2>1, <2>2, BusyCounts DEF Serial
<1>4. poll[p].at = "idle" /\ poll[q].at = "idle"
  BY <1>3, BusyCounts DEF Busy
<1> QED BY <1>2, <1>4, RoundBegins

LEMMA StepOrderly ==
  TypeInv /\ Alone /\ Orderly /\ [Next]_vars => Orderly'
<1> SUFFICES ASSUME TypeInv, Alone, Orderly, [Next]_vars, Serial, ~setup.cancel
             PROVE  /\ \A u \in Users : user'[u].at # "cancel"
                    /\ \A j \in trained' : status'[j] = "SUCCEEDED"
                    /\ \A p \in Pollers :
                         /\ poll'[p].at # "idle" => poll'[p].todo \cap trained' = {}
                         /\ poll'[p].at \in AtJob =>
                              /\ poll'[p].job \notin trained'
                              /\ poll'[p].job \notin poll'[p].todo
                         /\ poll'[p].at \in {"demote", "insert"} =>
                              status'[poll'[p].job] = "SUCCEEDED"
  BY SetupStays DEF Orderly, Serial
<1>1. /\ \A u \in Users : user[u].at # "cancel"
      /\ \A j \in trained : status[j] = "SUCCEEDED"
      /\ \A p \in Pollers :
           /\ poll[p].at # "idle" => poll[p].todo \cap trained = {}
           /\ poll[p].at \in AtJob =>
                poll[p].job \notin trained /\ poll[p].job \notin poll[p].todo
           /\ poll[p].at \in {"demote", "insert"} =>
                status[poll[p].job] = "SUCCEEDED"
  BY DEF Orderly
<1>2. /\ trained \subseteq recorded /\ recorded \subseteq Jobs
      /\ \A p \in Pollers : poll[p].at \in AtJob => poll[p].job \in recorded
      /\ status \in [Jobs -> Statuses]
  BY DEF TypeInv, TypeOK, Kin, Statuses
<1>3. CASE UNCHANGED <<status, trained, poll, user>>
  BY <1>1, <1>3
<1>4. ASSUME NEW j \in Jobs, StartStep(j) \/ UploadStep(j)
      PROVE  Orderly'
  <2>1. UNCHANGED <<setup, trained, poll, user>> /\ j \notin recorded
    BY <1>4, UploadWrites
  <2>2. \A k \in recorded : status'[k] = status[k]
    BY <1>2, <1>4, <2>1, UploadWrites
  <2> QED BY <1>1, <1>2, <2>1, <2>2 DEF Orderly, AtJob
<1>5. ASSUME NEW u \in Users, UserStep(u)
      PROVE  Orderly'
  <2>1. UNCHANGED <<setup, trained, poll, status>>
    BY <1>1, <1>5, UserWrites
  <2>2. \A v \in Users : user'[v].at # "cancel"
    <3>1. user \in [Users -> Asked]
      BY RowsTyped DEF TypeInv
    <3> QED
      BY <1>1, <1>5, <3>1 DEF UserStep, BeginCancel, BeginActivate, BeginDelete,
         EndCancel, EndActivate, Tombstone, Request, NoRequest
  <2> QED BY <1>1, <2>1, <2>2 DEF Orderly
<1>6. ASSUME NEW p \in Pollers, BeginRound(p)
      PROVE  Orderly'
  <2>1. Polled \cap trained = {}
    BY <1>1 DEF Polled
  <2>2. /\ UNCHANGED <<setup, status, trained, user>>
        /\ poll'[p].at = "ask" /\ poll'[p].todo = Polled
        /\ \A q \in Pollers : q # p => poll'[q] = poll[q]
    BY <1>6, RoundBegins
  <2>3. \A q \in Pollers :
          /\ poll'[q].at # "idle" => poll'[q].todo \cap trained = {}
          /\ poll'[q].at \in AtJob =>
               poll'[q].job \notin trained /\ poll'[q].job \notin poll'[q].todo
          /\ poll'[q].at \in {"demote", "insert"} =>
               status[poll'[q].job] = "SUCCEEDED"
    BY <1>1, <2>1, <2>2 DEF AtJob
  <2> QED BY <1>1, <2>2, <2>3 DEF Orderly
<1>7. ASSUME NEW p \in Pollers, PollStep(p)
      PROVE  Orderly'
  <2>1. \A q \in Pollers : q # p => poll'[q].at = "idle"
    <3>1. poll[p].at # "idle"
      BY <1>7, PollWrites
    <3> QED BY <1>7, <3>1, PollWrites DEF Alone
  <2>2. UNCHANGED <<setup, user>>
    BY <1>7, PollWrites
  <2>3. \A j \in trained' : status'[j] = "SUCCEEDED"
    <3>1. poll[p].at \in AtJob => poll[p].job \in Jobs
      BY <1>2
    <3> QED BY <1>1, <1>2, <1>7, <3>1, PollWrites DEF AtJob
  <2>4. poll'[p].at # "idle" => poll'[p].todo \cap trained' = {}
    BY <1>1, <1>7, PollWrites DEF AtJob
  <2>5. poll'[p].at \in AtJob =>
          poll'[p].job \notin trained' /\ poll'[p].job \notin poll'[p].todo
    BY <1>1, <1>7, PollWrites DEF AtJob
  <2>6. poll'[p].at \in {"demote", "insert"} => status'[poll'[p].job] = "SUCCEEDED"
    BY <1>1, <1>2, <1>7, PollWrites DEF AtJob
  <2>7. \A q \in Pollers :
          /\ poll'[q].at # "idle" => poll'[q].todo \cap trained' = {}
          /\ poll'[q].at \in AtJob =>
               poll'[q].job \notin trained' /\ poll'[q].job \notin poll'[q].todo
          /\ poll'[q].at \in {"demote", "insert"} =>
               status'[poll'[q].job] = "SUCCEEDED"
    BY <2>1, <2>4, <2>5, <2>6 DEF AtJob
  <2> QED BY <1>1, <2>2, <2>3, <2>7 DEF Orderly
<1>8. CASE Restart
  BY <1>1, <1>8 DEF Restart, NoRound, NoRequest, AtJob, modelVars
<1>9. CASE \/ \E k \in Jobs : TimePasses(k)
           \/ \E k \in Jobs, result \in {"succeeded", "failed"} : AzureEnds(k, result)
           \/ UNCHANGED vars
  BY <1>3, <1>9, OtherSteps
<1>10. Orderly' => Orderly' /\ Serial' /\ ~setup'.cancel
  BY SetupStays DEF Serial
<1> QED
  BY <1>4, <1>5, <1>6, <1>7, <1>8, <1>9, <1>10 DEF Next, Orderly

LEMMA StepUnmoved ==
  TypeInv /\ Alone /\ Unmoved /\ [Next]_vars => Unmoved'
<1> SUFFICES ASSUME TypeInv, Alone, Unmoved, [Next]_vars, Serial, setup.users = 0
             PROVE  /\ \A u \in Users : user'[u] = NoRequest
                    /\ \A p \in Pollers :
                         poll'[p].at = "insert" => poll'[p].rows = active'
                    /\ \/ trained' = {} /\ active' = {}
                       \/ \E j \in Jobs : active' = {j}
  BY SetupStays DEF Unmoved, Serial
<1> DEFINE Goal == /\ \A u \in Users : user'[u] = NoRequest
                   /\ \A p \in Pollers :
                        poll'[p].at = "insert" => poll'[p].rows = active'
                   /\ \/ trained' = {} /\ active' = {}
                      \/ \E j \in Jobs : active' = {j}
<1>1. /\ \A u \in Users : user[u] = NoRequest
      /\ \A p \in Pollers : poll[p].at = "insert" => poll[p].rows = active
      /\ \/ trained = {} /\ active = {}
         \/ \E j \in Jobs : active = {j}
  BY DEF Unmoved
<1>2. ASSUME UNCHANGED <<trained, active, poll, user>> PROVE Goal
  BY <1>1, <1>2
<1>3. ASSUME NEW u \in Users, UserStep(u) PROVE FALSE
  <2>1. {v \in Users : user[v] # NoRequest} = {}
    BY <1>1
  <2>2. ~CanAsk(u)
    BY <2>1, FS_EmptySet DEF CanAsk
  <2>3. user[u].at = "idle"
    BY <1>1 DEF NoRequest
  <2> QED
    BY <1>3, <2>2, <2>3 DEF UserStep, BeginCancel, BeginActivate, BeginDelete,
       EndCancel, EndActivate, Tombstone
<1>4. ASSUME NEW p \in Pollers, PollStep(p) PROVE Goal
  <2>1. \A q \in Pollers : q # p => poll'[q].at = "idle"
    <3>1. poll[p].at # "idle"
      BY <1>4, PollWrites
    <3> QED BY <1>4, <3>1, PollWrites DEF Alone
  <2>2. UNCHANGED user
    BY <1>4, PollWrites
  <2>3. CASE UNCHANGED <<trained, active>>
    <3>1. poll'[p].at = "insert" => poll'[p].rows = active
      BY <1>4, PollWrites
    <3> QED BY <1>1, <2>1, <2>2, <2>3, <3>1
  <2>4. CASE /\ poll[p].at = "insert" /\ poll'[p].at \in {"idle", "ask"}
             /\ active' = (active \ poll[p].rows) \cup {poll[p].job}
    <3>1. active' = {poll[p].job} /\ poll[p].job \in Jobs
      BY <1>1, <2>4, PollIsTyped DEF AtJob
    <3> QED BY <1>1, <2>1, <2>2, <2>4, <3>1
  <2> QED BY <1>4, <2>3, <2>4, PollWrites
<1>5. ASSUME NEW p \in Pollers, BeginRound(p) PROVE Goal
  <2>1. /\ UNCHANGED <<trained, active, user>> /\ poll'[p].at = "ask"
        /\ \A q \in Pollers : q # p => poll'[q] = poll[q]
    BY <1>5, RoundBegins
  <2>2. \A q \in Pollers : poll'[q].at = "insert" => poll'[q].rows = active
    BY <1>1, <2>1
  <2> QED BY <1>1, <2>1, <2>2
<1>6. ASSUME NEW j \in Jobs, StartStep(j) \/ UploadStep(j) PROVE Goal
  BY <1>2, <1>6, UploadWrites
<1>7. CASE Restart
  BY <1>1, <1>7 DEF Restart, NoRound, modelVars
<1> QED
  BY <1>2, <1>3, <1>4, <1>5, <1>6, <1>7, OtherSteps DEF Next

LEMMA SerialAlways == Spec => [](TypeInv /\ SerialInv)
<1>1. TypeInv /\ SerialInv /\ [Next]_vars => SerialInv'
  BY StepAlone, StepOrderly, StepUnmoved DEF SerialInv
<1> QED BY <1>1, InitSerial, TypeAlways, PTL DEF Spec

\* For any number of jobs, polls and users: a job that says SUCCEEDED has a
\* trained model or a poll that is about to create it, and conversely when
\* rounds do not overlap and nothing is cancelled.
THEOREM OutcomesAgree == Spec => []OutcomeAgrees
<1>1. Init => SucceededHasModel
  BY DEF Init, SucceededHasModel
<1>2. Spec => []SucceededHasModel
  BY <1>1, StepSucceeded, TypeAlways, PTL DEF Spec
<1>3. SerialInv => ModelHasSucceeded
  BY DEF SerialInv, Orderly, ModelHasSucceeded, Serial
<1>4. SucceededHasModel /\ ModelHasSucceeded <=> OutcomeAgrees
  BY DEF OutcomeAgrees
<1> QED BY <1>2, <1>3, <1>4, SerialAlways, PTL

\* For any number of jobs and pollers: as long as rounds do not overlap and no
\* user activates or deletes, a template has one active version once it has a
\* version at all.
THEOREM OneIsActive == Spec => []OneActive
<1>1. TypeInv /\ SerialInv => OneActive
  <2> SUFFICES ASSUME TypeInv, SerialInv, setup.polls <= 1, setup.users = 0
               PROVE  Cardinality(active) = IF trained = {} THEN 0 ELSE 1
    BY DEF OneActive
  <2>1. CASE trained = {} /\ active = {}
    BY <2>1, FS_EmptySet
  <2>2. CASE \E j \in Jobs : active = {j}
    <3>1. trained # {}
      BY <2>2 DEF TypeInv, TypeOK
    <3> QED BY <2>2, <3>1, FS_Singleton
  <2> QED BY <2>1, <2>2 DEF SerialInv, Unmoved, Serial
<1> QED BY <1>1, SerialAlways, PTL

------------------------------------------------------------------------------
\* A job that blocks its template is never without somebody who will move it on:
\* its upload, or the cron, which only lists jobs on record.
JobIsCarried ==
  ~setup.restart =>
    \A j \in Jobs : status[j] \in InFlightStatus => stage[j] \in Uploading \/ j \in Polled

\* For any number of jobs, polls and users, a job in flight is carried as long as
\* the backend does not stop: whatever was cancelled, and whoever failed, meanwhile.
THEOREM JobsAreCarried == Spec => []JobIsCarried
<1> USE DEF JobIsCarried, Polled
<1>1. Init => JobIsCarried
  BY DEF Init, InFlightStatus
<1>2. TypeInv /\ JobIsCarried /\ [Next]_vars => JobIsCarried'
  <2> SUFFICES ASSUME TypeInv, JobIsCarried, [Next]_vars, ~setup'.restart,
                      NEW j \in Jobs, status'[j] \in InFlightStatus
               PROVE  stage'[j] \in Uploading \/ j \in Polled'
    OBVIOUS
  <2>1. setup' = setup
    <3>1. ASSUME NEW k \in Jobs, StartStep(k) \/ UploadStep(k) \/ TimePasses(k)
          PROVE  setup' = setup
      BY <3>1 DEF StartStep, BeginStart, TakeVersion, RefuseStart, CreateJob, UploadStep,
        BeginUpload, EndUpload, RequestBuild, RecordBuild, UploadFails, RecordFailure,
        TimePasses
    <3>2. ASSUME NEW p \in Pollers, BeginRound(p) \/ PollStep(p)
          PROVE  setup' = setup
      BY <3>2 DEF BeginRound, PollStep, Ask, PollFails, PollSucceeds, SnapshotFails,
        Demote, Insert
    <3>3. ASSUME NEW u \in Users, UserStep(u)
          PROVE  setup' = setup
      BY <3>3 DEF UserStep, BeginCancel, EndCancel, BeginActivate, EndActivate,
        BeginDelete, Tombstone
    <3> QED
      BY <3>1, <3>2, <3>3 DEF Next, AzureEnds, Restart, vars
  <2>2. status[j] \in InFlightStatus => stage[j] \in Uploading \/ j \in Polled
    BY <2>1
  <2>3. ASSUME UNCHANGED <<stage, status, recorded>>
        PROVE  stage'[j] \in Uploading \/ j \in Polled'
    BY <2>2, <2>3
  <2>4. ASSUME NEW k \in Jobs, StartStep(k) PROVE stage'[j] \in Uploading \/ j \in Polled'
    <3>1. CASE j # k
      BY <2>4, <3>1 DEF StartStep, BeginStart, TakeVersion, RefuseStart, CreateJob, Goto,
        Write, TypeInv, TypeOK
    <3>2. CASE j = k
      <4>1. j \notin recorded /\ stage[j] \notin Uploading
        BY <2>4, <3>2 DEF StartStep, BeginStart, TakeVersion, RefuseStart, CreateJob,
          TypeInv, Kin, Uploading
      <4>2. CreateJob(j)
        BY <2>4, <3>2, <4>1 DEF StartStep, BeginStart, TakeVersion, RefuseStart
      <4> QED
        BY <4>2 DEF CreateJob, Goto, TypeInv, TypeOK, Uploading
    <3> QED BY <3>1, <3>2
  <2>5. ASSUME NEW k \in Jobs, UploadStep(k) PROVE stage'[j] \in Uploading \/ j \in Polled'
    <3>1. CASE j # k
      BY <2>5, <3>1 DEF UploadStep, BeginUpload, EndUpload, RequestBuild, RecordBuild,
        UploadFails, RecordFailure, Goto, Write, TypeInv, TypeOK
    <3>2. CASE RecordBuild(k) /\ j = k
      BY <3>2 DEF RecordBuild, Write, TypeInv, TypeOK
    <3>3. CASE RecordFailure(k) /\ j = k
      BY <3>3 DEF RecordFailure, Write, TypeInv, TypeOK, InFlightStatus
    <3>4. CASE (BeginUpload(k) \/ EndUpload(k) \/ RequestBuild(k) \/ UploadFails(k)) /\ j = k
      BY <3>4 DEF BeginUpload, EndUpload, RequestBuild, UploadFails, Goto, TypeInv, TypeOK,
        Uploading
    <3> QED BY <2>5, <3>1, <3>2, <3>3, <3>4 DEF UploadStep
  <2>6. ASSUME NEW k, NEW s \in {"FAILED", "SUCCEEDED"}, Write(k, s),
               UNCHANGED <<stage, recorded>>
        PROVE  stage'[j] \in Uploading \/ j \in Polled'
    <3>1. status'[j] = status[j]
      BY <2>6 DEF Write, TypeInv, TypeOK, InFlightStatus
    <3> QED BY <2>2, <2>6, <3>1
  <2>7. ASSUME NEW p \in Pollers, BeginRound(p) \/ PollStep(p)
        PROVE  stage'[j] \in Uploading \/ j \in Polled'
    BY <2>3, <2>6, <2>7 DEF BeginRound, PollStep, Ask, PollFails, PollSucceeds,
      SnapshotFails, Demote, Insert, jobVars
  <2>8. ASSUME NEW u \in Users, UserStep(u)
        PROVE  stage'[j] \in Uploading \/ j \in Polled'
    BY <2>3, <2>6, <2>8 DEF UserStep, BeginCancel, EndCancel, BeginActivate, EndActivate,
      BeginDelete, Tombstone, jobVars
  <2>9. ASSUME \/ \E k \in Jobs : TimePasses(k)
               \/ \E k \in Jobs, result \in {"succeeded", "failed"} : AzureEnds(k, result)
               \/ UNCHANGED vars
        PROVE  stage'[j] \in Uploading \/ j \in Polled'
    BY <2>3, <2>9 DEF TimePasses, AzureEnds, vars, jobVars
  <2>10. ~Restart
    BY <2>1 DEF Restart
  <2> QED
    BY <2>4, <2>5, <2>7, <2>8, <2>9, <2>10 DEF Next
<1> QED BY <1>1, <1>2, TypeAlways, PTL DEF Spec

==============================================================================
