--------------------------- MODULE ReviewLockProofs ---------------------------
(***************************************************************************)
(* Proofs about ReviewLock, for every set of reviewers and of session ids, *)
(* and every load: any number of requests in flight, failing or not.        *)
(***************************************************************************)
EXTENDS ReviewLock, FiniteSetTheorems, TLAPS

USE NoSessionAssumption, NoReviewerAssumption, NoLockAssumption,
    LoadsAssumption, ReviewersAssumption

(***************************************************************************)
(* What a request that is on its way knows of its session.                 *)
(***************************************************************************)
RequestInv ==
  \A r \in Reviewers :
    /\ request[r].at \notin {"idle", "create"} => request[r].session \in Sessions
    /\ request[r].at \in {"acquire", "reopen", "reacquire"}
         => reviewer[request[r].session] = r

\* A session that exists keeps its reviewer: what makes RequestInv stable.
SessionInv == \A s \in Sessions : reviewer[s] # NoReviewer => status[s] # "none"

IInv == TypeOK /\ RequestInv /\ SessionInv /\ LockNamesItsReviewer

LEMMA InitIInv == Init => IInv
BY DEF Init, IInv, TypeOK, RequestInv, SessionInv, LockNamesItsReviewer, Idle

LEMMA StepTypeOK == IInv /\ [Next]_vars => TypeOK'
<1> SUFFICES ASSUME IInv, [Next]_vars PROVE TypeOK'
  OBVIOUS
<1> USE DEF IInv, TypeOK, Calls, Completed, Idle, GoTo
<1>1. ASSUME NEW r \in Reviewers,
             \/ BeginStart(r) \/ AcquireLock(r) \/ CompleteDocument(r)
             \/ ReleaseLock(r) \/ ReopenSession(r) \/ FailRequest(r)
      PROVE  TypeOK'
  <2>1. CASE BeginStart(r)
    BY <2>1 DEF BeginStart
  <2>2. CASE AcquireLock(r)
    BY <2>2 DEF AcquireLock, RequestInv
  <2>3. CASE CompleteDocument(r)
    BY <2>3 DEF CompleteDocument, RequestInv
  <2>4. CASE ReleaseLock(r)
    BY <2>4 DEF ReleaseLock
  <2>5. CASE ReopenSession(r)
    BY <2>5 DEF ReopenSession, RequestInv
  <2>6. CASE FailRequest(r)
    BY <2>6 DEF FailRequest
  <2> QED
    BY <1>1, <2>1, <2>2, <2>3, <2>4, <2>5, <2>6
<1>2. ASSUME NEW r \in Reviewers, NEW s \in Sessions, CreateSession(r, s)
      PROVE  TypeOK'
  BY <1>2 DEF CreateSession
<1>3. ASSUME NEW r \in Reviewers, NEW s \in Sessions, NEW result \in Completed,
             CloseSession(r, s, result)
      PROVE  TypeOK'
  BY <1>3 DEF CloseSession
<1>4. ASSUME NEW r \in Reviewers, NEW s \in Sessions, BeginReopen(r, s)
      PROVE  TypeOK'
  BY <1>4 DEF BeginReopen
<1>5. ASSUME NEW s \in Sessions, Heartbeat(s) \/ CloseWindow(s)
      PROVE  TypeOK'
  BY <1>5 DEF Heartbeat, CloseWindow
<1>6. CASE Expire
  BY <1>6 DEF Expire, ActiveLock
<1>7. CASE UNCHANGED vars
  BY <1>7 DEF vars
<1> QED
  BY <1>1, <1>2, <1>3, <1>4, <1>5, <1>6, <1>7 DEF Next

\* Reviewers are only written when a session is created.
LEMMA ReviewersAreFinal ==
  ASSUME IInv, [Next]_vars
  PROVE  \/ reviewer' = reviewer
         \/ \E r \in Reviewers, s \in Sessions : CreateSession(r, s)
BY DEF Next, vars, BeginStart, AcquireLock, CompleteDocument, ReleaseLock,
       ReopenSession, FailRequest, CloseSession, BeginReopen, Heartbeat,
       CloseWindow, Expire

LEMMA StepRequestInv == IInv /\ [Next]_vars => RequestInv' /\ SessionInv'
<1> SUFFICES ASSUME IInv, [Next]_vars PROVE RequestInv' /\ SessionInv'
  OBVIOUS
<1> USE DEF IInv, TypeOK, Calls, Completed, Idle, GoTo, RequestInv, SessionInv
<1>1. ASSUME NEW r \in Reviewers,
             \/ BeginStart(r) \/ AcquireLock(r) \/ CompleteDocument(r)
             \/ ReleaseLock(r) \/ FailRequest(r)
      PROVE  RequestInv' /\ SessionInv'
  BY <1>1 DEF BeginStart, AcquireLock, CompleteDocument, ReleaseLock,
              FailRequest
<1>2. ASSUME NEW r \in Reviewers, ReopenSession(r)
      PROVE  RequestInv' /\ SessionInv'
  BY <1>2 DEF ReopenSession
<1>3. ASSUME NEW r \in Reviewers, NEW s \in Sessions, CreateSession(r, s)
      PROVE  RequestInv' /\ SessionInv'
  <2>1. \A q \in Reviewers : request[q].at \in {"acquire", "reopen", "reacquire"}
          => request[q].session # s
    BY <1>3 DEF CreateSession
  <2> QED
    BY <1>3, <2>1 DEF CreateSession
<1>4. ASSUME NEW r \in Reviewers, NEW s \in Sessions, NEW result \in Completed,
             CloseSession(r, s, result)
      PROVE  RequestInv' /\ SessionInv'
  BY <1>4 DEF CloseSession
<1>5. ASSUME NEW r \in Reviewers, NEW s \in Sessions, BeginReopen(r, s)
      PROVE  RequestInv' /\ SessionInv'
  BY <1>5 DEF BeginReopen
<1>6. ASSUME NEW s \in Sessions, Heartbeat(s) \/ CloseWindow(s)
      PROVE  RequestInv' /\ SessionInv'
  BY <1>6 DEF Heartbeat, CloseWindow
<1>7. CASE Expire \/ UNCHANGED vars
  BY <1>7 DEF Expire, vars
<1> QED
  BY <1>1, <1>2, <1>3, <1>4, <1>5, <1>6, <1>7 DEF Next

LEMMA StepLock == IInv /\ [Next]_vars => LockNamesItsReviewer'
<1> SUFFICES ASSUME IInv, [Next]_vars, lock' # NoLock
             PROVE  reviewer'[lock'.session] = lock'.reviewer
  BY DEF LockNamesItsReviewer
<1>1. ASSUME NEW r \in Reviewers, AcquireLock(r)
      PROVE  reviewer'[lock'.session] = lock'.reviewer
  BY <1>1 DEF AcquireLock, IInv, RequestInv
<1>2. ASSUME lock # NoLock, lock'.session = lock.session,
             lock'.reviewer = lock.reviewer
      PROVE  reviewer'[lock'.session] = lock'.reviewer
  <2>1. lock.session \in Sessions /\ lock.reviewer \in Reviewers
    BY <1>2 DEF IInv, TypeOK
  <2>2. reviewer[lock.session] = lock.reviewer
    BY <1>2 DEF IInv, LockNamesItsReviewer
  <2>3. status[lock.session] # "none"
    BY <2>1, <2>2 DEF IInv, SessionInv
  <2>4. reviewer'[lock.session] = reviewer[lock.session]
    BY <2>1, <2>3, ReviewersAreFinal DEF CreateSession, IInv, TypeOK
  <2> QED
    BY <1>2, <2>2, <2>4
<1>3. \/ \E r \in Reviewers : AcquireLock(r)
      \/ /\ lock # NoLock
         /\ lock'.session = lock.session
         /\ lock'.reviewer = lock.reviewer
  BY DEF Next, vars, BeginStart, CreateSession, CompleteDocument, ReleaseLock,
         ReopenSession, FailRequest, CloseSession, BeginReopen, Heartbeat,
         CloseWindow, Expire, ActiveLock, IInv, TypeOK
<1> QED
  BY <1>1, <1>2, <1>3

LEMMA IInvAlways == Spec => []IInv
<1>1. IInv /\ [Next]_vars => IInv'
  BY StepTypeOK, StepRequestInv, StepLock DEF IInv
<1> QED
  BY <1>1, InitIInv, PTL DEF Spec

\* The rows of the two tables and the requests in flight are well typed.
THEOREM TypeCorrect == Spec => []TypeOK
<1>1. IInv => TypeOK
  BY DEF IInv
<1> QED
  BY <1>1, IInvAlways, PTL

\* For any number of reviewers, sessions and requests in flight, failing or
\* not, the lock row names the reviewer of the session it names.
THEOREM LockReviewer == Spec => []LockNamesItsReviewer
<1>1. IInv => LockNamesItsReviewer
  BY DEF IInv
<1> QED
  BY <1>1, IInvAlways, PTL

\* For any number of them, no request removes the lock of a session that it
\* does not close.
THEOREM ReleaseIsOwn == Spec => OnlyOwnCloseReleases
<1> DEFINE Own ==
      lock # NoLock /\ lock' = NoLock =>
        \E r \in Reviewers : /\ request[r].at = "release"
                             /\ request[r].session = lock.session
<1>1. IInv /\ [Next]_vars => [Own]_vars
  <2> SUFFICES ASSUME IInv, Next, lock # NoLock, lock' = NoLock
               PROVE  \E r \in Reviewers : /\ request[r].at = "release"
                                           /\ request[r].session = lock.session
    OBVIOUS
  <2>1. \A r \in Reviewers : ~AcquireLock(r)
    <3> SUFFICES ASSUME NEW r \in Reviewers, AcquireLock(r) PROVE FALSE
      OBVIOUS
    <3>1. request[r].session \in Sessions
      BY DEF AcquireLock, IInv, RequestInv
    <3>2. lock' \in [session : Sessions, reviewer : Reviewers, active : BOOLEAN]
      BY <3>1 DEF AcquireLock
    <3> QED
      BY <3>2
  <2>2. ~Expire /\ \A s \in Sessions : ~Heartbeat(s)
    BY DEF Expire, ActiveLock, Heartbeat, IInv, TypeOK
  <2>3. PICK r \in Reviewers : ReleaseLock(r)
    BY <2>1, <2>2 DEF Next, BeginStart, CreateSession, CompleteDocument,
       ReopenSession, FailRequest, CloseSession, BeginReopen, CloseWindow
  <2> QED
    BY <2>3 DEF ReleaseLock
<1>2. Spec => [][Own]_vars
  BY <1>1, IInvAlways, PTL DEF Spec
<1> QED
  BY <1>2 DEF OnlyOwnCloseReleases

(***************************************************************************)
(* Requests that come one at a time.  Single says so of the requests in    *)
(* flight; a request that is about to acquire the lock has then found it   *)
(* free, and nothing but an expiry can have happened to it since.          *)
(***************************************************************************)
Single == \A q, r \in Reviewers :
            request[q].at # "idle" /\ request[r].at # "idle" => q = r

FoundFree == \A r \in Reviewers :
               request[r].at \in {"create", "acquire"} => ~ActiveLock

LEMMA FreeMeansNone ==
  ASSUME load \in Loads, Serial, FreeRequest
  PROVE  \A r \in Reviewers : request[r].at = "idle"
<1>1. InFlight \in SUBSET Reviewers
  BY DEF InFlight
<1>2. IsFiniteSet(InFlight)
  BY <1>1, FS_Subset
<1>3. Cardinality(InFlight) \in Nat
  BY <1>2, FS_CardinalityType
<1>4. Cardinality(InFlight) = 0
  BY <1>3 DEF FreeRequest, Serial
<1>5. InFlight = {}
  BY <1>2, <1>4, FS_EmptySet
<1> QED
  BY <1>5 DEF InFlight

LEMMA InitSerial == Init => Single /\ FoundFree
BY DEF Init, Single, FoundFree, ActiveLock, Idle

LEMMA StepSerial ==
  ASSUME Serial, IInv, Single, FoundFree, [Next]_vars
  PROVE  Single' /\ FoundFree'
<1> USE DEF IInv, TypeOK, Single, FoundFree, ActiveLock, Idle, GoTo, MayBegin
<1>1. ASSUME NEW r \in Reviewers, BeginStart(r)
      PROVE  Single' /\ FoundFree'
  BY <1>1, FreeMeansNone DEF BeginStart
<1>2. ASSUME NEW r \in Reviewers, NEW s \in Sessions, CreateSession(r, s)
      PROVE  Single' /\ FoundFree'
  BY <1>2 DEF CreateSession
<1>3. ASSUME NEW r \in Reviewers, AcquireLock(r)
      PROVE  Single' /\ FoundFree'
  BY <1>3 DEF AcquireLock
<1>4. ASSUME NEW r \in Reviewers, NEW s \in Sessions, NEW result \in Completed,
             CloseSession(r, s, result)
      PROVE  Single' /\ FoundFree'
  BY <1>4, FreeMeansNone DEF CloseSession
<1>5. ASSUME NEW r \in Reviewers, CompleteDocument(r) \/ ReopenSession(r)
      PROVE  Single' /\ FoundFree'
  BY <1>5 DEF CompleteDocument, ReopenSession
<1>6. ASSUME NEW r \in Reviewers, ReleaseLock(r) \/ FailRequest(r)
      PROVE  Single' /\ FoundFree'
  BY <1>6 DEF ReleaseLock, FailRequest
<1>7. ASSUME NEW r \in Reviewers, NEW s \in Sessions, BeginReopen(r, s)
      PROVE  Single' /\ FoundFree'
  BY <1>7, FreeMeansNone DEF BeginReopen
<1>8. ASSUME NEW s \in Sessions, Heartbeat(s)
      PROVE  Single' /\ FoundFree'
  BY <1>8, FreeMeansNone DEF Heartbeat
<1>9. ASSUME NEW s \in Sessions, CloseWindow(s)
      PROVE  Single' /\ FoundFree'
  BY <1>9 DEF CloseWindow
<1>10. CASE Expire
  BY <1>10 DEF Expire
<1>11. CASE UNCHANGED vars
  BY <1>11 DEF vars
<1> QED
  BY <1>1, <1>2, <1>3, <1>4, <1>5, <1>6, <1>7, <1>8, <1>9, <1>10, <1>11
  DEF Next

LEMMA LoadIsFixed == [Next]_vars => load' = load
BY DEF Next, vars, BeginStart, CreateSession, AcquireLock, CompleteDocument,
       ReleaseLock, ReopenSession, FailRequest, CloseSession, BeginReopen,
       Heartbeat, CloseWindow, Expire

LEMMA SerialAlways == Spec => [](Serial => Single /\ FoundFree)
<1> DEFINE SInv == Serial => Single /\ FoundFree
<1>1. Init => SInv
  BY InitSerial
<1>2. IInv /\ SInv /\ [Next]_vars => SInv'
  BY StepSerial, LoadIsFixed DEF Serial
<1> QED
  BY <1>1, <1>2, IInvAlways, PTL DEF Spec

\* If requests come one at a time, whether or not they fail on the way, a start
\* never takes an active lock from another session.
THEOREM StartIsSafeWhenSerial == Spec => SerialStartRespectsLock
<1> DEFINE Respects ==
      Serial /\ Displaced =>
        \E r \in Reviewers : /\ request[r].at = "reacquire"
                             /\ request'[r].at = "idle"
<1>1. ASSUME IInv, Serial => Single /\ FoundFree, Next PROVE Respects
  <2> SUFFICES ASSUME Serial, Displaced
               PROVE  \E r \in Reviewers : /\ request[r].at = "reacquire"
                                           /\ request'[r].at = "idle"
    OBVIOUS
  <2>1. PICK r \in Reviewers : AcquireLock(r)
    BY <1>1 DEF Next, BeginStart, CreateSession, CompleteDocument, ReleaseLock,
       ReopenSession, FailRequest, CloseSession, BeginReopen, Heartbeat,
       CloseWindow, Expire, Displaced, ActiveLock, IInv, TypeOK
  <2>2. request[r].at = "reacquire"
    BY <1>1, <2>1 DEF AcquireLock, FoundFree, Displaced
  <2>3. request'[r].at = "idle"
    BY <1>1, <2>1 DEF AcquireLock, Idle, IInv, TypeOK
  <2> QED
    BY <2>2, <2>3
<1>2. IInv /\ (Serial => Single /\ FoundFree) /\ [Next]_vars => [Respects]_vars
  BY <1>1
<1>3. Spec => [][Respects]_vars
  BY <1>2, SerialAlways, IInvAlways, PTL DEF Spec
<1> QED
  BY <1>3 DEF SerialStartRespectsLock

(***************************************************************************)
(* Requests that come one at a time and run to their end: what a session   *)
(* that is closed while it is locked still has coming.                     *)
(***************************************************************************)
Closing(s) == \E r \in Reviewers : /\ request[r].at \in {"complete", "release"}
                                   /\ request[r].session = s

OpenInv ==
  /\ \A r \in Reviewers : request[r].at \in {"acquire", "reacquire"}
       => status[request[r].session] = "in_progress"
  /\ lock # NoLock =>
       status[lock.session] = "in_progress" \/ Closing(lock.session)

CompleteInv ==
  (\E s \in Sessions : status[s] = "approved") =>
    document = "complete" \/ \E r \in Reviewers : request[r].at = "complete"

LEMMA InitOpen == Init => OpenInv /\ CompleteInv
BY DEF Init, OpenInv, CompleteInv, Idle

LEMMA StepOpen ==
  ASSUME Serial, ~load.fail, IInv, Single, OpenInv, [Next]_vars
  PROVE  OpenInv'
<1> USE DEF IInv, TypeOK, RequestInv, Single, OpenInv, Closing, Idle, GoTo,
            MayBegin
<1>1. ASSUME NEW r \in Reviewers, BeginStart(r) PROVE OpenInv'
  BY <1>1, FreeMeansNone DEF BeginStart
<1>2. ASSUME NEW r \in Reviewers, NEW s \in Sessions, CreateSession(r, s)
      PROVE  OpenInv'
  BY <1>2 DEF CreateSession
<1>3. ASSUME NEW r \in Reviewers, AcquireLock(r) PROVE OpenInv'
  BY <1>3 DEF AcquireLock
<1>4. ASSUME NEW r \in Reviewers, NEW s \in Sessions, NEW result \in Completed,
             CloseSession(r, s, result)
      PROVE  OpenInv'
  BY <1>4, FreeMeansNone DEF CloseSession
<1>5. ASSUME NEW r \in Reviewers, CompleteDocument(r) PROVE OpenInv'
  BY <1>5 DEF CompleteDocument
<1>6. ASSUME NEW r \in Reviewers, ReleaseLock(r) PROVE OpenInv'
  BY <1>6 DEF ReleaseLock
<1>7. ASSUME NEW r \in Reviewers, NEW s \in Sessions, BeginReopen(r, s)
      PROVE  OpenInv'
  BY <1>7, FreeMeansNone DEF BeginReopen
<1>8. ASSUME NEW r \in Reviewers, ReopenSession(r) PROVE OpenInv'
  BY <1>8 DEF ReopenSession
<1>9. ASSUME NEW s \in Sessions, Heartbeat(s) \/ CloseWindow(s)
      PROVE  OpenInv'
  BY <1>9 DEF Heartbeat, CloseWindow
<1>10. CASE Expire \/ UNCHANGED vars
  BY <1>10 DEF Expire, ActiveLock, vars
<1>11. \A r \in Reviewers : ~FailRequest(r)
  BY DEF FailRequest
<1> QED
  BY <1>1, <1>2, <1>3, <1>4, <1>5, <1>6, <1>7, <1>8, <1>9, <1>10, <1>11
  DEF Next

LEMMA StepComplete ==
  ASSUME Serial, ~load.fail, IInv, Single, CompleteInv, [Next]_vars
  PROVE  CompleteInv'
<1> USE DEF IInv, TypeOK, Single, CompleteInv, Idle, GoTo, MayBegin, Completed
<1>1. ASSUME NEW r \in Reviewers, BeginStart(r) PROVE CompleteInv'
  BY <1>1, FreeMeansNone DEF BeginStart
<1>2. ASSUME NEW r \in Reviewers, NEW s \in Sessions, CreateSession(r, s)
      PROVE  CompleteInv'
  BY <1>2 DEF CreateSession
<1>3. ASSUME NEW r \in Reviewers, AcquireLock(r) \/ ReleaseLock(r)
      PROVE  CompleteInv'
  BY <1>3 DEF AcquireLock, ReleaseLock
<1>4. ASSUME NEW r \in Reviewers, NEW s \in Sessions, NEW result \in Completed,
             CloseSession(r, s, result)
      PROVE  CompleteInv'
  BY <1>4, FreeMeansNone DEF CloseSession
<1>5. ASSUME NEW r \in Reviewers, CompleteDocument(r) PROVE CompleteInv'
  BY <1>5 DEF CompleteDocument
<1>6. ASSUME NEW r \in Reviewers, NEW s \in Sessions, BeginReopen(r, s)
      PROVE  CompleteInv'
  BY <1>6, FreeMeansNone DEF BeginReopen
<1>7. ASSUME NEW r \in Reviewers, ReopenSession(r) PROVE CompleteInv'
  BY <1>7 DEF ReopenSession, RequestInv
<1>8. ASSUME NEW s \in Sessions, Heartbeat(s) \/ CloseWindow(s)
      PROVE  CompleteInv'
  BY <1>8 DEF Heartbeat, CloseWindow
<1>9. CASE Expire \/ UNCHANGED vars
  BY <1>9 DEF Expire, vars
<1>10. \A r \in Reviewers : ~FailRequest(r)
  BY DEF FailRequest
<1> QED
  BY <1>1, <1>2, <1>3, <1>4, <1>5, <1>6, <1>7, <1>8, <1>9, <1>10 DEF Next

LEMMA ConsistentAlways ==
  Spec => [](Serial /\ ~load.fail => OpenInv /\ CompleteInv)
<1> DEFINE CInv == Serial /\ ~load.fail => OpenInv /\ CompleteInv
<1>1. Init => CInv
  BY InitOpen
<1>2. IInv /\ (Serial => Single /\ FoundFree) /\ CInv /\ [Next]_vars => CInv'
  BY StepOpen, StepComplete, LoadIsFixed DEF Serial
<1> QED
  BY <1>1, <1>2, SerialAlways, IInvAlways, PTL DEF Spec

\* If requests come one at a time and none fails on the way, then between two
\* requests the locked session is open.
THEOREM SerialLockIsOpen == Spec => []LockedSessionIsOpen
<1>1. (Serial /\ ~load.fail => OpenInv /\ CompleteInv) => LockedSessionIsOpen
  BY DEF OpenInv, Closing, LockedSessionIsOpen, InFlight
<1> QED
  BY <1>1, ConsistentAlways, PTL

\* Under the same load an approved document is complete.
THEOREM SerialApprovalCompletes == Spec => []ApprovedIsComplete
<1>1. (Serial /\ ~load.fail => OpenInv /\ CompleteInv) => ApprovedIsComplete
  BY DEF CompleteInv, ApprovedIsComplete, InFlight
<1> QED
  BY <1>1, ConsistentAlways, PTL
==============================================================================
