------------------------------ MODULE ReviewLock ------------------------------
(***************************************************************************)
(* The review sessions of one document and the lock that is to keep its    *)
(* reviewers apart (apps/backend-services/src/hitl/).                      *)
(*                                                                         *)
(* Every request is a sequence of database calls without a transaction; a  *)
(* step of the model is one call that writes, with the reads it depends    *)
(* on, and requests interleave between their calls.  The database does not *)
(* know who calls: any member of the group may close any session.  A start *)
(* that finds an active lock, and a request that is refused, change        *)
(* nothing and are not steps.  /sessions/next is a start that looks into   *)
(* the queue first.                                                        *)
(*                                                                         *)
(* The lock has expired when `active' is FALSE: the row stays, the time in *)
(* its expires_at has passed.  The document is one that came through the   *)
(* upload pipeline; labelling datasets is left out.                        *)
(***************************************************************************)
EXTENDS Naturals, FiniteSets

CONSTANTS
  Reviewers,
  Sessions,      \* the ids that createReviewSession may hand out
  NoSession,
  NoReviewer,
  NoLock,
  Loads          \* the loads under which the document is reviewed

ASSUME NoSessionAssumption == NoSession \notin Sessions
ASSUME NoReviewerAssumption == NoReviewer \notin Reviewers
ASSUME NoLockAssumption ==
  NoLock \notin [session : Sessions, reviewer : Reviewers, active : BOOLEAN]
ASSUME LoadsAssumption == Loads \subseteq [requests : Nat, fail : BOOLEAN]
ASSUME ReviewersAssumption == IsFiniteSet(Reviewers)

VARIABLES
  load,         \* how many requests may be in flight, and whether they may
                \* end between two of their calls; fixed for an execution
  lock,         \* the document's row in document_locks
  reviewer,     \* ReviewSession.actor_id, NoReviewer before it is created
  status,       \* ReviewSession.status, "none" before it is created
  reopenable,   \* completed_at is set and at most five minutes ago
  document,     \* Document.status
  request       \* reviewer -> the call its request makes next

vars == <<load, lock, reviewer, status, reopenable, document, request>>

Completed == {"approved", "escalated", "skipped"}

Idle == [at |-> "idle", session |-> NoSession]

Calls == {"create", "acquire", "complete", "release", "reopen", "reacquire"}

TypeOK ==
  /\ load \in Loads
  /\ lock \in [session : Sessions, reviewer : Reviewers, active : BOOLEAN]
               \cup {NoLock}
  /\ reviewer \in [Sessions -> Reviewers \cup {NoReviewer}]
  /\ status \in [Sessions -> Completed \cup {"none", "in_progress"}]
  /\ reopenable \in [Sessions -> BOOLEAN]
  /\ document \in {"awaiting_review", "complete"}
  /\ request \in [Reviewers -> [at : Calls \cup {"idle"},
                                session : Sessions \cup {NoSession}]]

Init ==
  /\ load \in Loads
  /\ lock = NoLock
  /\ reviewer = [s \in Sessions |-> NoReviewer]
  /\ status = [s \in Sessions |-> "none"]
  /\ reopenable = [s \in Sessions |-> FALSE]
  /\ document = "awaiting_review"
  /\ request = [r \in Reviewers |-> Idle]

------------------------------------------------------------------------------
InFlight == {r \in Reviewers : request[r].at # "idle"}

FreeRequest == Cardinality(InFlight) < load.requests

MayBegin(r) == request[r] = Idle /\ FreeRequest

ActiveLock == lock # NoLock /\ lock.active

GoTo(r, call, s) ==
  request' = [request EXCEPT ![r] = [at |-> call, session |-> s]]

\* Mutant of BeginStart: only the lock of the reviewer itself is looked for.
BeginStartUnlessMine(r) ==
  /\ MayBegin(r)
  /\ ~(ActiveLock /\ lock.reviewer = r)
  /\ GoTo(r, "create", NoSession)
  /\ UNCHANGED <<load, lock, reviewer, status, reopenable, document>>

\* startSession up to its first write: no active lock was found.
BeginStart(r) ==
  /\ MayBegin(r)
  /\ ~ActiveLock
  /\ GoTo(r, "create", NoSession)
  /\ UNCHANGED <<load, lock, reviewer, status, reopenable, document>>

CreateSession(r, s) ==
  /\ request[r].at = "create"
  /\ status[s] = "none"
  /\ status' = [status EXCEPT ![s] = "in_progress"]
  /\ reviewer' = [reviewer EXCEPT ![s] = r]
  /\ GoTo(r, "acquire", s)
  /\ UNCHANGED <<load, lock, reopenable, document>>

\* The upsert of acquireDocumentLock, for a new or for a reopened session.
AcquireLock(r) ==
  /\ request[r].at \in {"acquire", "reacquire"}
  /\ lock' = [session |-> request[r].session, reviewer |-> r, active |-> TRUE]
  /\ request' = [request EXCEPT ![r] = Idle]
  /\ UNCHANGED <<load, reviewer, status, reopenable, document>>

------------------------------------------------------------------------------

\* The first write of approveSession, escalateSession or skipSession.
CloseSession(r, s, result) ==
  /\ MayBegin(r)
  /\ status[s] # "none"
  /\ status' = [status EXCEPT ![s] = result]
  /\ reopenable' = [reopenable EXCEPT ![s] = TRUE]
  /\ GoTo(r, IF result = "approved" THEN "complete" ELSE "release", s)
  /\ UNCHANGED <<load, lock, reviewer, document>>

CompleteDocument(r) ==
  /\ request[r].at = "complete"
  /\ document' = "complete"
  /\ GoTo(r, "release", request[r].session)
  /\ UNCHANGED <<load, lock, reviewer, status, reopenable>>

\* Mutant of ReleaseLock: the lock is deleted by document, not by session.
ReleaseByDocument(r) ==
  /\ request[r].at = "release"
  /\ lock' = NoLock
  /\ request' = [request EXCEPT ![r] = Idle]
  /\ UNCHANGED <<load, reviewer, status, reopenable, document>>

ReleaseLock(r) ==
  /\ request[r].at = "release"
  /\ lock' = IF lock # NoLock /\ lock.session = request[r].session
             THEN NoLock ELSE lock
  /\ request' = [request EXCEPT ![r] = Idle]
  /\ UNCHANGED <<load, reviewer, status, reopenable, document>>

\* Mutant of BeginReopen: any reviewer may reopen, as any may close.
BeginReopenByAnyone(r, s) ==
  /\ MayBegin(r)
  /\ status[s] \in Completed
  /\ reopenable[s]
  /\ GoTo(r, "reopen", s)
  /\ UNCHANGED <<load, lock, reviewer, status, reopenable, document>>

\* reopenSession up to its first write.
BeginReopen(r, s) ==
  /\ MayBegin(r)
  /\ reviewer[s] = r
  /\ status[s] \in Completed
  /\ reopenable[s]
  /\ GoTo(r, "reopen", s)
  /\ UNCHANGED <<load, lock, reviewer, status, reopenable, document>>

ReopenSession(r) ==
  LET s == request[r].session IN
  /\ request[r].at = "reopen"
  /\ status' = [status EXCEPT ![s] = "in_progress"]
  /\ reopenable' = [reopenable EXCEPT ![s] = FALSE]
  /\ GoTo(r, "reacquire", s)
  /\ UNCHANGED <<load, lock, reviewer, document>>

------------------------------------------------------------------------------
\* A single updateMany: it refreshes the row whether or not it has expired.
Heartbeat(s) ==
  /\ FreeRequest
  /\ lock # NoLock
  /\ lock.session = s
  /\ ~lock.active
  /\ lock' = [lock EXCEPT !.active = TRUE]
  /\ UNCHANGED <<load, reviewer, status, reopenable, document, request>>

\* Ten minutes have passed since the lock was acquired or refreshed.
Expire ==
  /\ ActiveLock
  /\ lock' = [lock EXCEPT !.active = FALSE]
  /\ UNCHANGED <<load, reviewer, status, reopenable, document, request>>

\* Five minutes have passed since the session was completed.
CloseWindow(s) ==
  /\ reopenable[s]
  /\ reopenable' = [reopenable EXCEPT ![s] = FALSE]
  /\ UNCHANGED <<load, lock, reviewer, status, document, request>>

\* A call fails or the process dies: what was written stays.
FailRequest(r) ==
  /\ load.fail
  /\ request[r] # Idle
  /\ request' = [request EXCEPT ![r] = Idle]
  /\ UNCHANGED <<load, lock, reviewer, status, reopenable, document>>

Next ==
  \/ \E r \in Reviewers :
       \/ BeginStart(r)
       \/ \E s \in Sessions : CreateSession(r, s)
       \/ AcquireLock(r)
       \/ \E s \in Sessions, result \in Completed : CloseSession(r, s, result)
       \/ CompleteDocument(r)
       \/ ReleaseLock(r)
       \/ \E s \in Sessions : BeginReopen(r, s)
       \/ ReopenSession(r)
       \/ FailRequest(r)
  \/ \E s \in Sessions : Heartbeat(s) \/ CloseWindow(s)
  \/ Expire

Spec == Init /\ [][Next]_vars

------------------------------------------------------------------------------
(***************************************************************************)
(* Correctness.                                                            *)
(***************************************************************************)
\* The lock row and the session row agree on the reviewer: startSession hands
\* a reviewer the session of "its" lock, so a row that names another session's
\* reviewer would let two people edit one session.
LockNamesItsReviewer == lock # NoLock => reviewer[lock.session] = lock.reviewer

\* A lock row goes away only through a request that closes its own session: the
\* late approval of a reviewer whose lock has expired and been taken over
\* leaves the lock of the successor alone.
OnlyOwnCloseReleases ==
  [][lock # NoLock /\ lock' = NoLock =>
       \E r \in Reviewers : /\ request[r].at = "release"
                            /\ request[r].session = lock.session]_vars

\* The active lock passes from one session to another.
Displaced ==
  /\ ActiveLock
  /\ lock' # NoLock
  /\ lock'.session # lock.session

Serial == load.requests = 1

\* When requests come one at a time, whatever fails on the way, a start never
\* takes an active lock from another session: only a reopening does.
SerialStartRespectsLock ==
  [][Serial /\ Displaced =>
       \E r \in Reviewers : /\ request[r].at = "reacquire"
                            /\ request'[r].at = "idle"]_vars

\* When requests come one at a time and run to their end, the locked session is
\* one in progress between them, even under an expired lock: whoever comes
\* back to "its" session finds it open, and no review that is over locks the
\* document.
LockedSessionIsOpen ==
  Serial /\ ~load.fail /\ InFlight = {} /\ lock # NoLock
    => status[lock.session] = "in_progress"

\* Under the same load the approval of any session, whatever the order of
\* closings and reopenings, has completed the document.
ApprovedIsComplete ==
  Serial /\ ~load.fail /\ InFlight = {}
    /\ (\E s \in Sessions : status[s] = "approved")
    => document = "complete"
==============================================================================
