----------------------------- MODULE UploadLimiter -----------------------------
(***************************************************************************)
(* The semaphore that bounds the PDF normalizations of one backend process *)
(* (apps/backend-services/src/upload/upload-normalization-limiter.ts).     *)
(*                                                                         *)
(* An upload reserves a slot or queues; its task starts some microtasks    *)
(* after the slot is its own, and release hands the slot of a finished     *)
(* task to the first in the queue before anything else runs.  An element   *)
(* of Uploads is a place for one request at a time: once its request is    *)
(* over the next one may arrive, so arrivals never end.                    *)
(***************************************************************************)
EXTENDS Naturals, Sequences, FiniteSets

CONSTANTS
  Uploads,   \* the requests in flight at most
  Limit      \* getUploadNormalizationConcurrency()

ASSUME LimitAssumption == Limit \in Nat \ {0}
ASSUME UploadsAssumption == IsFiniteSet(Uploads)

VARIABLES
  stage,     \* upload -> "idle", "queued", "granted" or "normalizing"
  active,    \* Semaphore.active
  waiting    \* Semaphore.waiting

limiterVars == <<stage, active, waiting>>

Holding == {u \in Uploads : stage[u] \in {"granted", "normalizing"}}

LimiterTypeOK ==
  /\ stage \in [Uploads -> {"idle", "queued", "granted", "normalizing"}]
  /\ active \in Nat
  /\ waiting \in Seq(Uploads)

LimiterInit ==
  /\ stage = [u \in Uploads |-> "idle"]
  /\ active = 0
  /\ waiting = <<>>

------------------------------------------------------------------------------
\* Mutant of Acquire: an off-by-one in the comparison with the limit.
AcquireOneMore(u) ==
  /\ stage[u] = "idle"
  /\ \/ /\ active <= Limit
        /\ active' = active + 1
        /\ stage' = [stage EXCEPT ![u] = "granted"]
        /\ UNCHANGED waiting
     \/ /\ active > Limit
        /\ waiting' = Append(waiting, u)
        /\ stage' = [stage EXCEPT ![u] = "queued"]
        /\ UNCHANGED active

\* Mutant of Acquire: the newest request goes to the front of the queue.
AcquireInFront(u) ==
  /\ stage[u] = "idle"
  /\ \/ /\ active < Limit
        /\ active' = active + 1
        /\ stage' = [stage EXCEPT ![u] = "granted"]
        /\ UNCHANGED waiting
     \/ /\ active >= Limit
        /\ waiting' = <<u>> \o waiting
        /\ stage' = [stage EXCEPT ![u] = "queued"]
        /\ UNCHANGED active

Acquire(u) ==
  /\ stage[u] = "idle"
  /\ \/ /\ active < Limit
        /\ active' = active + 1
        /\ stage' = [stage EXCEPT ![u] = "granted"]
        /\ UNCHANGED waiting
     \/ /\ active >= Limit
        /\ waiting' = Append(waiting, u)
        /\ stage' = [stage EXCEPT ![u] = "queued"]
        /\ UNCHANGED active

\* The await of acquire() resumes and run() calls the task.
Begin(u) ==
  /\ stage[u] = "granted"
  /\ stage' = [stage EXCEPT ![u] = "normalizing"]
  /\ UNCHANGED <<active, waiting>>

\* Mutant of Release: only the slot is freed; the next request to arrive is
\* expected to wake the queue.
ReleaseWithoutWaking(u) ==
  /\ stage[u] = "normalizing"
  /\ active' = active - 1
  /\ stage' = [stage EXCEPT ![u] = "idle"]
  /\ UNCHANGED waiting

\* The task has ended or thrown: its slot goes to the head of the queue.
Release(u) ==
  /\ stage[u] = "normalizing"
  /\ \/ /\ waiting = <<>>
        /\ active' = active - 1
        /\ stage' = [stage EXCEPT ![u] = "idle"]
        /\ UNCHANGED waiting
     \/ /\ waiting # <<>>
        /\ active' = (active - 1) + 1
        /\ stage' = [stage EXCEPT ![u] = "idle", ![Head(waiting)] = "granted"]
        /\ waiting' = Tail(waiting)

LimiterNext == \E u \in Uploads : Acquire(u) \/ Begin(u) \/ Release(u)

LimiterFairness ==
  \A u \in Uploads : WF_limiterVars(Begin(u)) /\ WF_limiterVars(Release(u))

LimiterSafeSpec == LimiterInit /\ [][LimiterNext]_limiterVars
LimiterSpec == LimiterSafeSpec /\ LimiterFairness

------------------------------------------------------------------------------
(***************************************************************************)
(* Correctness.                                                            *)
(***************************************************************************)
\* Never do more requests hold a slot than the limit allows, counting those
\* whose task has been granted its slot but has not started.
SlotsAreBounded == Cardinality(Holding) <= Limit

\* No wake-up is lost: while a request waits every slot is taken, whoever
\* released or arrived last.
QueueOnlyWhenFull ==
  (\E u \in Uploads : stage[u] = "queued") => Cardinality(Holding) = Limit

\* u waits ahead of v.
Before(u, v) ==
  \E k, l \in 1..Len(waiting) : k < l /\ waiting[k] = u /\ waiting[l] = v

\* Nobody is overtaken: as long as a request waits, whoever arrives gets behind
\* it, and whoever is behind it stays there.  This is what the absence of
\* starvation rests on, however many arrive.
NotOvertaken(u, v) ==
  stage[u] = "queued" /\ stage'[u] = "queued" =>
    /\ stage[v] = "idle" /\ stage'[v] # "idle" => Before(u, v)'
    /\ Before(u, v) => Before(u, v)'

ServedInOrder == [][\A u, v \in Uploads : NotOvertaken(u, v)]_limiterVars

\* No starvation: a queued request is normalized although new ones never stop
\* arriving.
QueuedIsServed ==
  \A u \in Uploads : stage[u] = "queued" ~> stage[u] = "normalizing"
==============================================================================
