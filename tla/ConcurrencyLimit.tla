--------------------------- MODULE ConcurrencyLimit ---------------------------
(***************************************************************************)
(* executeWithConcurrencyLimit (graph-engine/runner-utils.ts), the loop in *)
(* which a map node runs its branches.                                     *)
(*                                                                         *)
(* The loop starts items until maxConcurrency of them are executing, then  *)
(* awaits Promise.race; past the last item it awaits Promise.all.  An item *)
(* leaves the array `executing' in its own finally handler, and the loop   *)
(* resumes some microtasks after the awaited promise has settled: other    *)
(* items may leave in between, when their results are delivered by the     *)
(* same workflow activation.  SettleItem is one item leaving, Resume the   *)
(* loop from one await to the next.                                        *)
(***************************************************************************)
EXTENDS Integers, FiniteSets

CONSTANTS
  N,               \* items.length
  MaxConcurrency   \* maxConcurrency; more than N stands for Infinity

ASSUME NAssumption == N \in Nat
ASSUME MaxConcurrencyAssumption == MaxConcurrency \in Nat \ {0}

Items == 1..N

VARIABLES
  status,    \* item -> "idle", "executing", "fulfilled" or "rejected"
  next,      \* the index of the for loop
  awaiting,  \* which await, or which end, the function has reached
  awaited,   \* the items whose promises were passed to that race or all
  outcome    \* the awaited promise: "pending", "fulfilled" or "rejected"

loopVars == <<status, next, awaiting, awaited, outcome>>

Executing == {i \in Items : status[i] = "executing"}

LoopTypeOK ==
  /\ status \in [Items -> {"idle", "executing", "fulfilled", "rejected"}]
  /\ next \in 1..(N + 1)
  /\ awaiting \in {"start", "race", "all", "returned", "threw"}
  /\ awaited \subseteq Items
  /\ outcome \in {"pending", "fulfilled", "rejected"}

LoopInit ==
  /\ status = [i \in Items |-> "idle"]
  /\ next = 1
  /\ awaiting = "start"
  /\ awaited = {}
  /\ outcome = "fulfilled"

------------------------------------------------------------------------------
Least(a, b) == IF a <= b THEN a ELSE b

Room == MaxConcurrency - Cardinality(Executing)

\* Mutant of Last: the loop waits once the limit has been exceeded.
LastOffByOne == Least(N, next + Room)

\* The last item the loop starts before it awaits again.
Last == Least(N, next + Room - 1)

\* Mutant of Advance: Promise.race, which never settles when it is given
\* nothing, also ends the loop.
AdvanceRacing ==
  /\ status' = [i \in Items |-> IF i \in next..Last THEN "executing"
                                ELSE status[i]]
  /\ next' = Last + 1
  /\ awaiting' = IF next <= N THEN "race" ELSE "all"
  /\ awaited' = Executing \cup (next..Last)
  /\ outcome' = "pending"

\* Start items up to the limit; await the race, or, past the last item, all.
Advance ==
  LET now == Executing \cup (next..Last) IN
  /\ status' = [i \in Items |-> IF i \in next..Last THEN "executing"
                                ELSE status[i]]
  /\ next' = Last + 1
  /\ awaiting' = IF next <= N /\ Last = next + Room - 1 THEN "race" ELSE "all"
  /\ awaited' = now
  /\ outcome' = IF now = {} THEN "fulfilled" ELSE "pending"

Leave(end) ==
  /\ awaiting' = end
  /\ UNCHANGED <<status, next, awaited, outcome>>

\* Mutant of Resume: the final Promise.all is missing.
ResumeWithoutAll ==
  \/ outcome = "rejected" /\ Leave("threw")
  \/ outcome = "fulfilled" /\ next <= N /\ Advance
  \/ outcome = "fulfilled" /\ next > N /\ Leave("returned")

Resume ==
  /\ awaiting \in {"start", "race", "all"}
  /\ \/ outcome = "rejected" /\ Leave("threw")
     \/ outcome = "fulfilled" /\ awaiting = "all" /\ Leave("returned")
     \/ outcome = "fulfilled" /\ awaiting # "all" /\ Advance

\* Mutant of Outcome: the race settles for whichever item is over first.
OutcomeSettledOnly(i, result) ==
  IF outcome # "pending" \/ i \notin awaited THEN outcome
  ELSE IF awaiting = "race" \/ Executing = {i} THEN "fulfilled"
  ELSE "pending"

\* What the awaited promise becomes when item i settles.
Outcome(i, result) ==
  IF outcome # "pending" \/ i \notin awaited THEN outcome
  ELSE IF result = "rejected" THEN "rejected"
  ELSE IF awaiting = "race" \/ Executing = {i} THEN "fulfilled"
  ELSE "pending"

SettleItem(i, result) ==
  /\ status[i] = "executing"
  /\ status' = [status EXCEPT ![i] = result]
  /\ outcome' = Outcome(i, result)
  /\ UNCHANGED <<next, awaiting, awaited>>

LoopNext ==
  \/ Resume
  \/ \E i \in Items, result \in {"fulfilled", "rejected"} :
       SettleItem(i, result)

LoopFairness ==
  /\ WF_loopVars(Resume)
  /\ \A i \in Items :
       WF_loopVars(\E result \in {"fulfilled", "rejected"} :
                     SettleItem(i, result))

LoopSpec == LoopInit /\ [][LoopNext]_loopVars /\ LoopFairness
LoopSafeSpec == LoopInit /\ [][LoopNext]_loopVars

------------------------------------------------------------------------------
(***************************************************************************)
(* Correctness.                                                            *)
(***************************************************************************)
Bounded == INSTANCE BoundedTasks WITH
  Tasks <- Items,
  Limit <- MaxConcurrency,
  stage <- [i \in Items |-> CASE status[i] = "idle" -> "waiting"
                              [] status[i] = "executing" -> "running"
                              [] OTHER -> "done"]

\* The loop is a concurrency limit: no item runs twice, and the branches of a
\* map node that run at once never exceed its maxConcurrency.
ImplementsLimit == Bounded!Spec

\* The function returns the results only when every item has settled, although
\* Promise.all is given only the items still in the array when the loop ends.
ReturnsWhenAllSettled ==
  awaiting = "returned" =>
    \A i \in Items : status[i] \in {"fulfilled", "rejected"}

\* A branch that fails while the loop awaits fails the map: every executing
\* item is among those awaited, and the race and the all reject with it.
FailureWhileAwaitingIsSeen ==
  [][outcome = "pending" =>
       \A i \in Items : status[i] # "rejected" /\ status'[i] = "rejected"
                          => outcome' = "rejected"]_loopVars

\* The loop comes to an end, with results or with an error, for every order in
\* which the branches settle.
LoopEnds == <>(awaiting \in {"returned", "threw"})

\* docs-md/graph-workflows/DAG_WORKFLOW_ENGINE.md:1413, "The node failure
\* propagates to the workflow": a map returns only if none of its branches has
\* failed.  Refuted: a branch that fails in the microtasks between another
\* one's success and the loop's next await leaves the array unobserved.
NoFailureIsLost ==
  awaiting = "returned" => \A i \in Items : status[i] # "rejected"
==============================================================================
