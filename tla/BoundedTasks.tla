----------------------------- MODULE BoundedTasks -----------------------------
(***************************************************************************)
(* What a concurrency limit promises: every task runs at most once, and at *)
(* no moment do more than Limit tasks run.  Any number of tasks may finish *)
(* and start in one step, in whatever order.                               *)
(*                                                                         *)
(* Implemented by the item loop of a map node (ConcurrencyLimit).          *)
(***************************************************************************)
EXTENDS Naturals, FiniteSets

CONSTANTS Tasks, Limit

VARIABLE stage

Waiting == {t \in Tasks : stage[t] = "waiting"}
Running == {t \in Tasks : stage[t] = "running"}

Init == stage = [t \in Tasks |-> "waiting"]

Step(finished, started) ==
  /\ Cardinality((Running \ finished) \cup started) <= Limit
  /\ stage' = [t \in Tasks |-> IF t \in finished THEN "done"
                               ELSE IF t \in started THEN "running"
                               ELSE stage[t]]

Next ==
  \E finished \in SUBSET Running, started \in SUBSET Waiting :
    Step(finished, started)

Spec == Init /\ [][Next]_stage
==============================================================================
