------------------------------ MODULE MCTraining ------------------------------
(* Small instances of the training jobs of one template model.              *)
EXTENDS Training

Setup(starts, polls, users, cancel, restart) ==
  [starts |-> starts, polls |-> polls, users |-> users,
   cancel |-> cancel, restart |-> restart]

\* Rounds that overlap, users that race with them, two starts at once and
\* restarts: each together with what a property distinguishes it from.
AllSetups ==
  { Setup(1, 2, 1, TRUE, FALSE),
    Setup(2, 1, 1, FALSE, TRUE),
    Setup(1, 1, 2, FALSE, FALSE),
    Setup(2, 1, 0, FALSE, TRUE) }

==============================================================================
