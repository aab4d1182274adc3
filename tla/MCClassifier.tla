------------------------------ MODULE MCClassifier -----------------------------
(* Small instances of a classifier's name.                                  *)
EXTENDS Classifier

Setup(names, polls, faults, stop) ==
  [rows |-> names, polls |-> polls, faults |-> faults, stop |-> stop]

\* A name that is used twice; polls that overlap; and a backend that stops.
AllSetups ==
  { Setup(2, 1, TRUE, FALSE), Setup(1, 2, FALSE, FALSE), Setup(1, 1, TRUE, TRUE) }

==============================================================================
