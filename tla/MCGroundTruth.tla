----------------------------- MODULE MCGroundTruth -----------------------------
(* Small instances of the generation of ground truth.                       *)
EXTENDS GroundTruth, TLC

CONSTANTS s1, s2

Setup(present, requests, starts, writers, syncs, edits, reopen, direct,
      unrecorded, faults) ==
  [samples |-> present, requests |-> requests, starts |-> starts,
   writers |-> writers, syncs |-> syncs, edits |-> edits, reopen |-> reopen,
   direct |-> direct, unrecorded |-> unrecorded, faults |-> faults]

\* One request after the other for a sample, with faults; two samples and all
\* that changes the manifest; and looks that overlap, with all that takes a
\* completed job back.
AllSetups ==
  { Setup({s1}, 2, 1, 1, 1, FALSE, FALSE, FALSE, FALSE, TRUE),
    Setup({s1, s2}, 1, 1, 1, 1, TRUE, TRUE, TRUE, FALSE, FALSE),
    Setup({s1}, 2, 1, 1, 2, FALSE, TRUE, TRUE, TRUE, TRUE) }

\* One request for one sample, and nothing that goes wrong.
CalmSetup == { Setup({s1}, 1, 1, 1, 1, FALSE, FALSE, FALSE, FALSE, FALSE) }

\* Requests are alike, and looks are.
Symmetry == Permutations(Starts) \cup Permutations(Syncs)

==============================================================================
