---------------------------- MODULE MCReviewLock ----------------------------
(***************************************************************************)
(* ReviewLock for TLC: reviewers and session ids are interchangeable.      *)
(***************************************************************************)
EXTENDS ReviewLock, TLC

Symmetry == Permutations(Reviewers) \cup Permutations(Sessions)

OneByOne == [requests |-> 1, fail |-> FALSE]

\* One by one, with and without failures; and, with two reviewers, no bound.
AllLoads == {OneByOne, [OneByOne EXCEPT !.fail = TRUE],
             [requests |-> 3, fail |-> TRUE]}
=============================================================================
