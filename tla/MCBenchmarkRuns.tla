---------------------------- MODULE MCBenchmarkRuns ----------------------------
(* Small instances of the benchmark runs over one dataset version.          *)
EXTENDS BenchmarkRuns, TLC

Setup(prompt, faults, crash, race) ==
  [prompt |-> prompt, faults |-> faults, crash |-> crash, race |-> race]

\* All is well; the backend stops; and everything at once.
AllSetups ==
  { Setup(TRUE, FALSE, FALSE, TRUE),
    Setup(TRUE, FALSE, TRUE, FALSE),
    Setup(FALSE, TRUE, TRUE, FALSE) }

\* Runs are alike and so are definitions.
Symmetry == Permutations(Runs) \cup Permutations(Definitions)

==============================================================================
