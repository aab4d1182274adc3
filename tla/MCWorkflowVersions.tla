-------------------------- MODULE MCWorkflowVersions --------------------------
(* Small instances of the versions of a workflow lineage.                   *)
EXTENDS WorkflowVersions, TLC

\* Requests are alike and so are configs.
Symmetry == Permutations(Requests) \cup Permutations(Configs)

==============================================================================
