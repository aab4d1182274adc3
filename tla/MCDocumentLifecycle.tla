------------------------- MODULE MCDocumentLifecycle -------------------------
(***************************************************************************)
(* DocumentLifecycle for TLC.  The graphs are the ones the repository's    *)
(* templates use, with and without their human gate, a graph that stores   *)
(* before the gate, and one with two nodes in a batch.                     *)
(***************************************************************************)
EXTENDS DocumentLifecycle

Template == [report |-> {}, review |-> {"report"},
             store |-> {"report", "review"}]
Unreviewed == [report |-> {}, store |-> {"report"}]
StoreFirst == [report |-> {}, store |-> {"report"},
               review |-> {"report", "store"}]
Parallel == [report |-> {}, store |-> {"report"}, work |-> {"report"}]

Calm == [graph |-> Template, rerun |-> FALSE, faults |-> FALSE,
         ephemeral |-> {}]

\* Every graph without and with a purge; re-runs of a document whose result
\* is stored before the gate and of one with two nodes in a batch; re-runs,
\* faults and a purge of both targets, with the smallest graph.
AllSetups ==
  [graph : {Template, StoreFirst, Parallel}, rerun : {FALSE},
   faults : {FALSE}, ephemeral : {{}, Targets}]
  \cup [graph : {StoreFirst, Parallel}, rerun : {TRUE},
        faults : {FALSE}, ephemeral : {{}}]
  \cup [graph : {Unreviewed}, rerun : {TRUE},
        faults : {TRUE}, ephemeral : {Targets}]
=============================================================================
