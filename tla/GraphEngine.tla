----------------------------- MODULE GraphEngine -----------------------------
(***************************************************************************)
(* One execution of graphWorkflow: the main loop of the graph runner, the  *)
(* settling of the nodes of a batch, the error policies and the cancel     *)
(* signal (apps/temporal/src/graph-workflow.ts and graph-engine/).         *)
(*                                                                         *)
(* The runner computes the ready set, starts every ready node and waits on *)
(* Promise.all.  A step of the model is what happens between two awaits:   *)
(* a node settles, a signal arrives, or the loop resumes once the last     *)
(* node of its batch has settled.  Two awaits are merged: a switch settles *)
(* in the model some time after its batch starts, in the code before       *)
(* anything else can happen.                                               *)
(*                                                                         *)
(* The data a node reads and writes (ctx) is left out; an activity, a poll *)
(* and a child workflow succeed or fail as they please.                    *)
(***************************************************************************)
EXTENDS ReadySet

CONSTANT Graphs   \* the workflow configurations the execution may load

ASSUME GraphsValid == \A g \in Graphs : ValidGraph(g)

VARIABLES
  config,            \* loadedGraph
  phase,             \* where runGraphExecution stands
  completedNodeIds,
  nodeStatuses,
  selectedEdges,     \* node id -> selected edge id or NoEdge
  mapBranchResults,  \* the map nodes whose branch results are stored
  cancelMode,        \* "none" until a cancel signal arrives
  overallStatus      \* overallStatus of the workflow

vars == <<config, phase, completedNodeIds, nodeStatuses, selectedEdges,
          mapBranchResults, cancelMode, overallStatus>>

Statuses == {"pending", "running", "completed", "skipped", "failed"}

(***************************************************************************)
(* "start": the graph is loaded, the loop not entered.  "batch": awaiting  *)
(* Promise.all.  "failing": Promise.all has rejected and the failure hook  *)
(* runs, while the other nodes of the batch are still executing.           *)
(***************************************************************************)
Phases == {"start", "batch", "failing", "closed"}

TypeOK ==
  /\ phase \in Phases
  /\ completedNodeIds \subseteq config.nodes
  /\ nodeStatuses \in [config.nodes -> Statuses]
  /\ selectedEdges \in [config.nodes -> EdgeIds(config) \cup {NoEdge}]
  /\ mapBranchResults \subseteq config.nodes
  /\ cancelMode \in {"none", "graceful", "immediate"}
  /\ overallStatus \in {"running", "completed", "failed", "cancelled"}

Init ==
  /\ config \in Graphs
  /\ phase = "start"
  /\ completedNodeIds = {}
  /\ nodeStatuses = [n \in config.nodes |-> "pending"]
  /\ selectedEdges = [n \in config.nodes |-> NoEdge]
  /\ mapBranchResults = {}
  /\ cancelMode = "none"
  /\ overallStatus = "running"

Running == {n \in config.nodes : nodeStatuses[n] = "running"}

ReadyNodes ==
  ComputeReadySet(config, config.nodes, config.entry, completedNodeIds,
                  selectedEdges)

------------------------------------------------------------------------------
(***************************************************************************)
(* The main loop.                                                          *)
(***************************************************************************)
Return(status) ==
  /\ overallStatus' = status
  /\ phase' = "closed"
  /\ UNCHANGED <<config, completedNodeIds, nodeStatuses, selectedEdges,
                 mapBranchResults, cancelMode>>

StartBatch(batch) ==
  /\ phase' = "batch"
  /\ nodeStatuses' = [n \in config.nodes |->
                        IF n \in batch THEN "running" ELSE nodeStatuses[n]]
  /\ UNCHANGED <<config, completedNodeIds, selectedEdges, mapBranchResults,
                 cancelMode, overallStatus>>

\* Mutant of Iterate: the loop ends once every node of the graph has completed.
IterateUntilAllCompleted ==
  \/ cancelMode = "immediate" /\ Return("cancelled")
  \/ /\ cancelMode # "immediate"
     /\ \/ completedNodeIds = config.nodes /\ Return("completed")
        \/ ReadyNodes # {} /\ StartBatch(ReadyNodes)

\* From the top of the while loop to the next await, or to a return.
Iterate ==
  \/ cancelMode = "immediate" /\ Return("cancelled")
  \/ /\ cancelMode # "immediate"
     /\ \/ ReadyNodes = {} /\ Return("completed")
        \/ ReadyNodes # {} /\ StartBatch(ReadyNodes)

Start == phase = "start" /\ Iterate

\* Mutant of EndBatch: an immediate cancellation does not wait for the batch.
EndBatchAtOnce ==
  /\ phase = "batch"
  /\ \/ cancelMode = "immediate" /\ Return("cancelled")
     \/ Running = {} /\ cancelMode = "graceful" /\ Return("cancelled")
     \/ Running = {} /\ cancelMode = "none" /\ Iterate

\* Mutant of EndBatch: the check for a graceful cancellation is missing.
EndBatchUngraceful == phase = "batch" /\ Running = {} /\ Iterate

\* Promise.all has resolved: the graceful check, then the loop again.
EndBatch ==
  /\ phase = "batch"
  /\ Running = {}
  /\ \/ cancelMode = "graceful" /\ Return("cancelled")
     \/ cancelMode # "graceful" /\ Iterate

\* The failure hook is over and the workflow's error is rethrown.
Rethrow ==
  /\ phase = "failing"
  /\ phase' = "closed"
  /\ UNCHANGED <<config, completedNodeIds, nodeStatuses, selectedEdges,
                 mapBranchResults, cancelMode, overallStatus>>

------------------------------------------------------------------------------
(***************************************************************************)
(* The nodes of a batch.                                                   *)
(***************************************************************************)
CanSettle(n) == phase \in {"batch", "failing"} /\ nodeStatuses[n] = "running"

Settle(n, status) ==
  /\ nodeStatuses' = [nodeStatuses EXCEPT ![n] = status]
  /\ UNCHANGED <<config, cancelMode>>

\* A join finds no results when its map has stored none.
ResultsMissing(n) ==
  config.type[n] = "join" /\ config.sourceMap[n] \notin mapBranchResults

\* A switch always selects an edge; a humanGate may when it times out.
Selects(n, edge) ==
  \/ edge \in config.routes[n]
  \/ edge = NoEdge /\ config.type[n] # "switch"

NodeSucceeds(n) ==
  /\ CanSettle(n)
  /\ ~ResultsMissing(n)
  /\ \E edge \in config.routes[n] \cup {NoEdge} :
       /\ Selects(n, edge)
       /\ selectedEdges' = [selectedEdges EXCEPT ![n] = edge]
  /\ mapBranchResults' = IF config.type[n] = "map"
                           THEN mapBranchResults \cup {n}
                           ELSE mapBranchResults
  /\ completedNodeIds' = completedNodeIds \cup {n}
  /\ Settle(n, "completed")
  /\ UNCHANGED <<phase, overallStatus>>

(***************************************************************************)
(* handleNodeError, one action per policy.  Choosing the edge of a switch  *)
(* cannot fail in a valid graph.                                           *)
(***************************************************************************)
CanFail(n) == CanSettle(n) /\ config.type[n] # "switch"

\* Mutant of NodeSkipped: the node is not added to completedNodeIds.
SkippedNotCompleted(n) ==
  /\ CanFail(n)
  /\ config.onError[n] = "skip"
  /\ Settle(n, "skipped")
  /\ UNCHANGED <<phase, completedNodeIds, selectedEdges, mapBranchResults,
                 overallStatus>>

NodeSkipped(n) ==
  /\ CanFail(n)
  /\ config.onError[n] = "skip"
  /\ completedNodeIds' = completedNodeIds \cup {n}
  /\ Settle(n, "skipped")
  /\ UNCHANGED <<phase, selectedEdges, mapBranchResults, overallStatus>>

NodeFallsBack(n) ==
  /\ CanFail(n)
  /\ config.onError[n] = "fallback"
  /\ selectedEdges' = [selectedEdges EXCEPT ![n] = config.fallback[n]]
  /\ completedNodeIds' = completedNodeIds \cup {n}
  /\ Settle(n, "failed")
  /\ UNCHANGED <<phase, mapBranchResults, overallStatus>>

\* The error is rethrown; the first one rejects Promise.all.
NodeFails(n) ==
  /\ CanFail(n)
  /\ config.onError[n] = "fail"
  /\ phase' = "failing"
  /\ overallStatus' = "failed"
  /\ Settle(n, "failed")
  /\ UNCHANGED <<completedNodeIds, selectedEdges, mapBranchResults>>

NodeSettles(n) ==
  NodeSucceeds(n) \/ NodeSkipped(n) \/ NodeFallsBack(n) \/ NodeFails(n)

\* The handler overwrites the mode: the last signal wins.
CancelSignal(mode) ==
  /\ phase # "closed"
  /\ cancelMode' = mode
  /\ UNCHANGED <<config, phase, completedNodeIds, nodeStatuses,
                 selectedEdges, mapBranchResults, overallStatus>>

------------------------------------------------------------------------------
Next ==
  \/ Start
  \/ EndBatch
  \/ Rethrow
  \/ \E n \in config.nodes : NodeSettles(n)
  \/ \E mode \in {"graceful", "immediate"} : CancelSignal(mode)

(***************************************************************************)
(* The worker keeps running the workflow, and every node settles: an       *)
(* activity has a timeout and a bounded number of attempts, a poll a       *)
(* bounded number of polls, a human gate a timeout.  Nobody has to cancel. *)
(***************************************************************************)
Fairness ==
  /\ WF_vars(Start)
  /\ WF_vars(EndBatch)
  /\ WF_vars(Rethrow)
  /\ WF_vars(\E n \in config.nodes : NodeSettles(n))

Spec == Init /\ [][Next]_vars
FairSpec == Spec /\ Fairness

------------------------------------------------------------------------------
(***************************************************************************)
(* Properties.                                                             *)
(***************************************************************************)
Started(n) == nodeStatuses[n] # "pending"

\* The edge has been followed: its source is done and chose it.
Taken(e) ==
  /\ e.source \in completedNodeIds
  /\ \/ selectedEdges[e.source] = e.id
     \/ selectedEdges[e.source] = NoEdge /\ e.type = "normal"

\* Every node that was started, except the entry node, was reached along an
\* edge its source really took: the other branches of a switch, and the normal
\* successors of a node that fell back to its error edge, do not run on their
\* account (computeReadySet, hasSatisfiedEdge).
OnlyRoutedNodesRun ==
  \A n \in config.nodes : Started(n) /\ n # config.entry =>
    \E e \in InEdges(config, n) : Taken(e)

\* The workflow never reports success or cancellation while a node of it is
\* still executing: even an immediate cancellation waits for the batch.
NoNodeOutlivesTheResult ==
  overallStatus \in {"completed", "cancelled"} => Running = {}

\* A node runs at most once: once settled, neither its status nor the edge it
\* selected changes again, whatever later batches, late failures of its
\* neighbours or cancel signals do.
SettledForGood ==
  [][\A n \in config.nodes :
       nodeStatuses[n] \notin {"pending", "running"} =>
         /\ nodeStatuses'[n] = nodeStatuses[n]
         /\ selectedEdges'[n] = selectedEdges[n]]_vars

\* After a cancel signal of either mode that arrives during a batch, and after
\* a failure, no further node is started.
NothingStartsAfterStop ==
  [][\/ phase = "batch" /\ cancelMode # "none"
     \/ phase \in {"failing", "closed"}
     => Running' \subseteq Running]_vars

\* Where all paths to a node have the same length, a join is a join: when a
\* node starts, none of its sources is running, and none starts with it or
\* later, so the node sees the result of every source that runs at all.
\* (Levelled comes last: TLC looks for levels only when it has an offender.)
SourcesComeFirst ==
  [][\A e \in config.edges :
       /\ ~Started(e.target) /\ Started(e.target)' => e.source \notin Running
       /\ ~Started(e.source) /\ Started(e.source)' /\ Started(e.target)' =>
            ~Levelled(config)]_vars

\* A workflow that reports "completed" has run every node that an edge taken
\* leads to, provided no node that can select an edge has a normal edge too and
\* no node waits for one that nothing leads to (computeReadySet takes such a
\* source for the entry node, which is still to come).
CompletedLeavesNothingBehind ==
  overallStatus = "completed" /\ NoBypass(config) /\ StraysApart(config) =>
    \A e \in config.edges : Taken(e) => e.target \in completedNodeIds

\* Every execution ends, cancelled or not, however its nodes fare.
WorkflowCloses == <>(phase = "closed")
=============================================================================
