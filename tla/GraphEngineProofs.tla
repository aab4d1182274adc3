-------------------------- MODULE GraphEngineProofs --------------------------
(***************************************************************************)
(* Proofs about GraphEngine, for every set of valid graphs; and, at the    *)
(* end, about the loop in which its map nodes run their branches.          *)
(***************************************************************************)
EXTENDS GraphEngine, ConcurrencyLimit, FiniteSetTheorems, TLAPS,
        WellFoundedInduction

Settled == {"completed", "skipped", "failed"}

(***************************************************************************)
(* The inductive invariant.  BooksBalance ties the three records the       *)
(* runner keeps of a node: completedNodeIds, nodeStatuses, selectedEdges.  *)
(* A node whose status is settled but which is not in completedNodeIds     *)
(* would be started again by the next iteration; only a failure leaves one *)
(* behind, and then there is no next iteration.                            *)
(***************************************************************************)
BooksBalance ==
  \A n \in config.nodes :
    /\ n \in completedNodeIds => nodeStatuses[n] \in Settled
    /\ selectedEdges[n] # NoEdge => n \in completedNodeIds
    /\ phase \in {"start", "batch"} /\ nodeStatuses[n] \in Settled
         => n \in completedNodeIds

PhaseInv ==
  /\ phase = "start" => \A n \in config.nodes : nodeStatuses[n] = "pending"
  /\ phase = "batch" => Started(config.entry)
  /\ phase \in {"start", "batch"} => overallStatus = "running"
  /\ phase = "failing" => overallStatus = "failed"
  /\ phase = "closed" => overallStatus # "running"

IInv ==
  /\ config \in Graphs
  /\ TypeOK
  /\ BooksBalance
  /\ PhaseInv
  /\ OnlyRoutedNodesRun
  /\ NoNodeOutlivesTheResult

\* What the proofs use of the validity of the loaded graph.
LEMMA LoadedGraph ==
  ASSUME config \in Graphs
  PROVE  /\ config.entry \in config.nodes
         /\ \A e \in config.edges : /\ e.source \in config.nodes
                                    /\ e.target \in config.nodes
                                    /\ e.id # NoEdge
                                    /\ e.id \in EdgeIds(config)
         /\ \A n \in config.nodes : /\ config.routes[n] \subseteq EdgeIds(config)
                                    /\ config.onError[n] = "fallback" =>
                                         config.fallback[n] \in EdgeIds(config)
         /\ NoEdge \notin EdgeIds(config)
<1>1. ValidGraph(config)
  BY GraphsValid
<1> QED
  BY <1>1 DEF ValidGraph, EntryValid, EdgesValid, ErrorPoliciesValid,
              SwitchesValid, EdgeIds, OutEdges

LEMMA InitIInv == Init => IInv
<1> SUFFICES ASSUME Init PROVE IInv
  OBVIOUS
<1> QED
  BY LoadedGraph DEF Init, IInv, TypeOK, BooksBalance, PhaseInv, Settled,
     OnlyRoutedNodesRun, NoNodeOutlivesTheResult, Statuses, Phases, Started,
     Running

(***************************************************************************)
(* What the top of the loop does to the invariant, whichever await it      *)
(* resumed from.                                                           *)
(***************************************************************************)
\* A ready node has never been started when the loop resumes.
LEMMA ReadyIsFresh ==
  ASSUME IInv, phase \in {"start", "batch"}, Running = {},
         NEW n \in ReadyNodes
  PROVE  /\ n \in config.nodes
         /\ nodeStatuses[n] = "pending"
         /\ n # config.entry =>
              \E e \in InEdges(config, n) : Taken(e)
         /\ phase = "batch" => n # config.entry
<1>1. n \in config.nodes /\ n \notin completedNodeIds
  BY DEF ReadyNodes, ComputeReadySet, Ready
<1>2. nodeStatuses[n] = "pending"
  BY <1>1 DEF IInv, BooksBalance, TypeOK, Statuses, Settled, Running
<1>3. n # config.entry => \E e \in InEdges(config, n) : Taken(e)
  BY DEF ReadyNodes, ComputeReadySet, Ready, Taken, Relevant
<1>4. phase = "batch" => n # config.entry
  BY <1>2 DEF IInv, PhaseInv, Started
<1> QED
  BY <1>1, <1>2, <1>3, <1>4

LEMMA IterateIInv ==
  ASSUME IInv, phase \in {"start", "batch"}, Running = {}, Iterate
  PROVE  IInv'
<1>1. CASE \E end \in {"cancelled", "completed"} : Return(end)
  <2>1. PICK end \in {"cancelled", "completed"} : Return(end)
    BY <1>1
  <2>2. /\ config' = config /\ completedNodeIds' = completedNodeIds
        /\ nodeStatuses' = nodeStatuses /\ selectedEdges' = selectedEdges
        /\ mapBranchResults' = mapBranchResults /\ cancelMode' = cancelMode
        /\ phase' = "closed" /\ overallStatus' = end
    BY <2>1 DEF Return
  <2>3. TypeOK' /\ BooksBalance' /\ PhaseInv' /\ NoNodeOutlivesTheResult'
    BY <2>2 DEF IInv, TypeOK, BooksBalance, PhaseInv, Phases, Running,
                NoNodeOutlivesTheResult
  <2>4. OnlyRoutedNodesRun'
    BY <2>2 DEF IInv, OnlyRoutedNodesRun, Started, Taken, InEdges
  <2> QED
    BY <2>2, <2>3, <2>4 DEF IInv
<1>2. CASE ReadyNodes # {} /\ StartBatch(ReadyNodes)
  <2> DEFINE R == ReadyNodes
  <2>1. /\ config' = config /\ completedNodeIds' = completedNodeIds
        /\ selectedEdges' = selectedEdges /\ cancelMode' = cancelMode
        /\ mapBranchResults' = mapBranchResults
        /\ overallStatus' = overallStatus /\ phase' = "batch"
        /\ nodeStatuses' = [n \in config.nodes |->
                              IF n \in R THEN "running" ELSE nodeStatuses[n]]
    BY <1>2 DEF StartBatch
  <2>2. TypeOK'
    BY <2>1 DEF IInv, TypeOK, Phases, Statuses
  <2>3. BooksBalance'
    BY <2>1, ReadyIsFresh DEF IInv, BooksBalance, Settled, ReadyNodes,
                              ComputeReadySet, Ready
  <2>4. PhaseInv'
    <3>1. CASE phase = "start"
      <4>1. \E n \in R : n = config.entry
        <5>1. PICK n \in R : TRUE
          BY <1>2
        <5>2. completedNodeIds = {}
          BY <3>1 DEF IInv, PhaseInv, BooksBalance, TypeOK, Settled
        <5> QED
          BY <5>1, <5>2 DEF ReadyNodes, ComputeReadySet, Ready
      <4> QED
        BY <4>1, <2>1, <3>1, LoadedGraph DEF IInv, PhaseInv, Started
    <3>2. CASE phase = "batch"
      BY <3>2, <2>1, LoadedGraph DEF IInv, PhaseInv, Started
    <3> QED
      BY <3>1, <3>2
  <2>5. OnlyRoutedNodesRun'
    BY <2>1, ReadyIsFresh DEF IInv, OnlyRoutedNodesRun, Started, Taken,
                              InEdges
  <2>6. NoNodeOutlivesTheResult'
    BY <2>1 DEF IInv, PhaseInv, NoNodeOutlivesTheResult
  <2> QED
    BY <2>1, <2>2, <2>3, <2>4, <2>5, <2>6 DEF IInv
<1> QED
  BY <1>1, <1>2 DEF Iterate

(***************************************************************************)
(* What a settling node changes, whatever its outcome.                     *)
(***************************************************************************)
LEMMA SettleEffect ==
  ASSUME IInv, NEW n \in config.nodes, NodeSettles(n)
  PROVE  /\ config' = config /\ cancelMode' = cancelMode
         /\ phase \in {"batch", "failing"} /\ nodeStatuses[n] = "running"
         /\ \E s \in Settled : nodeStatuses' = [nodeStatuses EXCEPT ![n] = s]
         /\ \/ /\ completedNodeIds' = completedNodeIds \cup {n}
               /\ phase' = phase /\ overallStatus' = overallStatus
               /\ \E edge \in EdgeIds(config) \cup {NoEdge} :
                    selectedEdges' = [selectedEdges EXCEPT ![n] = edge]
            \/ /\ completedNodeIds' = completedNodeIds
               /\ selectedEdges' = selectedEdges
               /\ phase' = "failing" /\ overallStatus' = "failed"
         /\ mapBranchResults' \in {mapBranchResults, mapBranchResults \cup {n}}
<1> USE LoadedGraph DEF IInv, CanSettle, CanFail, Settle, Settled
<1>1. CASE NodeSucceeds(n)
  BY <1>1 DEF NodeSucceeds
<1>2. CASE NodeSkipped(n)
  <2>1. selectedEdges' = [selectedEdges EXCEPT ![n] = selectedEdges[n]]
    BY <1>2 DEF NodeSkipped, TypeOK
  <2>2. selectedEdges[n] \in EdgeIds(config) \cup {NoEdge}
    BY DEF TypeOK
  <2> QED
    BY <1>2, <2>1, <2>2 DEF NodeSkipped
<1>3. CASE NodeFallsBack(n)
  BY <1>3 DEF NodeFallsBack
<1>4. CASE NodeFails(n)
  BY <1>4 DEF NodeFails
<1> QED
  BY <1>1, <1>2, <1>3, <1>4 DEF NodeSettles

LEMMA SettleIInv ==
  ASSUME IInv, NEW n \in config.nodes, NodeSettles(n)
  PROVE  IInv'
<1> USE DEF IInv
<1>1. TypeOK'
  BY SettleEffect DEF TypeOK, Settled, Statuses, Phases
<1>2. BooksBalance'
  BY SettleEffect DEF TypeOK, BooksBalance, Settled, Statuses
<1>3. PhaseInv'
  BY SettleEffect, LoadedGraph DEF TypeOK, PhaseInv, Settled, Started
<1>4. OnlyRoutedNodesRun'
  <2>1. \A e \in config.edges : Taken(e) => Taken(e)'
    BY SettleEffect, LoadedGraph
       DEF TypeOK, BooksBalance, Taken, Settled
  <2>2. \A m \in config.nodes : Started(m)' => Started(m)
    BY SettleEffect DEF TypeOK, Started, Settled
  <2> QED
    BY <2>1, <2>2, SettleEffect DEF OnlyRoutedNodesRun, InEdges
<1>5. NoNodeOutlivesTheResult'
  BY SettleEffect DEF PhaseInv, NoNodeOutlivesTheResult
<1> QED
  BY <1>1, <1>2, <1>3, <1>4, <1>5, SettleEffect

LEMMA StepIInv == IInv /\ [Next]_vars => IInv'
<1> SUFFICES ASSUME IInv, [Next]_vars PROVE IInv'
  OBVIOUS
<1>1. CASE Start
  <2>1. Running = {}
    BY <1>1 DEF Start, IInv, PhaseInv, Running
  <2> QED
    BY <1>1, <2>1, IterateIInv DEF Start
<1>2. CASE EndBatch
  <2>1. CASE cancelMode # "graceful" /\ Iterate
    BY <1>2, <2>1, IterateIInv DEF EndBatch
  <2>2. CASE cancelMode = "graceful" /\ Return("cancelled")
    <3>1. /\ config' = config /\ completedNodeIds' = completedNodeIds
          /\ nodeStatuses' = nodeStatuses /\ selectedEdges' = selectedEdges
          /\ mapBranchResults' = mapBranchResults /\ cancelMode' = cancelMode
          /\ phase' = "closed" /\ overallStatus' = "cancelled"
      BY <2>2 DEF Return
    <3>2. TypeOK' /\ BooksBalance' /\ PhaseInv' /\ NoNodeOutlivesTheResult'
      BY <3>1, <1>2 DEF IInv, TypeOK, BooksBalance, PhaseInv, Phases, Running,
                        NoNodeOutlivesTheResult, EndBatch
    <3>3. OnlyRoutedNodesRun'
      BY <3>1 DEF IInv, OnlyRoutedNodesRun, Started, Taken, InEdges
    <3> QED
      BY <3>1, <3>2, <3>3 DEF IInv
  <2> QED
    BY <1>2, <2>1, <2>2 DEF EndBatch
<1>3. CASE \E n \in config.nodes : NodeSettles(n)
  BY <1>3, SettleIInv
<1>4. CASE Rethrow \/ (\E mode \in {"graceful", "immediate"} : CancelSignal(mode))
           \/ UNCHANGED vars
  <2>1. /\ config' = config /\ completedNodeIds' = completedNodeIds
        /\ nodeStatuses' = nodeStatuses /\ selectedEdges' = selectedEdges
        /\ mapBranchResults' = mapBranchResults
        /\ overallStatus' = overallStatus
        /\ \/ phase' = phase
           \/ phase = "failing" /\ phase' = "closed"
        /\ cancelMode' \in {"none", "graceful", "immediate"}
    BY <1>4 DEF Rethrow, CancelSignal, vars, IInv, TypeOK
  <2>2. TypeOK' /\ BooksBalance' /\ PhaseInv' /\ NoNodeOutlivesTheResult'
    BY <2>1 DEF IInv, TypeOK, BooksBalance, PhaseInv, Phases, Running, Started,
                NoNodeOutlivesTheResult
  <2>3. OnlyRoutedNodesRun'
    BY <2>1 DEF IInv, OnlyRoutedNodesRun, Started, Taken, InEdges
  <2> QED
    BY <2>1, <2>2, <2>3 DEF IInv
<1> QED
  BY <1>1, <1>2, <1>3, <1>4 DEF Next

LEMMA IInvAlways == Spec => []IInv
<1> QED
  BY InitIInv, StepIInv, PTL DEF Spec

\* The state of an execution is well typed: statuses, phases and selections
\* stay in their domains whatever graph is loaded.
THEOREM TypeCorrect == Spec => []TypeOK
<1>1. IInv => TypeOK
  BY DEF IInv
<1> QED
  BY IInvAlways, <1>1, PTL

\* Whatever the graph, every node that starts was reached along an edge that
\* its completed source selected (computeReadySet).
THEOREM RoutingSafe == Spec => []OnlyRoutedNodesRun
<1>1. IInv => OnlyRoutedNodesRun
  BY DEF IInv
<1> QED
  BY IInvAlways, <1>1, PTL

\* Whatever the graph, success and cancellation are reported only once every
\* node that was started has settled (runGraphExecution).
THEOREM ResultIsFinal == Spec => []NoNodeOutlivesTheResult
<1>1. IInv => NoNodeOutlivesTheResult
  BY DEF IInv
<1> QED
  BY IInvAlways, <1>1, PTL

(***************************************************************************)
(* What a step may do to a node.                                           *)
(***************************************************************************)
\* The only steps that start nodes start exactly the ready ones.
LEMMA StepEffect ==
  ASSUME IInv, [Next]_vars
  PROVE  \/ /\ phase \in {"start", "batch"} /\ Running = {} /\ config' = config
            /\ ~(phase = "batch" /\ cancelMode # "none")
            /\ StartBatch(ReadyNodes)
         \/ /\ \E n \in config.nodes : NodeSettles(n)
            /\ config' = config
         \/ UNCHANGED <<config, completedNodeIds, nodeStatuses, selectedEdges>>
<1>1. CASE Start
  <2>1. Running = {}
    BY <1>1 DEF Start, IInv, PhaseInv, Running
  <2> QED
    BY <1>1, <2>1 DEF Start, Iterate, StartBatch, Return
<1>2. CASE EndBatch
  BY <1>2 DEF EndBatch, Iterate, StartBatch, Return, IInv, TypeOK
<1>3. CASE \E n \in config.nodes : NodeSettles(n)
  BY <1>3, SettleEffect
<1>4. CASE Rethrow \/ (\E mode \in {"graceful", "immediate"} : CancelSignal(mode))
           \/ UNCHANGED vars
  BY <1>4 DEF Rethrow, CancelSignal, vars
<1> QED
  BY <1>1, <1>2, <1>3, <1>4 DEF Next

\* Whatever the graph, a settled node keeps its status and its selection.
THEOREM SettledSafe == Spec => SettledForGood
<1>1. IInv /\ [Next]_vars =>
        [\A n \in config.nodes :
           nodeStatuses[n] \notin {"pending", "running"} =>
             /\ nodeStatuses'[n] = nodeStatuses[n]
             /\ selectedEdges'[n] = selectedEdges[n]]_vars
  <2> SUFFICES ASSUME IInv, [Next]_vars, NEW n \in config.nodes,
                      nodeStatuses[n] \notin {"pending", "running"}
               PROVE  /\ nodeStatuses'[n] = nodeStatuses[n]
                      /\ selectedEdges'[n] = selectedEdges[n]
    OBVIOUS
  <2>1. CASE /\ phase \in {"start", "batch"} /\ Running = {}
             /\ StartBatch(ReadyNodes)
    BY <2>1, ReadyIsFresh DEF StartBatch
  <2>2. CASE \E m \in config.nodes : NodeSettles(m)
    BY <2>2, SettleEffect DEF IInv, TypeOK
  <2>3. CASE UNCHANGED <<config, completedNodeIds, nodeStatuses, selectedEdges>>
    BY <2>3
  <2> QED
    BY <2>1, <2>2, <2>3, StepEffect
<1> QED
  BY IInvAlways, <1>1, PTL DEF Spec, SettledForGood

\* The loop never goes round for nothing: each time it resumes it closes the
\* workflow or starts a node that had not been started, and no node goes back.
\* So it goes round at most once for each node, which is why it ends.
EveryRoundAdvances ==
  [][/\ Start \/ EndBatch =>
          phase' = "closed" \/ \E n \in config.nodes : ~Started(n) /\ Started(n)'
     /\ config' = config
     /\ \A n \in config.nodes : Started(n) => Started(n)']_vars

\* Every round advances, whatever the graph, the failures and the signals.
THEOREM RoundsAdvance == Spec => EveryRoundAdvances
<1> DEFINE Advances ==
      /\ Start \/ EndBatch =>
           phase' = "closed" \/ \E n \in config.nodes : ~Started(n) /\ Started(n)'
      /\ config' = config
      /\ \A n \in config.nodes : Started(n) => Started(n)'
<1>1. IInv /\ [Next]_vars => [Advances]_vars
  <2> SUFFICES ASSUME IInv, Next PROVE Advances
    OBVIOUS
  <2>1. ASSUME Start \/ EndBatch
        PROVE  phase' = "closed" \/ \E n \in config.nodes : ~Started(n) /\ Started(n)'
    <3>1. phase \in {"start", "batch"} /\ Running = {}
      BY <2>1 DEF Start, EndBatch, IInv, PhaseInv, Running
    <3>2. CASE ReadyNodes # {} /\ StartBatch(ReadyNodes)
      <4>1. PICK n \in ReadyNodes : TRUE
        BY <3>2
      <4>2. n \in config.nodes /\ nodeStatuses[n] = "pending"
        BY <3>1, ReadyIsFresh
      <4>3. nodeStatuses'[n] = "running"
        BY <3>2, <4>1, <4>2 DEF StartBatch
      <4> QED
        BY <4>2, <4>3 DEF Started
    <3>3. CASE \E end \in {"cancelled", "completed"} : Return(end)
      BY <3>3 DEF Return
    <3> QED
      BY <2>1, <3>2, <3>3 DEF Start, EndBatch, Iterate
  <2>2. CASE /\ phase \in {"start", "batch"} /\ Running = {} /\ config' = config
             /\ StartBatch(ReadyNodes)
    <3>1. \A n \in config.nodes : Started(n) => Started(n)'
      BY <2>2 DEF StartBatch, Started
    <3> QED
      BY <2>1, <2>2, <3>1
  <2>3. CASE (\E n \in config.nodes : NodeSettles(n)) /\ config' = config
    <3>1. \A n \in config.nodes : Started(n) => Started(n)'
      BY <2>3, SettleEffect DEF IInv, TypeOK, Started, Settled
    <3> QED
      BY <2>1, <2>3, <3>1
  <2>4. CASE UNCHANGED <<config, completedNodeIds, nodeStatuses, selectedEdges>>
    BY <2>1, <2>4 DEF Started
  <2> QED
    BY <2>2, <2>3, <2>4, StepEffect
<1>2. Spec => [][Advances]_vars
  BY <1>1, IInvAlways, PTL DEF Spec
<1> QED
  BY <1>2 DEF EveryRoundAdvances

\* Whatever the graph, nothing starts after a failure, nor after a cancel
\* signal that found a batch running.
THEOREM StopSafe == Spec => NothingStartsAfterStop
<1>1. IInv /\ [Next]_vars =>
        [\/ phase = "batch" /\ cancelMode # "none"
         \/ phase \in {"failing", "closed"}
         => Running' \subseteq Running]_vars
  <2> SUFFICES ASSUME IInv, [Next]_vars,
                      \/ phase = "batch" /\ cancelMode # "none"
                      \/ phase \in {"failing", "closed"}
               PROVE  Running' \subseteq Running
    OBVIOUS
  <2>1. CASE \E m \in config.nodes : NodeSettles(m)
    BY <2>1, SettleEffect DEF IInv, TypeOK, Running, Settled
  <2>2. CASE UNCHANGED <<config, completedNodeIds, nodeStatuses, selectedEdges>>
    BY <2>2 DEF Running
  <2> QED
    BY <2>1, <2>2, StepEffect
<1> QED
  BY IInvAlways, <1>1, PTL DEF Spec, NothingStartsAfterStop

(***************************************************************************)
(* Joins in levelled graphs.  The induction goes batch by batch: the nodes *)
(* of a batch are all on one level, no started node is above it, and a     *)
(* node at or below a started one that has not started is not ready and    *)
(* will not become so, since its readiness only depends on nodes strictly  *)
(* below it, which have all settled.                                       *)
(***************************************************************************)
IsReady(n) == Ready(config, config.entry, completedNodeIds, selectedEdges, n)

LevelInv(level) ==
  /\ \A m \in Running, n \in config.nodes : Started(n) => level[n] <= level[m]
  /\ \A m, n \in config.nodes :
       Started(m) /\ ~Started(n) /\ level[n] <= level[m] => ~IsReady(n)

AllLevelsInv ==
  \A level \in [config.nodes -> 0 .. Cardinality(config.nodes)] :
    LevelsOf(config, level) => LevelInv(level)

JInv == IInv /\ AllLevelsInv

LEMMA LevelsAreNumbers ==
  ASSUME NEW level \in [config.nodes -> 0 .. Cardinality(config.nodes)],
         NEW n \in config.nodes
  PROVE  level[n] \in Int
OBVIOUS

\* The nodes that become ready together are one level above all the others.
LEMMA BatchIsALevel ==
  ASSUME JInv, phase \in {"start", "batch"}, Running = {},
         NEW level \in [config.nodes -> 0 .. Cardinality(config.nodes)],
         LevelsOf(config, level),
         NEW n \in ReadyNodes
  PROVE  /\ \A m \in config.nodes : Started(m) => level[m] < level[n]
         /\ \A m \in ReadyNodes : level[m] = level[n]
<1> USE DEF JInv
<1>1. \A x \in ReadyNodes : /\ x \in config.nodes /\ ~Started(x) /\ IsReady(x)
                            /\ level[x] \in Int
  BY ReadyIsFresh, LevelsAreNumbers
     DEF ReadyNodes, ComputeReadySet, IsReady, Started
<1>2. ASSUME NEW x \in ReadyNodes, NEW m \in config.nodes, Started(m)
      PROVE  level[m] < level[x]
  <2>1. ~(level[x] <= level[m])
    BY <1>1, <1>2 DEF AllLevelsInv, LevelInv
  <2> QED
    BY <2>1, <1>1, LevelsAreNumbers
<1>3. ASSUME NEW x \in ReadyNodes, NEW y \in ReadyNodes
      PROVE  level[x] <= level[y]
  <2>1. CASE x = config.entry
    <3>1. phase = "start"
      BY <2>1, ReadyIsFresh
    <3>2. completedNodeIds = {}
      BY <3>1 DEF IInv, PhaseInv, BooksBalance, TypeOK, Settled
    <3>3. y = config.entry
      BY <3>2 DEF ReadyNodes, ComputeReadySet, Ready
    <3> QED
      BY <2>1, <3>3, <1>1
  <2>2. CASE x # config.entry
    <3>1. PICK e \in InEdges(config, x) : Taken(e)
      BY <2>2, ReadyIsFresh
    <3>2. e.source \in config.nodes /\ Started(e.source) /\ e \in config.edges
          /\ e.target = x
      BY <3>1, LoadedGraph
         DEF Taken, InEdges, IInv, BooksBalance, Settled, Started
    <3>3. level[x] = level[e.source] + 1
      BY <3>2 DEF LevelsOf
    <3>4. level[e.source] < level[y]
      BY <3>2, <1>2
    <3> QED
      BY <3>2, <3>3, <3>4, <1>1, LevelsAreNumbers
  <2> QED
    BY <2>1, <2>2
<1> QED
  BY <1>1, <1>2, <1>3

LEMMA BatchLevelInv ==
  ASSUME JInv, phase \in {"start", "batch"}, Running = {},
         config' = config, StartBatch(ReadyNodes),
         NEW level \in [config.nodes -> 0 .. Cardinality(config.nodes)],
         LevelsOf(config, level)
  PROVE  LevelInv(level)'
<1> DEFINE R == ReadyNodes
<1>1. /\ completedNodeIds' = completedNodeIds /\ selectedEdges' = selectedEdges
      /\ nodeStatuses' = [n \in config.nodes |->
                            IF n \in R THEN "running" ELSE nodeStatuses[n]]
  BY DEF StartBatch
<1>2. \A n \in config.nodes : /\ Started(n)' <=> n \in R \/ Started(n)
                              /\ n \in R => nodeStatuses[n] = "pending"
  BY <1>1, ReadyIsFresh DEF Started, JInv
<1>3. Running' = R
  BY <1>1, <1>2, ReadyIsFresh DEF Running, JInv
<1>4. ASSUME NEW m \in R, NEW n \in config.nodes, Started(n)'
      PROVE  level[n] <= level[m]
  <2>1. m \in config.nodes
    BY ReadyIsFresh DEF JInv
  <2>2. level[n] < level[m] \/ level[n] = level[m]
    BY <1>2, <1>4, BatchIsALevel
  <2> QED
    BY <2>1, <2>2, LevelsAreNumbers
<1>5. \A n \in config.nodes : ~Started(n)' => ~IsReady(n)'
  <2>1. \A n \in config.nodes : IsReady(n)' <=> IsReady(n)
    BY <1>1 DEF IsReady, Ready, InEdges, Relevant, SourceReachable
  <2> QED
    BY <1>2, <2>1 DEF ReadyNodes, ComputeReadySet, IsReady
<1> QED
  BY <1>3, <1>4, <1>5 DEF LevelInv

LEMMA SettleLevelInv ==
  ASSUME JInv, NEW m \in config.nodes, NodeSettles(m),
         NEW level \in [config.nodes -> 0 .. Cardinality(config.nodes)],
         LevelsOf(config, level)
  PROVE  LevelInv(level)'
<1> USE DEF JInv
<1>1. m \in Running
  BY SettleEffect DEF Running
<1>2. /\ Running' \subseteq Running
      /\ \A n \in config.nodes : Started(n)' <=> Started(n)
  BY SettleEffect DEF IInv, TypeOK, Running, Started, Settled
<1>3. LevelInv(level)
  BY DEF AllLevelsInv
<1>4. ASSUME NEW n \in config.nodes, level[n] < level[m]
      PROVE  /\ n \in completedNodeIds' <=> n \in completedNodeIds
             /\ selectedEdges'[n] = selectedEdges[n]
  BY <1>4, LevelsAreNumbers, SettleEffect DEF IInv, TypeOK
<1>5. ASSUME NEW n \in config.nodes, ~Started(n), level[n] <= level[m],
             IsReady(n)'
      PROVE  IsReady(n)
  <2>1. config' = config /\ n \notin completedNodeIds'
    BY <1>5, SettleEffect DEF IsReady, Ready
  <2>2. n \notin completedNodeIds
    BY <2>1, SettleEffect
  <2>3. ASSUME NEW e \in InEdges(config, n)
        PROVE  /\ e \in config.edges /\ e.source \in config.nodes
               /\ level[e.source] < level[n]
    BY <2>3, LoadedGraph, LevelsAreNumbers DEF InEdges, LevelsOf, IInv
  <2>4. ASSUME NEW e \in config.edges, level[e.target] <= level[m]
        PROVE  /\ e.source \in completedNodeIds' <=> e.source \in completedNodeIds
               /\ selectedEdges'[e.source] = selectedEdges[e.source]
    <3>1. e.source \in config.nodes /\ e.target \in config.nodes
      BY LoadedGraph DEF IInv
    <3>2. level[e.source] < level[m]
      BY <3>1, <2>4, LevelsAreNumbers DEF LevelsOf
    <3> QED
      BY <3>1, <3>2, <1>4
  <2>5. ASSUME NEW e \in InEdges(config, n)
        PROVE  /\ e.source \in completedNodeIds' <=> e.source \in completedNodeIds
               /\ Relevant(e, selectedEdges)' <=> Relevant(e, selectedEdges)
               /\ SourceReachable(config, e.source, completedNodeIds,
                                  selectedEdges)' <=>
                  SourceReachable(config, e.source, completedNodeIds,
                                  selectedEdges)
    <3>1. e \in config.edges /\ e.target = n
      BY DEF InEdges
    <3>2. /\ e.source \in completedNodeIds' <=> e.source \in completedNodeIds
          /\ selectedEdges'[e.source] = selectedEdges[e.source]
      BY <3>1, <2>4, <1>5
    <3>3. Relevant(e, selectedEdges)' <=> Relevant(e, selectedEdges)
      BY <3>2 DEF Relevant
    <3>4. ASSUME NEW f \in InEdges(config, e.source)
          PROVE  /\ f.source \in completedNodeIds' <=>
                      f.source \in completedNodeIds
                 /\ selectedEdges'[f.source] = selectedEdges[f.source]
      <4>1. f \in config.edges /\ f.target = e.source
        BY DEF InEdges
      <4>2. level[f.target] <= level[m]
        BY <4>1, <2>3, <1>5, LevelsAreNumbers
      <4> QED
        BY <4>1, <4>2, <2>4
    <3>5. SourceReachable(config, e.source, completedNodeIds, selectedEdges)'
            <=> SourceReachable(config, e.source, completedNodeIds,
                                selectedEdges)
      BY <3>4, <2>1 DEF SourceReachable, InEdges
    <3> QED
      BY <3>2, <3>3, <3>5
  <2> QED
    BY <1>5, <2>1, <2>2, <2>5 DEF IsReady, Ready, InEdges
<1>6. ASSUME NEW l \in config.nodes, NEW n \in config.nodes,
             Started(l), ~Started(n), level[n] <= level[l]
      PROVE  ~IsReady(n)'
  <2>1. level[l] <= level[m]
    BY <1>1, <1>3, <1>6 DEF LevelInv
  <2>2. level[n] <= level[m]
    BY <2>1, <1>6, LevelsAreNumbers
  <2>3. ~IsReady(n)
    BY <1>3, <1>6 DEF LevelInv
  <2> QED
    BY <2>2, <2>3, <1>5, <1>6
<1> QED
  BY <1>2, <1>3, <1>6, SettleEffect DEF LevelInv

LEMMA StepJInv == JInv /\ [Next]_vars => JInv'
<1> SUFFICES ASSUME JInv, [Next]_vars PROVE JInv'
  OBVIOUS
<1>1. IInv'
  BY StepIInv DEF JInv
<1>2. config' = config
  BY StepEffect DEF JInv
<1>3. ASSUME NEW level \in [config.nodes -> 0 .. Cardinality(config.nodes)],
             LevelsOf(config, level)
      PROVE  LevelInv(level)'
  <2>1. CASE UNCHANGED <<config, completedNodeIds, nodeStatuses, selectedEdges>>
    <3>1. LevelInv(level)
      BY <1>3 DEF JInv, AllLevelsInv
    <3> QED
      BY <2>1, <3>1 DEF LevelInv, Running, Started, IsReady, Ready, Relevant,
                        InEdges, SourceReachable
  <2>2. CASE \E m \in config.nodes : NodeSettles(m)
    BY <1>3, <2>2, SettleLevelInv
  <2>3. CASE /\ phase \in {"start", "batch"} /\ Running = {}
             /\ StartBatch(ReadyNodes)
    BY <1>2, <1>3, <2>3, BatchLevelInv
  <2> QED
    BY <2>1, <2>2, <2>3, StepEffect DEF JInv
<1> QED
  BY <1>1, <1>2, <1>3 DEF JInv, AllLevelsInv, LevelsOf

\* In every levelled graph a node runs strictly after each of its sources that
\* runs at all (computeReadySet with its one-level look-back).
THEOREM JoinsWait == Spec => SourcesComeFirst
<1>1. Init => JInv
  BY InitIInv DEF JInv, Init, AllLevelsInv, LevelInv, Running, Started
<1>2. JInv /\ [Next]_vars =>
        [\A e \in config.edges :
           /\ ~Started(e.target) /\ Started(e.target)' =>
                e.source \notin Running
           /\ ~Started(e.source) /\ Started(e.source)' /\ Started(e.target)' =>
                ~Levelled(config)]_vars
  <2> SUFFICES ASSUME JInv, [Next]_vars, NEW e \in config.edges
               PROVE  /\ ~Started(e.target) /\ Started(e.target)' =>
                           e.source \notin Running
                      /\ ~Started(e.source) /\ Started(e.source)' /\
                         Started(e.target)' => ~Levelled(config)
    OBVIOUS
  <2>1. e.source \in config.nodes /\ e.target \in config.nodes
    BY LoadedGraph DEF JInv, IInv
  <2>2. CASE \E m \in config.nodes : NodeSettles(m)
    BY <2>1, <2>2, SettleEffect DEF JInv, IInv, TypeOK, Started
  <2>3. CASE /\ phase \in {"start", "batch"} /\ Running = {}
             /\ StartBatch(ReadyNodes)
    <3>1. SUFFICES ASSUME ~Started(e.source), Started(e.source)',
                          Started(e.target)', Levelled(config)
                   PROVE  FALSE
      BY <2>3
    <3>2. PICK level \in [config.nodes -> 0 .. Cardinality(config.nodes)] :
                 LevelsOf(config, level)
      BY <3>1 DEF Levelled
    <3>3. e.source \in ReadyNodes
      BY <2>1, <2>3, <3>1 DEF StartBatch, Started
    <3>4. Started(e.target) \/ e.target \in ReadyNodes
      BY <2>1, <2>3, <3>1 DEF StartBatch, Started
    <3>5. level[e.target] <= level[e.source]
      BY <2>1, <2>3, <3>2, <3>3, <3>4, BatchIsALevel, LevelsAreNumbers
    <3> QED
      BY <2>1, <3>2, <3>5, LevelsAreNumbers DEF LevelsOf
  <2>4. CASE UNCHANGED <<config, completedNodeIds, nodeStatuses, selectedEdges>>
    BY <2>4 DEF Started
  <2> QED
    BY <2>2, <2>3, <2>4, StepEffect DEF JInv
<1> QED
  BY <1>1, <1>2, StepJInv, PTL DEF Spec, SourcesComeFirst

------------------------------------------------------------------------------
(***************************************************************************)
(* Nothing is left behind.  Of the nodes a taken edge leads to and that    *)
(* have not completed take the lowest: whatever it waits for has not       *)
(* completed either, and since edges are only selected where there is no   *)
(* bypass, the look-back finds a taken edge that leads there, one node     *)
(* further down.                                                           *)
(***************************************************************************)
SelectInv ==
  \A n \in config.nodes : selectedEdges[n] # NoEdge =>
    config.routes[n] # {} \/ config.onError[n] = "fallback"

LEMMA LeastNumber ==
  ASSUME NEW T, T \subseteq Nat, T # {}
  PROVE  \E x \in T : \A y \in T : x <= y
<1> DEFINE R == OpToRel(<, Nat)
<1>1. IsWellFoundedOn(R, Nat)
  BY NatLessThanWellFounded, Zenon
<1>2. PICK x \in T : \A y \in T : <<y, x>> \notin R
  <2> HIDE DEF R
  <2> QED
    BY <1>1, WFMin
<1>3. \A y \in T : ~(y < x)
  BY <1>2 DEF OpToRel
<1> QED
  BY <1>3

LEMMA StepSelectInv == IInv /\ SelectInv /\ [Next]_vars => SelectInv'
<1> SUFFICES ASSUME IInv, SelectInv, [Next]_vars PROVE SelectInv'
  OBVIOUS
<1>1. ASSUME NEW n \in config.nodes, NodeSettles(n)
      PROVE  SelectInv'
  <2>1. config' = config /\ selectedEdges \in
          [config.nodes -> EdgeIds(config) \cup {NoEdge}]
    BY <1>1, SettleEffect DEF IInv, TypeOK
  <2>2. CASE NodeSucceeds(n)
    BY <2>1, <2>2 DEF NodeSucceeds, SelectInv
  <2>3. CASE NodeFallsBack(n)
    BY <2>1, <2>3 DEF NodeFallsBack, SelectInv
  <2>4. CASE NodeSkipped(n) \/ NodeFails(n)
    BY <2>1, <2>4 DEF NodeSkipped, NodeFails, SelectInv
  <2> QED
    BY <1>1, <2>2, <2>3, <2>4 DEF NodeSettles
<1>2. CASE config' = config /\ selectedEdges' = selectedEdges
  BY <1>2 DEF SelectInv
<1> QED
  BY <1>1, <1>2, StepEffect DEF StartBatch

\* When nothing is ready any more, every node that a taken edge leads to has
\* completed.
LEMMA NothingReadyNothingLeft ==
  ASSUME IInv, SelectInv, NoBypass(config), StraysApart(config),
         ReadyNodes = {},
         NEW d \in config.edges, Taken(d)
  PROVE  d.target \in completedNodeIds
<1> DEFINE Left == {n \in config.nodes \ completedNodeIds :
                      \E e \in InEdges(config, n) : Taken(e)}
<1>1. SUFFICES ASSUME Left # {} PROVE FALSE
  BY LoadedGraph DEF InEdges, IInv
<1>2. PICK rank \in [config.nodes -> 1 .. Cardinality(config.nodes)] :
        \A e \in config.edges : rank[e.source] < rank[e.target]
  BY GraphsValid DEF IInv, ValidGraph, Acyclic
<1>3. PICK n \in Left : \A m \in Left : rank[n] <= rank[m]
  <2> DEFINE Ranks == {rank[m] : m \in Left}
  <2>1. \A m \in Left : rank[m] \in Nat
    BY <1>2
  <2>2. Ranks \subseteq Nat /\ Ranks # {}
    BY <1>1, <2>1
  <2>3. PICK x \in Ranks : \A y \in Ranks : x <= y
    <3> HIDE DEF Ranks
    <3> QED
      BY <2>2, LeastNumber
  <2> QED
    BY <2>3
<1>4. /\ n \in config.nodes /\ n \notin completedNodeIds
      /\ ~Ready(config, config.entry, completedNodeIds, selectedEdges, n)
  BY <1>3 DEF ReadyNodes, ComputeReadySet
<1>5. PICK e \in config.edges : e.target = n /\ Taken(e)
  BY <1>3 DEF InEdges
<1>6. /\ e.source \in completedNodeIds
      /\ Relevant(e, selectedEdges) /\ e.id # NoEdge
  BY <1>5, LoadedGraph DEF Taken, Relevant, IInv
<1>7. PICK f \in config.edges :
        /\ f.target = n /\ f.source \notin completedNodeIds
        /\ SourceReachable(config, f.source, completedNodeIds, selectedEdges)
  BY <1>4, <1>5, <1>6 DEF Ready, InEdges
<1>8. config.entry \in completedNodeIds
  BY LoadedGraph DEF ReadyNodes, ComputeReadySet, Ready, IInv
<1>9. ~Stray(config, f.source)
  BY <1>5, <1>6, <1>7 DEF StraysApart
<1>10. PICK g \in config.edges :
         /\ g.target = f.source
         /\ IF g.type = "normal" THEN g.source \in completedNodeIds
                                 ELSE selectedEdges[g.source] = g.id
  BY <1>7, <1>8, <1>9 DEF SourceReachable, Stray, InEdges
<1>11. g.source \in config.nodes /\ f.source \in config.nodes /\ g.id # NoEdge
  BY LoadedGraph DEF IInv
<1>12. Taken(g)
  <2>1. CASE g.type = "normal"
    <3>1. selectedEdges[g.source] = NoEdge
      BY <1>11, <2>1 DEF SelectInv, NoBypass, OutEdges
    <3> QED
      BY <1>10, <2>1, <3>1 DEF Taken
  <2>2. CASE g.type # "normal"
    BY <1>10, <1>11, <2>2 DEF Taken, IInv, BooksBalance
  <2> QED
    BY <2>1, <2>2
<1>13. f.source \in Left
  BY <1>7, <1>10, <1>11, <1>12 DEF InEdges
<1>14. rank[n] <= rank[f.source] /\ rank[f.source] < rank[n]
  BY <1>2, <1>3, <1>7, <1>13
<1>15. rank[n] \in Int /\ rank[f.source] \in Int
  BY <1>2, <1>4, <1>11
<1> QED
  BY <1>14, <1>15

\* In every valid graph in which no selection is bypassed and no node waits for
\* a stray one, success means that nothing a taken edge leads to was left out,
\* however far the branches of a join differ in length.
THEOREM NothingLeftBehind == Spec => []CompletedLeavesNothingBehind
<1> DEFINE KInv == SelectInv /\ CompletedLeavesNothingBehind
<1>1. Init => KInv
  BY DEF Init, SelectInv, CompletedLeavesNothingBehind
<1>2. IInv /\ KInv /\ [Next]_vars => KInv'
  <2> SUFFICES ASSUME IInv, KInv, [Next]_vars
               PROVE  CompletedLeavesNothingBehind'
    BY StepSelectInv
  <2>1. CASE overallStatus' # "completed"
    BY <2>1 DEF CompletedLeavesNothingBehind
  <2>2. CASE ReadyNodes = {} /\ Return("completed")
    <3>1. UNCHANGED <<config, completedNodeIds, selectedEdges>>
      BY <2>2 DEF Return
    <3>2. NoBypass(config) /\ StraysApart(config) =>
            \A e \in config.edges : Taken(e) => e.target \in completedNodeIds
      BY <2>2, NothingReadyNothingLeft
    <3> QED
      BY <3>1, <3>2 DEF CompletedLeavesNothingBehind, Taken
  <2>3. CASE /\ overallStatus = "completed"
             /\ UNCHANGED <<config, completedNodeIds, selectedEdges>>
    BY <2>3 DEF CompletedLeavesNothingBehind, Taken
  <2>4. \/ overallStatus' # "completed"
        \/ ReadyNodes = {} /\ Return("completed")
        \/ /\ overallStatus = "completed"
           /\ UNCHANGED <<config, completedNodeIds, selectedEdges>>
    <3>1. CASE \E n \in config.nodes : NodeSettles(n)
      BY <3>1, SettleEffect DEF IInv, PhaseInv
    <3>2. CASE Start \/ EndBatch
      BY <3>2 DEF Start, EndBatch, Iterate, Return, StartBatch, IInv, PhaseInv
    <3>3. CASE \/ Rethrow \/ UNCHANGED vars
               \/ \E mode \in {"graceful", "immediate"} : CancelSignal(mode)
      BY <3>3 DEF Rethrow, CancelSignal, vars
    <3> QED
      BY <3>1, <3>2, <3>3 DEF Next
  <2> QED
    BY <2>1, <2>2, <2>3, <2>4
<1> QED
  BY <1>1, <1>2, IInvAlways, PTL DEF Spec

------------------------------------------------------------------------------
(***************************************************************************)
(* The loop in which a map node runs its branches (ConcurrencyLimit), for  *)
(* every number of items and every limit.                                  *)
(*                                                                         *)
(* The inductive invariant.  The loop counts the executing items when it   *)
(* resumes, not when the race settles, so the room it finds is at least    *)
(* one; and what executes is always among what it awaits, because items    *)
(* only leave between two awaits.                                          *)
(***************************************************************************)
StartedInOrder == \A i \in Items : status[i] = "idle" <=> next <= i

AwaitInv ==
  /\ outcome = "pending" => awaiting \in {"race", "all"}
  /\ awaiting = "start" => next = 1
  /\ awaiting \in {"race", "all"} => Executing \subseteq awaited
  /\ awaiting = "race" /\ outcome = "fulfilled"
       => Cardinality(Executing) < MaxConcurrency
  /\ awaiting \in {"all", "returned"} => next = N + 1
  /\ awaiting = "all" /\ outcome = "fulfilled" => Executing = {}
  /\ awaiting = "returned" => Executing = {}

WithinLimit == Cardinality(Executing) <= MaxConcurrency

LoopIInv == LoopTypeOK /\ StartedInOrder /\ AwaitInv /\ WithinLimit

USE NAssumption, MaxConcurrencyAssumption

LEMMA ItemsFinite ==
  /\ IsFiniteSet(Items)
  /\ \A S \in SUBSET Items : IsFiniteSet(S) /\ Cardinality(S) \in Nat
<1>1. IsFiniteSet(Items)
  BY FS_Interval DEF Items
<1>2. ASSUME NEW S \in SUBSET Items PROVE IsFiniteSet(S)
  BY <1>1, FS_Subset
<1>3. ASSUME NEW S \in SUBSET Items PROVE Cardinality(S) \in Nat
  BY <1>2, FS_CardinalityType
<1> QED
  BY <1>1, <1>2, <1>3

LEMMA LoopInitIInv == LoopInit => LoopIInv
<1> SUFFICES ASSUME LoopInit PROVE LoopIInv
  OBVIOUS
<1>1. LoopTypeOK
  BY DEF LoopInit, LoopTypeOK, Items
<1>2. Executing = {}
  BY DEF LoopInit, Executing
<1>3. Cardinality(Executing) = 0
  BY <1>2, FS_EmptySet
<1> QED
  BY <1>1, <1>2, <1>3
  DEF LoopInit, LoopIInv, StartedInOrder, AwaitInv, WithinLimit, Items

(***************************************************************************)
(* From one await to the next.                                             *)
(***************************************************************************)
\* When the loop may go on there is room for one more item.
LEMMA RoomForOne ==
  ASSUME LoopIInv, outcome = "fulfilled", awaiting \in {"start", "race"}
  PROVE  Room \in Int /\ Room >= 1
<1>1. Executing \in SUBSET Items
  BY DEF Executing
<1>2. Cardinality(Executing) \in Nat
  BY <1>1, ItemsFinite
<1>3. CASE awaiting = "race"
  BY <1>2, <1>3 DEF LoopIInv, AwaitInv, Room
<1>4. CASE awaiting = "start"
  <2>1. Executing = {}
    BY <1>4 DEF LoopIInv, AwaitInv, StartedInOrder, Executing, Items
  <2> QED
    BY <2>1, FS_EmptySet DEF Room
<1> QED
  BY <1>3, <1>4

LEMMA AdvanceEffect ==
  ASSUME LoopIInv, outcome = "fulfilled", awaiting \in {"start", "race"}, Advance
  PROVE  /\ Last \in Int
         /\ next - 1 <= Last /\ Last <= N /\ Last <= next + Room - 1
         /\ next <= N => next <= Last
         /\ Executing' = Executing \cup (next..Last)
         /\ (next..Last) \subseteq {i \in Items : status[i] = "idle"}
<1>1. Room \in Int /\ Room >= 1
  BY RoomForOne
<1>2. next \in 1..(N + 1)
  BY DEF LoopIInv, LoopTypeOK
<1>3. /\ Last \in Int
      /\ next - 1 <= Last /\ Last <= N /\ Last <= next + Room - 1
      /\ next <= N => next <= Last
  BY <1>1, <1>2 DEF Last, Least
<1>4. (next..Last) \subseteq {i \in Items : status[i] = "idle"}
  BY <1>2, <1>3 DEF LoopIInv, StartedInOrder, Items
<1>5. Executing' = Executing \cup (next..Last)
  BY <1>4 DEF Advance, Executing
<1> QED
  BY <1>3, <1>4, <1>5

LEMMA AdvanceIInv ==
  ASSUME LoopIInv, outcome = "fulfilled", awaiting \in {"start", "race"}, Advance
  PROVE  LoopIInv'
<1> DEFINE now == Executing \cup (next..Last)
<1>1. /\ Last \in Int
      /\ next - 1 <= Last /\ Last <= N /\ Last <= next + Room - 1
      /\ next <= N => next <= Last
      /\ Executing' = now
      /\ (next..Last) \subseteq {i \in Items : status[i] = "idle"}
  BY AdvanceEffect
<1>2. Room \in Int /\ Room >= 1
  BY RoomForOne
<1>3. next \in 1..(N + 1)
  BY DEF LoopIInv, LoopTypeOK
<1>4. LoopTypeOK'
  BY <1>1, <1>3 DEF LoopIInv, LoopTypeOK, Advance, Items, Executing
<1>5. StartedInOrder'
  BY <1>1, <1>3 DEF LoopIInv, LoopTypeOK, StartedInOrder, Advance, Items
<1>6. WithinLimit'
  <2>1. Executing \in SUBSET Items /\ next..Last \in SUBSET Items
    BY <1>1 DEF Executing
  <2>2. /\ IsFiniteSet(Executing) /\ Cardinality(Executing) \in Nat
        /\ IsFiniteSet(next..Last) /\ Cardinality(next..Last) \in Nat
        /\ Executing \cap (next..Last) = {}
    BY <1>1, <2>1, ItemsFinite DEF Executing
  <2>3. Cardinality(now) = Cardinality(Executing) + Cardinality(next..Last)
    <3>1. Cardinality(Executing \cap (next..Last)) = 0
      BY <2>2, FS_EmptySet
    <3>2. Cardinality(now) = Cardinality(Executing) + Cardinality(next..Last)
                               - Cardinality(Executing \cap (next..Last))
      BY <2>2, FS_Union
    <3> QED
      BY <2>2, <3>1, <3>2
  <2>4. Cardinality(next..Last) <= Room
    BY <1>1, <1>2, <1>3, FS_Interval
  <2> QED
    BY <1>1, <2>2, <2>3, <2>4 DEF WithinLimit, Room
<1>7. AwaitInv'
  <2>1. next' = Last + 1 /\ awaited' = now
    BY DEF Advance
  <2>2. awaiting' \in {"race", "all"}
    BY DEF Advance
  <2>3. ASSUME awaiting' = "race" PROVE outcome' = "pending"
    <3>1. next <= N
      BY <2>3 DEF Advance
    <3>2. next \in now
      BY <1>1, <1>3, <3>1
    <3> QED
      BY <3>2 DEF Advance
  <2>4. ASSUME awaiting' = "all" PROVE next' = N + 1
    <3>1. ~(next <= N /\ Last = next + Room - 1)
      BY <2>4 DEF Advance
    <3>2. Last = N
      BY <1>2, <1>3, <3>1 DEF Last, Least
    <3> QED
      BY <2>1, <3>2
  <2>5. outcome' = "fulfilled" => now = {}
    BY DEF Advance
  <2> QED
    BY <1>1, <2>1, <2>2, <2>3, <2>4, <2>5 DEF AwaitInv
<1> QED
  BY <1>4, <1>5, <1>6, <1>7 DEF LoopIInv

(***************************************************************************)
(* The steps.                                                              *)
(***************************************************************************)
LEMMA LeaveIInv ==
  ASSUME LoopIInv, Resume, NEW end \in {"returned", "threw"}, Leave(end),
         end = "returned" => outcome = "fulfilled" /\ awaiting = "all"
  PROVE  LoopIInv'
<1>1. Executing' = Executing
  BY DEF Leave, Executing
<1>2. outcome # "pending"
  BY DEF Resume
<1>3. LoopTypeOK' /\ StartedInOrder'
  BY DEF LoopIInv, LoopTypeOK, StartedInOrder, Leave
<1>4. WithinLimit'
  BY <1>1 DEF LoopIInv, WithinLimit
<1>5. AwaitInv'
  BY <1>1, <1>2 DEF LoopIInv, AwaitInv, Leave
<1> QED
  BY <1>3, <1>4, <1>5 DEF LoopIInv

LEMMA SettleItemIInv ==
  ASSUME LoopIInv, NEW i \in Items, NEW result \in {"fulfilled", "rejected"},
         SettleItem(i, result)
  PROVE  LoopIInv' /\ Executing' = Executing \ {i} /\ i \in Executing
<1>1. Executing' = Executing \ {i} /\ i \in Executing
  BY DEF LoopIInv, LoopTypeOK, SettleItem, Executing
<1>2. Executing \in SUBSET Items
  BY DEF Executing
<1>3. Cardinality(Executing') = Cardinality(Executing) - 1
  BY <1>1, <1>2, ItemsFinite, FS_RemoveElement
<1>4. Cardinality(Executing) \in Nat
  BY <1>2, ItemsFinite
<1>5. LoopTypeOK'
  BY DEF LoopIInv, LoopTypeOK, SettleItem, Outcome
<1>6. StartedInOrder'
  BY DEF LoopIInv, LoopTypeOK, StartedInOrder, SettleItem
<1>7. WithinLimit'
  BY <1>3, <1>4 DEF LoopIInv, WithinLimit
<1>8. AwaitInv'
  BY <1>1, <1>3, <1>4 DEF LoopIInv, AwaitInv, WithinLimit, SettleItem, Outcome
<1> QED
  BY <1>1, <1>5, <1>6, <1>7, <1>8 DEF LoopIInv

LEMMA LoopStepIInv == LoopIInv /\ [LoopNext]_loopVars => LoopIInv'
<1> SUFFICES ASSUME LoopIInv, [LoopNext]_loopVars PROVE LoopIInv'
  OBVIOUS
<1>1. CASE Resume
  <2>1. CASE Advance /\ outcome = "fulfilled" /\ awaiting # "all"
    BY <1>1, <2>1, AdvanceIInv DEF Resume
  <2>2. CASE Leave("threw")
    BY <1>1, <2>2, LeaveIInv
  <2>3. CASE Leave("returned") /\ outcome = "fulfilled" /\ awaiting = "all"
    BY <1>1, <2>3, LeaveIInv
  <2> QED
    BY <1>1, <2>1, <2>2, <2>3 DEF Resume
<1>2. ASSUME NEW i \in Items, NEW result \in {"fulfilled", "rejected"},
             SettleItem(i, result)
      PROVE  LoopIInv'
  BY <1>2, SettleItemIInv
<1>3. CASE UNCHANGED loopVars
  BY <1>3 DEF loopVars, LoopIInv, LoopTypeOK, StartedInOrder, AwaitInv,
    WithinLimit,
              Executing
<1> QED
  BY <1>1, <1>2, <1>3 DEF LoopNext

LEMMA LoopIInvAlways == LoopSafeSpec => []LoopIInv
BY LoopInitIInv, LoopStepIInv, PTL DEF LoopSafeSpec

(***************************************************************************)
(* The theorems.                                                           *)
(***************************************************************************)
\* The loop's state is well typed; in particular its index stays within the
\* items.
THEOREM LoopTypeCorrect == LoopSafeSpec => []LoopTypeOK
<1>1. LoopIInv => LoopTypeOK
  BY DEF LoopIInv
<1> QED
  BY <1>1, LoopIInvAlways, PTL

\* Whatever settles while the loop is not looking, no more branches execute at
\* once than the limit allows.
THEOREM BranchesAreBounded == LoopSafeSpec => []WithinLimit
<1>1. LoopIInv => WithinLimit
  BY DEF LoopIInv
<1> QED
  BY <1>1, LoopIInvAlways, PTL

\* For every number of items and every limit, the results are returned only
\* when every item has settled.
THEOREM ReturnIsComplete == LoopSafeSpec => []ReturnsWhenAllSettled
<1>1. LoopIInv => ReturnsWhenAllSettled
  <2> SUFFICES ASSUME LoopIInv, awaiting = "returned", NEW i \in Items
               PROVE  status[i] \in {"fulfilled", "rejected"}
    BY DEF ReturnsWhenAllSettled
  <2>1. next = N + 1 /\ Executing = {}
    BY DEF LoopIInv, AwaitInv
  <2>2. status[i] # "idle"
    BY <2>1 DEF LoopIInv, StartedInOrder, Items
  <2>3. status[i] # "executing"
    BY <2>1 DEF Executing
  <2> QED
    BY <2>2, <2>3 DEF LoopIInv, LoopTypeOK
<1> QED
  BY <1>1, LoopIInvAlways, PTL

\* What the loop awaits can always settle: one of the promises it was given is
\* still open.  A race over no promise, or one over promises that have settled
\* and left, would be the last thing the map node does.
SomethingIsAwaited ==
  outcome = "pending" => \E i \in awaited : status[i] = "executing"

\* For every number of items and every limit, no await of the loop is for nothing.
THEOREM LoopIsWoken == LoopSafeSpec => []SomethingIsAwaited
<1>1. LoopInit => SomethingIsAwaited
  BY DEF LoopInit, SomethingIsAwaited
<1>2. LoopIInv /\ LoopIInv' /\ SomethingIsAwaited /\ [LoopNext]_loopVars
        => SomethingIsAwaited'
  <2> SUFFICES ASSUME LoopIInv, LoopIInv', SomethingIsAwaited,
                      [LoopNext]_loopVars, outcome' = "pending"
               PROVE  \E i \in awaited' : status'[i] = "executing"
    BY DEF SomethingIsAwaited
  <2>1. CASE Advance /\ outcome = "fulfilled" /\ awaiting \in {"start", "race"}
    <3>1. awaited' # {} /\ awaited' = Executing'
      BY <2>1, AdvanceEffect DEF Advance
    <3> QED
      BY <3>1 DEF Executing
  <2>2. ASSUME NEW i \in Items, NEW result \in {"fulfilled", "rejected"},
               SettleItem(i, result)
        PROVE  \E j \in awaited' : status'[j] = "executing"
    <3>1. outcome = "pending" /\ awaiting \in {"race", "all"}
      BY <2>2 DEF SettleItem, Outcome, LoopIInv, AwaitInv
    <3>2. Executing \subseteq awaited /\ i \in Executing
      BY <2>2, <3>1 DEF LoopIInv, AwaitInv, SettleItem, Executing
    <3>3. PICK j \in Executing : j # i
      BY <2>2, <3>1, <3>2 DEF SettleItem, Outcome
    <3>4. status'[j] = "executing" /\ awaited' = awaited
      BY <2>2, <3>3 DEF SettleItem, Executing, LoopIInv, LoopTypeOK
    <3> QED
      BY <3>2, <3>3, <3>4
  <2>3. CASE UNCHANGED <<status, awaited, outcome>>
    BY <2>3 DEF SomethingIsAwaited
  <2> QED
    BY <2>1, <2>2, <2>3 DEF LoopNext, Resume, Leave, loopVars
<1> QED
  BY <1>1, <1>2, LoopIInvAlways, PTL DEF LoopSafeSpec

\* For every number of items and every limit, a failure while the loop awaits
\* is the loop's failure.
THEOREM AwaitSeesFailure == LoopSafeSpec => FailureWhileAwaitingIsSeen
<1> DEFINE Seen ==
      outcome = "pending" =>
        \A i \in Items : status[i] # "rejected" /\ status'[i] = "rejected"
                           => outcome' = "rejected"
<1>1. LoopIInv /\ [LoopNext]_loopVars => [Seen]_loopVars
  <2> SUFFICES ASSUME LoopIInv, LoopNext, outcome = "pending", NEW i \in Items,
                      status[i] # "rejected", status'[i] = "rejected"
               PROVE  outcome' = "rejected"
    OBVIOUS
  <2>1. ~Resume
    BY DEF Resume
  <2>2. PICK j \in Items, result \in {"fulfilled", "rejected"} :
          SettleItem(j, result)
    BY <2>1 DEF LoopNext
  <2>3. j = i /\ result = "rejected"
    BY <2>2 DEF SettleItem, LoopIInv, LoopTypeOK
  <2>4. i \in awaited
    BY <2>2, <2>3 DEF SettleItem, LoopIInv, AwaitInv, Executing
  <2> QED
    BY <2>2, <2>3, <2>4 DEF SettleItem, Outcome
<1>2. LoopSafeSpec => [][Seen]_loopVars
  BY <1>1, LoopIInvAlways, PTL DEF LoopSafeSpec
<1> QED
  BY <1>2 DEF FailureWhileAwaitingIsSeen

\* The loop implements the concurrency limit, for every number of items.
THEOREM LoopImplementsLimit == LoopSafeSpec => ImplementsLimit
<1> DEFINE Stage == [i \in Items |-> CASE status[i] = "idle" -> "waiting"
                                      [] status[i] = "executing" -> "running"
                                      [] OTHER -> "done"]
<1>1. LoopInit => Bounded!Init
  BY DEF LoopInit, Bounded!Init
<1>2. LoopIInv /\ LoopIInv' /\ [LoopNext]_loopVars => [Bounded!Next]_Stage
  <2> SUFFICES ASSUME LoopIInv, LoopIInv', [LoopNext]_loopVars
               PROVE  Bounded!Next \/ UNCHANGED Stage
    BY DEF Bounded!Next
  <2>1. Bounded!Running = Executing
    BY DEF Bounded!Running, Executing
  <2>2. Bounded!Waiting = {i \in Items : status[i] = "idle"}
    BY DEF LoopIInv, LoopTypeOK, Bounded!Waiting
  <2>3. Cardinality(Executing') <= MaxConcurrency
    BY DEF LoopIInv, WithinLimit
  <2> DEFINE Within(S) == Bounded!Cardinality(S) <= MaxConcurrency
  <2>c. Within(Executing')
    BY <2>3 DEF Bounded!Cardinality, Cardinality
  <2> HIDE DEF Within
  <2>4. ASSUME NEW i \in Items, NEW result \in {"fulfilled", "rejected"},
               SettleItem(i, result)
        PROVE  Bounded!Next
    <3>1. Executing' = Executing \ {i} /\ i \in Executing
      BY <2>4, SettleItemIInv
    <3>2. Bounded!Step({i}, {})
      <4>1. (Executing \ {i}) \cup {} = Executing'
        BY <3>1
      <4>2. Stage' = [t \in Items |-> IF t \in {i} THEN "done"
                                      ELSE IF t \in {} THEN "running"
                                      ELSE Stage[t]]
        BY <2>4 DEF SettleItem, LoopIInv, LoopTypeOK
      <4> QED
        BY <2>1, <2>c, <4>1, <4>2 DEF Bounded!Step, Within
    <3> QED
      BY <2>1, <3>1, <3>2 DEF Bounded!Next
  <2>5. CASE Advance /\ outcome = "fulfilled" /\ awaiting \in {"start", "race"}
    <3>1. /\ Executing' = Executing \cup (next..Last)
          /\ (next..Last) \subseteq {i \in Items : status[i] = "idle"}
      BY <2>5, AdvanceEffect
    <3>2. PICK S \in SUBSET Items : S = next..Last
      BY <3>1
    <3>3. Bounded!Step({}, S)
      <4>1. (Executing \ {}) \cup S = Executing'
        BY <3>1, <3>2
      <4>2. Stage' = [t \in Items |-> IF t \in {} THEN "done"
                                      ELSE IF t \in S THEN "running"
                                      ELSE Stage[t]]
        BY <2>5, <3>2 DEF Advance
      <4> QED
        BY <2>1, <2>c, <4>1, <4>2 DEF Bounded!Step, Within
    <3>4. {} \in SUBSET Bounded!Running /\ S \in SUBSET Bounded!Waiting
      BY <2>2, <3>1, <3>2
    <3>5. Bounded!Next
      BY <3>3, <3>4 DEF Bounded!Next
    <3> QED
      BY <3>5
  <2>6. CASE UNCHANGED status
    BY <2>6
  <2> QED
    BY <2>4, <2>5, <2>6 DEF LoopNext, Resume, Leave, loopVars
<1> QED
  BY <1>1, <1>2, LoopIInvAlways, PTL DEF LoopSafeSpec, Bounded!Spec,
    ImplementsLimit
==============================================================================
