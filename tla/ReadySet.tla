------------------------------ MODULE ReadySet ------------------------------
(***************************************************************************)
(* The scheduling decision of the graph engine: which nodes of a workflow  *)
(* graph may start, given what has completed and which edges have been     *)
(* selected (apps/temporal/src/graph-engine/graph-algorithms.ts).          *)
(*                                                                         *)
(* A graph g is a record:                                                  *)
(*   nodes       the node ids                                              *)
(*   edges       a set of records [id, source, target, type]               *)
(*   entry       config.entryNodeId                                        *)
(*   type        node id -> node type                                      *)
(*   onError     node id -> node.errorPolicy.onError, "fail" when absent   *)
(*   fallback    node id -> node.errorPolicy.fallbackEdgeId, or NoEdge     *)
(*   routes      node id -> the edge ids the node may select when it       *)
(*               succeeds: the cases and defaultEdge of a switch, the      *)
(*               fallbackEdgeId of a humanGate with onTimeout "fallback"   *)
(*   sourceMap   node id -> sourceMapNodeId of a join (itself otherwise)   *)
(***************************************************************************)
EXTENDS Integers, FiniteSets

CONSTANT NoEdge   \* selectedEdges.get(node) === undefined

NodeTypes == {"activity", "switch", "map", "join", "pollUntil", "humanGate",
              "childWorkflow"}
EdgeTypes == {"normal", "conditional", "error"}
ErrorPolicies == {"fail", "skip", "fallback"}

EdgeIds(g) == {e.id : e \in g.edges}
InEdges(g, n) == {e \in g.edges : e.target = n}
OutEdges(g, n) == {e \in g.edges : e.source = n}

\* Mutant of Relevant: a selection does not rule the normal edges out.
RelevantDespiteSelection(e, selected) ==
  e.type = "normal" \/ selected[e.source] = e.id

(***************************************************************************)
(* Once its source has an explicit selection an edge counts only if it is  *)
(* the selected one; otherwise the normal edges are implicitly selected.   *)
(***************************************************************************)
Relevant(e, selected) ==
  IF selected[e.source] = NoEdge THEN e.type = "normal"
                                 ELSE selected[e.source] = e.id

\* Mutant of SourceReachable: no look-back, every source is waited for.
EverySourceReachable(g, s, completed, selected) == TRUE

(***************************************************************************)
(* The one-level look-back that tells a source that is still to come from  *)
(* one that never will: has anything directly before it completed?         *)
(***************************************************************************)
SourceReachable(g, s, completed, selected) ==
  \/ InEdges(g, s) = {}
  \/ \E e \in InEdges(g, s) :
       IF e.type = "normal" THEN e.source \in completed
                            ELSE selected[e.source] = e.id

\* Mutant of Ready: no satisfied edge is asked for.
ReadyUnsatisfied(g, start, completed, selected, n) ==
  /\ n \notin completed
  /\ \/ n = start
     \/ \A e \in {f \in InEdges(g, n) : Relevant(f, selected)} :
          \/ e.source \in completed
          \/ ~SourceReachable(g, e.source, completed, selected)

(***************************************************************************)
(* computeReadySet (scope = all the nodes, start = the entry node) and     *)
(* computeReadySetForSubgraph (scope = the body of a map, start =          *)
(* bodyEntryNodeId) are the same test over different node sets.            *)
(***************************************************************************)
Ready(g, start, completed, selected, n) ==
  /\ n \notin completed
  /\ \/ n = start
     \/ LET relevant == {e \in InEdges(g, n) : Relevant(e, selected)}
        IN  /\ \E e \in relevant : e.source \in completed
            /\ \A e \in relevant :
                 \/ e.source \in completed
                 \/ ~SourceReachable(g, e.source, completed, selected)

ComputeReadySet(g, scope, start, completed, selected) ==
  {n \in scope : Ready(g, start, completed, selected, n)}

(***************************************************************************)
(* What validateGraphConfig lets through to execution.                     *)
(***************************************************************************)
EntryValid(g) == g.entry \in g.nodes /\ InEdges(g, g.entry) = {}

EdgesValid(g) ==
  /\ \A e \in g.edges : /\ {e.source, e.target} \subseteq g.nodes
                        /\ e.type \in EdgeTypes
                        /\ e.id # NoEdge
  /\ \A e, f \in g.edges : e.id = f.id => e = f

ErrorPoliciesValid(g) ==
  \A n \in g.nodes : g.onError[n] = "fallback" =>
    \E e \in OutEdges(g, n) : e.id = g.fallback[n] /\ e.type = "error"

SwitchesValid(g) ==
  \A n \in g.nodes : /\ g.routes[n] \subseteq EdgeIds(g)
                     /\ g.type[n] = "switch" => g.routes[n] # {}

JoinsValid(g) ==
  \A n \in g.nodes : g.type[n] = "join" => /\ g.sourceMap[n] \in g.nodes
                                           /\ g.type[g.sourceMap[n]] = "map"

\* validateDagStructure follows the edges of every type.
Acyclic(g) ==
  \E rank \in [g.nodes -> 1 .. Cardinality(g.nodes)] :
    \A e \in g.edges : rank[e.source] < rank[e.target]

ValidGraph(g) ==
  /\ g.type \in [g.nodes -> NodeTypes]
  /\ g.onError \in [g.nodes -> ErrorPolicies]
  /\ EntryValid(g)
  /\ EdgesValid(g)
  /\ ErrorPoliciesValid(g)
  /\ SwitchesValid(g)
  /\ JoinsValid(g)
  /\ Acyclic(g)

(***************************************************************************)
(* Shapes of graphs the properties tell apart.                             *)
(***************************************************************************)
\* All the paths from the entry node to a node have the same length.
LevelsOf(g, level) ==
  /\ level[g.entry] = 0
  /\ \A e \in g.edges : level[e.target] = level[e.source] + 1

Levelled(g) ==
  \E level \in [g.nodes -> 0 .. Cardinality(g.nodes)] : LevelsOf(g, level)

\* No node that may select an edge also has an unconditional way out.
NoBypass(g) ==
  \A n \in g.nodes : g.routes[n] # {} \/ g.onError[n] = "fallback" =>
    \A e \in OutEdges(g, n) : e.type # "normal"

\* Nothing leads to the node and the runner does not start with it: the first
\* node of a map's body, or one the validation has only warned about.
Stray(g, n) == InEdges(g, n) = {} /\ n # g.entry

\* What follows a stray node follows nothing else.
StraysApart(g) ==
  \A e, f \in g.edges :
    e.target = f.target /\ Stray(g, e.source) => f.source = e.source
=============================================================================
