--------------------------- MODULE MCGraphEngine ---------------------------
(***************************************************************************)
(* Graphs for model checking GraphEngine: every forward graph over four    *)
(* nodes in which at most one node is not a plain activity that fails the  *)
(* workflow, and a few with a map and its join.                            *)
(***************************************************************************)
EXTENDS GraphEngine

Ids == 1 .. 4
Pairs == {<<i, j>> \in Ids \X Ids : i < j}

Edge(p, type) == [id |-> <<p, type>>, source |-> p[1], target |-> p[2],
                  type |-> type]
Normal(pairs) == {Edge(p, "normal") : p \in pairs}

NoNodes == [n \in Ids |-> NoEdge]
Graph(edges) ==
  [nodes |-> Ids, edges |-> edges, entry |-> 1,
   type |-> [n \in Ids |-> "activity"], onError |-> [n \in Ids |-> "fail"],
   fallback |-> NoNodes, routes |-> [n \in Ids |-> {}],
   sourceMap |-> [n \in Ids |-> n]]

\* Every other node than the entry node follows something.
Shapes == {s \in SUBSET Pairs : \A j \in 2 .. 4 : \E p \in s : p[2] = j}

\* Stray nodes and nodes that are apart from the rest are allowed here.
Plain == {Graph(Normal(s)) : s \in SUBSET Pairs}

Skipping == {[Graph(Normal(s)) EXCEPT !.onError[n] = "skip"] :
               s \in Shapes, n \in 1 .. 3}

\* The error edge comes on top of the normal edges, or replaces one.
FallingBack ==
  {[Graph(Normal(s) \cup {Edge(p, "error")}) EXCEPT
      !.onError[p[1]] = "fallback", !.fallback[p[1]] = Edge(p, "error").id] :
     s \in Shapes, p \in Pairs}
  \cup
  {[Graph(Normal(s \ {p}) \cup {Edge(p, "error")}) EXCEPT
      !.onError[p[1]] = "fallback", !.fallback[p[1]] = Edge(p, "error").id] :
     s \in Shapes, p \in Pairs}

\* Every edge out of a switch is one of its cases.
Switching ==
  {LET out == {p \in s : p[1] = n}
   IN  [Graph(Normal(s \ out) \cup {Edge(p, "conditional") : p \in out}) EXCEPT
          !.type[n] = "switch",
          !.routes[n] = {Edge(p, "conditional").id : p \in out}] :
     s \in Shapes, n \in 1 .. 3} 

\* A gate that selects its fallback edge on timeout.
Gated ==
  {[Graph(Normal(s) \cup {Edge(p, "error")}) EXCEPT
      !.type[p[1]] = "humanGate", !.routes[p[1]] = {Edge(p, "error").id}] :
     s \in Shapes, p \in {q \in Pairs : q[1] = 2}}

\* A map and its join, one after the other or side by side.
Mapping ==
  {[Graph(Normal(s)) EXCEPT !.type[2] = "map", !.type[3] = "join",
                            !.sourceMap[3] = 2, !.onError[2] = policy] :
     s \in {{<<1, 2>>, <<2, 3>>, <<3, 4>>}, {<<1, 2>>, <<1, 3>>, <<3, 4>>}},
     policy \in {"fail", "skip"}}

AllGraphs ==
  {g \in Plain \cup Skipping \cup FallingBack \cup Switching \cup Gated
           \cup Mapping : ValidGraph(g)}
=============================================================================
