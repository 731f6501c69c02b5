---------------------------- MODULE AuthoredGraph ----------------------------
(***************************************************************************)
(* What the knowledge graph promises its readers, without transactions,    *)
(* locks or searches: the graph changes by whole authoring steps, each of  *)
(* which leaves every scope with a learning order and every edge anchored  *)
(* on existing nodes.                                                      *)
(***************************************************************************)
EXTENDS OrderingGraph

VARIABLES nodes, edges

Valid(N, E) ==
    /\ \A e \in E : {e.source, e.target} \subseteq N /\ e.source # e.target
    /\ \A s \in Scopes : Acyclic(Ordering(E, s))

Init == nodes = {} /\ edges = {}

\* One request adds nodes and edges; nothing that was there changes.
Author ==
    /\ nodes \subseteq nodes'
    /\ edges \subseteq edges'
    /\ Valid(nodes', edges')

\* One edge takes a type its pair of nodes does not have yet.
Retype ==
    /\ \E e \in edges, ty \in EdgeTypes :
          LET new == [e EXCEPT !.type = ty]
          IN  new \notin edges /\ edges' = (edges \ {e}) \cup {new}
    /\ Valid(nodes', edges')
    /\ UNCHANGED nodes

RemoveEdge ==
    /\ \E e \in edges : edges' = edges \ {e}
    /\ UNCHANGED nodes

\* Only a node no edge touches is removed.
RemoveNode ==
    /\ \E n \in nodes : nodes' = nodes \ {n}
    /\ Valid(nodes', edges)
    /\ UNCHANGED edges

Next == Author \/ Retype \/ RemoveEdge \/ RemoveNode

Spec == Init /\ [][Next]_<<nodes, edges>>
=============================================================================
