---------------------------- MODULE OrderingGraph ----------------------------
(***************************************************************************)
(* Vocabulary shared by the knowledge-graph modules: an edge joins a       *)
(* source node to a target node and has a type, and for the ordering types *)
(* (prerequisite, key-prerequisite, encompassing) the target must be       *)
(* learned before the source.  A node belongs to one ownership scope for   *)
(* its whole life, and an edge is anchored on the scope of its source.     *)
(***************************************************************************)
EXTENDS Naturals

CONSTANTS
    Nodes,          \* ids a knowledge node can have
    Scopes,         \* ownership scopes: personal, institutional
    ScopeOf,        \* the (immutable) ownership scope of each node
    EdgeTypes,      \* types an edge can have
    OrderingTypes   \* the types that impose a learning order

ASSUME ScopeAssumption == ScopeOf \in [Nodes -> Scopes]
ASSUME TypesAssumption == OrderingTypes \subseteq EdgeTypes

Edges == [source : Nodes, target : Nodes, type : EdgeTypes]

\* The ordering edges of E that are anchored on scope s: the only ones the
\* cycle check of the repository loads.
Ordering(E, s) ==
    {e \in E : e.type \in OrderingTypes /\ ScopeOf[e.source] = s}

\* C contains every successor, along E, of its own members.
Closed(C, E) == \A e \in E : e.source \in C => e.target \in C

\* y can be reached from x along E: every closed set holding x holds y.
Reaches(E, x, y) == \A C \in SUBSET Nodes : x \in C /\ Closed(C, E) => y \in C

\* A learning order exists: in every nonempty set of nodes some node has all
\* its successors outside the set, so it can be learned before the others.
Acyclic(E) ==
    \A S \in (SUBSET Nodes) \ {{}} :
        \E x \in S : \A e \in E : e.source = x => e.target \notin S
=============================================================================
