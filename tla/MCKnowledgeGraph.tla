-------------------------- MODULE MCKnowledgeGraph --------------------------
(***************************************************************************)
(* Three personal nodes and one institutional node: a cycle can close over *)
(* two or three edges, and an edge can cross the scopes.                   *)
(***************************************************************************)
EXTENDS KnowledgeGraph, TLC

CONSTANTS a, b, c, i, t1, t2, personal, institutional

MCScopeOf == [n \in Nodes |-> IF n = i THEN institutional ELSE personal]

\* The personal nodes are alike, and so are the requests.
Symmetry == Permutations({a, b, c}) \cup Permutations({t1, t2})
=============================================================================
