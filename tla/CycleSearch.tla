----------------------------- MODULE CycleSearch -----------------------------
(***************************************************************************)
(* The depth-first search of _ordering_edge_closes_cycle                   *)
(* (graphs/repository.py), one iteration of its loop per step, over the    *)
(* ordering edges it loaded.  It answers whether the source of a proposed  *)
(* edge is reachable from its target.  The rows of one node arrive in no   *)
(* particular order, and parallel edges put a node on the stack twice.     *)
(***************************************************************************)
EXTENDS OrderingGraph, Sequences, FiniteSets

CONSTANT MaxRows    \* bound: edges loaded by one search

VARIABLES
    rows,       \* ordering edges of the scope
    source,     \* source of the proposed edge: what the search looks for
    target,     \* target of the proposed edge: where it starts
    stack,
    visited,
    answer      \* "searching", "cycle" or "no cycle"

input == <<rows, source, target>>
searchVars == <<rows, source, target, stack, visited, answer>>

\* The stack holds nodes and never runs below its bottom.
SearchTypeOK ==
    /\ rows \subseteq Edges /\ IsFiniteSet(rows)
    /\ source \in Nodes /\ target \in Nodes
    /\ stack \in Seq(Nodes)
    /\ visited \subseteq Nodes
    /\ answer \in {"searching", "cycle", "no cycle"}

\* Any graph may be loaded; the caller refused source = target.
SearchInit ==
    /\ rows \in {E \in SUBSET Edges : IsFiniteSet(E) /\ Cardinality(E) <= MaxRows}
    /\ source \in Nodes /\ target \in Nodes /\ source # target
    /\ stack = <<target>>
    /\ visited = {}
    /\ answer = "searching"

Out(n) == {e \in rows : e.source = n}

\* Mutant: a row replaces the earlier rows of its node.
LastRowOnly(n) ==
    IF Out(n) = {} THEN {<<>>} ELSE {<<e.target>> : e \in Out(n)}

\* The values of adjacency[n]: the targets of n's rows, in any order.
Adjacency(n) ==
    {[k \in 1..Cardinality(Out(n)) |-> order[k].target] :
        order \in {f \in [1..Cardinality(Out(n)) -> Out(n)] :
                       \A e \in Out(n) : \E k \in DOMAIN f : f[k] = e}}

Top == stack[Len(stack)]
Popped == SubSeq(stack, 1, Len(stack) - 1)

Exhausted ==
    /\ answer = "searching" /\ stack = <<>>
    /\ answer' = "no cycle"
    /\ UNCHANGED <<input, stack, visited>>

FoundSource ==
    /\ answer = "searching" /\ stack # <<>> /\ Top = source
    /\ answer' = "cycle"
    /\ stack' = Popped
    /\ UNCHANGED <<input, visited>>

\* Mutant: the visited node stays on the stack.
SkipVisitedUnpopped ==
    /\ answer = "searching" /\ stack # <<>> /\ Top # source /\ Top \in visited
    /\ UNCHANGED searchVars

SkipVisited ==
    /\ answer = "searching" /\ stack # <<>> /\ Top # source /\ Top \in visited
    /\ stack' = Popped
    /\ UNCHANGED <<input, visited, answer>>

Visit ==
    /\ answer = "searching" /\ stack # <<>> /\ Top # source /\ Top \notin visited
    /\ visited' = visited \cup {Top}
    /\ \E successors \in Adjacency(Top) : stack' = Popped \o successors
    /\ UNCHANGED <<input, answer>>

SearchNext == Exhausted \/ FoundSource \/ SkipVisited \/ Visit

\* The loop runs to its end in one request.
SearchSpec == SearchInit /\ [][SearchNext]_searchVars /\ WF_searchVars(SearchNext)
-----------------------------------------------------------------------------
\* The answer of the search is reachability: the "no cycle" that lets an edge
\* in is given only if no path leads back, and no harmless edge is refused.
AnswerIsReachability ==
    /\ answer = "cycle" => Reaches(rows, target, source)
    /\ answer = "no cycle" => ~Reaches(rows, target, source)

\* The search ends on every graph, one that holds a cycle included.
SearchEnds == <>(answer # "searching")

\* The strengthening that carries AnswerIsReachability: what was visited is
\* closed up to the stack, never the source, and all of it reachable.
Found == {stack[k] : k \in DOMAIN stack}

SearchInv ==
    /\ SearchTypeOK
    /\ answer # "cycle" => target \in visited \cup Found
    /\ source \notin visited
    /\ answer # "cycle" => \A e \in rows : e.source \in visited => e.target \in visited \cup Found
    /\ \A n \in visited \cup Found : Reaches(rows, target, n)
    /\ answer = "cycle" => Reaches(rows, target, source)
    /\ answer = "no cycle" => stack = <<>>
=============================================================================
