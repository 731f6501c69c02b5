--------------------------- MODULE KnowledgeGraph ---------------------------
(***************************************************************************)
(* The knowledge-graph repository (graphs/repository.py) under concurrent  *)
(* requests.  Each request is a database transaction: it locks the         *)
(* ownership scope it writes edges in, checks the edge against what the    *)
(* transaction sees (committed rows plus its own), writes, and commits or  *)
(* rolls back, which releases its locks.  Deletions take no scope lock.    *)
(*                                                                         *)
(* The database is external: uncommitted rows are invisible to the others  *)
(* (READ COMMITTED), a row or scope-lock row written by one transaction    *)
(* blocks the others until it ends, and a foreign key keeps a referenced   *)
(* node.  A deletion is one step: between its flush and its commit it only *)
(* blocks others.                                                          *)
(***************************************************************************)
EXTENDS OrderingGraph, FiniteSets

CONSTANTS
    Txns,       \* concurrent requests
    NoTxn,      \* the owner of a free scope lock
    MaxEdges    \* bound: edges stored or being written

ASSUME NoTxnAssumption == NoTxn \notin Txns

VARIABLES
    nodes,      \* committed nodes
    edges,      \* committed edges
    lock,       \* scope -> transaction holding its knowledge_graph_scope_locks row
    stage,      \* "idle", "open" (may write more), "updated" (only ends)
    drafted,    \* nodes each transaction inserted, uncommitted
    added,      \* edges each transaction inserted or retyped to, uncommitted
    removed     \* committed edges each transaction retyped away, uncommitted

vars == <<nodes, edges, lock, stage, drafted, added, removed>>

Stages == {"idle", "open", "updated"}

\* Rows and locks are of existing kinds, and a request that ended is idle again.
TypeOK ==
    /\ nodes \subseteq Nodes
    /\ edges \subseteq Edges
    /\ lock \in [Scopes -> Txns \cup {NoTxn}]
    /\ stage \in [Txns -> Stages]
    /\ drafted \in [Txns -> SUBSET Nodes]
    /\ added \in [Txns -> SUBSET Edges]
    /\ removed \in [Txns -> SUBSET Edges]

Init ==
    /\ nodes = {}
    /\ edges = {}
    /\ lock = [s \in Scopes |-> NoTxn]
    /\ stage = [t \in Txns |-> "idle"]
    /\ drafted = [t \in Txns |-> {}]
    /\ added = [t \in Txns |-> {}]
    /\ removed = [t \in Txns |-> {}]
-----------------------------------------------------------------------------
\* What transaction t reads.
NodesSeen(t) == nodes \cup drafted[t]
EdgesSeen(t) == (edges \ removed[t]) \cup added[t]

InFlight == UNION {added[t] : t \in Txns}

Touches(e, n) == n \in {e.source, e.target}

\* The search from the target of the proposed edge meets its source.
ClosesCycle(E, e) ==
    Reaches(Ordering(E, ScopeOf[e.source]), e.target, e.source)

\* create_knowledge_node: flushed, not yet committed.
CreateNode(t, n) ==
    /\ stage[t] # "updated"
    /\ n \notin nodes
    /\ \A u \in Txns : n \notin drafted[u]
    /\ drafted' = [drafted EXCEPT ![t] = @ \cup {n}]
    /\ stage' = [stage EXCEPT ![t] = "open"]
    /\ UNCHANGED <<nodes, edges, lock, added, removed>>

\* Mutant: the lock row is read without FOR UPDATE.
AcquireSharedEdgeScopeLock(t, s) ==
    /\ stage[t] # "updated"
    /\ lock' = [lock EXCEPT ![s] = t]
    /\ stage' = [stage EXCEPT ![t] = "open"]
    /\ UNCHANGED <<nodes, edges, drafted, added, removed>>

\* _acquire_edge_scope_lock: waits for the owner of the scope's lock row.
AcquireEdgeScopeLock(t, s) ==
    /\ stage[t] # "updated"
    /\ lock[s] = NoTxn
    /\ lock' = [lock EXCEPT ![s] = t]
    /\ stage' = [stage EXCEPT ![t] = "open"]
    /\ UNCHANGED <<nodes, edges, drafted, added, removed>>

\* create_knowledge_edge after its lock: every refusal is a guard.
CreateEdge(t, e, isGraphReference) ==
    /\ stage[t] = "open"
    /\ e.source # e.target
    /\ ScopeOf[e.source] # ScopeOf[e.target] => isGraphReference
    /\ lock[ScopeOf[e.source]] = t
    /\ {e.source, e.target} \subseteq NodesSeen(t)
    /\ e \notin EdgesSeen(t)
    /\ e.type \in OrderingTypes => ~ClosesCycle(EdgesSeen(t), e)
    /\ Cardinality(edges \cup InFlight) < MaxEdges
    /\ added' = [added EXCEPT ![t] = @ \cup {e}]
    /\ UNCHANGED <<nodes, edges, lock, stage, drafted, removed>>

\* Mutant: the new type is not checked for a cycle.
UpdateEdgeUnchecked(t, e, newType) ==
    LET new == [e EXCEPT !.type = newType]
    IN  /\ stage[t] = "open"
        /\ added[t] = {} /\ drafted[t] = {}
        /\ lock[ScopeOf[e.source]] = t
        /\ e \in edges
        /\ \A u \in Txns : e \notin removed[u]
        /\ newType # e.type => new \notin EdgesSeen(t)
        /\ added' = [added EXCEPT ![t] = {new}]
        /\ removed' = [removed EXCEPT ![t] = {e}]
        /\ stage' = [stage EXCEPT ![t] = "updated"]
        /\ UNCHANGED <<nodes, edges, lock, drafted>>

\* update_knowledge_edge after its lock and its refresh of the edge, when the
\* request changes the edge type.  Endpoints and scopes are immutable.
UpdateEdge(t, e, newType) ==
    LET new == [e EXCEPT !.type = newType]
        others == EdgesSeen(t) \ {e}
    IN  /\ stage[t] = "open"
        /\ added[t] = {} /\ drafted[t] = {}
        /\ lock[ScopeOf[e.source]] = t
        /\ e \in edges
        /\ \A u \in Txns : e \notin removed[u]
        /\ newType # e.type => new \notin others
        /\ newType \in OrderingTypes => ~ClosesCycle(others, e)
        /\ added' = [added EXCEPT ![t] = {new}]
        /\ removed' = [removed EXCEPT ![t] = {e}]
        /\ stage' = [stage EXCEPT ![t] = "updated"]
        /\ UNCHANGED <<nodes, edges, lock, drafted>>

\* delete_knowledge_edge and its commit, without the scope lock; a
\* transaction that is retyping the row makes the deletion wait.
DeleteEdge(e) ==
    /\ e \in edges
    /\ \A u \in Txns : e \notin removed[u]
    /\ edges' = edges \ {e}
    /\ UNCHANGED <<nodes, lock, stage, drafted, added, removed>>

\* Mutant: the routine looks for committed edges itself; no foreign key.
DeleteNodeUnguarded(n) ==
    /\ n \in nodes
    /\ \A e \in edges : ~Touches(e, n)
    /\ nodes' = nodes \ {n}
    /\ UNCHANGED <<edges, lock, stage, drafted, added, removed>>

\* delete_knowledge_node and its commit; the foreign keys of the edge table
\* refuse (or, for an uncommitted edge, block) a node that is referenced.
DeleteNode(n) ==
    /\ n \in nodes
    /\ \A e \in edges \cup InFlight : ~Touches(e, n)
    /\ nodes' = nodes \ {n}
    /\ UNCHANGED <<edges, lock, stage, drafted, added, removed>>

\* Mutant: the session is not reset for its next request.
EndUnreset(t) ==
    /\ stage[t] # "idle"
    /\ lock' = [s \in Scopes |-> IF lock[s] = t THEN NoTxn ELSE lock[s]]
    /\ stage' = [stage EXCEPT ![t] = "ended"]
    /\ UNCHANGED <<drafted, added, removed>>

\* The transaction ends: its locks and its uncommitted rows go.
End(t) ==
    /\ stage[t] # "idle"
    /\ lock' = [s \in Scopes |-> IF lock[s] = t THEN NoTxn ELSE lock[s]]
    /\ stage' = [stage EXCEPT ![t] = "idle"]
    /\ drafted' = [drafted EXCEPT ![t] = {}]
    /\ added' = [added EXCEPT ![t] = {}]
    /\ removed' = [removed EXCEPT ![t] = {}]

Commit(t) ==
    /\ End(t)
    /\ nodes' = NodesSeen(t)
    /\ edges' = EdgesSeen(t)

\* A refused edge, a lost client, or the victim of a database deadlock.
Rollback(t) ==
    /\ End(t)
    /\ UNCHANGED <<nodes, edges>>

TxnStep(t) ==
    \/ \E n \in Nodes : CreateNode(t, n)
    \/ \E s \in Scopes : AcquireEdgeScopeLock(t, s)
    \/ \E e \in Edges, ref \in BOOLEAN : CreateEdge(t, e, ref)
    \/ \E e \in Edges, ty \in EdgeTypes : UpdateEdge(t, e, ty)
    \/ Commit(t)
    \/ Rollback(t)

Next ==
    \/ \E t \in Txns : TxnStep(t)
    \/ \E e \in Edges : DeleteEdge(e)
    \/ \E n \in Nodes : DeleteNode(n)

Spec == Init /\ [][Next]_vars
-----------------------------------------------------------------------------
\* The committed ordering edges of every scope admit a learning order, however
\* the check-then-insert of concurrent creations and retypings interleaves
\* with each other and with unlocked deletions.
ScopeAcyclic == \A s \in Scopes : Acyclic(Ordering(edges, s))

\* No committed edge loses an endpoint, though nodes are deleted without the
\* scope lock an edge writer holds.
NoDanglingEdge == \A e \in edges : {e.source, e.target} \subseteq nodes

\* The graph as its readers see it: each commit is one valid authoring step.
Authored == INSTANCE AuthoredGraph WITH nodes <- nodes, edges <- edges
RefinesAuthoredGraph == Authored!Spec

\* What the comment on ORDERING_EDGE_TYPES promises of the whole graph: no
\* cycle among ordering edges, those that link the scopes included.
GraphAcyclic == Acyclic({e \in edges : e.type \in OrderingTypes})
=============================================================================
