------------------------ MODULE KnowledgeGraphProofs ------------------------
(***************************************************************************)
(* Concurrent authoring keeps every scope of the knowledge graph acyclic   *)
(* and every edge anchored, for any number of nodes, scopes and requests.  *)
(*                                                                         *)
(* Acyclicity of the committed graph is not inductive: a commit replaces   *)
(* it by what the transaction saw.  The strengthening GraphInv says what a *)
(* transaction owns while it holds a scope lock: its view of that scope is *)
(* acyclic, and only it has uncommitted edges there.  Others can meanwhile *)
(* only delete edges of the scope, and a subset of an acyclic graph is     *)
(* acyclic.                                                                *)
(*                                                                         *)
(* The transactions ask whether an edge closes a cycle in one step.  The   *)
(* second half proves that the loop of CycleSearch is right to answer so.  *)
(***************************************************************************)
EXTENDS KnowledgeGraph, CycleSearch, FiniteSetTheorems, SequenceTheorems, TLAPS

\* A cycle needs edges: removing some cannot create one.
LEMMA AcyclicSubset ==
    ASSUME NEW E, NEW F, F \subseteq E, Acyclic(E)
    PROVE  Acyclic(F)
BY DEF Acyclic

\* Fewer edges have fewer ordering edges.
LEMMA OrderingSubset ==
    ASSUME NEW E, NEW F, F \subseteq E, NEW s
    PROVE  Ordering(F, s) \subseteq Ordering(E, s)
BY DEF Ordering

\* An edge whose source cannot be reached from its target closes no cycle.
\* The closed set C that separates the two splits any set S of nodes: if S
\* meets C, a last node of S \cap C is a last node of S, because successors
\* of C stay in C and the new edge leaves from outside C.
LEMMA AcyclicAdd ==
    ASSUME NEW E, NEW e, Acyclic(E), ~Reaches(E, e.target, e.source)
    PROVE  Acyclic(E \cup {e})
<1>1. PICK C \in SUBSET Nodes :
          e.target \in C /\ Closed(C, E) /\ e.source \notin C
  BY DEF Reaches
<1> SUFFICES ASSUME NEW S \in (SUBSET Nodes) \ {{}}
             PROVE  \E x \in S : \A f \in E \cup {e} :
                        f.source = x => f.target \notin S
  BY DEF Acyclic
<1>2. CASE S \cap C # {}
  <2>1. S \cap C \in (SUBSET Nodes) \ {{}}
    BY <1>2
  <2>2. PICK x \in S \cap C : \A f \in E : f.source = x => f.target \notin S \cap C
    BY <2>1 DEF Acyclic
  <2>3. \A f \in E : f.source = x => f.target \notin S
    BY <1>1, <2>2 DEF Closed
  <2>4. e.source # x
    BY <1>1
  <2> QED
    BY <2>3, <2>4
<1>3. CASE S \cap C = {}
  <2>1. PICK x \in S : \A f \in E : f.source = x => f.target \notin S
    BY DEF Acyclic
  <2>2. e.target \notin S
    BY <1>1, <1>3
  <2> QED
    BY <2>1, <2>2
<1> QED
  BY <1>2, <1>3

\* The check of the repository is enough for the scope of the new edge, and
\* an edge of another type or scope leaves a scope's ordering as it was.
LEMMA CheckedAdd ==
    ASSUME NEW E, NEW e \in Edges, NEW s, Acyclic(Ordering(E, s)),
           e.type \in OrderingTypes => ~ClosesCycle(E, e)
    PROVE  Acyclic(Ordering(E \cup {e}, s))
<1>1. CASE e.type \in OrderingTypes /\ ScopeOf[e.source] = s
  <2>1. Ordering(E \cup {e}, s) = Ordering(E, s) \cup {e}
    BY <1>1 DEF Ordering
  <2>2. ~Reaches(Ordering(E, s), e.target, e.source)
    BY <1>1 DEF ClosesCycle
  <2> QED
    BY <2>1, <2>2, AcyclicAdd
<1>2. CASE ~(e.type \in OrderingTypes /\ ScopeOf[e.source] = s)
  <2>1. Ordering(E \cup {e}, s) = Ordering(E, s)
    BY <1>2 DEF Ordering
  <2> QED
    BY <2>1
<1> QED
  BY <1>1, <1>2
-----------------------------------------------------------------------------
\* Uncommitted edges belong to the holder of their scope's lock.
AddedUnderLock ==
    \A t \in Txns : \A e \in added[t] : lock[ScopeOf[e.source]] = t

\* The holder of a lock sees an acyclic scope.
SeenAcyclic ==
    \A t \in Txns, s \in Scopes : lock[s] = t => Acyclic(Ordering(EdgesSeen(t), s))

\* An uncommitted edge has its endpoints, committed or in its transaction.
AddedAnchored ==
    \A t \in Txns : \A e \in added[t] : {e.source, e.target} \subseteq NodesSeen(t)

NoLoop ==
    /\ \A e \in edges : e.source # e.target
    /\ \A t \in Txns : \A e \in added[t] : e.source # e.target

\* The edge t replaced is still there, and nobody else took its new identity.
Retyping(t) ==
    \E e \in edges, ty \in EdgeTypes :
        LET new == [e EXCEPT !.type = ty]
        IN  /\ removed[t] = {e} /\ added[t] = {new} /\ drafted[t] = {}
            /\ new \in edges => new = e

\* A transaction replaces one edge, as its last write, or none.
RetypeHeld ==
    \A t \in Txns : IF stage[t] = "updated" THEN Retyping(t) ELSE removed[t] = {}

\* Two transactions never replace the same edge.
RemovedApart ==
    \A t, u \in Txns : t # u => removed[t] \cap removed[u] = {}

GraphInv ==
    /\ TypeOK
    /\ ScopeAcyclic
    /\ NoDanglingEdge
    /\ AddedUnderLock
    /\ SeenAcyclic
    /\ AddedAnchored
    /\ NoLoop
    /\ RetypeHeld
    /\ RemovedApart

\* Whatever the step, the ordering of a scope held by t stays acyclic if t
\* sees no edge it did not see before.
LEMMA SeenShrinks ==
    ASSUME NEW E, NEW F, NEW s, F \subseteq E, Acyclic(Ordering(E, s))
    PROVE  Acyclic(Ordering(F, s))
BY OrderingSubset, AcyclicSubset

\* The empty graph satisfies the invariant.
LEMMA InitInv == Init => GraphInv
<1> SUFFICES ASSUME Init PROVE GraphInv
  OBVIOUS
<1>1. \A s \in Scopes : Acyclic(Ordering({}, s))
  BY DEF Acyclic, Ordering
<1>2. TypeOK
  BY DEF Init, TypeOK, Stages
<1>3. \A t \in Txns, s \in Scopes : lock[s] # t
  BY NoTxnAssumption DEF Init
<1> QED
  BY <1>1, <1>2, <1>3 DEF Init, GraphInv, ScopeAcyclic, NoDanglingEdge,
     AddedUnderLock, SeenAcyclic, AddedAnchored, NoLoop, RetypeHeld,
     RemovedApart

\* Each action preserves the invariant.
LEMMA CreateNodeInv ==
    ASSUME GraphInv, NEW t \in Txns, NEW n \in Nodes, CreateNode(t, n)
    PROVE  GraphInv'
<1>1. TypeOK'
  BY DEF GraphInv, TypeOK, Stages, CreateNode
<1>2. \A u \in Txns : EdgesSeen(u)' = EdgesSeen(u)
  BY DEF CreateNode, EdgesSeen
<1>3. \A u \in Txns : NodesSeen(u) \subseteq NodesSeen(u)'
  BY DEF GraphInv, TypeOK, CreateNode, NodesSeen
<1>4. SeenAcyclic'
  BY <1>2, Zenon DEF GraphInv, SeenAcyclic, CreateNode
<1>5. ScopeAcyclic'
  BY Zenon DEF GraphInv, ScopeAcyclic, CreateNode
<1>6. AddedAnchored'
  BY <1>3 DEF GraphInv, AddedAnchored, CreateNode
<1>7. RetypeHeld' /\ RemovedApart'
  BY DEF GraphInv, TypeOK, RetypeHeld, Retyping, RemovedApart, CreateNode
<1> QED
  BY <1>1, <1>4, <1>5, <1>6, <1>7 DEF GraphInv, CreateNode, NoDanglingEdge,
     AddedUnderLock, NoLoop

\* Taking a free scope lock: what its new owner sees is the committed graph.
LEMMA AcquireInv ==
    ASSUME GraphInv, NEW t \in Txns, NEW s \in Scopes, AcquireEdgeScopeLock(t, s)
    PROVE  GraphInv'
<1>1. TypeOK'
  BY DEF GraphInv, TypeOK, Stages, AcquireEdgeScopeLock
<1>2. AddedUnderLock'
  BY NoTxnAssumption DEF GraphInv, TypeOK, AddedUnderLock, AcquireEdgeScopeLock
<1>3. SeenAcyclic'
  <2> SUFFICES ASSUME NEW u \in Txns, NEW r \in Scopes, lock'[r] = u
               PROVE  Acyclic(Ordering(EdgesSeen(u), r))
    BY Zenon DEF SeenAcyclic, AcquireEdgeScopeLock, EdgesSeen
  <2>1. CASE r = s
    <3>1. u = t
      BY <2>1 DEF GraphInv, TypeOK, AcquireEdgeScopeLock
    <3>2. \A e \in added[t] : ScopeOf[e.source] # s
      BY NoTxnAssumption DEF GraphInv, AddedUnderLock, AcquireEdgeScopeLock
    <3>3. Ordering(EdgesSeen(t), s) \subseteq Ordering(edges, s)
      BY <3>2 DEF EdgesSeen, Ordering
    <3> QED
      BY <2>1, <3>1, <3>3, AcyclicSubset DEF GraphInv, ScopeAcyclic
  <2>2. CASE r # s
    BY <2>2 DEF GraphInv, TypeOK, SeenAcyclic, AcquireEdgeScopeLock
  <2> QED
    BY <2>1, <2>2
<1>4. ScopeAcyclic'
  BY Zenon DEF GraphInv, ScopeAcyclic, AcquireEdgeScopeLock
<1>5. RetypeHeld' /\ RemovedApart'
  BY DEF GraphInv, TypeOK, RetypeHeld, Retyping, RemovedApart, AcquireEdgeScopeLock
<1> QED
  BY <1>1, <1>2, <1>3, <1>4, <1>5 DEF GraphInv, AcquireEdgeScopeLock,
     NoDanglingEdge, AddedAnchored, NodesSeen, NoLoop

\* Inserting an edge under the lock, after the cycle check.
LEMMA CreateEdgeInv ==
    ASSUME GraphInv, NEW t \in Txns, NEW e \in Edges, NEW ref \in BOOLEAN,
           CreateEdge(t, e, ref)
    PROVE  GraphInv'
<1>1. TypeOK'
  BY DEF GraphInv, TypeOK, CreateEdge
<1>2. AddedUnderLock' /\ NoLoop'
  BY DEF GraphInv, TypeOK, AddedUnderLock, NoLoop, CreateEdge
<1>3. AddedAnchored'
  BY DEF GraphInv, TypeOK, AddedAnchored, NodesSeen, CreateEdge
<1>4. /\ EdgesSeen(t)' = EdgesSeen(t) \cup {e}
      /\ \A u \in Txns \ {t} : EdgesSeen(u)' = EdgesSeen(u)
  BY DEF GraphInv, TypeOK, EdgesSeen, CreateEdge
<1>5. SeenAcyclic'
  <2> SUFFICES ASSUME NEW u \in Txns, NEW r \in Scopes, lock[r] = u
               PROVE  Acyclic(Ordering(EdgesSeen(u)', r))
    BY Zenon DEF SeenAcyclic, CreateEdge
  <2>1. Acyclic(Ordering(EdgesSeen(u), r))
    BY DEF GraphInv, SeenAcyclic
  <2>2. CASE u = t
    <3>1. e.type \in OrderingTypes => ~ClosesCycle(EdgesSeen(t), e)
      BY Zenon DEF CreateEdge
    <3>2. Acyclic(Ordering(EdgesSeen(t) \cup {e}, r))
      BY <2>1, <2>2, <3>1, CheckedAdd
    <3> QED
      BY <1>4, <2>2, <3>2, Zenon
  <2>3. CASE u # t
    BY <1>4, <2>1, <2>3, Zenon
  <2> QED
    BY <2>2, <2>3
<1>6. ScopeAcyclic' /\ NoDanglingEdge'
  BY Zenon DEF GraphInv, ScopeAcyclic, NoDanglingEdge, CreateEdge
<1>7. RetypeHeld' /\ RemovedApart'
  BY DEF GraphInv, TypeOK, RetypeHeld, Retyping, RemovedApart, CreateEdge
<1> QED
  BY <1>1, <1>2, <1>3, <1>5, <1>6, <1>7 DEF GraphInv

\* Retyping an edge under the lock, after the cycle check without it.
LEMMA UpdateEdgeInv ==
    ASSUME GraphInv, NEW t \in Txns, NEW e \in Edges, NEW ty \in EdgeTypes,
           UpdateEdge(t, e, ty)
    PROVE  GraphInv'
<1> DEFINE new == [e EXCEPT !.type = ty]
           others == EdgesSeen(t) \ {e}
<1>1. /\ new \in Edges
      /\ new.source = e.source /\ new.target = e.target /\ new.type = ty
  BY DEF Edges
<1>2. /\ added' = [added EXCEPT ![t] = {new}]
      /\ removed' = [removed EXCEPT ![t] = {e}]
      /\ stage' = [stage EXCEPT ![t] = "updated"]
      /\ lock[ScopeOf[e.source]] = t
      /\ e \in edges
      /\ ty \in OrderingTypes => ~ClosesCycle(others, e)
      /\ UNCHANGED <<nodes, edges, lock, drafted>>
      /\ added[t] = {}
  BY DEF UpdateEdge
<1> HIDE DEF new
<1>3. TypeOK'
  BY <1>1, <1>2 DEF GraphInv, TypeOK, Stages
<1>4. AddedUnderLock' /\ NoLoop'
  BY <1>1, <1>2 DEF GraphInv, TypeOK, AddedUnderLock, NoLoop
<1>5. AddedAnchored'
  BY <1>1, <1>2 DEF GraphInv, TypeOK, AddedAnchored, NodesSeen, NoDanglingEdge
<1>6. /\ EdgesSeen(t)' = others \cup {new}
      /\ \A u \in Txns \ {t} : EdgesSeen(u)' = EdgesSeen(u)
  <2>1. removed[t] = {}
    BY DEF GraphInv, RetypeHeld, UpdateEdge
  <2> QED
    BY <1>2, <2>1 DEF GraphInv, TypeOK, EdgesSeen
<1>7. SeenAcyclic'
  <2> SUFFICES ASSUME NEW u \in Txns, NEW r \in Scopes, lock[r] = u
               PROVE  Acyclic(Ordering(EdgesSeen(u)', r))
    BY <1>2, Zenon DEF SeenAcyclic
  <2>1. Acyclic(Ordering(EdgesSeen(u), r))
    BY DEF GraphInv, SeenAcyclic
  <2>2. CASE u = t
    <3>1. Acyclic(Ordering(others, r))
      BY <2>1, <2>2, SeenShrinks
    <3>2. new.type \in OrderingTypes => ~ClosesCycle(others, new)
      BY <1>1, <1>2 DEF ClosesCycle
    <3>3. Acyclic(Ordering(others \cup {new}, r))
      BY <1>1, <3>1, <3>2, CheckedAdd
    <3> QED
      BY <1>6, <2>2, <3>3, Zenon
  <2>3. CASE u # t
    BY <1>6, <2>1, <2>3, Zenon
  <2> QED
    BY <2>2, <2>3
<1>8. ScopeAcyclic' /\ NoDanglingEdge'
  BY <1>2, Zenon DEF GraphInv, ScopeAcyclic, NoDanglingEdge
<1>9. RetypeHeld'
  <2>1. new \in edges => new = e
    <3>1. ty # e.type => new \notin others
      BY DEF UpdateEdge, new
    <3>2. removed[t] = {}
      BY DEF GraphInv, RetypeHeld, UpdateEdge
    <3>3. CASE ty = e.type
      BY <3>3 DEF new, Edges
    <3>4. CASE ty # e.type
      BY <3>1, <3>2, <3>4 DEF EdgesSeen
    <3> QED
      BY <3>3, <3>4
  <2>2. /\ stage'[t] = "updated" /\ removed'[t] = {e} /\ added'[t] = {new}
        /\ \A u \in Txns \ {t} : /\ stage'[u] = stage[u]
                                 /\ removed'[u] = removed[u]
                                 /\ added'[u] = added[u]
    BY <1>2 DEF GraphInv, TypeOK
  <2>3. Retyping(t)'
    BY <1>2, <2>1, <2>2 DEF Retyping, new, UpdateEdge
  <2>4. \A u \in Txns \ {t} : Retyping(u) => Retyping(u)'
    BY <1>2, <2>2 DEF Retyping
  <2> QED
    BY <2>2, <2>3, <2>4 DEF GraphInv, RetypeHeld
<1>10. RemovedApart'
  BY <1>2 DEF GraphInv, TypeOK, RemovedApart, UpdateEdge
<1> QED
  BY <1>3, <1>4, <1>5, <1>7, <1>8, <1>9, <1>10 DEF GraphInv

\* Deleting an edge without the lock only takes edges out of sight.
LEMMA DeleteEdgeInv ==
    ASSUME GraphInv, NEW e \in Edges, DeleteEdge(e)
    PROVE  GraphInv'
<1>1. /\ edges' = edges \ {e}
      /\ \A u \in Txns : e \notin removed[u]
      /\ UNCHANGED <<nodes, lock, stage, drafted, added, removed>>
  BY DEF DeleteEdge
<1>2. \A t \in Txns : EdgesSeen(t)' \subseteq EdgesSeen(t)
  BY <1>1 DEF EdgesSeen
<1>3. SeenAcyclic'
  BY <1>1, <1>2, SeenShrinks DEF GraphInv, SeenAcyclic
<1>4. ScopeAcyclic'
  BY <1>1, SeenShrinks DEF GraphInv, ScopeAcyclic
<1>5. RetypeHeld' /\ RemovedApart'
  BY <1>1 DEF GraphInv, RetypeHeld, Retyping, RemovedApart
<1>6. TypeOK' /\ NoDanglingEdge' /\ NoLoop' /\ AddedUnderLock' /\ AddedAnchored'
  BY <1>1 DEF GraphInv, TypeOK, NoDanglingEdge, NoLoop, AddedUnderLock,
     AddedAnchored, NodesSeen
<1> QED
  BY <1>3, <1>4, <1>5, <1>6 DEF GraphInv

\* Deleting a node: the foreign keys spare the endpoints of every edge,
\* uncommitted ones included.
LEMMA DeleteNodeInv ==
    ASSUME GraphInv, NEW n \in Nodes, DeleteNode(n)
    PROVE  GraphInv'
<1>1. /\ nodes' = nodes \ {n}
      /\ UNCHANGED <<edges, lock, stage, drafted, added, removed>>
  BY DEF DeleteNode
<1>2. /\ \A e \in edges : n \notin {e.source, e.target}
      /\ \A t \in Txns : \A e \in added[t] : n \notin {e.source, e.target}
  BY DEF DeleteNode, InFlight, Touches
<1>3. NoDanglingEdge' /\ AddedAnchored'
  BY <1>1, <1>2 DEF GraphInv, NoDanglingEdge, AddedAnchored, NodesSeen
<1>4. SeenAcyclic' /\ ScopeAcyclic'
  BY <1>1, Zenon DEF GraphInv, SeenAcyclic, ScopeAcyclic, EdgesSeen
<1>5. TypeOK' /\ NoLoop' /\ AddedUnderLock' /\ RetypeHeld' /\ RemovedApart'
  BY <1>1 DEF GraphInv, TypeOK, NoLoop, AddedUnderLock, RetypeHeld, Retyping,
     RemovedApart
<1> QED
  BY <1>3, <1>4, <1>5 DEF GraphInv

\* What ends with a transaction, committed or not: its locks and its rows.
\* The others keep theirs.
LEMMA EndFacts ==
    ASSUME GraphInv, NEW t \in Txns, End(t)
    PROVE  /\ stage'[t] = "idle" /\ drafted'[t] = {} /\ added'[t] = {} /\ removed'[t] = {}
           /\ \A u \in Txns \ {t} : /\ stage'[u] = stage[u]
                                    /\ drafted'[u] = drafted[u]
                                    /\ added'[u] = added[u]
                                    /\ removed'[u] = removed[u]
           /\ \A s \in Scopes, u \in Txns : lock'[s] = u <=> lock[s] = u /\ u # t
BY NoTxnAssumption DEF GraphInv, TypeOK, End

\* What the end of a transaction keeps, however the graph grew.
LEMMA EndInv ==
    ASSUME GraphInv, NEW t \in Txns, End(t),
           nodes \subseteq nodes', nodes' \subseteq Nodes
    PROVE  /\ lock' \in [Scopes -> Txns \cup {NoTxn}]
           /\ stage' \in [Txns -> Stages]
           /\ drafted' \in [Txns -> SUBSET Nodes]
           /\ added' \in [Txns -> SUBSET Edges]
           /\ removed' \in [Txns -> SUBSET Edges]
           /\ AddedUnderLock'
           /\ AddedAnchored'
           /\ RemovedApart'
<1>1. /\ lock' \in [Scopes -> Txns \cup {NoTxn}]
      /\ stage' \in [Txns -> Stages]
      /\ drafted' \in [Txns -> SUBSET Nodes]
      /\ added' \in [Txns -> SUBSET Edges]
      /\ removed' \in [Txns -> SUBSET Edges]
  BY DEF GraphInv, TypeOK, Stages, End
<1>2. AddedUnderLock'
  BY EndFacts, ScopeAssumption DEF GraphInv, TypeOK, AddedUnderLock, Edges
<1>3. AddedAnchored'
  BY EndFacts DEF GraphInv, AddedAnchored, NodesSeen
<1>4. RemovedApart'
  BY EndFacts DEF GraphInv, RemovedApart
<1> QED
  BY <1>1, <1>2, <1>3, <1>4

\* A rollback leaves the committed graph alone.
LEMMA RollbackInv ==
    ASSUME GraphInv, NEW t \in Txns, Rollback(t)
    PROVE  GraphInv'
<1>1. End(t) /\ nodes' = nodes /\ edges' = edges
  BY DEF Rollback
<1>2. /\ TypeOK' /\ AddedUnderLock' /\ AddedAnchored' /\ RemovedApart'
  BY <1>1, EndInv DEF GraphInv, TypeOK
<1>3. \A u \in Txns \ {t} : EdgesSeen(u)' = EdgesSeen(u)
  BY <1>1, EndFacts DEF EdgesSeen
<1>4. SeenAcyclic'
  BY <1>1, <1>3, EndFacts DEF GraphInv, SeenAcyclic
<1>5. RetypeHeld'
  <2>1. \A u \in Txns \ {t} : Retyping(u) => Retyping(u)'
    BY <1>1, EndFacts DEF Retyping
  <2> QED
    BY <1>1, <2>1, EndFacts DEF GraphInv, RetypeHeld
<1>6. NoLoop'
  BY <1>1, EndFacts DEF GraphInv, NoLoop
<1> QED
  BY <1>1, <1>2, <1>4, <1>5, <1>6 DEF GraphInv, ScopeAcyclic, NoDanglingEdge

\* A commit makes the graph the transaction saw the committed one.
LEMMA CommitInv ==
    ASSUME GraphInv, NEW t \in Txns, Commit(t)
    PROVE  GraphInv'
<1>1. End(t) /\ nodes' = nodes \cup drafted[t] /\ edges' = EdgesSeen(t)
  BY DEF Commit, NodesSeen
<1>2. /\ TypeOK' /\ AddedUnderLock' /\ AddedAnchored' /\ RemovedApart'
  BY <1>1, EndInv DEF GraphInv, TypeOK, EdgesSeen
<1>3. ScopeAcyclic'
  <2> SUFFICES ASSUME NEW s \in Scopes PROVE Acyclic(Ordering(EdgesSeen(t), s))
    BY <1>1, Zenon DEF ScopeAcyclic
  <2>1. CASE lock[s] = t
    BY <2>1 DEF GraphInv, SeenAcyclic
  <2>2. CASE lock[s] # t
    <3>1. Ordering(EdgesSeen(t), s) \subseteq Ordering(edges, s)
      BY <2>2 DEF GraphInv, AddedUnderLock, EdgesSeen, Ordering
    <3> QED
      BY <3>1, AcyclicSubset DEF GraphInv, ScopeAcyclic
  <2> QED
    BY <2>1, <2>2
<1>4. SeenAcyclic'
  <2> SUFFICES ASSUME NEW u \in Txns \ {t}, NEW s \in Scopes, lock[s] = u
               PROVE  Acyclic(Ordering(EdgesSeen(u)', s))
    BY <1>1, EndFacts DEF SeenAcyclic
  <2>1. \A e \in added[t] : ScopeOf[e.source] # s
    BY DEF GraphInv, AddedUnderLock
  <2>2. Ordering(EdgesSeen(u)', s) \subseteq Ordering(EdgesSeen(u), s)
    BY <1>1, <2>1, EndFacts DEF EdgesSeen, Ordering
  <2> QED
    BY <2>2, AcyclicSubset DEF GraphInv, SeenAcyclic
<1>5. RetypeHeld'
  <2>1. ASSUME NEW u \in Txns \ {t}, Retyping(u)
        PROVE  Retyping(u)'
    <3>1. PICK e \in edges, ty \in EdgeTypes :
              LET new == [e EXCEPT !.type = ty]
              IN  /\ removed[u] = {e} /\ added[u] = {new} /\ drafted[u] = {}
                  /\ new \in edges => new = e
      BY <2>1 DEF Retyping
    <3> DEFINE new == [e EXCEPT !.type = ty]
    <3>2. e \in edges'
      BY <1>1, <3>1 DEF GraphInv, RemovedApart, EdgesSeen
    <3>3. new \notin added[t]
      <4>1. lock[ScopeOf[new.source]] = u
        BY <3>1 DEF GraphInv, AddedUnderLock
      <4> QED
        BY <4>1 DEF GraphInv, AddedUnderLock
    <3>4. new \in edges' => new = e
      BY <1>1, <3>1, <3>3 DEF EdgesSeen
    <3> QED
      BY <1>1, <3>1, <3>2, <3>4, EndFacts DEF Retyping
  <2> QED
    BY <1>1, <2>1, EndFacts DEF GraphInv, RetypeHeld
<1>6. NoLoop'
  BY <1>1, EndFacts DEF GraphInv, NoLoop, EdgesSeen
<1>7. NoDanglingEdge'
  BY <1>1 DEF GraphInv, NoDanglingEdge, AddedAnchored, NodesSeen, EdgesSeen
<1> QED
  BY <1>2, <1>3, <1>4, <1>5, <1>6, <1>7 DEF GraphInv

\* Every step keeps the invariant.
LEMMA StepInv == GraphInv /\ [Next]_vars => GraphInv'
<1> SUFFICES ASSUME GraphInv, [Next]_vars PROVE GraphInv'
  OBVIOUS
<1>1. ASSUME NEW t \in Txns, TxnStep(t) PROVE GraphInv'
  BY <1>1, CreateNodeInv, AcquireInv, CreateEdgeInv, UpdateEdgeInv, CommitInv,
     RollbackInv DEF TxnStep
<1>2. CASE UNCHANGED vars
  BY <1>2 DEF vars, GraphInv, TypeOK, ScopeAcyclic, NoDanglingEdge,
     AddedUnderLock, SeenAcyclic, EdgesSeen, AddedAnchored, NodesSeen, NoLoop,
     RetypeHeld, Retyping, RemovedApart
<1> QED
  BY <1>1, <1>2, DeleteEdgeInv, DeleteNodeInv DEF Next

\* The invariant holds in every reachable state of the repository.
THEOREM GraphInvariant == Spec => []GraphInv
BY InitInv, StepInv, PTL DEF Spec

\* Every variable of the repository model keeps its type.
THEOREM TypeCorrect == Spec => []TypeOK
<1>1. GraphInv => TypeOK
  BY DEF GraphInv
<1> QED
  BY <1>1, GraphInvariant, PTL

\* However requests interleave, no scope ever commits a prerequisite cycle.
THEOREM NoCycleCommitted == Spec => []ScopeAcyclic
<1>1. GraphInv => ScopeAcyclic
  BY DEF GraphInv
<1> QED
  BY <1>1, GraphInvariant, PTL

\* No committed edge loses an endpoint to a concurrent node deletion.
THEOREM EdgesAnchored == Spec => []NoDanglingEdge
<1>1. GraphInv => NoDanglingEdge
  BY DEF GraphInv
<1> QED
  BY <1>1, GraphInvariant, PTL

\* The ordering edges between scopes all leave one of them.
OneWay ==
    \E s \in Scopes : \A e \in edges :
        e.type \in OrderingTypes /\ ScopeOf[e.source] # ScopeOf[e.target]
        => ScopeOf[e.source] = s

\* Graphs that are acyclic by scope are acyclic if their scopes are not linked
\* both ways.
LEMMA OneWayAcyclic ==
    ASSUME TypeOK, ScopeAcyclic, OneWay
    PROVE  GraphAcyclic
<1> DEFINE O == {e \in edges : e.type \in OrderingTypes}
<1>1. PICK s \in Scopes : \A e \in O :
          ScopeOf[e.source] # ScopeOf[e.target] => ScopeOf[e.source] = s
  BY DEF OneWay
<1>2. O \subseteq Edges /\ \A n \in Nodes : ScopeOf[n] \in Scopes
  BY ScopeAssumption DEF TypeOK
<1>3. \A r \in Scopes, e \in O : ScopeOf[e.source] = r => e \in Ordering(edges, r)
  BY DEF Ordering
<1> SUFFICES ASSUME NEW S \in (SUBSET Nodes) \ {{}}
             PROVE  \E x \in S : \A e \in O : e.source = x => e.target \notin S
  BY DEF GraphAcyclic, Acyclic
<1>4. CASE \A n \in S : ScopeOf[n] = s
  <2>1. PICK x \in S : \A e \in Ordering(edges, s) : e.source = x => e.target \notin S
    BY DEF ScopeAcyclic, Acyclic
  <2> QED
    BY <1>3, <1>4, <2>1
<1>5. CASE \E n \in S : ScopeOf[n] # s
  <2>1. PICK n \in S : ScopeOf[n] # s
    BY <1>5
  <2> DEFINE r == ScopeOf[n]
             T == {m \in S : ScopeOf[m] = r}
  <2>2. r \in Scopes /\ T \in (SUBSET Nodes) \ {{}}
    BY <1>2
  <2>3. PICK x \in T : \A e \in Ordering(edges, r) : e.source = x => e.target \notin T
    BY <2>2 DEF ScopeAcyclic, Acyclic
  <2>4. ASSUME NEW e \in O, e.source = x
        PROVE  e.target \notin S
    <3>1. ScopeOf[e.source] = r /\ r # s
      BY <2>1, <2>4
    <3>2. ScopeOf[e.target] = r
      BY <1>1, <3>1
    <3>3. e.target \notin T
      BY <1>3, <2>2, <2>3, <2>4, <3>1
    <3> QED
      BY <3>2, <3>3
  <2> QED
    BY <2>3, <2>4
<1> QED
  BY <1>4, <1>5

\* A cycle among all ordering edges, which no check sees, needs edges between
\* scopes in both directions: curriculum edges that only leave the personal
\* scope are safe.
THEOREM CycleNeedsBothWays == Spec => [](OneWay => GraphAcyclic)
<1>1. GraphInv => (OneWay => GraphAcyclic)
  BY OneWayAcyclic DEF GraphInv
<1> QED
  BY <1>1, GraphInvariant, PTL
-----------------------------------------------------------------------------
\* The abstract graph reads the same definitions, so the invariant makes every
\* reached graph valid.
LEMMA AuthoredValid ==
    ASSUME GraphInv'
    PROVE  Authored!Valid(nodes', edges')
BY DEF GraphInv, NoDanglingEdge, NoLoop, ScopeAcyclic, Acyclic, Ordering,
   Authored!Valid, Authored!Acyclic, Authored!Ordering

\* A commit is one authoring step: a batch of creations, or one retyping.
LEMMA CommitAuthors ==
    ASSUME GraphInv, GraphInv', NEW t \in Txns, Commit(t)
    PROVE  [Authored!Next]_<<nodes, edges>>
<1>1. nodes' = nodes \cup drafted[t] /\ edges' = (edges \ removed[t]) \cup added[t]
  BY DEF Commit, NodesSeen, EdgesSeen
<1>2. Authored!Valid(nodes', edges')
  BY AuthoredValid
<1>3. CASE stage[t] # "updated"
  <2>1. removed[t] = {}
    BY <1>3 DEF GraphInv, RetypeHeld
  <2>2. Authored!Author
    BY <1>1, <1>2, <2>1 DEF Authored!Author
  <2> QED
    BY <2>2 DEF Authored!Next
<1>4. CASE stage[t] = "updated"
  <2>1. Retyping(t)
    BY <1>4 DEF GraphInv, RetypeHeld
  <2>2. PICK e \in edges, ty \in EdgeTypes :
            LET new == [e EXCEPT !.type = ty]
            IN  /\ removed[t] = {e} /\ added[t] = {new} /\ drafted[t] = {}
                /\ new \in edges => new = e
    BY <2>1 DEF Retyping
  <2> DEFINE new == [e EXCEPT !.type = ty]
  <2>3. nodes' = nodes /\ edges' = (edges \ {e}) \cup {new}
    BY <1>1, <2>2
  <2>4. CASE new = e
    BY <2>3, <2>4
  <2>5. CASE new # e
    <3>1. new \notin edges
      BY <2>2, <2>5
    <3>2. Authored!Retype
      BY <1>2, <2>3, <3>1 DEF Authored!Retype
    <3> QED
      BY <3>2 DEF Authored!Next
  <2> QED
    BY <2>4, <2>5
<1> QED
  BY <1>3, <1>4

\* Every step maps to a step of the authored graph, or to a stutter.
LEMMA StepAuthors ==
    ASSUME GraphInv, GraphInv', [Next]_vars
    PROVE  [Authored!Next]_<<nodes, edges>>
<1>1. ASSUME NEW t \in Txns, TxnStep(t)
      PROVE  [Authored!Next]_<<nodes, edges>>
  <2>1. CASE Commit(t)
    BY <2>1, CommitAuthors
  <2>2. CASE UNCHANGED <<nodes, edges>>
    BY <2>2
  <2> QED
    BY <1>1, <2>1, <2>2 DEF TxnStep, CreateNode, AcquireEdgeScopeLock,
       CreateEdge, UpdateEdge, Rollback
<1>2. ASSUME NEW e \in Edges, DeleteEdge(e)
      PROVE  [Authored!Next]_<<nodes, edges>>
  BY <1>2 DEF DeleteEdge, Authored!Next, Authored!RemoveEdge
<1>3. ASSUME NEW n \in Nodes, DeleteNode(n)
      PROVE  [Authored!Next]_<<nodes, edges>>
  <2>1. Authored!Valid(nodes', edges)
    BY <1>3, AuthoredValid DEF DeleteNode
  <2> QED
    BY <1>3, <2>1 DEF DeleteNode, Authored!Next, Authored!RemoveNode
<1>4. CASE UNCHANGED vars
  BY <1>4 DEF vars
<1> QED
  BY <1>1, <1>2, <1>3, <1>4 DEF Next

\* The transactional repository implements the graph of whole, valid
\* authoring steps: no reader sees part of a request, and none sees a cycle.
THEOREM ImplementsAuthoredGraph == Spec => RefinesAuthoredGraph
<1>1. Init => Authored!Init
  BY DEF Init, Authored!Init
<1>2. GraphInv /\ GraphInv' /\ [Next]_vars => [Authored!Next]_<<nodes, edges>>
  BY StepAuthors
<1> QED
  BY <1>1, <1>2, GraphInvariant, PTL DEF Spec, Authored!Spec, RefinesAuthoredGraph
-----------------------------------------------------------------------------
\* A node reached through one more edge is reachable.
LEMMA ReachesStep ==
    ASSUME NEW E, E \subseteq Edges, NEW x \in Nodes, NEW e \in E,
           Reaches(E, x, e.source)
    PROVE  Reaches(E, x, e.target)
BY DEF Reaches, Closed

\* What popping the stack leaves, and what it takes.
LEMMA PopStack ==
    ASSUME stack \in Seq(Nodes), stack # <<>>
    PROVE  /\ Top \in Nodes
           /\ Popped \in Seq(Nodes)
           /\ Found = {Popped[k] : k \in DOMAIN Popped} \cup {Top}
<1>1. Len(stack) \in Nat \ {0} /\ DOMAIN stack = 1..Len(stack)
  OBVIOUS
<1>2. /\ Popped \in Seq(Nodes)
      /\ Len(Popped) = Len(stack) - 1
      /\ \A k \in 1..Len(stack) - 1 : Popped[k] = stack[k]
  BY <1>1 DEF Popped
<1>3. DOMAIN Popped = 1..Len(stack) - 1
  BY <1>2
<1>4. Top \in Nodes
  BY <1>1 DEF Top
<1>5. Found = {Popped[k] : k \in DOMAIN Popped} \cup {Top}
  BY <1>1, <1>2, <1>3 DEF Found, Top
<1> QED
  BY <1>2, <1>4, <1>5

\* The adjacency list of a node holds the targets of its rows, no others.
LEMMA AdjacencyHoldsTargets ==
    ASSUME rows \subseteq Edges, IsFiniteSet(rows), NEW n \in Nodes,
           NEW s \in Adjacency(n)
    PROVE  /\ s \in Seq(Nodes)
           /\ {s[k] : k \in DOMAIN s} = {e.target : e \in Out(n)}
<1> DEFINE len == Cardinality(Out(n))
<1>0. len \in Nat
  BY FS_Subset, FS_CardinalityType DEF Out
<1>1. PICK f \in [1..len -> Out(n)] :
          /\ \A e \in Out(n) : \E k \in DOMAIN f : f[k] = e
          /\ s = [k \in 1..len |-> f[k].target]
  BY DEF Adjacency
<1>2. \A k \in 1..len : f[k] \in Out(n) /\ f[k].target \in Nodes
  BY <1>1 DEF Out, Edges
<1>3. s \in [1..len -> Nodes]
  BY <1>1, <1>2
<1>4. s \in Seq(Nodes)
  BY <1>0, <1>3
<1>5. {s[k] : k \in DOMAIN s} = {e.target : e \in Out(n)}
  BY <1>1, <1>2
<1> QED
  BY <1>4, <1>5

\* The elements of a concatenation.
LEMMA ConcatElements ==
    ASSUME NEW p \in Seq(Nodes), NEW q \in Seq(Nodes)
    PROVE  {(p \o q)[k] : k \in DOMAIN (p \o q)}
             = {p[k] : k \in DOMAIN p} \cup {q[k] : k \in DOMAIN q}
<1> DEFINE r == p \o q
<1>1. /\ Len(r) = Len(p) + Len(q) /\ Len(p) \in Nat /\ Len(q) \in Nat
      /\ DOMAIN r = 1..Len(p) + Len(q)
      /\ DOMAIN p = 1..Len(p) /\ DOMAIN q = 1..Len(q)
  OBVIOUS
<1>2. \A k \in 1..Len(p) : k \in DOMAIN r /\ r[k] = p[k]
  BY <1>1
<1>3. \A k \in 1..Len(q) : Len(p) + k \in DOMAIN r /\ r[Len(p) + k] = q[k]
  BY <1>1
<1>4. \A k \in DOMAIN r : k \in DOMAIN p \/ \E j \in DOMAIN q : k = Len(p) + j
  <2> SUFFICES ASSUME NEW k \in DOMAIN r, k \notin DOMAIN p
               PROVE  \E j \in DOMAIN q : k = Len(p) + j
    OBVIOUS
  <2>1. k - Len(p) \in DOMAIN q /\ k = Len(p) + (k - Len(p))
    BY <1>1
  <2> QED
    BY <2>1
<1> HIDE DEF r
<1>5. {r[k] : k \in DOMAIN r} = {p[k] : k \in DOMAIN p} \cup {q[k] : k \in DOMAIN q}
  BY <1>1, <1>2, <1>3, <1>4
<1> QED
  BY <1>5 DEF r

\* The empty stack holds nothing.
LEMMA EmptyHasNoElement ==
    ASSUME NEW s \in Seq(Nodes), s = <<>>
    PROVE  \A k \in DOMAIN s : FALSE
<1>1. Len(s) = 0 /\ DOMAIN s = 1..Len(s)
  BY EmptySeq, LenProperties
<1> QED
  BY <1>1

\* A closed set that holds the start but not the end refutes reachability.
LEMMA ClosedRefutes ==
    ASSUME NEW E, NEW C \in SUBSET Nodes, NEW x \in C, NEW y,
           Closed(C, E), y \notin C
    PROVE  ~Reaches(E, x, y)
BY DEF Reaches

\* The search starts with its invariant: its target is on the stack.
THEOREM SearchStarts == SearchInit => SearchInv
<1> SUFFICES ASSUME SearchInit PROVE SearchInv
  OBVIOUS
<1>1. stack = <<target>> /\ target \in Nodes /\ visited = {}
  BY DEF SearchInit
<1>2. stack \in Seq(Nodes) /\ stack # <<>> /\ Found = {target}
  BY <1>1 DEF Found
<1>3. SearchTypeOK
  BY <1>1, <1>2 DEF SearchInit, SearchTypeOK
<1>4. Reaches(rows, target, target)
  BY DEF Reaches
<1> QED
  BY <1>1, <1>2, <1>3, <1>4 DEF SearchInit, SearchInv

\* Every iteration of the loop, whatever the rows and their order, keeps the
\* invariant of the search.
THEOREM SearchStep == SearchInv /\ [SearchNext]_searchVars => SearchInv'
<1> SUFFICES ASSUME SearchInv, [SearchNext]_searchVars PROVE SearchInv'
  OBVIOUS
<1> USE DEF SearchInv
<1>1. CASE Exhausted
  <2>1. visited' = visited /\ stack' = stack /\ Found' = Found
    BY <1>1 DEF Exhausted, Found
  <2> QED
    BY <1>1, <2>1 DEF Exhausted, SearchTypeOK, input
<1>2. CASE FoundSource
  <2>1. /\ Top \in Nodes /\ Popped \in Seq(Nodes) /\ Top \in Found
        /\ Found' \subseteq Found
    BY <1>2, PopStack DEF FoundSource, SearchTypeOK, Found
  <2> QED
    BY <1>2, <2>1 DEF FoundSource, SearchTypeOK, input
<1>3. CASE SkipVisited
  <2>1. /\ Popped \in Seq(Nodes)
        /\ Found' \cup {Top} = Found
    BY <1>3, PopStack DEF SkipVisited, SearchTypeOK, Found
  <2>2. visited' \cup Found' = visited \cup Found
    BY <1>3, <2>1 DEF SkipVisited
  <2> QED
    BY <1>3, <2>1, <2>2 DEF SkipVisited, SearchTypeOK, input
<1>4. CASE Visit
  <2>1. PICK s \in Adjacency(Top) : stack' = Popped \o s
    BY <1>4 DEF Visit
  <2>2. /\ Top \in Nodes /\ Popped \in Seq(Nodes)
        /\ Found = {Popped[k] : k \in DOMAIN Popped} \cup {Top}
    BY <1>4, PopStack DEF Visit, SearchTypeOK
  <2>3. /\ s \in Seq(Nodes)
        /\ {s[k] : k \in DOMAIN s} = {e.target : e \in Out(Top)}
    BY <2>1, <2>2, AdjacencyHoldsTargets DEF SearchTypeOK
  <2> DEFINE p == Popped
  <2> HIDE DEF p
  <2>4. stack' = p \o s /\ p \in Seq(Nodes)
    BY <2>1, <2>2 DEF p
  <2>5. stack' \in Seq(Nodes)
    BY <2>4, <2>3, ConcatProperties
  <2>6. Found' = {(p \o s)[k] : k \in DOMAIN (p \o s)}
    BY <2>4, Zenon DEF Found
  <2>7. Found' = {p[k] : k \in DOMAIN p} \cup {s[k] : k \in DOMAIN s}
    BY <2>4, <2>6, <2>3, ConcatElements, Zenon
  <2>8. Found' = {Popped[k] : k \in DOMAIN Popped} \cup {s[k] : k \in DOMAIN s}
    BY <2>7 DEF p
  <2>9. visited' \cup Found' = visited \cup Found \cup {e.target : e \in Out(Top)}
    BY <1>4, <2>2, <2>3, <2>8 DEF Visit
  <2>10. SearchTypeOK'
    BY <1>4, <2>2, <2>5 DEF Visit, SearchTypeOK, input
  <2>11. \A e \in rows : e.source \in visited' => e.target \in visited' \cup Found'
    BY <1>4, <2>9 DEF Visit, Out
  <2>12. \A n \in visited' \cup Found' : Reaches(rows, target, n)
    <3>1. Reaches(rows, target, Top)
      BY <2>2
    <3>2. \A e \in Out(Top) : Reaches(rows, target, e.target)
      BY <3>1, ReachesStep DEF Out, SearchTypeOK
    <3> QED
      BY <2>9, <3>2
  <2> QED
    BY <1>4, <2>9, <2>10, <2>11, <2>12 DEF Visit, input
<1>5. CASE UNCHANGED searchVars
  BY <1>5 DEF searchVars, input, SearchTypeOK, Found
<1> QED
  BY <1>1, <1>2, <1>3, <1>4, <1>5 DEF SearchNext

\* The answer follows from the invariant: an exhausted search leaves a closed
\* set of visited nodes without the source.
THEOREM SearchInvImpliesAnswer == SearchInv => AnswerIsReachability
<1> SUFFICES ASSUME SearchInv, answer = "no cycle"
             PROVE  ~Reaches(rows, target, source)
  BY DEF SearchInv, AnswerIsReachability
<1>0. stack = <<>> /\ stack \in Seq(Nodes)
  BY DEF SearchInv, SearchTypeOK
<1>1. Found = {}
  BY <1>0, EmptyHasNoElement, Zenon DEF Found
<1>2. target \in visited /\ source \notin visited /\ visited \in SUBSET Nodes
  BY <1>1 DEF SearchInv, SearchTypeOK
<1>3. Closed(visited, rows)
  BY <1>1 DEF SearchInv, Closed
<1> QED
  BY <1>2, <1>3, ClosedRefutes

\* For every graph, source and target, the answer of the search in
\* _ordering_edge_closes_cycle is whether the source is reachable.
THEOREM SearchCorrect == SearchSpec => []AnswerIsReachability
<1>1. SearchInit => SearchInv
  BY SearchStarts
<1>2. SearchInv /\ [SearchNext]_searchVars => SearchInv'
  BY SearchStep
<1>3. SearchInv => AnswerIsReachability
  BY SearchInvImpliesAnswer
<1> QED
  BY <1>1, <1>2, <1>3, PTL DEF SearchSpec

\* The loop answers what the transactions of KnowledgeGraph ask: over the rows
\* loaded for a proposed edge, it says whether the edge closes a cycle.
THEOREM SearchDecidesCycles ==
    SearchSpec =>
        [](\A E \in SUBSET Edges, e \in Edges :
              /\ rows = Ordering(E, ScopeOf[e.source])
              /\ source = e.source /\ target = e.target
              /\ answer # "searching"
              => (answer = "cycle" <=> ClosesCycle(E, e)))
<1>1. SearchInv /\ AnswerIsReachability =>
         \A E \in SUBSET Edges, e \in Edges :
            /\ rows = Ordering(E, ScopeOf[e.source])
            /\ source = e.source /\ target = e.target
            /\ answer # "searching"
            => (answer = "cycle" <=> ClosesCycle(E, e))
  BY DEF SearchInv, SearchTypeOK, AnswerIsReachability, ClosesCycle
<1> QED
  BY <1>1, SearchStarts, SearchStep, SearchCorrect, PTL DEF SearchSpec

\* The rows the search has loaded keep a learning order if an edge that it
\* lets in is added to them.
THEOREM LetInKeepsOrder ==
    SearchSpec =>
        [](answer = "no cycle" /\ Acyclic(rows) =>
              \A e \in Edges : e.source = source /\ e.target = target => Acyclic(rows \cup {e}))
<1>1. AnswerIsReachability =>
         (answer = "no cycle" /\ Acyclic(rows) =>
             \A e \in Edges : e.source = source /\ e.target = target => Acyclic(rows \cup {e}))
  BY AcyclicAdd DEF AnswerIsReachability
<1> QED
  BY <1>1, SearchCorrect, PTL
-----------------------------------------------------------------------------
\* What the search can come to, and what of it is still ahead.
Candidates == {target} \cup {e.target : e \in rows}
Ahead == Candidates \ visited

\* An iteration ends the search, visits one more of finitely many candidates,
\* or shortens the stack.
Progress ==
    \/ answer' # "searching"
    \/ Cardinality(Ahead') < Cardinality(Ahead)
    \/ Ahead' = Ahead /\ Len(stack') < Len(stack)

\* Both measures count down from a natural number.
LEMMA MeasuresCount ==
    ASSUME SearchTypeOK
    PROVE  IsFiniteSet(Ahead) /\ Cardinality(Ahead) \in Nat /\ Len(stack) \in Nat
<1>1. IsFiniteSet({e.target : e \in rows})
  <2> DEFINE T == {e.target : e \in rows}
             f == [e \in rows |-> e.target]
  <2>1. f \in Surjection(rows, T)
    BY DEF Surjection
  <2> HIDE DEF f, T
  <2>2. IsFiniteSet(T)
    BY <2>1, FS_Surjection DEF SearchTypeOK
  <2> QED
    BY <2>2 DEF T
<1>2. IsFiniteSet(Candidates)
  BY <1>1, FS_AddElement DEF Candidates
<1>3. IsFiniteSet(Ahead) /\ Cardinality(Ahead) \in Nat
  BY <1>2, FS_Subset, FS_CardinalityType DEF Ahead
<1> QED
  BY <1>3, LenProperties DEF SearchTypeOK

\* The stack holds candidates only.
StackCandidates == Found \subseteq Candidates

LEMMA StepCandidates ==
    ASSUME SearchInv, StackCandidates, [SearchNext]_searchVars
    PROVE  StackCandidates'
<1>1. CASE Exhausted \/ UNCHANGED searchVars
  BY <1>1 DEF Exhausted, searchVars, input, StackCandidates, Found, Candidates
<1>2. CASE FoundSource \/ SkipVisited
  <2>1. /\ Found = {Popped[k] : k \in DOMAIN Popped} \cup {Top}
        /\ stack' = Popped /\ rows' = rows /\ target' = target
    BY <1>2, PopStack DEF FoundSource, SkipVisited, input, SearchInv, SearchTypeOK
  <2> QED
    BY <2>1 DEF StackCandidates, Found, Candidates
<1>3. CASE Visit
  <2>1. PICK s \in Adjacency(Top) : stack' = Popped \o s
    BY <1>3 DEF Visit
  <2>2. /\ Top \in Nodes /\ Popped \in Seq(Nodes)
        /\ Found = {Popped[k] : k \in DOMAIN Popped} \cup {Top}
    BY <1>3, PopStack DEF Visit, SearchInv, SearchTypeOK
  <2>3. s \in Seq(Nodes) /\ {s[k] : k \in DOMAIN s} = {e.target : e \in Out(Top)}
    BY <2>1, <2>2, AdjacencyHoldsTargets DEF SearchInv, SearchTypeOK
  <2> DEFINE p == Popped
  <2> HIDE DEF p
  <2>4. stack' = p \o s /\ p \in Seq(Nodes)
    BY <2>1, <2>2 DEF p
  <2>5. Found' = {(p \o s)[k] : k \in DOMAIN (p \o s)}
    BY <2>4, Zenon DEF Found
  <2>6. Found' = {p[k] : k \in DOMAIN p} \cup {s[k] : k \in DOMAIN s}
    BY <2>3, <2>4, <2>5, ConcatElements, Zenon
  <2>7. Found' \subseteq Candidates
    BY <2>2, <2>3, <2>6 DEF p, StackCandidates, Candidates, Out
  <2>8. Candidates' = Candidates
    BY <1>3 DEF Visit, input, Candidates
  <2> QED
    BY <2>7, <2>8 DEF StackCandidates
<1> QED
  BY <1>1, <1>2, <1>3 DEF SearchNext

\* Every iteration of the loop counts down a measure that cannot go on for
\* ever, so that a search of any finite graph, cycles and all, has an end: the
\* safety half of SearchEnds.
THEOREM SearchProgresses == SearchSpec => [][Progress]_searchVars
<1>1. SearchInit => StackCandidates
  <2> SUFFICES ASSUME SearchInit PROVE StackCandidates
    OBVIOUS
  <2>1. Found = {target}
    BY DEF SearchInit, Found
  <2> QED
    BY <2>1 DEF StackCandidates, Candidates
<1>2. SearchInv /\ StackCandidates /\ [SearchNext]_searchVars => [Progress]_searchVars
  <2> SUFFICES ASSUME SearchInv, StackCandidates, SearchNext PROVE Progress
    OBVIOUS
  <2>1. CASE Exhausted \/ FoundSource
    BY <2>1 DEF Exhausted, FoundSource, Progress
  <2>2. CASE SkipVisited
    <3>1. Ahead' = Ahead
      BY <2>2 DEF SkipVisited, input, Ahead, Candidates
    <3>2. Len(stack') < Len(stack)
      <4>1. stack \in Seq(Nodes) /\ stack # <<>> /\ stack' = Popped
        BY <2>2 DEF SkipVisited, SearchInv, SearchTypeOK
      <4>2. Len(stack) \in Nat \ {0} /\ DOMAIN stack = 1..Len(stack)
        BY <4>1
      <4>3. Popped \in Seq(Nodes)
        BY <4>1, PopStack
      <4>4. Len(Popped) = Len(stack) - 1
        BY <4>1, <4>2, <4>3 DEF Popped
      <4> QED
        BY <4>1, <4>2, <4>4
    <3> QED
      BY <3>1, <3>2 DEF Progress
  <2>3. CASE Visit
    <3>1. Top \in Ahead
      <4>1. Top \in Found
        BY <2>3, PopStack DEF Visit, SearchInv, SearchTypeOK
      <4> QED
        BY <2>3, <4>1 DEF Visit, StackCandidates, Ahead
    <3>2. Ahead' = Ahead \ {Top}
      BY <2>3 DEF Visit, input, Ahead, Candidates
    <3>3. IsFiniteSet(Ahead) /\ Cardinality(Ahead) \in Nat
      BY MeasuresCount DEF SearchInv
    <3>4. Cardinality(Ahead') = Cardinality(Ahead) - 1
      BY <3>1, <3>2, <3>3, FS_RemoveElement
    <3> QED
      BY <3>3, <3>4 DEF Progress
  <2> QED
    BY <2>1, <2>2, <2>3 DEF SearchNext
<1> QED
  BY <1>1, <1>2, StepCandidates, SearchStarts, SearchStep, PTL DEF SearchSpec
=============================================================================
