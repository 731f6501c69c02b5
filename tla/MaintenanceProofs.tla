-------------------------- MODULE MaintenanceProofs --------------------------
(***************************************************************************)
(* The cap on pending drafts and the finality of a discard hold for any    *)
(* items, requests, tiers and cap.  The cap is not inductive by itself: a  *)
(* reservation counts for the drafts its transaction has yet to insert,    *)
(* and only one transaction holds the learner row.                         *)
(*                                                                         *)
(* The life cycle rests on a second invariant: as long as no other request *)
(* has changed the status of its items, what a request decided fits them.  *)
(***************************************************************************)
EXTENDS Maintenance, FiniteSetTheorems, TLAPS

Inserting(t) == txn[t] # Idle /\ txn[t].stage = "insert"
Admitting(t) == Inserting(t) /\ txn[t].status = "draft"

\* A batch is of new items, which no other batch inserts.
Fresh ==
    /\ \A t \in Txns : Inserting(t) =>
          txn[t].items \subseteq With("none") /\ txn[t].status \in {"draft", "active"}
    /\ \A t, u \in Txns :
          t # u /\ Inserting(t) /\ Inserting(u) => txn[t].items \cap txn[u].items = {}

\* Every other request is about stored or discarded items, and it neither
\* inserts an item nor makes one a draft.
Known ==
    \A t \in Txns : txn[t] # Idle /\ ~Inserting(t) =>
        /\ txn[t].items \cap With("none") = {}
        /\ txn[t].status \in {Keep, "active", "retired"}

\* A reservation holds the learner row, and its batch fits.
Reserved ==
    \A t \in Txns : Admitting(t) =>
        /\ lock = t
        /\ Cardinality(LiveDrafts) + Cardinality(txn[t].items) <= Cap

IInv == TypeOK /\ Fresh /\ Known /\ Reserved /\ PendingCapped /\ DiscardIsFinal

\* A request that nobody overtook approves or discards drafts, and retires
\* drafts and active items.
Fits(r) ==
    /\ r.status = "active" \/ r.stage = "discard" => r.items \subseteq With("draft")
    /\ r.status = "retired" => r.items \subseteq With("draft") \cup With("active")

LoadedFits ==
    \A t \in Txns : txn[t] # Idle /\ ~Inserting(t) /\ t \notin overtaken => Fits(txn[t])
-----------------------------------------------------------------------------
\* An idle request has decided nothing.
LEMMA IdleIsNotPending == \A r \in Pending : r # Idle
  <1> SUFFICES ASSUME NEW r \in Pending PROVE r # Idle
    OBVIOUS
  <1>1. r.stage # "idle"
    BY DEF Pending
  <1>2. Idle.stage = "idle"
    BY DEF Idle
  <1> QED
    BY <1>1, <1>2

\* The drafts that wait can be counted.
LEMMA LiveFinite ==
    ASSUME TypeOK
    PROVE  /\ LiveDrafts \subseteq Items
           /\ IsFiniteSet(LiveDrafts)
           /\ Cardinality(LiveDrafts) \in Nat
  <1>1. LiveDrafts \subseteq Items
    BY DEF LiveDrafts, With
  <1> QED
    BY <1>1, ItemsAssumption, FS_Subset, FS_CardinalityType

\* The items of a request can be counted.
LEMMA BatchFinite ==
    ASSUME TypeOK, NEW t \in Txns, txn[t] # Idle
    PROVE  /\ txn[t] \in Pending
           /\ txn[t].items \subseteq Items
           /\ IsFiniteSet(txn[t].items)
           /\ Cardinality(txn[t].items) \in Nat
  <1>1. txn[t] \in Pending
    BY DEF TypeOK
  <1>2. txn[t].items \subseteq Items
    BY <1>1 DEF Pending
  <1> QED
    BY <1>1, <1>2, ItemsAssumption, FS_Subset, FS_CardinalityType

\* Fewer drafts wait after a step that adds none.
LEMMA NoMoreDrafts ==
    ASSUME TypeOK, LiveDrafts' \subseteq LiveDrafts
    PROVE  /\ Cardinality(LiveDrafts') \in Nat
           /\ Cardinality(LiveDrafts') <= Cardinality(LiveDrafts)
  BY LiveFinite, FS_Subset, FS_CardinalityType

\* Only requests that go on can be overtaken.
LEMMA EndOvertakes ==
    ASSUME TypeOK, NEW t \in Txns, End(t)
    PROVE  /\ overtaken' \subseteq {u \in Txns : txn'[u] # Idle}
           /\ txn' \in [Txns -> Pending \cup {Idle}]
  BY DEF End, InFlight, TypeOK

\* A request that has loaded what it decides on leaves the stored state alone.
LEMMA BeginKeeps ==
    ASSUME IInv, NEW t \in Txns, NEW r \in Pending, Begin(t, r),
           lock' = lock \/ (lock = NoTxn /\ lock' = t),
           r.stage = "insert" => r.items \subseteq NewIds /\ r.status \in {"draft", "active"},
           r.stage = "insert" /\ r.status = "draft" =>
              /\ lock = NoTxn /\ lock' = t
              /\ Cardinality(LiveDrafts) + Cardinality(r.items) <= Cap,
           r.stage # "insert" =>
              /\ r.items \cap With("none") = {}
              /\ r.status \in {Keep, "active", "retired"}
    PROVE  IInv'
  <1> USE DEF IInv
  <1>0. /\ UNCHANGED <<status, lapsed, tier, card, rejections, overtaken>>
        /\ txn' = [txn EXCEPT ![t] = r]
        /\ txn[t] = Idle
        /\ r # Idle
    BY IdleIsNotPending DEF Begin
  <1>a. txn'[t] = r /\ \A u \in Txns : u # t => txn'[u] = txn[u]
    BY <1>0 DEF TypeOK
  <1>b. LiveDrafts' = LiveDrafts /\ \A s : With(s)' = With(s)
    BY <1>0 DEF LiveDrafts, With
  <1>c. \A u \in Txns : u # t => (Inserting(u)' <=> Inserting(u)) /\ (Admitting(u)' <=> Admitting(u))
    BY <1>a DEF Inserting, Admitting
  <1>d. (Inserting(t)' <=> r.stage = "insert") /\ (Admitting(t)' <=> r.stage = "insert" /\ r.status = "draft")
    BY <1>a, <1>0 DEF Inserting, Admitting
  <1>1. TypeOK'
    <2>1. overtaken' \subseteq {u \in Txns : txn'[u] # Idle}
      BY <1>0, <1>a DEF TypeOK
    <2> QED
      BY <1>0, <2>1 DEF TypeOK
  <1>2. Fresh'
    <2>1. ASSUME NEW u \in Txns, Inserting(u)'
          PROVE  txn'[u].items \subseteq With("none")' /\ txn'[u].status \in {"draft", "active"}
      <3>1. CASE u = t
        BY <3>1, <2>1, <1>a, <1>b, <1>d DEF NewIds
      <3>2. CASE u # t
        BY <3>2, <2>1, <1>a, <1>b, <1>c DEF Fresh
      <3> QED
        BY <3>1, <3>2
    <2>2. ASSUME NEW u \in Txns, u # t, Inserting(u)', Inserting(t)'
          PROVE  txn'[u].items \cap txn'[t].items = {}
      <3>1. u \in InFlight
        BY <2>2, <1>c DEF Inserting, InFlight
      <3> QED
        BY <3>1, <2>2, <1>a, <1>d DEF NewIds
    <2>3. ASSUME NEW u \in Txns, NEW w \in Txns, u # w, u # t, w # t, Inserting(u)', Inserting(w)'
          PROVE  txn'[u].items \cap txn'[w].items = {}
      BY <2>3, <1>a, <1>c DEF Fresh
    <2> QED
      BY <2>1, <2>2, <2>3 DEF Fresh
  <1>3. Known'
    <2> SUFFICES ASSUME NEW u \in Txns, txn'[u] # Idle, ~Inserting(u)'
                 PROVE  /\ txn'[u].items \cap With("none")' = {}
                        /\ txn'[u].status \in {Keep, "active", "retired"}
      BY DEF Known
    <2>1. CASE u = t
      BY <2>1, <1>a, <1>b, <1>d
    <2>2. CASE u # t
      BY <2>2, <1>a, <1>b, <1>c DEF Known
    <2> QED
      BY <2>1, <2>2
  <1>4. Reserved'
    <2> SUFFICES ASSUME NEW u \in Txns, Admitting(u)'
                 PROVE  /\ lock' = u
                        /\ Cardinality(LiveDrafts') + Cardinality(txn'[u].items) <= Cap
      BY DEF Reserved
    <2>1. CASE u = t
      BY <2>1, <1>a, <1>b, <1>d
    <2>2. CASE u # t
      BY <2>2, <1>a, <1>b, <1>c, NoTxnAssumption DEF Reserved
    <2> QED
      BY <2>1, <2>2
  <1>5. PendingCapped' /\ DiscardIsFinal'
    BY <1>0, <1>b DEF PendingCapped, DiscardIsFinal
  <1> QED
    BY <1>1, <1>2, <1>3, <1>4, <1>5

\* A request that ends without inserting leaves no more drafts and no more ids
\* than there were; one that inserts a batch uses up its reservation.
LEMMA EndKeeps ==
    ASSUME IInv, NEW t \in Txns, txn[t] # Idle, End(t), TypeOK', DiscardIsFinal',
           lock' = lock \/ lock' = Unlocked(t),
           With("none")' \subseteq With("none"),
           \A u \in Txns : u # t /\ Inserting(u) => txn[u].items \subseteq With("none")',
           \/ LiveDrafts' \subseteq LiveDrafts
           \/ Admitting(t) /\ LiveDrafts' \subseteq LiveDrafts \cup txn[t].items
    PROVE  IInv'
  <1> USE DEF IInv
  <1>a. txn'[t] = Idle /\ \A u \in Txns : u # t => txn'[u] = txn[u]
    BY DEF End, TypeOK
  <1>b. \A u \in Txns : u # t => (Inserting(u)' <=> Inserting(u)) /\ (Admitting(u)' <=> Admitting(u))
    BY <1>a DEF Inserting, Admitting
  <1>c. ~Inserting(t)' /\ ~Admitting(t)'
    BY <1>a DEF Inserting, Admitting
  <1>1. Fresh'
    BY <1>a, <1>b, <1>c DEF Fresh
  <1>2. Known'
    BY <1>a, <1>b, <1>c DEF Known
  <1>3. Reserved'
    <2> SUFFICES ASSUME NEW u \in Txns, Admitting(u)'
                 PROVE  /\ lock' = u
                        /\ Cardinality(LiveDrafts') + Cardinality(txn'[u].items) <= Cap
      BY DEF Reserved
    <2>1. u # t /\ Admitting(u) /\ txn[u] # Idle /\ txn'[u] = txn[u]
      BY <1>a, <1>b, <1>c DEF Admitting, Inserting
    <2>2. lock = u /\ Cardinality(LiveDrafts) + Cardinality(txn[u].items) <= Cap
      BY <2>1 DEF Reserved
    <2>3. ~Admitting(t)
      BY <2>1, <2>2 DEF Reserved
    <2>4. LiveDrafts' \subseteq LiveDrafts
      BY <2>3
    <2> QED
      BY <2>1, <2>2, <2>4, NoMoreDrafts, LiveFinite, BatchFinite, CapAssumption DEF Unlocked
  <1>4. PendingCapped'
    <2>1. CASE LiveDrafts' \subseteq LiveDrafts
      BY <2>1, NoMoreDrafts, LiveFinite, CapAssumption DEF PendingCapped
    <2>2. CASE Admitting(t) /\ LiveDrafts' \subseteq LiveDrafts \cup txn[t].items
      <3> DEFINE Both == LiveDrafts \cup txn[t].items
      <3>1. /\ IsFiniteSet(Both)
            /\ Cardinality(Both) = Cardinality(LiveDrafts) + Cardinality(txn[t].items)
                                   - Cardinality(LiveDrafts \cap txn[t].items)
        BY LiveFinite, BatchFinite, FS_Union
      <3>2. Cardinality(LiveDrafts \cap txn[t].items) \in Nat
        BY LiveFinite, FS_Intersection, FS_CardinalityType
      <3>3. Cardinality(LiveDrafts) + Cardinality(txn[t].items) <= Cap
        BY <2>2 DEF Reserved
      <3>4. Cardinality(LiveDrafts') \in Nat /\ Cardinality(LiveDrafts') <= Cardinality(Both)
        BY <2>2, <3>1, FS_Subset, FS_CardinalityType
      <3> HIDE DEF Both
      <3> QED
        BY <3>1, <3>2, <3>3, <3>4, LiveFinite, BatchFinite, CapAssumption DEF PendingCapped
    <2> QED
      BY <2>1, <2>2
  <1> QED
    BY <1>1, <1>2, <1>3, <1>4

\* What a column holds after an update.
LEMMA WrittenValue ==
    ASSUME NEW column, NEW items, NEW new, NEW i \in Items
    PROVE  Written(column, items, new)[i] =
              IF i \in items /\ new # Keep THEN new ELSE column[i]
  BY DEF Written

\* An update makes no draft and fails on a discarded item.
LEMMA WriteKeeps ==
    ASSUME IInv, NEW t \in Txns, Write(t)
    PROVE  IInv'
  <1> USE DEF IInv
  <1> DEFINE r == txn[t]
  <1>a. r \in Pending /\ r # Idle /\ r.stage = "write"
    BY BatchFinite DEF Write
  <1>b. r.items \subseteq Items /\ r.status \in {Keep, "active", "retired"}
        /\ r.items \cap With("none") = {}
    BY <1>a, BatchFinite DEF Known, Inserting
  <1>c. \A i \in Items : status'[i] = IF i \in r.items /\ r.status # Keep THEN r.status ELSE status[i]
    BY WrittenValue DEF Write
  <1>d. With("none")' = With("none")
    BY <1>b, <1>c, KeepAssumption DEF With, Statuses
  <1>1. TypeOK'
    <2>1. status' \in [Items -> Statuses]
      BY <1>b, <1>c DEF Write, Written, TypeOK, Statuses
    <2>2. tier' \in [Items -> Tiers] /\ card' \in [Items -> Tiers \cup {Keep}]
      BY <1>a DEF Write, Written, TypeOK, Pending
    <2>3. lapsed' \subseteq Items /\ rejections' \in [Items -> Nat] /\ lock' \in Txns \cup {NoTxn}
      BY DEF Write, TypeOK
    <2> QED
      BY <2>1, <2>2, <2>3, EndOvertakes DEF Write, TypeOK
  <1>2. LiveDrafts' \subseteq LiveDrafts
    <2> SUFFICES ASSUME NEW i \in LiveDrafts' PROVE i \in LiveDrafts
      OBVIOUS
    <2>1. i \in Items /\ status'[i] = "draft" /\ i \notin lapsed'
      BY DEF LiveDrafts, With
    <2>2. status[i] = "draft" /\ ~(i \in r.items /\ r.status # Keep)
      BY <2>1, <1>b, <1>c
    <2>3. i \notin lapsed
      BY <2>1, <2>2, KeepAssumption DEF Write, Statuses
    <2> QED
      BY <2>1, <2>2, <2>3 DEF LiveDrafts, With
  <1>3. DiscardIsFinal'
    <2> SUFFICES ASSUME NEW i \in Items
                 PROVE  rejections'[i] > 0 <=> status'[i] = "deleted"
      BY DEF DiscardIsFinal
    <2>1. rejections'[i] > 0 <=> status[i] = "deleted"
      BY DEF Write, DiscardIsFinal
    <2>2. CASE i \in r.items /\ r.status # Keep
      BY <2>1, <2>2, <1>b, <1>c DEF Write, With
    <2>3. CASE ~(i \in r.items /\ r.status # Keep)
      BY <2>1, <2>3, <1>c
    <2> QED
      BY <2>2, <2>3
  <1> QED
    BY <1>a, <1>d, <1>1, <1>2, <1>3, EndKeeps DEF Write, Fresh

\* A deletion only shrinks the queue, and leaves its record.
LEMMA DiscardKeeps ==
    ASSUME IInv, NEW t \in Txns, Discard(t)
    PROVE  IInv'
  <1> USE DEF IInv
  <1> DEFINE r == txn[t]
  <1>a. r \in Pending /\ r # Idle /\ r.stage = "discard"
    BY BatchFinite DEF Discard
  <1>b. r.items \subseteq Items /\ r.items \cap With("none") = {}
    BY <1>a, BatchFinite DEF Known, Inserting
  <1>c. \A i \in Items : status'[i] = IF i \in r.items THEN "deleted" ELSE status[i]
    BY WrittenValue, KeepAssumption DEF Discard, Statuses
  <1>d. With("none")' = With("none") /\ LiveDrafts' \subseteq LiveDrafts
    BY <1>b, <1>c DEF With, LiveDrafts, Discard
  <1>1. TypeOK'
    <2>1. status' \in [Items -> Statuses] /\ rejections' \in [Items -> Nat]
      BY <1>c DEF Discard, Written, TypeOK, Statuses
    <2> QED
      BY <2>1, EndOvertakes DEF Discard, TypeOK
  <1>2. DiscardIsFinal'
    BY <1>c DEF Discard, DiscardIsFinal, TypeOK
  <1> QED
    BY <1>a, <1>d, <1>1, <1>2, EndKeeps DEF Discard, Fresh

\* An insertion fills the places its transaction reserved.
LEMMA InsertKeeps ==
    ASSUME IInv, NEW t \in Txns, Insert(t)
    PROVE  IInv'
  <1> USE DEF IInv
  <1> DEFINE r == txn[t]
  <1>a. r \in Pending /\ r # Idle /\ Inserting(t)
    BY BatchFinite DEF Insert, Inserting
  <1>b. r.items \subseteq With("none") /\ r.status \in {"draft", "active"}
    BY <1>a DEF Fresh
  <1>c. \A i \in Items : status'[i] = IF i \in r.items THEN r.status ELSE status[i]
    BY <1>b, WrittenValue, KeepAssumption DEF Insert, Statuses
  <1>d. With("none")' = With("none") \ r.items
    BY <1>b, <1>c DEF With
  <1>1. TypeOK'
    <2>1. status' \in [Items -> Statuses]
      BY <1>b, <1>c DEF Insert, Written, TypeOK, Statuses
    <2> QED
      BY <2>1, EndOvertakes DEF Insert, Unlocked, TypeOK
  <1>2. DiscardIsFinal'
    BY <1>b, <1>c DEF Insert, DiscardIsFinal, With
  <1>3. \/ LiveDrafts' \subseteq LiveDrafts
        \/ Admitting(t) /\ LiveDrafts' \subseteq LiveDrafts \cup r.items
    <2>1. CASE r.status = "draft"
      BY <2>1, <1>a, <1>c DEF Insert, Admitting, LiveDrafts, With
    <2>2. CASE r.status = "active"
      BY <2>2, <1>c DEF Insert, LiveDrafts, With
    <2> QED
      BY <1>b, <2>1, <2>2
  <1>4. \A u \in Txns : u # t /\ Inserting(u) => txn[u].items \subseteq With("none")'
    BY <1>a, <1>d DEF Fresh
  <1> QED
    BY <1>a, <1>d, <1>1, <1>2, <1>3, <1>4, EndKeeps DEF Insert

\* A rollback gives the places back.
LEMMA RollbackKeeps ==
    ASSUME IInv, NEW t \in Txns, Rollback(t)
    PROVE  IInv'
  <1>1. LiveDrafts' = LiveDrafts /\ With("none")' = With("none")
    BY DEF Rollback, LiveDrafts, With
  <1>2. TypeOK' /\ DiscardIsFinal'
    BY EndOvertakes DEF IInv, Rollback, Unlocked, TypeOK, DiscardIsFinal
  <1> QED
    BY <1>1, <1>2, EndKeeps DEF Rollback, IInv, Fresh

\* Reading the card turns a request into an update of the same item.
LEMMA CardSeenType ==
    ASSUME NEW r \in Pending, NEW c \in Tiers \cup {Keep}
    PROVE  /\ CardSeen(r, c) \in Pending
           /\ CardSeen(r, c).stage = "write"
           /\ CardSeen(r, c).items = r.items
           /\ CardSeen(r, c).status = r.status
  BY DEF CardSeen, Pending, Changed

\* The card that was read decides what is written, not whom the request is about.
LEMMA ReadCardKeeps ==
    ASSUME IInv, NEW t \in Txns, ReadCard(t)
    PROVE  IInv'
  <1> USE DEF IInv
  <1>a. txn[t] \in Pending /\ txn[t] # Idle /\ txn[t].stage = "card"
    BY BatchFinite DEF ReadCard
  <1>b. PICK i \in txn[t].items : txn' = [txn EXCEPT ![t] = CardSeen(txn[t], card[i])]
    BY DEF ReadCard
  <1>h. card[i] \in Tiers \cup {Keep}
    BY <1>a, <1>b, BatchFinite DEF TypeOK
  <1>c. /\ txn'[t] \in Pending
        /\ txn'[t].stage = "write"
        /\ txn'[t].items = txn[t].items
        /\ txn'[t].status = txn[t].status
        /\ \A u \in Txns : u # t => txn'[u] = txn[u]
    BY <1>a, <1>b, <1>h, CardSeenType DEF TypeOK
  <1>d. UNCHANGED <<status, lapsed, tier, card, rejections, lock, overtaken>>
    BY DEF ReadCard
  <1>e. LiveDrafts' = LiveDrafts /\ With("none")' = With("none")
    BY <1>d DEF LiveDrafts, With
  <1>f. ~Inserting(t) /\ ~Inserting(t)' /\ ~Admitting(t)'
    BY <1>a, <1>c DEF Inserting, Admitting
  <1>g. \A u \in Txns : u # t => (Inserting(u)' <=> Inserting(u)) /\ (Admitting(u)' <=> Admitting(u))
    BY <1>c DEF Inserting, Admitting
  <1>1. TypeOK'
    <2>1. txn' \in [Txns -> Pending \cup {Idle}]
      BY <1>b, <1>c DEF TypeOK
    <2>2. txn'[t] # Idle
      BY <1>c, IdleIsNotPending
    <2>3. overtaken' \subseteq {u \in Txns : txn'[u] # Idle}
      BY <2>2, <1>c, <1>d DEF TypeOK
    <2> QED
      BY <2>1, <2>3, <1>d DEF TypeOK
  <1>2. Fresh'
    BY <1>c, <1>e, <1>f, <1>g DEF Fresh
  <1>3. Known'
    <2> SUFFICES ASSUME NEW u \in Txns, txn'[u] # Idle, ~Inserting(u)'
                 PROVE  /\ txn'[u].items \cap With("none")' = {}
                        /\ txn'[u].status \in {Keep, "active", "retired"}
      BY DEF Known
    <2>1. CASE u = t
      BY <2>1, <1>a, <1>c, <1>e, <1>f DEF Known
    <2>2. CASE u # t
      BY <2>2, <1>c, <1>e, <1>g DEF Known
    <2> QED
      BY <2>1, <2>2
  <1>4. Reserved'
    BY <1>c, <1>d, <1>e, <1>f, <1>g DEF Reserved
  <1>5. PendingCapped' /\ DiscardIsFinal'
    BY <1>d, <1>e DEF PendingCapped, DiscardIsFinal
  <1> QED
    BY <1>1, <1>2, <1>3, <1>4, <1>5

\* A draft that lapses makes room.
LEMMA LapseKeeps ==
    ASSUME IInv, NEW i \in Items, Lapse(i)
    PROVE  IInv'
  <1> USE DEF IInv
  <1>a. UNCHANGED <<status, tier, card, rejections, lock, txn, overtaken>> /\ lapsed' = lapsed \cup {i}
    BY DEF Lapse
  <1>b. LiveDrafts' \subseteq LiveDrafts /\ With("none")' = With("none")
    BY <1>a DEF LiveDrafts, With
  <1>1. TypeOK' /\ DiscardIsFinal'
    BY <1>a DEF TypeOK, DiscardIsFinal
  <1>2. Fresh' /\ Known'
    BY <1>a, <1>b DEF Fresh, Known, Inserting
  <1>3. Reserved'
    <2> SUFFICES ASSUME NEW u \in Txns, Admitting(u)'
                 PROVE  /\ lock' = u
                        /\ Cardinality(LiveDrafts') + Cardinality(txn'[u].items) <= Cap
      BY DEF Reserved
    <2>1. Admitting(u) /\ txn[u] # Idle
      BY <1>a DEF Admitting, Inserting
    <2>2. lock = u /\ Cardinality(LiveDrafts) + Cardinality(txn[u].items) <= Cap
      BY <2>1 DEF Reserved
    <2> QED
      BY <2>1, <2>2, <1>a, <1>b, NoMoreDrafts, LiveFinite, BatchFinite, CapAssumption
  <1>4. PendingCapped'
    BY <1>b, NoMoreDrafts, LiveFinite, CapAssumption DEF PendingCapped
  <1> QED
    BY <1>1, <1>2, <1>3, <1>4

\* What a request loads is what BeginKeeps allows.
LEMMA LoadKeeps ==
    ASSUME IInv, NEW t \in Txns,
           \/ \E batch \in SUBSET NewIds \ {{}} : ReserveDraftCapacity(t, batch) \/ Activate(t, batch)
           \/ \E i \in Items :
                 \/ Reject(t, i)
                 \/ SubmitReview(t, i)
                 \/ Retire(t, i)
                 \/ \E newTier \in Tiers : Approve(t, i, newTier) \/ SetItemTier(t, i, newTier)
           \/ \E items \in SUBSET Items \ {{}} : BulkApprove(t, items) \/ RetireActive(t, items)
           \/ ExpireStaleDrafts(t)
    PROVE  IInv'
  <1>a. \A i \in Items : status[i] \in Statuses /\ tier[i] \in Tiers
    BY DEF IInv, TypeOK
  <1>b. NewIds \subseteq Items
    BY DEF NewIds, With
  <1>1. ASSUME NEW batch \in SUBSET NewIds, ReserveDraftCapacity(t, batch)
        PROVE  IInv'
    <2> DEFINE r == Request("insert", batch, "draft", Keep)
    <2>1. r \in Pending /\ r.stage = "insert" /\ r.items = batch /\ r.status = "draft"
      BY <1>b DEF Request, Pending, Statuses
    <2>2. Begin(t, r) /\ lock = NoTxn /\ lock' = t
          /\ Cardinality(LiveDrafts) + Cardinality(r.items) <= Cap
      BY <1>1, <2>1 DEF ReserveDraftCapacity
    <2> HIDE DEF r
    <2> QED
      BY <2>1, <2>2, BeginKeeps
  <1>2. ASSUME NEW batch \in SUBSET NewIds, Activate(t, batch)
        PROVE  IInv'
    <2> DEFINE r == Request("insert", batch, "active", Keep)
    <2>1. r \in Pending /\ r.stage = "insert" /\ r.items = batch /\ r.status = "active"
      BY <1>b DEF Request, Pending, Statuses
    <2>2. Begin(t, r) /\ lock' = lock
      BY <1>2 DEF Activate
    <2> HIDE DEF r
    <2> QED
      BY <2>1, <2>2, BeginKeeps
  <1>3. ASSUME NEW items \in SUBSET Items, NEW stage \in {"write", "discard"},
               NEW new \in {Keep, "active", "retired"}, NEW itemTier \in Tiers \cup {Keep},
               items \cap With("none") = {},
               Begin(t, Request(stage, items, new, itemTier)), lock' = lock
        PROVE  IInv'
    <2> DEFINE r == Request(stage, items, new, itemTier)
    <2>1. r \in Pending /\ r.stage # "insert" /\ r.items = items /\ r.status = new
      BY DEF Request, Pending, Statuses
    <2>2. Begin(t, r)
      BY <1>3
    <2> HIDE DEF r
    <2> QED
      BY <1>3, <2>1, <2>2, BeginKeeps
  <1>4. ASSUME NEW i \in Items, NEW itemTier \in Tiers \cup {Keep}, NEW cardTier \in Tiers,
               NEW seeds \in BOOLEAN, status[i] \in Stored,
               Begin(t, CardRequest(i, itemTier, cardTier, seeds)), lock' = lock
        PROVE  IInv'
    <2> DEFINE r == CardRequest(i, itemTier, cardTier, seeds)
    <2>1. r \in Pending /\ r.stage # "insert" /\ r.items = {i} /\ r.status = Keep
      BY DEF CardRequest, Pending
    <2>2. r.items \cap With("none") = {}
      BY <1>4, <2>1 DEF Stored, With
    <2>3. Begin(t, r)
      BY <1>4
    <2> HIDE DEF r
    <2> QED
      BY <1>4, <2>1, <2>2, <2>3, BeginKeeps
  <1>5. \A s \in Stored : With(s) \subseteq Items /\ With(s) \cap With("none") = {}
    BY DEF Stored, With
  <1>6. ASSUME NEW i \in Items, Reject(t, i)
        PROVE  IInv'
    BY <1>3, <1>6 DEF Reject, With
  <1>7. ASSUME NEW i \in Items, SubmitReview(t, i)
        PROVE  IInv'
    BY <1>4, <1>7, <1>a DEF SubmitReview
  <1>8. ASSUME NEW i \in Items, Retire(t, i)
        PROVE  IInv'
    <2>1. Changed("retired", status[i]) \in {Keep, "active", "retired"}
      BY DEF Changed
    <2>2. {i} \cap With("none") = {}
      BY <1>8 DEF Retire, Stored, With
    <2> QED
      BY <1>3, <1>8, <2>1, <2>2 DEF Retire
  <1>9. ASSUME NEW i \in Items, NEW newTier \in Tiers, Approve(t, i, newTier)
        PROVE  IInv'
    <2>1. Changed(newTier, tier[i]) \in Tiers \cup {Keep}
      BY DEF Changed
    <2>2. {i} \cap With("none") = {}
      BY <1>9 DEF Approve, With
    <2> QED
      BY <1>3, <1>9, <2>1, <2>2 DEF Approve
  <1>10. ASSUME NEW i \in Items, NEW newTier \in Tiers, SetItemTier(t, i, newTier)
         PROVE  IInv'
    <2>1. Changed(newTier, tier[i]) \in Tiers \cup {Keep}
      BY DEF Changed
    <2> QED
      BY <1>4, <1>10, <2>1 DEF SetItemTier
  <1>11. ASSUME NEW items \in SUBSET Items, BulkApprove(t, items)
         PROVE  IInv'
    BY <1>3, <1>5, <1>11 DEF BulkApprove, Stored
  <1>12. ASSUME NEW items \in SUBSET Items, RetireActive(t, items)
         PROVE  IInv'
    BY <1>3, <1>5, <1>12 DEF RetireActive, Stored
  <1>13. ASSUME ExpireStaleDrafts(t)
         PROVE  IInv'
    BY <1>3, <1>5, <1>13 DEF ExpireStaleDrafts, Stored
  <1> QED
    BY <1>1, <1>2, <1>6, <1>7, <1>8, <1>9, <1>10, <1>11, <1>12, <1>13
-----------------------------------------------------------------------------
\* A learner without items satisfies the invariant.
LEMMA InitEstablishes == Init => IInv
  <1> SUFFICES ASSUME Init PROVE IInv
    OBVIOUS
  <1>1. TypeOK
    BY DEF Init, TypeOK, Statuses
  <1>2. LiveDrafts = {}
    BY DEF Init, LiveDrafts, With
  <1>3. PendingCapped
    BY <1>2, FS_EmptySet, CapAssumption DEF PendingCapped
  <1>4. Fresh /\ Known /\ Reserved /\ DiscardIsFinal
    BY DEF Init, Fresh, Known, Reserved, Admitting, Inserting, DiscardIsFinal
  <1> QED
    BY <1>1, <1>3, <1>4 DEF IInv

\* Every step of Next keeps the strengthened invariant.
LEMMA NextKeeps == IInv /\ [Next]_vars => IInv'
  <1> SUFFICES ASSUME IInv, [Next]_vars PROVE IInv'
    OBVIOUS
  <1>1. ASSUME NEW t \in Txns, Step(t)
        PROVE  IInv'
    BY <1>1, LoadKeeps, ReadCardKeeps, WriteKeeps, DiscardKeeps, InsertKeeps, RollbackKeeps DEF Step
  <1>2. CASE UNCHANGED vars
    BY <1>2 DEF vars, IInv, TypeOK, Fresh, Known, Reserved, PendingCapped, DiscardIsFinal,
                Inserting, Admitting, LiveDrafts, With
  <1> QED
    BY <1>1, <1>2, LapseKeeps DEF Next

\* The strengthened invariant holds of every reachable state.
THEOREM Invariant == Spec => []IInv
  BY InitEstablishes, NextKeeps, PTL DEF Spec

\* Every state is well typed.
THEOREM TypeCorrect == Spec => []TypeOK
  <1>1. IInv => TypeOK
    BY DEF IInv
  <1> QED
    BY <1>1, Invariant, PTL

\* The drafts waiting for approval never exceed PENDING_DRAFT_CAP, whatever its
\* value and however many requests overlap.
THEOREM DraftsCapped == Spec => []PendingCapped
  <1>1. IInv => PendingCapped
    BY DEF IInv
  <1> QED
    BY <1>1, Invariant, PTL

\* An item is gone exactly if a DraftRejection tells of it, so a discarded item
\* never comes back.
THEOREM DiscardsFinal == Spec => []DiscardIsFinal
  <1>1. IInv => DiscardIsFinal
    BY DEF IInv
  <1> QED
    BY <1>1, Invariant, PTL
-----------------------------------------------------------------------------
\* What a request loads fits what it decides.
LEMMA BeginFits ==
    ASSUME IInv, LoadedFits, NEW t \in Txns, NEW r \in Pending, Begin(t, r),
           r.stage # "insert" => Fits(r)
    PROVE  LoadedFits'
  <1>1. /\ UNCHANGED <<status, overtaken>>
        /\ txn'[t] = r
        /\ \A u \in Txns : u # t => txn'[u] = txn[u]
    BY DEF Begin, IInv, TypeOK
  <1>2. \A q : Fits(q)' <=> Fits(q)
    BY <1>1 DEF Fits, With
  <1> SUFFICES ASSUME NEW u \in Txns, txn'[u] # Idle, ~Inserting(u)', u \notin overtaken'
               PROVE  Fits(txn[u])'
    BY DEF LoadedFits
  <1>3. CASE u = t
    <2>1. r.stage # "insert"
      BY <1>1, <1>3 DEF Inserting
    <2>2. Fits(r)
      BY <2>1
    <2> QED
      BY <2>2, <1>1, <1>3 DEF Fits, With
  <1>4. CASE u # t
    <2>1. Fits(txn[u])
      BY <1>1, <1>4 DEF LoadedFits, Inserting
    <2> QED
      BY <2>1, <1>1, <1>4 DEF Fits, With
  <1> QED
    BY <1>3, <1>4

\* A request that ends overtakes those whose items it changes.
LEMMA EndFits ==
    ASSUME IInv, LoadedFits, NEW t \in Txns, End(t)
    PROVE  LoadedFits'
  <1> SUFFICES ASSUME NEW u \in Txns, txn'[u] # Idle, ~Inserting(u)', u \notin overtaken'
               PROVE  Fits(txn[u])'
    BY DEF LoadedFits
  <1>1. u # t /\ txn'[u] = txn[u]
    BY DEF End, IInv, TypeOK
  <1>2. u \notin overtaken /\ \A i \in txn[u].items : status'[i] = status[i]
    BY <1>1 DEF End, InFlight
  <1>3. txn[u].items \subseteq Items
    BY <1>1, BatchFinite DEF IInv
  <1>4. Fits(txn[u])
    BY <1>1, <1>2 DEF LoadedFits, Inserting
  <1> QED
    BY <1>1, <1>2, <1>3, <1>4 DEF Fits, With

\* The card a request reads does not change what it decides about the items.
LEMMA ReadCardFits ==
    ASSUME IInv, LoadedFits, NEW t \in Txns, ReadCard(t)
    PROVE  LoadedFits'
  <1>1. txn[t] \in Pending /\ txn[t] # Idle /\ txn[t].stage = "card"
    BY BatchFinite DEF IInv, ReadCard
  <1>2. PICK i \in txn[t].items : txn' = [txn EXCEPT ![t] = CardSeen(txn[t], card[i])]
    BY DEF ReadCard
  <1>3. card[i] \in Tiers \cup {Keep}
    BY <1>1, <1>2, BatchFinite DEF IInv, TypeOK
  <1>4. /\ txn'[t].stage = "write"
        /\ txn'[t].items = txn[t].items
        /\ txn'[t].status = txn[t].status
        /\ \A u \in Txns : u # t => txn'[u] = txn[u]
    BY <1>1, <1>2, <1>3, CardSeenType DEF IInv, TypeOK
  <1>5. UNCHANGED <<status, overtaken>>
    BY DEF ReadCard
  <1> SUFFICES ASSUME NEW u \in Txns, txn'[u] # Idle, ~Inserting(u)', u \notin overtaken'
               PROVE  Fits(txn[u])'
    BY DEF LoadedFits
  <1>6. Fits(txn[u])
    BY <1>1, <1>4, <1>5 DEF LoadedFits, Inserting
  <1> QED
    BY <1>1, <1>4, <1>5, <1>6 DEF Fits, With

\* Every way to load items loads such that the decision fits.
LEMMA LoadFits ==
    ASSUME IInv, LoadedFits, NEW t \in Txns,
           \/ \E batch \in SUBSET NewIds \ {{}} : ReserveDraftCapacity(t, batch) \/ Activate(t, batch)
           \/ \E i \in Items :
                 \/ Reject(t, i)
                 \/ SubmitReview(t, i)
                 \/ Retire(t, i)
                 \/ \E newTier \in Tiers : Approve(t, i, newTier) \/ SetItemTier(t, i, newTier)
           \/ \E items \in SUBSET Items \ {{}} : BulkApprove(t, items) \/ RetireActive(t, items)
           \/ ExpireStaleDrafts(t)
    PROVE  LoadedFits'
  <1>a. \A i \in Items : tier[i] \in Tiers
    BY DEF IInv, TypeOK
  <1>b. \A s : With(s) \subseteq Items
    BY DEF With
  <1>1. ASSUME NEW batch \in SUBSET NewIds, NEW new \in {"draft", "active"},
               Begin(t, Request("insert", batch, new, Keep))
        PROVE  LoadedFits'
    <2> DEFINE r == Request("insert", batch, new, Keep)
    <2>1. r \in Pending /\ r.stage = "insert"
      BY <1>b DEF Request, Pending, Statuses, NewIds
    <2>2. Begin(t, r)
      BY <1>1
    <2> HIDE DEF r
    <2> QED
      BY <2>1, <2>2, BeginFits
  <1>2. ASSUME NEW items \in SUBSET Items, NEW stage \in {"write", "discard"},
               NEW new \in {Keep, "active", "retired"}, NEW itemTier \in Tiers \cup {Keep},
               new = "active" \/ stage = "discard" => items \subseteq With("draft"),
               new = "retired" => items \subseteq With("draft") \cup With("active"),
               Begin(t, Request(stage, items, new, itemTier))
        PROVE  LoadedFits'
    <2> DEFINE r == Request(stage, items, new, itemTier)
    <2>1. r \in Pending /\ Fits(r)
      BY <1>2 DEF Request, Pending, Statuses, Fits
    <2>2. Begin(t, r)
      BY <1>2
    <2> HIDE DEF r
    <2> QED
      BY <2>1, <2>2, BeginFits
  <1>3. ASSUME NEW i \in Items, NEW itemTier \in Tiers \cup {Keep}, NEW cardTier \in Tiers,
               NEW seeds \in BOOLEAN, Begin(t, CardRequest(i, itemTier, cardTier, seeds))
        PROVE  LoadedFits'
    <2> DEFINE r == CardRequest(i, itemTier, cardTier, seeds)
    <2>1. r \in Pending /\ Fits(r)
      BY KeepAssumption DEF CardRequest, Pending, Statuses, Fits
    <2>2. Begin(t, r)
      BY <1>3
    <2> HIDE DEF r
    <2> QED
      BY <2>1, <2>2, BeginFits
  <1>4. ASSUME NEW batch \in SUBSET NewIds, ReserveDraftCapacity(t, batch) \/ Activate(t, batch)
        PROVE  LoadedFits'
    BY <1>1, <1>4 DEF ReserveDraftCapacity, Activate
  <1>5. ASSUME NEW i \in Items, Reject(t, i)
        PROVE  LoadedFits'
    <2>1. {i} \subseteq With("draft") /\ Keep # "active" /\ Keep # "retired"
      BY <1>5, KeepAssumption DEF Reject, With, Statuses
    <2> QED
      BY <1>2, <1>5, <2>1 DEF Reject
  <1>6. ASSUME NEW i \in Items, SubmitReview(t, i)
        PROVE  LoadedFits'
    BY <1>3, <1>6, <1>a DEF SubmitReview
  <1>7. ASSUME NEW i \in Items, Retire(t, i)
        PROVE  LoadedFits'
    <2>1. Changed("retired", status[i]) \in {Keep, "retired"} /\ Keep # "active"
      BY KeepAssumption DEF Changed, Statuses
    <2>2. Changed("retired", status[i]) = "retired" => {i} \subseteq With("draft") \cup With("active")
      BY <1>7, KeepAssumption DEF Changed, Retire, Stored, With, Statuses
    <2> QED
      BY <1>2, <1>7, <2>1, <2>2 DEF Retire
  <1>8. ASSUME NEW i \in Items, NEW newTier \in Tiers, Approve(t, i, newTier)
        PROVE  LoadedFits'
    <2>1. Changed(newTier, tier[i]) \in Tiers \cup {Keep}
      BY DEF Changed
    <2>2. {i} \subseteq With("draft")
      BY <1>8 DEF Approve, With
    <2> QED
      BY <1>2, <1>8, <2>1, <2>2 DEF Approve
  <1>9. ASSUME NEW i \in Items, NEW newTier \in Tiers, SetItemTier(t, i, newTier)
        PROVE  LoadedFits'
    <2>1. Changed(newTier, tier[i]) \in Tiers \cup {Keep}
      BY DEF Changed
    <2> QED
      BY <1>3, <1>9, <2>1 DEF SetItemTier
  <1>10. ASSUME NEW items \in SUBSET Items, BulkApprove(t, items) \/ RetireActive(t, items)
         PROVE  LoadedFits'
    BY <1>2, <1>10 DEF BulkApprove, RetireActive
  <1>11. ASSUME ExpireStaleDrafts(t)
         PROVE  LoadedFits'
    <2>1. Keep # "active" /\ Keep # "retired"
      BY KeepAssumption DEF Statuses
    <2> QED
      BY <1>2, <1>11, <1>b, <2>1 DEF ExpireStaleDrafts
  <1> QED
    BY <1>4, <1>5, <1>6, <1>7, <1>8, <1>9, <1>10, <1>11

\* Every step of Next keeps the decisions of requests nobody overtook fitting.
LEMMA NextFits == IInv /\ LoadedFits /\ [Next]_vars => LoadedFits'
  <1> SUFFICES ASSUME IInv, LoadedFits, [Next]_vars PROVE LoadedFits'
    OBVIOUS
  <1>1. ASSUME NEW t \in Txns, Write(t) \/ Discard(t) \/ Insert(t) \/ Rollback(t)
        PROVE  LoadedFits'
    BY <1>1, EndFits DEF Write, Discard, Insert, Rollback
  <1>2. ASSUME NEW t \in Txns, Step(t)
        PROVE  LoadedFits'
    BY <1>1, <1>2, LoadFits, ReadCardFits DEF Step
  <1>3. ASSUME NEW i \in Items, Lapse(i)
        PROVE  LoadedFits'
    BY <1>3 DEF Lapse, LoadedFits, Fits, Inserting, With
  <1>4. CASE UNCHANGED vars
    BY <1>4 DEF vars, LoadedFits, Fits, Inserting, With
  <1> QED
    BY <1>2, <1>3, <1>4 DEF Next

\* Where a step leads an item.
OnwardStep(i) ==
    \/ status'[i] \in {status[i]} \cup Onward[status[i]]
    \/ \E t \in overtaken : i \in txn[t].items /\ txn'[t] = Idle

\* An update follows the life cycle, or its request was overtaken.
LEMMA WriteOnward ==
    ASSUME IInv, LoadedFits, NEW t \in Txns, Write(t), NEW i \in Items
    PROVE  OnwardStep(i)
  <1>1. /\ txn[t] # Idle /\ ~Inserting(t)
        /\ txn'[t] = Idle
        /\ txn[t].status \in {Keep, "active", "retired"}
    BY DEF Write, Inserting, End, IInv, TypeOK, Known
  <1>2. status'[i] = IF i \in txn[t].items /\ txn[t].status # Keep THEN txn[t].status ELSE status[i]
    BY WrittenValue DEF Write
  <1>3. CASE t \in overtaken
    BY <1>1, <1>2, <1>3 DEF OnwardStep
  <1>4. CASE t \notin overtaken
    <2>1. Fits(txn[t])
      BY <1>1, <1>4 DEF LoadedFits
    <2> QED
      BY <1>1, <1>2, <2>1 DEF OnwardStep, Onward, Fits, With
  <1> QED
    BY <1>3, <1>4

\* A deletion is of drafts, or its request was overtaken.
LEMMA DiscardOnward ==
    ASSUME IInv, LoadedFits, NEW t \in Txns, Discard(t), NEW i \in Items
    PROVE  OnwardStep(i)
  <1>1. /\ txn[t] # Idle /\ ~Inserting(t)
        /\ txn[t].stage = "discard"
        /\ txn'[t] = Idle
    BY DEF Discard, Inserting, End, IInv, TypeOK
  <1>2. status'[i] = IF i \in txn[t].items THEN "deleted" ELSE status[i]
    BY WrittenValue, KeepAssumption DEF Discard, Statuses
  <1>3. CASE t \in overtaken
    BY <1>1, <1>2, <1>3 DEF OnwardStep
  <1>4. CASE t \notin overtaken
    <2>1. Fits(txn[t])
      BY <1>1, <1>4 DEF LoadedFits
    <2> QED
      BY <1>1, <1>2, <2>1 DEF OnwardStep, Onward, Fits, With
  <1> QED
    BY <1>3, <1>4

\* An insertion is of new items.
LEMMA InsertOnward ==
    ASSUME IInv, NEW t \in Txns, Insert(t), NEW i \in Items
    PROVE  OnwardStep(i)
  <1>1. txn[t].items \subseteq With("none") /\ txn[t].status \in {"draft", "active"}
    BY DEF Insert, Inserting, IInv, Fresh
  <1>2. status'[i] = IF i \in txn[t].items /\ txn[t].status # Keep THEN txn[t].status ELSE status[i]
    BY WrittenValue DEF Insert
  <1> QED
    BY <1>1, <1>2 DEF OnwardStep, Onward, With

\* Every step moves every item onward, or ends a request that was overtaken.
LEMMA NextOnward ==
    ASSUME IInv, LoadedFits, [Next]_vars, NEW i \in Items
    PROVE  OnwardStep(i)
  <1>1. ASSUME UNCHANGED status
        PROVE  OnwardStep(i)
    BY <1>1 DEF OnwardStep
  <1>2. ASSUME NEW t \in Txns, Step(t)
        PROVE  OnwardStep(i)
    <2>1. \/ Write(t) \/ Discard(t) \/ Insert(t)
          \/ UNCHANGED status
      BY <1>2 DEF Step, ReserveDraftCapacity, Activate, Reject, SubmitReview, Retire, Approve,
                  SetItemTier, BulkApprove, RetireActive, ExpireStaleDrafts, ReadCard, Rollback, Begin
    <2> QED
      BY <2>1, <1>1, WriteOnward, DiscardOnward, InsertOnward
  <1>3. ASSUME NEW j \in Items, Lapse(j)
        PROVE  OnwardStep(i)
    BY <1>3, <1>1 DEF Lapse
  <1>4. CASE UNCHANGED vars
    BY <1>4, <1>1 DEF vars
  <1> QED
    BY <1>2, <1>3, <1>4 DEF Next

\* An item goes from draft to active to retired and only a draft is discarded,
\* unless by a request that loaded it before another changed it, for any number
\* of items and overlapping requests.
THEOREM LifeCycleFollowed == Spec => LifeCycleUnlessOvertaken
  <1>1. Init => LoadedFits
    BY DEF Init, LoadedFits
  <1>2. IInv /\ LoadedFits /\ [Next]_vars =>
           [\A i \in Items :
              \/ status'[i] \in {status[i]} \cup Onward[status[i]]
              \/ \E t \in overtaken : i \in txn[t].items /\ txn'[t] = Idle]_vars
    BY NextOnward DEF OnwardStep
  <1> QED
    BY <1>1, <1>2, Invariant, NextFits, PTL DEF Spec, LifeCycleUnlessOvertaken

\* One request at a time.
InTurn == \A t, u \in Txns : t = u

\* Every item follows the life cycle, without exception.
LifeCycle == [][\A i \in Items : status'[i] \in {status[i]} \cup Onward[status[i]]]_vars

\* Requests that do not overlap follow the life cycle without exception, whatever
\* their order: overlap is all that the guards of the pages leave open.
THEOREM LifeCycleInTurn ==
  ASSUME InTurn
  PROVE  Spec => LifeCycle
  <1> DEFINE NoneOvertaken == overtaken = {}
  <1>1. Init => LoadedFits /\ NoneOvertaken
    BY DEF Init, LoadedFits
  <1>2. IInv /\ NoneOvertaken /\ [Next]_vars => NoneOvertaken'
    <2> SUFFICES ASSUME IInv, NoneOvertaken, [Next]_vars
                 PROVE  NoneOvertaken'
      OBVIOUS
    <2>1. ASSUME NEW t \in Txns, End(t)
          PROVE  NoneOvertaken'
      BY <2>1 DEF End, InFlight, InTurn
    <2>2. ASSUME NEW t \in Txns, Step(t)
          PROVE  NoneOvertaken'
      BY <2>1, <2>2 DEF Step, ReserveDraftCapacity, Activate, Reject, SubmitReview, Retire,
                        Approve, SetItemTier, BulkApprove, RetireActive, ExpireStaleDrafts,
                        ReadCard, Write, Discard, Insert, Rollback, Begin
    <2> QED
      BY <2>2 DEF Next, Lapse, vars
  <1>3. IInv /\ LoadedFits /\ NoneOvertaken /\ [Next]_vars =>
          [\A i \in Items : status'[i] \in {status[i]} \cup Onward[status[i]]]_vars
    BY NextOnward DEF OnwardStep
  <1> QED
    BY <1>1, <1>2, <1>3, Invariant, NextFits, PTL DEF Spec, LifeCycle
=============================================================================
