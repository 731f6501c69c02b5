----------------------------- MODULE Maintenance -----------------------------
(***************************************************************************)
(* The maintenance items of one learner (maintenance/service.py,           *)
(* maintenance/drafts.py and the pages over them) under concurrent         *)
(* requests: batches of drafts are admitted under a cap, drafts are        *)
(* approved, rejected or lapse, items are reviewed, re-tiered and retired. *)
(*                                                                         *)
(* A request loads the items it decides on, then the memory card if it     *)
(* schedules, then writes and commits.  The database is external: an       *)
(* update writes the columns that differ from the loaded ones and fails on *)
(* a deleted row, a deletion of a deleted row does not, the learner row    *)
(* locked by an admission blocks the next admission, and the unique index  *)
(* makes a second insertion of a card wait.                                *)
(***************************************************************************)
EXTENDS Naturals, FiniteSets

CONSTANTS
    Items,      \* ids an item can have
    Tiers,      \* retention tiers
    Keep,       \* a column that is not written, a card that is not there
    Txns,       \* concurrent requests
    NoTxn,      \* the owner of the free learner row
    Cap         \* PENDING_DRAFT_CAP

ASSUME ItemsAssumption == IsFiniteSet(Items)
ASSUME CapAssumption == Cap \in Nat
ASSUME NoTxnAssumption == NoTxn \notin Txns

VARIABLES
    status,     \* item -> its status; "none" before it is inserted
    lapsed,     \* drafts past their expiry
    tier,       \* item -> its retention_tier
    card,       \* item -> retention_tier of its memory card, or Keep
    rejections, \* item -> number of DraftRejection rows
    lock,       \* the transaction that holds the learner row
    txn,        \* request -> what its transaction is about to do
    overtaken   \* history: requests since whose load another changed the status
                \* of one of their items

vars == <<status, lapsed, tier, card, rejections, lock, txn, overtaken>>

Statuses == {"none", "draft", "active", "retired", "deleted"}
Stored == {"draft", "active", "retired"}

ASSUME KeepAssumption == Keep \notin Tiers \cup Statuses

Idle == [stage |-> "idle"]

\* What a request has decided: the items, the status and tier they get, and the
\* tier their cards get.  "discard" deletes, "insert" creates, "card" has yet to
\* read the card, seeds says whether it creates a missing one.
Pending == [stage : {"card", "write", "discard", "insert"},
            items : SUBSET Items,
            status : Statuses \cup {Keep}, itemTier : Tiers \cup {Keep},
            cardTier : Tiers \cup {Keep}, seeds : BOOLEAN]

\* Every item has a status and a tier of the schema; a column a request leaves
\* alone never ends up without one.
TypeOK ==
    /\ status \in [Items -> Statuses]
    /\ lapsed \subseteq Items
    /\ tier \in [Items -> Tiers]
    /\ card \in [Items -> Tiers \cup {Keep}]
    /\ rejections \in [Items -> Nat]
    /\ lock \in Txns \cup {NoTxn}
    /\ txn \in [Txns -> Pending \cup {Idle}]
    /\ overtaken \subseteq {t \in Txns : txn[t] # Idle}

Init ==
    /\ status = [i \in Items |-> "none"]
    /\ lapsed = {}
    /\ tier \in [Items -> Tiers]
    /\ card = [i \in Items |-> Keep]
    /\ rejections = [i \in Items |-> 0]
    /\ lock = NoTxn
    /\ txn = [t \in Txns |-> Idle]
    /\ overtaken = {}
-----------------------------------------------------------------------------
InFlight == {t \in Txns : txn[t] # Idle}

With(s) == {i \in Items : status[i] = s}

\* count_pending_drafts: a lapsed draft waits for nobody.
LiveDrafts == With("draft") \ lapsed

Begin(t, r) ==
    /\ txn[t] = Idle
    /\ txn' = [txn EXCEPT ![t] = r]
    /\ UNCHANGED <<status, lapsed, tier, card, rejections, overtaken>>

Request(stage, items, newStatus, itemTier) ==
    [stage |-> stage, items |-> items, status |-> newStatus,
     itemTier |-> itemTier, cardTier |-> Keep, seeds |-> FALSE]

CardRequest(i, itemTier, cardTier, seeds) ==
    [stage |-> "card", items |-> {i}, status |-> Keep,
     itemTier |-> itemTier, cardTier |-> cardTier, seeds |-> seeds]

\* The column is written only if it differs from the loaded one.
Changed(new, loaded) == IF new = loaded THEN Keep ELSE new

NewIds == {i \in With("none") : \A u \in InFlight : i \notin txn[u].items}

\* Mutant: the read-only preview of the capacity, without the learner lock.
PreviewDraftCapacity(t, batch) ==
    /\ Cardinality(LiveDrafts) + Cardinality(batch) <= Cap
    /\ Begin(t, Request("insert", batch, "draft", Keep))
    /\ UNCHANGED lock

\* reserve_draft_capacity: a batch that does not fit is refused as a whole.
ReserveDraftCapacity(t, batch) ==
    /\ lock = NoTxn
    /\ Cardinality(LiveDrafts) + Cardinality(batch) <= Cap
    /\ Begin(t, Request("insert", batch, "draft", Keep))
    /\ lock' = t

\* load-seed --activate: no reservation.
Activate(t, batch) ==
    /\ Begin(t, Request("insert", batch, "active", Keep))
    /\ UNCHANGED lock

\* approve_draft_route: the form may change the tier.
Approve(t, i, newTier) ==
    /\ status[i] = "draft"
    /\ Begin(t, Request("write", {i}, "active", Changed(newTier, tier[i])))
    /\ UNCHANGED lock

\* bulk_approve_ideas_route: the listed drafts, in one transaction.
BulkApprove(t, ideas) ==
    /\ ideas \subseteq With("draft")
    /\ Begin(t, Request("write", ideas, "active", Keep))
    /\ UNCHANGED lock

Reject(t, i) ==
    /\ status[i] = "draft"
    /\ Begin(t, Request("discard", {i}, Keep, Keep))
    /\ UNCHANGED lock

\* expire_stale_drafts, on each visit of the drafts page.
ExpireStaleDrafts(t) ==
    /\ With("draft") \cap lapsed # {}
    /\ Begin(t, Request("discard", With("draft") \cap lapsed, Keep, Keep))
    /\ UNCHANGED lock

\* submit_review, and record_dispute with the learner's grade: of an item in
\* whatever status, whose tier the card will have.
SubmitReview(t, i) ==
    /\ status[i] \in Stored
    /\ Begin(t, CardRequest(i, Keep, tier[i], TRUE))
    /\ UNCHANGED lock

\* save_item_settings_route: set_item_tier.
SetItemTier(t, i, newTier) ==
    /\ status[i] \in Stored
    /\ Begin(t, CardRequest(i, Changed(newTier, tier[i]), newTier, FALSE))
    /\ UNCHANGED lock

\* retire_item_route: of an item in whatever status.
Retire(t, i) ==
    /\ status[i] \in Stored
    /\ Begin(t, Request("write", {i}, Changed("retired", status[i]), Keep))
    /\ UNCHANGED lock

\* retire_expired_items and retire_by_subject: any of the active items may be
\* past its horizon or about the subject.
RetireActive(t, items) ==
    /\ items \subseteq With("active")
    /\ Begin(t, Request("write", items, "retired", Keep))
    /\ UNCHANGED lock

\* The request r once it has seen the card c, or that there is none.
CardSeen(r, c) ==
    [r EXCEPT !.stage = "write",
              !.cardTier = IF c = Keep /\ ~r.seeds THEN Keep ELSE Changed(@, c),
              !.seeds = @ /\ c = Keep]

\* get_card_state of set_item_tier, get_or_seed_card_state of a review: only the
\* latter creates a missing card, and waits for another that does.
ReadCard(t) ==
    /\ txn[t] # Idle /\ txn[t].stage = "card"
    /\ \E i \in txn[t].items :
          /\ card[i] = Keep /\ txn[t].seeds =>
                \A u \in InFlight :
                    txn[u].stage = "write" /\ txn[u].seeds => i \notin txn[u].items
          /\ txn' = [txn EXCEPT ![t] = CardSeen(@, card[i])]
    /\ UNCHANGED <<status, lapsed, tier, card, rejections, lock, overtaken>>

\* Mutant: a column the request leaves alone is written all the same.
WrittenBlindly(column, items, new) ==
    [i \in Items |-> IF i \in items THEN new ELSE column[i]]

\* A column of the items gets a new value, or stays.
Written(column, items, new) ==
    [i \in Items |-> IF i \in items /\ new # Keep THEN new ELSE column[i]]

\* The statuses written are news to the other requests about those items.
End(t) ==
    /\ txn' = [txn EXCEPT ![t] = Idle]
    /\ overtaken' = {u \in InFlight \ {t} :
          u \in overtaken \/ \E i \in txn[u].items : status'[i] # status[i]}

\* Mutant: an approval inserts the row again when it is gone.
WriteOrInsert(t) ==
    LET r == txn[t]
    IN  /\ r # Idle /\ r.stage = "write"
        /\ status' = Written(status, r.items, r.status)
        /\ tier' = Written(tier, r.items, r.itemTier)
        /\ card' = Written(card, r.items, r.cardTier)
        /\ lapsed' = IF r.status = "active" THEN lapsed \ r.items ELSE lapsed
        /\ End(t)
        /\ UNCHANGED <<rejections, lock>>

\* The updates of approve_draft, set_item_tier, a review or a retirement, and
\* the commit.  An update of a deleted item fails, which leaves only Rollback.
Write(t) ==
    LET r == txn[t]
    IN  /\ r # Idle /\ r.stage = "write"
        /\ r.status # Keep \/ r.itemTier # Keep =>
              r.items \cap With("deleted") = {}
        /\ status' = Written(status, r.items, r.status)
        /\ tier' = Written(tier, r.items, r.itemTier)
        /\ card' = Written(card, r.items, r.cardTier)
        /\ lapsed' = IF r.status = "active" THEN lapsed \ r.items ELSE lapsed
        /\ End(t)
        /\ UNCHANGED <<rejections, lock>>

\* reject_draft of each item, and the commit: the deletion goes by the id.
Discard(t) ==
    LET r == txn[t]
    IN  /\ r # Idle /\ r.stage = "discard"
        /\ status' = Written(status, r.items, "deleted")
        /\ rejections' = [i \in Items |-> rejections[i] + (IF i \in r.items THEN 1 ELSE 0)]
        /\ End(t)
        /\ UNCHANGED <<lapsed, tier, card, lock>>

Unlocked(t) == IF lock = t THEN NoTxn ELSE lock

\* _dispatch_maintenance: the batch is inserted and committed in the
\* transaction that reserved its places.
Insert(t) ==
    LET r == txn[t]
    IN  /\ r # Idle /\ r.stage = "insert"
        /\ status' = Written(status, r.items, r.status)
        /\ lock' = Unlocked(t)
        /\ End(t)
        /\ UNCHANGED <<lapsed, tier, card, rejections>>

Rollback(t) ==
    /\ txn[t] # Idle
    /\ lock' = Unlocked(t)
    /\ UNCHANGED <<status, lapsed, tier, card, rejections>>
    /\ End(t)

\* DRAFT_TTL_DAYS pass.
Lapse(i) ==
    /\ status[i] = "draft"
    /\ i \notin lapsed
    /\ lapsed' = lapsed \cup {i}
    /\ UNCHANGED <<status, tier, card, rejections, lock, txn, overtaken>>

Step(t) ==
    \/ \E batch \in SUBSET NewIds \ {{}} : ReserveDraftCapacity(t, batch) \/ Activate(t, batch)
    \/ \E i \in Items :
          \/ Reject(t, i)
          \/ SubmitReview(t, i)
          \/ Retire(t, i)
          \/ \E newTier \in Tiers : Approve(t, i, newTier) \/ SetItemTier(t, i, newTier)
    \/ \E items \in SUBSET Items \ {{}} : BulkApprove(t, items) \/ RetireActive(t, items)
    \/ ExpireStaleDrafts(t)
    \/ ReadCard(t)
    \/ Write(t)
    \/ Discard(t)
    \/ Insert(t)
    \/ Rollback(t)

Next ==
    \/ \E t \in Txns : Step(t)
    \/ \E i \in Items : Lapse(i)

Spec == Init /\ [][Next]_vars
-----------------------------------------------------------------------------
\* The queue is structurally incapable of mounting: however many load-seed
\* runs overlap with approvals, rejections and expiries, the drafts that wait
\* for the owner never exceed the cap.
PendingCapped == Cardinality(LiveDrafts) <= Cap

\* A draft is discarded together with a DraftRejection that says so, and a
\* discarded item stays away, whatever a request that loaded it before decides.
DiscardIsFinal == \A i \in Items : rejections[i] > 0 <=> status[i] = "deleted"

\* What the settings page says of the retire button: a retired item is out of
\* the loop for good, it will not come back.
RetiredForGood ==
    [][\A i \in Items : status[i] = "retired" => status'[i] \notin {"draft", "active"}]_vars

\* The statuses an item of a given status may go on to.
Onward == [none |-> {"draft", "active"}, draft |-> {"active", "retired", "deleted"},
           active |-> {"retired"}, retired |-> {}, deleted |-> {}]

\* Where RetiredForGood and the order draft, active, retired can fail: an item
\* takes any other step, back from retirement or deleted after its approval, only
\* by a request that had loaded it before another changed it.
LifeCycleUnlessOvertaken ==
    [][\A i \in Items :
          \/ status'[i] \in {status[i]} \cup Onward[status[i]]
          \/ \E t \in overtaken : i \in txn[t].items /\ txn'[t] = Idle]_vars
=============================================================================
