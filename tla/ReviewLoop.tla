----------------------------- MODULE ReviewLoop -----------------------------
(***************************************************************************)
(* The learning loop of one learner on one knowledge node, under           *)
(* concurrent requests: attempts are recorded, graded by the learner,      *)
(* scored by a rubric or resolved as revisions; every scored attempt goes  *)
(* through schedule_for_evidence (evidence/service.py), which advances the *)
(* memory card and queues the next review; queued reviews are completed.   *)
(* Cards and counts of different learners and nodes share no rows.         *)
(*                                                                         *)
(* A request is a transaction in up to three steps: it reads (its guard,   *)
(* the completed reviews), loads the card, and writes and commits.  The    *)
(* database is external: reads see committed rows, the unique index makes  *)
(* a second insertion of the card wait, and an update overwrites the       *)
(* columns that differ from the values the session loaded.                 *)
(*                                                                         *)
(* A grade stands for what EvidenceRating computes: excluded, 1 (a lapse,  *)
(* remediation) or 2 (anything better, a due review).                      *)
(***************************************************************************)
EXTENDS Naturals, Sequences, FiniteSets

CONSTANTS
    Attempts,       \* ids an attempt can have
    Txns,           \* concurrent requests
    MaxEvidence,    \* bound: evidence records stored or being written
    MaxItems        \* bound: queue items

ASSUME TxnsAssumption == IsFiniteSet(Txns)

Excluded == 0
Lapse == 1
Pass == 2
Grades == {Excluded, Lapse, Pass}
Unscored == 3       \* the attempt carries no scoring signal

VARIABLES
    attempts,   \* attempt -> "none", "recorded", "revised" or "resolved"
    evidence,   \* committed evidence records, in commit order
    card,       \* the memory card: NoCard or its row
    items,      \* committed queue items, in commit order
    receipts,   \* attempts whose metadata records a scheduling exclusion
    txn         \* request -> what its transaction read so far

vars == <<attempts, evidence, card, items, receipts, txn>>

Requests == {"record", "revise", "self-grade", "rubric", "resolve"}
NoCard == [reviews |-> 0]
Idle == [step |-> "idle"]

\* reviews and lapses live in the serialized card, reviewCount and lapseCount
\* are the columns beside it.
Cards == [reviews : Nat, lapses : Nat, reviewCount : Nat, lapseCount : Nat, seeded : Nat]

EvidenceRecords == [attempt : Attempts, method : Requests, grade : Grades]

\* source is the evidence an item follows up, 0 for a planned one.
QueueItems == [source : Nat, kind : {"review", "trigger", "plan"},
               reason : {"due-review", "remediation"}, completed : BOOLEAN]

\* record is the stored evidence a resolution schedules, 0 for new evidence.
Active == [step : {"scheduling", "ready"}, request : Requests, attempt : Attempts,
           grade : Grades \cup {Unscored}, record : Nat, prior : Nat,
           loaded : Cards \cup {NoCard}, inserted : BOOLEAN]

\* Rows are of existing kinds and the counters of the card never go below zero.
TypeOK ==
    /\ attempts \in [Attempts -> {"none", "recorded", "revised", "resolved"}]
    /\ evidence \in Seq(EvidenceRecords)
    /\ card \in Cards \cup {NoCard}
    /\ items \in Seq(QueueItems)
    /\ receipts \subseteq Attempts
    /\ txn \in [Txns -> Active \cup {Idle}]

Init ==
    /\ attempts = [a \in Attempts |-> "none"]
    /\ evidence = <<>>
    /\ card = NoCard
    /\ items = <<>>
    /\ receipts = {}
    /\ txn = [t \in Txns |-> Idle]
-----------------------------------------------------------------------------
InFlight == {t \in Txns : txn[t] # Idle}

EvidenceOf(a) == {k \in DOMAIN evidence : evidence[k].attempt = a}
ItemsOf(a) == {i \in DOMAIN items : items[i].source \in EvidenceOf(a)}
ScoredBy(a, method) == {k \in EvidenceOf(a) : evidence[k].method = method}

\* _count_prior_successful_reviews
CompletedReviews ==
    {i \in DOMAIN items : items[i].completed /\ items[i].reason = "due-review"}

\* Mutant: every queue item of the node counts as a completed review.
BeginCountingAll(t, request, a, g, record) ==
    /\ txn[t] = Idle
    /\ txn' = [txn EXCEPT ![t] =
          [step     |-> IF g \in {Lapse, Pass} THEN "scheduling" ELSE "ready",
           request  |-> request, attempt |-> a, grade |-> g, record |-> record,
           prior    |-> Len(items),
           loaded   |-> NoCard, inserted |-> FALSE]]
    /\ UNCHANGED <<attempts, evidence, card, items, receipts>>

\* The transaction has read what it decides on; it needs the card if it has a
\* grade to advance it with.
Begin(t, request, a, g, record) ==
    /\ txn[t] = Idle
    /\ txn' = [txn EXCEPT ![t] =
          [step     |-> IF g \in {Lapse, Pass} THEN "scheduling" ELSE "ready",
           request  |-> request, attempt |-> a, grade |-> g, record |-> record,
           prior    |-> Cardinality(CompletedReviews),
           loaded   |-> NoCard, inserted |-> FALSE]]
    /\ UNCHANGED <<attempts, evidence, card, items, receipts>>

RoomForEvidence == Len(evidence) + Cardinality(InFlight) < MaxEvidence

\* record_attempt, and submit_revision_request, whose new attempt has no queue
\* items yet.
Record(t, a, g, request) ==
    /\ RoomForEvidence
    /\ attempts[a] = "none"
    /\ \A u \in InFlight : txn[u].attempt # a
    /\ Begin(t, request, a, g, 0)

\* self_grade_attempt_route: only for an attempt without evidence.
SelfGrade(t, a, g) ==
    /\ RoomForEvidence
    /\ attempts[a] # "none"
    /\ EvidenceOf(a) = {}
    /\ Begin(t, "self-grade", a, g, 0)

\* score_attempt_with_rubric: only if this rubric has no score of the attempt.
ScoreRubric(t, a, g) ==
    /\ RoomForEvidence
    /\ attempts[a] # "none"
    /\ ScoredBy(a, "rubric") = {}
    /\ Begin(t, "rubric", a, g, 0)

\* Mutant: scored evidence is scheduled again on resolution.
ResolveRescheduling(t, a) ==
    /\ attempts[a] = "revised"
    /\ IF EvidenceOf(a) # {}
       THEN \E k \in EvidenceOf(a) : Begin(t, "resolve", a, evidence[k].grade, k)
       ELSE Begin(t, "resolve", a, Unscored, 0)

\* resolve_revision_request: _ensure_revision_scheduling schedules one of the
\* attempt's records (their ids have no order) unless it has queue items.
Resolve(t, a) ==
    /\ attempts[a] = "revised"
    /\ IF EvidenceOf(a) # {} /\ ItemsOf(a) = {}
       THEN \E k \in EvidenceOf(a) : Begin(t, "resolve", a, evidence[k].grade, k)
       ELSE Begin(t, "resolve", a, Unscored, 0)

\* Mutant: the history the card is seeded from counts as its own reviews.
NewCardWithHistory(prior) ==
    [reviews |-> prior, lapses |-> 0, reviewCount |-> prior, lapseCount |-> 0, seeded |-> prior]

\* get_or_seed_card_state: the stored row, or a new one seeded from the
\* completed reviews.  While another transaction holds the inserted row the
\* insertion waits; if that one commits, its row is read.
NewCard(prior) ==
    [reviews |-> 0, lapses |-> 0, reviewCount |-> prior, lapseCount |-> 0, seeded |-> prior]

LoadCard(t) ==
    /\ txn[t] # Idle /\ txn[t].step = "scheduling"
    /\ card = NoCard => \A u \in InFlight : ~txn[u].inserted
    /\ txn' = [txn EXCEPT ![t] =
          [@ EXCEPT !.step = "ready",
                    !.loaded = IF card = NoCard THEN NewCard(txn[t].prior) ELSE card,
                    !.inserted = card = NoCard]]
    /\ UNCHANGED <<attempts, evidence, card, items, receipts>>

\* Mutant: a review that passes takes a lapse back.
AdvanceForgiving(stored, loaded, g) ==
    LET reviews == loaded.reviews + 1
        lapses == IF g = Lapse THEN loaded.lapses + 1 ELSE loaded.lapses - 1
    IN  [reviews |-> reviews, lapses |-> lapses, reviewCount |-> reviews,
         lapseCount |-> lapses, seeded |-> stored.seeded]

\* advance_card_state and the row's UPDATE: a column is written only if its
\* new value differs from the loaded one.
Advance(stored, loaded, g) ==
    LET reviews == loaded.reviews + 1
        lapses == loaded.lapses + (IF g = Lapse THEN 1 ELSE 0)
        Column(new, old, current) == IF new = old THEN current ELSE new
    IN  [reviews     |-> reviews,
         lapses      |-> lapses,
         reviewCount |-> Column(reviews, loaded.reviewCount, stored.reviewCount),
         lapseCount  |-> Column(lapses, loaded.lapseCount, stored.lapseCount),
         seeded      |-> stored.seeded]

CardAfter(r) ==
    IF r.grade \in {Lapse, Pass}
    THEN Advance(IF r.inserted THEN r.loaded ELSE card, r.loaded, r.grade)
    ELSE card

IsNewEvidence(r) == r.request # "resolve" /\ r.grade # Unscored

EvidenceAfter(r) ==
    IF IsNewEvidence(r)
    THEN Append(evidence, [attempt |-> r.attempt, method |-> r.request, grade |-> r.grade])
    ELSE evidence

AttemptAfter(r) ==
    CASE r.request = "record"  -> "recorded"
      [] r.request = "revise"  -> "revised"
      [] r.request = "resolve" -> "resolved"
      [] OTHER                 -> attempts[r.attempt]

QueueItem(source, kind, reason) ==
    [source |-> source, kind |-> kind, reason |-> reason, completed |-> FALSE]

\* The item of _decide, then that of a remediation trigger which matches; an
\* excluded record has no item of its own.
FollowUps(r, source, triggered) ==
    LET review == QueueItem(source, "review",
                            IF r.grade = Lapse THEN "remediation" ELSE "due-review")
        trigger == QueueItem(source, "trigger", "remediation")
    IN  (IF r.grade \in {Lapse, Pass} THEN <<review>> ELSE <<>>)
        \o (IF triggered THEN <<trigger>> ELSE <<>>)

\* The rest of schedule_for_evidence and of the request, and its commit.
Commit(t) ==
    LET r == txn[t]
        source == IF r.record = 0 THEN Len(evidence) + 1 ELSE r.record
    IN  /\ r # Idle /\ r.step = "ready"
        /\ evidence' = EvidenceAfter(r)
        /\ card' = CardAfter(r)
        /\ \E triggered \in BOOLEAN :
              /\ triggered => r.grade # Unscored
              /\ items' = items \o FollowUps(r, source, triggered)
        /\ Len(items') <= MaxItems
        /\ receipts' = IF r.grade = Excluded THEN receipts \cup {r.attempt} ELSE receipts
        /\ attempts' = [attempts EXCEPT ![r.attempt] = AttemptAfter(r)]
        /\ txn' = [txn EXCEPT ![t] = Idle]

\* A scheduling error, a lost connection: nothing of the request stays.
Rollback(t) ==
    /\ txn[t] # Idle
    /\ txn' = [txn EXCEPT ![t] = Idle]
    /\ UNCHANGED <<attempts, evidence, card, items, receipts>>

\* complete_review_queue_item and clear_remediation_queue_item: the route
\* sends each kind to its own, and a completed item stays as it is.
CompleteItem(i) ==
    /\ ~items[i].completed
    /\ items' = [items EXCEPT ![i].completed = TRUE]
    /\ UNCHANGED <<attempts, evidence, card, receipts, txn>>

\* A maintenance plan queues a review of a node with no evidence behind it.
PlanReview(reason) ==
    /\ Len(items) < MaxItems
    /\ items' = Append(items, QueueItem(0, "plan", reason))
    /\ UNCHANGED <<attempts, evidence, card, receipts, txn>>

Request(t) ==
    \/ \E a \in Attempts, g \in Grades \cup {Unscored}, request \in {"record", "revise"} :
          Record(t, a, g, request)
    \/ \E a \in Attempts, g \in {Lapse, Pass} : SelfGrade(t, a, g) \/ ScoreRubric(t, a, g)
    \/ \E a \in Attempts : Resolve(t, a)
    \/ LoadCard(t)
    \/ Commit(t)
    \/ Rollback(t)

Next ==
    \/ \E t \in Txns : Request(t)
    \/ \E i \in DOMAIN items : CompleteItem(i)
    \/ \E reason \in {"due-review", "remediation"} : PlanReview(reason)

Spec == Init /\ [][Next]_vars
-----------------------------------------------------------------------------
\* The loop stays connected: each evidence record is followed up exactly once,
\* by a review in the queue or by the receipt of its exclusion, though a
\* resolution schedules records that may have been scheduled before.
ReviewsOf(k) == {i \in DOMAIN items : items[i].kind = "review" /\ items[i].source = k}

FollowedUpOnce ==
    \A k \in DOMAIN evidence :
        IF evidence[k].grade = Excluded
        THEN ReviewsOf(k) = {} /\ evidence[k].attempt \in receipts
        ELSE Cardinality(ReviewsOf(k)) = 1

\* The card tells no more than the evidence: it exists once some evidence that
\* is not excluded does, and no overwritten or repeated advance makes it, or a
\* column that is written beside it, count reviews or lapses that no evidence
\* stands for.
With(grades) == {k \in DOMAIN evidence : evidence[k].grade \in grades}

CardWithinEvidence ==
    /\ card # NoCard <=> With({Lapse, Pass}) # {}
    /\ card # NoCard =>
          /\ 1 <= card.reviews /\ card.reviews <= Cardinality(With({Lapse, Pass}))
          /\ card.lapses <= Cardinality(With({Lapse}))
          /\ card.reviewCount <= card.seeded + Cardinality(With({Lapse, Pass}))
          /\ card.lapseCount <= Cardinality(With({Lapse}))

\* A card is seeded with no more successes than reviews were completed, even
\* when they were counted before the card was found missing.
SeedWithinHistory ==
    card # NoCard => card.seeded <= Cardinality(CompletedReviews)

\* What the comment on the idempotency guard of score_attempt_with_rubric
\* promises for retries and double-submits: one rubric score per attempt.
OneScorePerRubric == \A a \in Attempts : Cardinality(ScoredBy(a, "rubric")) <= 1

\* How far the guards of the self-grade and the rubric score reach: an attempt is
\* graded by each at most as often as requests overlap, so that a retry after an
\* answer adds nothing.  OneScorePerRubric asks for more.
DuplicatesBounded ==
    \A a \in Attempts, method \in {"self-grade", "rubric"} :
        Cardinality(ScoredBy(a, method)) <= Cardinality(Txns)
=============================================================================
