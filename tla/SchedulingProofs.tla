-------------------------- MODULE SchedulingProofs --------------------------
(***************************************************************************)
(* The ordered rules, the classifier and their blend grade every record as *)
(* the five-case policy does, whatever scores and confidences it carries;  *)
(* and the loop that schedules by those grades keeps evidence, queue and   *)
(* memory card consistent, for any attempts, requests and bounds.          *)
(*                                                                         *)
(* What the loop keeps is not inductive by itself: LoopInv adds what a     *)
(* request in flight has read, and how far others can have overtaken it.   *)
(* Evidence and completed reviews only ever grow, so a card that was       *)
(* loaded before still counts no more than they do; only one request holds *)
(* an uncommitted card, and none that has read a stored one waits for it.  *)
(***************************************************************************)
EXTENDS EvidenceRating, ReviewLoop, FiniteSetTheorems, SequenceTheorems, TLAPS

\* The fields of a record the rules compare, with their ranges.
LEMMA EvidenceFields ==
    ASSUME NEW e \in Evidence
    PROVE  /\ e.correctness \in {"correct", "incorrect", "unknown"}
           /\ e.score \in 0..100 \/ e.score = None
           /\ e.confidence \in 1..5 \/ e.confidence = None
<1>1. /\ e.correctness \in {"correct", "incorrect", "unknown"}
      /\ e.score \in Scores \cup {None}
      /\ e.confidence \in Confidences \cup {None}
  BY DEF Evidence
<1> QED
  BY <1>1, ScoresAssumption, ConfidencesAssumption

\* The rules, the classifier and their blend compute the grade of the policy.
LEMMA GradeFollowsPolicy ==
    ASSUME NEW e \in Evidence, NEW t \in Timing, ~e.transfer
    PROVE  Outcome(e, t).grade = PolicyGrade(e, t)
<1> DEFINE rating == AdapterRating(e, t)
<1> USE DEF FailureScoreThreshold, SuccessScoreThreshold, LowConfidenceMax,
        MediumConfidenceMin, HighConfidenceMin, None, Fail, LowConfidenceSuccess, Success
<1>1. Outcome(e, t).grade = CardGrade(e, rating)
  BY DEF Outcome, AdapterRating
<1>2. CASE Failed(e)
  <2>1. ClassifySignal(e) = 1
    BY <1>2 DEF Failed, ClassifySignal
  <2>2. BlendedSignal(e, rating) = 1
    BY <2>1 DEF BlendedSignal, FsrsVerdict, AdapterRating
  <2>3. CardGrade(e, rating) = 1
    BY <2>2 DEF CardGrade, FsrsVerdict, AdapterRating
  <2> QED
    BY <1>1, <1>2, <2>3 DEF PolicyGrade
<1>3. CASE ~Failed(e) /\ Weak(e)
  <2>0. PolicyGrade(e, t) = 2
    BY <1>3 DEF PolicyGrade
  <2>1. CASE IsSupportedCorrectOrLowConfidence(e)
    <3>1. rating = [rule |-> "supported-or-low-confidence-correct", value |-> 2]
      BY <1>3, <2>1 DEF AdapterRating, Failed
    <3>2. ClassifySignal(e) \in {2, 3}
      BY <1>3 DEF ClassifySignal, Failed
    <3>3. FsrsVerdict(rating) = 2 /\ BlendedSignal(e, rating) = 2
      BY <3>1, <3>2 DEF FsrsVerdict, BlendedSignal
    <3> QED
      BY <1>1, <2>0, <3>1, <3>3 DEF CardGrade
  <2>2. CASE ~IsSupportedCorrectOrLowConfidence(e)
    <3>1. ClassifySignal(e) = 2
      BY <1>3, <2>2, EvidenceFields DEF ClassifySignal, Failed, Weak, HasSupport, HasScore,
         LowConfidence, IsSupportedCorrectOrLowConfidence
    <3>2. \/ rating = [rule |-> "partial-under-mastery", value |-> 2]
          \/ rating = [rule |-> "insufficient-signal", value |-> 1]
      BY <1>3, <2>2, EvidenceFields DEF AdapterRating, Failed, Weak, HasSupport, HasScore,
         LowConfidence, IsSupportedCorrectOrLowConfidence, IsScoreUnderHalf,
         IsScoreUnderMastery, IsScoreAtMastery, IsFastFirstAttempt, IsGoodUnsupportedCorrect
    <3> QED
      BY <1>1, <2>0, <3>1, <3>2 DEF CardGrade, BlendedSignal, FsrsVerdict
  <2> QED
    BY <2>1, <2>2
<1>4. CASE ~Failed(e) /\ ~Weak(e)
  <2>1. ~IsSupportedCorrectOrLowConfidence(e) /\ ~IsScoreUnderHalf(e) /\ ~IsScoreUnderMastery(e)
    BY <1>4, EvidenceFields DEF Failed, Weak, HasScore, IsSupportedCorrectOrLowConfidence,
       IsScoreUnderHalf, IsScoreUnderMastery
  <2>2. ClassifySignal(e) = 3
    BY <1>4, EvidenceFields DEF ClassifySignal, Failed, Weak, HasSupport, HasScore
  <2>3. CASE Fast(e, t)
    <3>1. rating = [rule |-> "fast-first-attempt", value |-> 4]
      BY <1>4, <2>1, <2>3, EvidenceFields DEF AdapterRating, Failed, Weak, Fast, HasScore,
         IsScoreAtMastery, IsFastFirstAttempt, IsGoodUnsupportedCorrect
    <3> QED
      BY <1>1, <1>4, <2>2, <2>3, <3>1 DEF PolicyGrade, CardGrade, BlendedSignal, FsrsVerdict
  <2>4. CASE ~Fast(e, t)
    <3>1. \/ rating = [rule |-> "partial-at-mastery", value |-> 3]
          \/ rating = [rule |-> "unsupported-correct", value |-> 3]
          \/ rating = [rule |-> "insufficient-signal", value |-> 1]
      BY <1>4, <2>1, <2>4, EvidenceFields DEF AdapterRating, Failed, Weak, Fast, HasScore,
         IsScoreAtMastery, IsFastFirstAttempt, IsGoodUnsupportedCorrect
    <3>2. CardGrade(e, rating) = 3
      BY <2>2, <3>1 DEF CardGrade, BlendedSignal, FsrsVerdict
    <3> QED
      BY <1>1, <1>4, <2>4, <3>2 DEF PolicyGrade
  <2> QED
    BY <2>3, <2>4
<1> QED
  BY <1>2, <1>3, <1>4

\* What a grade says of the queue item.
LEMMA QueueFollowsGrade ==
    ASSUME NEW e \in Evidence, NEW t \in Timing, ~e.transfer
    PROVE  /\ Outcome(e, t).reason = "remediation" <=> Outcome(e, t).grade = 1
           /\ Outcome(e, t).due = "by memory model" <=> Outcome(e, t).grade >= 3
<1> DEFINE rating == AdapterRating(e, t)
           signal == BlendedSignal(e, rating)
<1> USE DEF Fail, LowConfidenceSuccess, Success, None
<1>1. rating.value \in 1..4 /\ rating.rule # "transfer-excluded"
  BY DEF AdapterRating
<1>2. ClassifySignal(e) \in 1..3
  BY DEF ClassifySignal
<1>3. FsrsVerdict(rating) \in {None, 1, 2, 3}
  BY <1>1 DEF FsrsVerdict
<1>4. signal \in 1..3
  BY <1>2, <1>3 DEF BlendedSignal
<1>5. /\ signal = 1 => CardGrade(e, rating) = 1
      /\ signal = 2 => CardGrade(e, rating) = 2
      /\ signal = 3 => CardGrade(e, rating) \in {3, 4}
  <2>1. CASE FsrsVerdict(rating) = None
    BY <1>4, <2>1 DEF CardGrade
  <2>2. CASE FsrsVerdict(rating) # None
    <3>1. signal <= FsrsVerdict(rating)
      BY <1>2, <1>3, <2>2 DEF BlendedSignal
    <3>2. /\ rating.value >= FsrsVerdict(rating)
          /\ rating.value = 4 \/ rating.value = FsrsVerdict(rating)
      BY <1>1, <2>2 DEF FsrsVerdict
    <3> QED
      BY <1>1, <1>3, <1>4, <2>2, <3>1, <3>2 DEF CardGrade
  <2> QED
    BY <2>1, <2>2
<1>6. /\ Outcome(e, t).grade = CardGrade(e, rating)
      /\ Outcome(e, t).reason = Reason(signal)
      /\ Outcome(e, t).due = Due(signal)
  BY <1>1 DEF Outcome
<1> HIDE DEF rating, signal
<1>7. /\ Reason(signal) = "remediation" <=> signal = 1
      /\ Due(signal) = "by memory model" <=> signal = 3
  BY <1>4 DEF Reason, Due
<1>8. /\ CardGrade(e, rating) = 1 <=> signal = 1
      /\ CardGrade(e, rating) >= 3 <=> signal = 3
  BY <1>4, <1>5
<1> QED
  BY <1>6, <1>7, <1>8, Zenon

\* Exactly the transfer evidence has the outcome of an exclusion.
LEMMA ExcludedOutcome ==
    ASSUME NEW e \in Evidence, NEW t \in Timing
    PROVE  e.transfer <=> Outcome(e, t) = ExclusionOutcome
<1>1. CASE e.transfer
  BY <1>1 DEF Outcome, AdapterRating
<1>2. CASE ~e.transfer
  <2>1. PolicyGrade(e, t) \in 1..4
    BY DEF PolicyGrade
  <2> QED
    BY <1>2, <2>1, GradeFollowsPolicy DEF ExclusionOutcome, None
<1> QED
  BY <1>1, <1>2
-----------------------------------------------------------------------------
\* An outcome is that of the record and timing it was scheduled from.
OutcomeInv ==
    /\ rated \in Evidence /\ timing \in Timing
    /\ Scheduled => outcome = Outcome(rated, timing)

\* What was scheduled is the outcome of the record that is in view.
LEMMA OutcomeInvariant == RatingSpec => []OutcomeInv
<1>1. RatingInit => OutcomeInv
  BY DEF RatingInit, OutcomeInv, Scheduled
<1>2. OutcomeInv /\ [RatingNext]_ratingVars => OutcomeInv'
  BY DEF OutcomeInv, RatingNext, Schedule, ratingVars, Scheduled
<1> QED
  BY <1>1, <1>2, PTL DEF RatingSpec

\* The fields of what is scheduled.
LEMMA OutcomeFields ==
    ASSUME NEW e \in Evidence, NEW t \in Timing
    PROVE  Outcome(e, t) \in [grade : {None, 1, 2, 3, 4},
                             reason : {"none", "excluded", "remediation", "due-review"},
                             due : {"none", "never", "now", "in one day", "by memory model"}]
<1>1. CASE e.transfer
  <2>1. Outcome(e, t) = ExclusionOutcome
    BY <1>1, ExcludedOutcome
  <2> QED
    BY <2>1 DEF ExclusionOutcome, None
<1>2. CASE ~e.transfer
  <2> DEFINE signal == BlendedSignal(e, AdapterRating(e, t))
             grade == CardGrade(e, AdapterRating(e, t))
  <2>1. Outcome(e, t) = [grade |-> grade, reason |-> Reason(signal), due |-> Due(signal)]
    BY <1>2 DEF Outcome, AdapterRating
  <2>2. grade = PolicyGrade(e, t)
    BY <1>2, <2>1, GradeFollowsPolicy
  <2> HIDE DEF signal, grade
  <2>3. grade \in 1..4
    BY <2>2 DEF PolicyGrade
  <2>4. /\ Reason(signal) \in {"remediation", "due-review"}
        /\ Due(signal) \in {"now", "in one day", "by memory model"}
    BY DEF Reason, Due
  <2> DEFINE reason == Reason(signal)
             due == Due(signal)
             grades == {None, 1, 2, 3, 4}
             reasons == {"none", "excluded", "remediation", "due-review"}
             dues == {"none", "never", "now", "in one day", "by memory model"}
  <2>5. grade \in grades
    BY <2>3
  <2>6. reason \in reasons /\ due \in dues
    BY <2>4
  <2>7. Outcome(e, t) = [grade |-> grade, reason |-> reason, due |-> due]
    BY <2>1
  <2> HIDE DEF reason, due, grades, reasons, dues
  <2>8. Outcome(e, t) \in [grade : grades, reason : reasons, due : dues]
    BY <2>5, <2>6, <2>7
  <2> QED
    BY <2>8 DEF grades, reasons, dues
<1> QED
  BY <1>1, <1>2

\* Whatever record is scheduled, its outcome has a grade, reason and due date of
\* the scheduler.
THEOREM RatingTypeCorrect == RatingSpec => []RatingTypeOK
<1>1. ASSUME OutcomeInv PROVE RatingTypeOK
  <2>1. rated \in Evidence /\ timing \in Timing
    BY <1>1 DEF OutcomeInv
  <2>2. CASE outcome = Unscheduled
    BY <2>1, <2>2 DEF RatingTypeOK, Unscheduled, None
  <2>3. CASE outcome = Outcome(rated, timing)
    BY <2>1, <2>3, OutcomeFields DEF RatingTypeOK
  <2> QED
    BY <1>1, <2>2, <2>3 DEF OutcomeInv, Scheduled
<1> QED
  BY <1>1, OutcomeInvariant, PTL

\* For all scores and confidences, the grade a card is advanced with is the
\* policy's: the order of the rules and the blend lose no case.
THEOREM GradesFollowPolicy == RatingSpec => []FollowsPolicy
<1>1. OutcomeInv => FollowsPolicy
  BY GradeFollowsPolicy DEF OutcomeInv, FollowsPolicy
<1> QED
  BY <1>1, OutcomeInvariant, PTL

\* Transfer evidence, and only it, leaves no grade, item or due date.
THEOREM ExclusionIsAGate == RatingSpec => []ExclusionGate
<1>1. OutcomeInv => ExclusionGate
  BY ExcludedOutcome DEF OutcomeInv, ExclusionGate
<1> QED
  BY <1>1, OutcomeInvariant, PTL

\* The item in the queue and the state of the card tell the same story.
THEOREM QueueAndCardAgree == RatingSpec => []QueueAgreesWithCard
<1>1. OutcomeInv => QueueAgreesWithCard
  BY QueueFollowsGrade DEF OutcomeInv, QueueAgreesWithCard
<1> QED
  BY <1>1, OutcomeInvariant, PTL

\* No supported or low-confidence answer is scheduled as a success.
THEOREM SupportedNeverPromoted == RatingSpec => []NeverPromoted
<1>1. ASSUME OutcomeInv PROVE NeverPromoted
  <2> SUFFICES ASSUME Scheduled, ~rated.transfer,
                      HasSupport(rated) \/ LowConfidence(rated)
               PROVE  outcome.grade <= 2 /\ outcome.due # "by memory model"
    BY DEF NeverPromoted
  <2>1. outcome = Outcome(rated, timing)
    BY <1>1 DEF OutcomeInv
  <2>2. PolicyGrade(rated, timing) \in {1, 2}
    BY DEF PolicyGrade, Weak
  <2>3. outcome.grade \in {1, 2}
    BY <1>1, <2>1, <2>2, GradeFollowsPolicy DEF OutcomeInv
  <2>4. outcome.due = "by memory model" <=> outcome.grade >= 3
    BY <1>1, <2>1, QueueFollowsGrade DEF OutcomeInv
  <2>5. outcome.grade <= 2 /\ ~(outcome.grade >= 3)
    BY <2>3
  <2> QED
    BY <2>4, <2>5, Zenon
<1> QED
  BY <1>1, OutcomeInvariant, PTL

\* With everything else equal a lower score is never graded higher.
THEOREM GradesMonotoneInScore == RatingSpec => []MonotoneInScore
<1>1. ASSUME OutcomeInv PROVE MonotoneInScore
  <2> SUFFICES ASSUME Scheduled, HasScore(rated), ~rated.transfer,
                      NEW s \in Scores, s <= rated.score
               PROVE  Outcome([rated EXCEPT !.score = s], timing).grade <= outcome.grade
    BY DEF MonotoneInScore
  <2> DEFINE lower == [rated EXCEPT !.score = s]
  <2>1. outcome.grade = PolicyGrade(rated, timing)
    BY <1>1, GradeFollowsPolicy DEF OutcomeInv
  <2>2. /\ lower \in Evidence /\ ~lower.transfer
        /\ lower.score = s /\ lower.correctness = rated.correctness
        /\ lower.confidence = rated.confidence /\ lower.binary = rated.binary
        /\ HasSupport(lower) = HasSupport(rated)
        /\ lower.firstInContext = rated.firstInContext
    BY <1>1 DEF OutcomeInv, Evidence, HasSupport
  <2>3. Outcome(lower, timing).grade = PolicyGrade(lower, timing)
    BY <1>1, <2>2, GradeFollowsPolicy DEF OutcomeInv
  <2>4. s \in 0..100 /\ rated.score \in 0..100
    BY <1>1, ScoresAssumption, EvidenceFields DEF OutcomeInv, HasScore
  <2> HIDE DEF lower
  <2>5. PolicyGrade(lower, timing) <= PolicyGrade(rated, timing)
    BY <2>2, <2>4 DEF PolicyGrade, Failed, Weak, Fast, HasScore, LowConfidence, None,
       FailureScoreThreshold, SuccessScoreThreshold
  <2> QED
    BY <2>1, <2>3, <2>5 DEF lower
<1> QED
  BY <1>1, OutcomeInvariant, PTL
-----------------------------------------------------------------------------
Graded(r) == r.grade \in {Lapse, Pass}

\* An item follows up evidence that is stored.
SourcesInv == \A i \in DOMAIN items : items[i].source <= Len(evidence)

\* A resolution schedules stored evidence only if that is excluded: everything
\* else was followed up, and then the resolution has nothing to schedule.
ResolveInv ==
    \A t \in InFlight :
        /\ txn[t].request # "resolve" => txn[t].record = 0
        /\ txn[t].request = "resolve" /\ txn[t].record = 0 => txn[t].grade = Unscored
        /\ txn[t].record # 0 =>
              /\ txn[t].record \in DOMAIN evidence
              /\ evidence[txn[t].record].grade = Excluded
              /\ txn[t].grade = Excluded

\* A request that is ready to advance the card holds the only uncommitted one,
\* seeded from what it counted, or a copy of the stored one.
LoadInv ==
    /\ \A t \in InFlight :
          /\ txn[t].step = "scheduling" => Graded(txn[t]) /\ ~txn[t].inserted
          /\ txn[t].inserted =>
                Graded(txn[t]) /\ card = NoCard /\ txn[t].loaded = NewCard(txn[t].prior)
          /\ txn[t].step = "ready" /\ Graded(txn[t]) /\ ~txn[t].inserted =>
                /\ card # NoCard
                /\ txn[t].loaded \in Cards
                /\ txn[t].loaded.reviews <= Cardinality(With({Lapse, Pass}))
                /\ txn[t].loaded.lapses <= Cardinality(With({Lapse}))
    /\ \A t, u \in InFlight : txn[t].inserted /\ txn[u].inserted => t = u

\* What a request has counted was completed.
HistoryInv == \A t \in InFlight : txn[t].prior <= Cardinality(CompletedReviews)

\* The requests that are about to add a score of an attempt count as scores.
Scoring(a, method) == {t \in InFlight : txn[t].attempt = a /\ txn[t].request = method}

ScoringInv ==
    \A a \in Attempts, method \in {"self-grade", "rubric"} :
        Cardinality(ScoredBy(a, method)) + Cardinality(Scoring(a, method)) <= Cardinality(Txns)

LoopInv ==
    /\ TypeOK /\ SourcesInv /\ ResolveInv /\ LoadInv /\ HistoryInv /\ ScoringInv
    /\ FollowedUpOnce /\ CardWithinEvidence /\ SeedWithinHistory
-----------------------------------------------------------------------------
\* Places of a sequence, and how many there are of some.
LEMMA Places ==
    ASSUME NEW R, NEW s \in Seq(R)
    PROVE  /\ Len(s) \in Nat
           /\ DOMAIN s = 1..Len(s)
           /\ \A k \in DOMAIN s : s[k] \in R
           /\ \A T : T \subseteq DOMAIN s => IsFiniteSet(T) /\ Cardinality(T) \in Nat
<1>1. /\ Len(s) \in Nat /\ DOMAIN s = 1..Len(s)
      /\ \A k \in DOMAIN s : s[k] \in R
  BY LenProperties, ElementOfSeq
<1>2. IsFiniteSet(DOMAIN s)
  BY <1>1, FS_Interval
<1>3. \A T : T \subseteq DOMAIN s => IsFiniteSet(T)
  BY <1>2, FS_Subset
<1>4. \A T : T \subseteq DOMAIN s => Cardinality(T) \in Nat
  BY <1>3, FS_CardinalityType
<1> QED
  BY <1>1, <1>3, <1>4

\* Of two finite sets the smaller has no more members.
LEMMA Fewer ==
    ASSUME NEW S, IsFiniteSet(S), NEW T, T \subseteq S
    PROVE  IsFiniteSet(T) /\ Cardinality(T) \in Nat /\ Cardinality(T) <= Cardinality(S)
<1>1. IsFiniteSet(T) /\ Cardinality(T) <= Cardinality(S)
  BY FS_Subset
<1> QED
  BY <1>1, FS_CardinalityType

\* Row types: no row is the absent one, and what a row's fields are.
LEMMA CardFields ==
    /\ NoCard \notin Cards
    /\ \A c \in Cards : c.reviews \in Nat /\ c.lapses \in Nat /\ c.reviewCount \in Nat /\
                        c.lapseCount \in Nat /\ c.seeded \in Nat
<1>1. ASSUME NoCard \in Cards PROVE FALSE
  <2>1. DOMAIN NoCard = {"reviews"}
    BY DEF NoCard
  <2>2. DOMAIN NoCard = {"reviews", "lapses", "reviewCount", "lapseCount", "seeded"}
    BY <1>1 DEF Cards
  <2> QED
    BY <2>1, <2>2
<1> QED
  BY <1>1 DEF Cards

LEMMA RequestFields ==
    /\ Idle \notin Active
    /\ \A r \in Active :
          /\ r.step \in {"scheduling", "ready"} /\ r.request \in Requests
          /\ r.attempt \in Attempts /\ r.grade \in Grades \cup {Unscored}
          /\ r.record \in Nat /\ r.prior \in Nat
          /\ r.loaded \in Cards \cup {NoCard} /\ r.inserted \in BOOLEAN
<1>1. \A r \in Active :
          /\ r.step \in {"scheduling", "ready"} /\ r.request \in Requests
          /\ r.attempt \in Attempts /\ r.grade \in Grades \cup {Unscored}
          /\ r.record \in Nat /\ r.prior \in Nat
          /\ r.loaded \in Cards \cup {NoCard} /\ r.inserted \in BOOLEAN
  BY DEF Active
<1>2. Idle.step \notin {"scheduling", "ready"}
  BY DEF Idle
<1> QED
  BY <1>1, <1>2

\* The requests in flight.
LEMMA Flying ==
    ASSUME TypeOK
    PROVE  /\ \A t \in InFlight : t \in Txns /\ txn[t] \in Active
           /\ \A t \in Txns : t \in InFlight <=> txn[t] # Idle
<1> QED
  BY RequestFields DEF InFlight, TypeOK

\* An appended record is the last; the others keep their places.
LEMMA RecordAppended ==
    ASSUME NEW s \in Seq(EvidenceRecords), NEW e \in EvidenceRecords
    PROVE  /\ Append(s, e) \in Seq(EvidenceRecords)
           /\ Len(Append(s, e)) = Len(s) + 1
           /\ DOMAIN Append(s, e) = DOMAIN s \cup {Len(s) + 1}
           /\ Len(s) + 1 \notin DOMAIN s
           /\ Append(s, e)[Len(s) + 1] = e
           /\ \A k \in DOMAIN s : Append(s, e)[k] = s[k]
<1>1. /\ Append(s, e) \in Seq(EvidenceRecords)
      /\ Len(Append(s, e)) = Len(s) + 1
      /\ \A k \in 1..Len(s) : Append(s, e)[k] = s[k]
      /\ Append(s, e)[Len(s) + 1] = e
  OBVIOUS
<1>2. Len(s) \in Nat /\ DOMAIN s = 1..Len(s)
  BY LenProperties
<1>3. DOMAIN Append(s, e) = 1..(Len(s) + 1)
  BY <1>1, LenProperties
<1> QED
  BY <1>1, <1>2, <1>3

\* The memory model's counts after an appended record.
LEMMA GradedCount ==
    ASSUME TypeOK, NEW e \in EvidenceRecords, evidence' = Append(evidence, e), NEW grades
    PROVE  Cardinality(With(grades)') =
              Cardinality(With(grades)) + (IF e.grade \in grades THEN 1 ELSE 0)
<1>1. evidence \in Seq(EvidenceRecords) /\ With(grades) \subseteq DOMAIN evidence
  BY DEF TypeOK, With
<1>2. IsFiniteSet(With(grades)) /\ Cardinality(With(grades)) \in Nat
  BY <1>1, Places
<1>3. /\ Len(evidence) + 1 \notin With(grades)
      /\ With(grades)' = IF e.grade \in grades THEN With(grades) \cup {Len(evidence) + 1}
                                               ELSE With(grades)
  BY <1>1, RecordAppended DEF With
<1>4. CASE e.grade \in grades
  <2>1. Cardinality(With(grades) \cup {Len(evidence) + 1}) = Cardinality(With(grades)) + 1
    BY <1>2, <1>3, FS_AddElement
  <2> QED
    BY <1>3, <1>4, <2>1
<1>5. CASE e.grade \notin grades
  BY <1>2, <1>3, <1>5
<1> QED
  BY <1>4, <1>5

\* Sizes of the sets the properties count.
LEMMA Sizes ==
    ASSUME TypeOK
    PROVE  /\ \A grades : Cardinality(With(grades)) \in Nat
           /\ IsFiniteSet(CompletedReviews) /\ Cardinality(CompletedReviews) \in Nat
           /\ \A a, m : IsFiniteSet(ScoredBy(a, m)) /\ Cardinality(ScoredBy(a, m)) \in Nat
           /\ \A a, m : /\ IsFiniteSet(Scoring(a, m)) /\ Cardinality(Scoring(a, m)) \in Nat
                        /\ Cardinality(Scoring(a, m)) <= Cardinality(Txns)
           /\ Cardinality(Txns) \in Nat
<1>1. evidence \in Seq(EvidenceRecords) /\ items \in Seq(QueueItems)
  BY DEF TypeOK
<1>2. /\ \A grades : With(grades) \subseteq DOMAIN evidence
      /\ \A a, m : ScoredBy(a, m) \subseteq DOMAIN evidence
      /\ CompletedReviews \subseteq DOMAIN items
  BY DEF With, ScoredBy, EvidenceOf, CompletedReviews
<1>3. \A a, m : Scoring(a, m) \subseteq Txns
  BY DEF Scoring, InFlight
<1>4. \A a, m : /\ IsFiniteSet(Scoring(a, m)) /\ Cardinality(Scoring(a, m)) \in Nat
                /\ Cardinality(Scoring(a, m)) <= Cardinality(Txns)
  BY <1>3, TxnsAssumption, Fewer
<1>5. Cardinality(Txns) \in Nat
  BY TxnsAssumption, FS_CardinalityType
<1> QED
  BY <1>1, <1>2, <1>4, <1>5, Places

\* Nothing that happens to the queue takes a completed review back.
LEMMA HistoryGrows ==
    ASSUME TypeOK, items' \in Seq(QueueItems),
           \A i \in DOMAIN items :
              /\ i \in DOMAIN items' /\ items'[i].reason = items[i].reason
              /\ items[i].completed => items'[i].completed
    PROVE  Cardinality(CompletedReviews) <= Cardinality(CompletedReviews')
<1>1. CompletedReviews \subseteq CompletedReviews' /\ CompletedReviews' \subseteq DOMAIN items'
  BY DEF CompletedReviews
<1>2. IsFiniteSet(CompletedReviews')
  BY <1>1, Places
<1> QED
  BY <1>1, <1>2, Fewer
-----------------------------------------------------------------------------
\* A request that begins has read the stored state and leaves it as it is; what
\* it read bounds it as LoopInv says.
LEMMA BeginKeeps ==
    ASSUME LoopInv, NEW t \in Txns, NEW request \in Requests, NEW a \in Attempts,
           NEW g \in Grades \cup {Unscored}, NEW record \in Nat,
           Begin(t, request, a, g, record),
           request # "resolve" => record = 0,
           request = "resolve" /\ record = 0 => g = Unscored,
           record # 0 => /\ record \in DOMAIN evidence
                         /\ evidence[record].grade = Excluded /\ g = Excluded,
           request \in {"self-grade", "rubric"} => ScoredBy(a, request) = {}
    PROVE  LoopInv'
<1> DEFINE r == txn'[t]
<1>1. /\ TypeOK /\ txn[t] = Idle
      /\ UNCHANGED <<attempts, evidence, card, items, receipts>>
      /\ txn \in [Txns -> Active \cup {Idle}] /\ txn' \in [Txns -> Active \cup {Idle}]
      /\ r \in Active
      /\ r.step = IF g \in {Lapse, Pass} THEN "scheduling" ELSE "ready"
      /\ r.request = request /\ r.attempt = a /\ r.grade = g /\ r.record = record
      /\ r.prior = Cardinality(CompletedReviews) /\ r.inserted = FALSE
      /\ \A u \in Txns : u # t => txn'[u] = txn[u]
  BY Sizes DEF LoopInv, Begin, TypeOK, Active
<1>2. t \notin InFlight /\ InFlight' = InFlight \cup {t}
  BY <1>1, RequestFields DEF InFlight
<1>3. TypeOK'
  BY <1>1 DEF TypeOK
<1>4. /\ CompletedReviews' = CompletedReviews
      /\ \A grades : With(grades)' = With(grades)
      /\ \A b, m : ScoredBy(b, m)' = ScoredBy(b, m)
      /\ \A k : ReviewsOf(k)' = ReviewsOf(k)
  BY <1>1 DEF CompletedReviews, With, ScoredBy, EvidenceOf, ReviewsOf
<1>5. \A u \in InFlight : u \in Txns /\ u # t /\ txn'[u] = txn[u]
  BY <1>1, <1>2, Flying
<1>6. SourcesInv' /\ FollowedUpOnce' /\ CardWithinEvidence' /\ SeedWithinHistory'
  BY <1>1, <1>4 DEF LoopInv, SourcesInv, FollowedUpOnce, CardWithinEvidence, SeedWithinHistory
<1>7. ResolveInv'
  BY <1>1, <1>2, <1>5 DEF LoopInv, ResolveInv
<1>8. LoadInv'
  BY <1>1, <1>2, <1>4, <1>5 DEF LoopInv, LoadInv, Graded
<1>9. HistoryInv'
  BY <1>1, <1>2, <1>4, <1>5, Sizes DEF LoopInv, HistoryInv
<1>10. ASSUME NEW b \in Attempts, NEW m \in {"self-grade", "rubric"}
       PROVE  Cardinality(ScoredBy(b, m)') + Cardinality(Scoring(b, m)') <= Cardinality(Txns)
  <2>1. Scoring(b, m)' \subseteq Txns
    BY DEF Scoring, InFlight
  <2>2. Cardinality(Scoring(b, m)') \in Nat /\ Cardinality(Scoring(b, m)') <= Cardinality(Txns)
    BY <2>1, TxnsAssumption, Fewer
  <2>3. CASE a = b /\ request = m
    BY <1>4, <2>2, <2>3, FS_EmptySet
  <2>4. CASE ~(a = b /\ request = m)
    <3>1. Scoring(b, m)' = Scoring(b, m)
      BY <1>1, <1>2, <1>5, <2>4 DEF Scoring
    <3> QED
      BY <1>4, <3>1 DEF LoopInv, ScoringInv
  <2> QED
    BY <2>3, <2>4
<1> QED
  BY <1>3, <1>6, <1>7, <1>8, <1>9, <1>10 DEF LoopInv, ScoringInv

\* The requests of learners begin as BeginKeeps asks: a resolution schedules
\* a record only if nothing followed it up, so only an excluded one.
LEMMA LearnerStep ==
    ASSUME LoopInv, NEW t \in Txns,
           \/ \E a \in Attempts, g \in Grades \cup {Unscored}, request \in {"record", "revise"} :
                 Record(t, a, g, request)
           \/ \E a \in Attempts, g \in {Lapse, Pass} : SelfGrade(t, a, g) \/ ScoreRubric(t, a, g)
    PROVE  LoopInv'
<1>1. ASSUME NEW a \in Attempts, NEW g \in Grades \cup {Unscored},
             NEW request \in {"record", "revise"}, Record(t, a, g, request)
      PROVE  LoopInv'
  BY <1>1, BeginKeeps DEF Record, Requests
<1>2. ASSUME NEW a \in Attempts, NEW g \in {Lapse, Pass}, SelfGrade(t, a, g)
      PROVE  LoopInv'
  <2>1. ScoredBy(a, "self-grade") = {}
    BY <1>2 DEF SelfGrade, ScoredBy
  <2> QED
    BY <1>2, <2>1, BeginKeeps DEF SelfGrade, Requests, Grades
<1>3. ASSUME NEW a \in Attempts, NEW g \in {Lapse, Pass}, ScoreRubric(t, a, g)
      PROVE  LoopInv'
  BY <1>3, BeginKeeps DEF ScoreRubric, Requests, Grades
<1> QED
  BY <1>1, <1>2, <1>3

LEMMA ResolveStep ==
    ASSUME LoopInv, NEW t \in Txns, NEW a \in Attempts, Resolve(t, a)
    PROVE  LoopInv'
<1>1. CASE EvidenceOf(a) # {} /\ ItemsOf(a) = {}
  <2>1. PICK k \in EvidenceOf(a) : Begin(t, "resolve", a, evidence[k].grade, k)
    BY <1>1 DEF Resolve
  <2>2. k \in DOMAIN evidence /\ evidence[k].attempt = a
    BY DEF EvidenceOf
  <2>3. k \in Nat /\ k # 0 /\ evidence[k].grade \in Grades
    <3>1. evidence \in Seq(EvidenceRecords)
      BY DEF LoopInv, TypeOK
    <3>2. k \in 1..Len(evidence) /\ Len(evidence) \in Nat /\ evidence[k] \in EvidenceRecords
      BY <2>2, <3>1, Places
    <3> QED
      BY <3>2 DEF EvidenceRecords
  <2>4. ReviewsOf(k) \subseteq ItemsOf(a)
    BY <2>2 DEF ReviewsOf, ItemsOf, EvidenceOf
  <2>5. Cardinality(ReviewsOf(k)) = 0
    BY <1>1, <2>4, FS_EmptySet
  <2>6. evidence[k].grade = Excluded
    BY <2>2, <2>5 DEF LoopInv, FollowedUpOnce
  <2> QED
    BY <2>1, <2>2, <2>3, <2>6, BeginKeeps DEF Requests
<1>2. CASE ~(EvidenceOf(a) # {} /\ ItemsOf(a) = {})
  <2>1. Begin(t, "resolve", a, Unscored, 0)
    BY <1>2 DEF Resolve
  <2> QED
    BY <2>1, BeginKeeps DEF Requests
<1> QED
  BY <1>1, <1>2

\* A loaded card is the stored one, or the only one that is being inserted.
LEMMA LoadStep ==
    ASSUME LoopInv, NEW t \in Txns, LoadCard(t)
    PROVE  LoopInv'
<1> DEFINE r == txn'[t]
<1>1. /\ TypeOK /\ txn[t] # Idle /\ txn[t].step = "scheduling" /\ txn[t] \in Active
      /\ card = NoCard => \A u \in InFlight : ~txn[u].inserted
      /\ UNCHANGED <<attempts, evidence, card, items, receipts>>
  BY RequestFields DEF LoopInv, LoadCard, TypeOK
<1>2. NewCard(txn[t].prior) \in Cards
  BY <1>1, RequestFields DEF NewCard, Cards
<1>3. /\ r \in Active
      /\ r.step = "ready" /\ r.request = txn[t].request /\ r.attempt = txn[t].attempt
      /\ r.grade = txn[t].grade /\ r.record = txn[t].record /\ r.prior = txn[t].prior
      /\ r.loaded = IF card = NoCard THEN NewCard(txn[t].prior) ELSE card
      /\ r.inserted = (card = NoCard)
      /\ txn' \in [Txns -> Active \cup {Idle}]
      /\ \A u \in Txns : u # t => txn'[u] = txn[u]
  <2>1. txn' = [txn EXCEPT ![t] =
          [@ EXCEPT !.step = "ready",
                    !.loaded = IF card = NoCard THEN NewCard(txn[t].prior) ELSE card,
                    !.inserted = card = NoCard]]
    BY DEF LoadCard
  <2>2. txn \in [Txns -> Active \cup {Idle}] /\ card \in Cards \cup {NoCard}
    BY <1>1 DEF TypeOK
  <2>3. r = [txn[t] EXCEPT !.step = "ready",
                    !.loaded = IF card = NoCard THEN NewCard(txn[t].prior) ELSE card,
                    !.inserted = card = NoCard]
    BY <2>1, <2>2
  <2> HIDE DEF r
  <2>4. (card = NoCard) \in BOOLEAN
    OBVIOUS
  <2>5. r \in Active
    BY <1>1, <1>2, <2>2, <2>3, <2>4 DEF Active
  <2>6. /\ r.step = "ready" /\ r.request = txn[t].request /\ r.attempt = txn[t].attempt
        /\ r.grade = txn[t].grade /\ r.record = txn[t].record /\ r.prior = txn[t].prior
        /\ r.loaded = IF card = NoCard THEN NewCard(txn[t].prior) ELSE card
        /\ r.inserted = (card = NoCard)
    BY <1>1, <2>3 DEF Active
  <2>7. \A u \in Txns : txn'[u] = IF u = t THEN r ELSE txn[u]
    BY <2>1, <2>2 DEF r
  <2>8. txn' \in [Txns -> Active \cup {Idle}]
    BY <2>1, <2>2, <2>5, <2>7
  <2> QED
    BY <2>5, <2>6, <2>7, <2>8 DEF r
<1> HIDE DEF r
<1>4. t \in InFlight /\ InFlight' = InFlight
  <2>1. \A u \in Txns : txn'[u] # Idle <=> txn[u] # Idle
    BY <1>1, <1>3, RequestFields DEF r
  <2> QED
    BY <1>1, <2>1 DEF InFlight
<1>5. TypeOK'
  BY <1>1, <1>3 DEF TypeOK
<1>6. /\ CompletedReviews' = CompletedReviews
      /\ \A grades : With(grades)' = With(grades)
      /\ \A b, m : ScoredBy(b, m)' = ScoredBy(b, m)
      /\ \A k : ReviewsOf(k)' = ReviewsOf(k)
  BY <1>1 DEF CompletedReviews, With, ScoredBy, EvidenceOf, ReviewsOf
<1>7. \A b, m : Scoring(b, m)' = Scoring(b, m)
  BY <1>3, <1>4, Flying, <1>1 DEF Scoring, r
<1>8. \A u \in InFlight : u \in Txns /\ (u # t => txn'[u] = txn[u])
  BY <1>1, <1>3, Flying
<1>9. SourcesInv' /\ FollowedUpOnce' /\ CardWithinEvidence' /\ SeedWithinHistory'
  BY <1>1, <1>6 DEF LoopInv, SourcesInv, FollowedUpOnce, CardWithinEvidence, SeedWithinHistory
<1>10. ResolveInv' /\ HistoryInv'
  <2>1. \A u \in InFlight : /\ txn'[u].request = txn[u].request /\ txn'[u].record = txn[u].record
                            /\ txn'[u].grade = txn[u].grade /\ txn'[u].prior = txn[u].prior
    BY <1>3, <1>8 DEF r
  <2> QED
    BY <1>1, <1>4, <1>6, <2>1 DEF LoopInv, ResolveInv, HistoryInv
<1>11. LoadInv'
  <2>1. Graded(txn[t]) /\ LoadInv /\ CardWithinEvidence
    BY <1>1, <1>4 DEF LoopInv, LoadInv
  <2>2. card # NoCard => card \in Cards
    BY <1>1 DEF TypeOK
  <2>3. /\ r.step = "ready" /\ Graded(r) /\ r.prior = txn[t].prior
        /\ r.inserted <=> card = NoCard
        /\ r.inserted => r.loaded = NewCard(r.prior)
        /\ ~r.inserted => r.loaded = card
    BY <1>3, <2>1 DEF Graded
  <2>4. ~r.inserted => /\ card # NoCard /\ r.loaded \in Cards
                       /\ r.loaded.reviews <= Cardinality(With({Lapse, Pass}))
                       /\ r.loaded.lapses <= Cardinality(With({Lapse}))
    BY <2>1, <2>2, <2>3 DEF CardWithinEvidence
  <2>5. r.inserted => \A u \in InFlight : u # t => ~txn'[u].inserted
    BY <1>1, <1>8, <2>3
  <2>6. \A u \in InFlight : u # t =>
          /\ txn'[u].step = "scheduling" => Graded(txn'[u]) /\ ~txn'[u].inserted
          /\ txn'[u].inserted =>
                Graded(txn'[u]) /\ card = NoCard /\ txn'[u].loaded = NewCard(txn'[u].prior)
          /\ txn'[u].step = "ready" /\ Graded(txn'[u]) /\ ~txn'[u].inserted =>
                /\ card # NoCard
                /\ txn'[u].loaded \in Cards
                /\ txn'[u].loaded.reviews <= Cardinality(With({Lapse, Pass}))
                /\ txn'[u].loaded.lapses <= Cardinality(With({Lapse}))
    BY <1>8, <2>1 DEF LoadInv
  <2>7. \A u, v \in InFlight : u # t /\ v # t /\ txn'[u].inserted /\ txn'[v].inserted => u = v
    BY <1>8, <2>1 DEF LoadInv
  <2>8. txn'[t] = r
    BY DEF r
  <2>9. \A u \in InFlight : u # t /\ txn'[u].inserted => ~r.inserted
    BY <2>5
  <2>10. \A u, v \in InFlight : txn'[u].inserted /\ txn'[v].inserted => u = v
    BY <2>7, <2>8, <2>9
  <2>11. \A u \in InFlight :
          /\ txn'[u].step = "scheduling" => Graded(txn'[u]) /\ ~txn'[u].inserted
          /\ txn'[u].inserted =>
                Graded(txn'[u]) /\ card = NoCard /\ txn'[u].loaded = NewCard(txn'[u].prior)
          /\ txn'[u].step = "ready" /\ Graded(txn'[u]) /\ ~txn'[u].inserted =>
                /\ card # NoCard
                /\ txn'[u].loaded \in Cards
                /\ txn'[u].loaded.reviews <= Cardinality(With({Lapse, Pass}))
                /\ txn'[u].loaded.lapses <= Cardinality(With({Lapse}))
    BY <2>3, <2>4, <2>6, <2>8
  <2> QED
    BY <1>1, <1>4, <1>6, <2>10, <2>11 DEF LoadInv, Graded
<1>12. ScoringInv'
  BY <1>6, <1>7 DEF LoopInv, ScoringInv
<1> QED
  BY <1>5, <1>9, <1>10, <1>11, <1>12 DEF LoopInv

\* A request that is rolled back leaves the stored state to the others.
LEMMA RollbackStep ==
    ASSUME LoopInv, NEW t \in Txns, Rollback(t)
    PROVE  LoopInv'
<1>1. /\ TypeOK /\ txn' = [txn EXCEPT ![t] = Idle]
      /\ UNCHANGED <<attempts, evidence, card, items, receipts>>
      /\ txn \in [Txns -> Active \cup {Idle}]
  BY DEF LoopInv, Rollback, TypeOK
<1>2. InFlight' = InFlight \ {t} /\ \A u \in InFlight' : u \in InFlight /\ txn'[u] = txn[u]
  BY <1>1 DEF InFlight
<1>3. TypeOK'
  BY <1>1 DEF TypeOK
<1>4. /\ CompletedReviews' = CompletedReviews
      /\ \A grades : With(grades)' = With(grades)
      /\ \A b, m : ScoredBy(b, m)' = ScoredBy(b, m)
      /\ \A k : ReviewsOf(k)' = ReviewsOf(k)
      /\ \A b, m : Scoring(b, m)' \subseteq Scoring(b, m)
  BY <1>1, <1>2 DEF CompletedReviews, With, ScoredBy, EvidenceOf, ReviewsOf, Scoring
<1>5. SourcesInv' /\ FollowedUpOnce' /\ CardWithinEvidence' /\ SeedWithinHistory'
  BY <1>1, <1>4 DEF LoopInv, SourcesInv, FollowedUpOnce, CardWithinEvidence, SeedWithinHistory
<1>6. ResolveInv' /\ LoadInv' /\ HistoryInv'
  <2>1. ResolveInv'
    BY <1>1, <1>2 DEF LoopInv, ResolveInv
  <2>2. HistoryInv'
    BY <1>1, <1>2, <1>4 DEF LoopInv, HistoryInv
  <2>3. \A u \in InFlight' :
          /\ txn'[u].step = "scheduling" => Graded(txn'[u]) /\ ~txn'[u].inserted
          /\ txn'[u].inserted =>
                Graded(txn'[u]) /\ card = NoCard /\ txn'[u].loaded = NewCard(txn'[u].prior)
          /\ txn'[u].step = "ready" /\ Graded(txn'[u]) /\ ~txn'[u].inserted =>
                /\ card # NoCard
                /\ txn'[u].loaded \in Cards
                /\ txn'[u].loaded.reviews <= Cardinality(With({Lapse, Pass}))
                /\ txn'[u].loaded.lapses <= Cardinality(With({Lapse}))
    BY <1>2 DEF LoopInv, LoadInv
  <2>4. \A u, v \in InFlight' : txn'[u].inserted /\ txn'[v].inserted => u = v
    BY <1>2 DEF LoopInv, LoadInv
  <2>5. LoadInv'
    BY <1>1, <1>4, <2>3, <2>4 DEF LoadInv, Graded
  <2> QED
    BY <2>1, <2>2, <2>5
<1>7. ASSUME NEW b \in Attempts, NEW m \in {"self-grade", "rubric"}
      PROVE  Cardinality(ScoredBy(b, m)') + Cardinality(Scoring(b, m)') <= Cardinality(Txns)
  <2>1. Cardinality(Scoring(b, m)') \in Nat /\ Cardinality(Scoring(b, m)') <= Cardinality(Scoring(b, m))
    BY <1>1, <1>4, Sizes, Fewer
  <2> QED
    BY <1>1, <1>4, <2>1, Sizes DEF LoopInv, ScoringInv
<1> QED
  BY <1>3, <1>5, <1>6, <1>7 DEF LoopInv, ScoringInv

\* Steps that change the queue alone: every review keeps its place, source and
\* kind, and no completed one is taken back.
LEMMA QueueStep ==
    ASSUME LoopInv, items' \in Seq(QueueItems),
           UNCHANGED <<attempts, evidence, card, receipts, txn>>,
           \A i \in DOMAIN items :
              /\ i \in DOMAIN items' /\ items'[i].reason = items[i].reason
              /\ items[i].completed => items'[i].completed
              /\ items'[i].source = items[i].source /\ items'[i].kind = items[i].kind,
           \A i \in DOMAIN items' \ DOMAIN items :
              items'[i].source = 0 /\ items'[i].kind # "review"
    PROVE  LoopInv'
<1>1. TypeOK /\ TypeOK'
  BY DEF LoopInv, TypeOK
<1>2. /\ Cardinality(CompletedReviews) <= Cardinality(CompletedReviews')
      /\ Cardinality(CompletedReviews) \in Nat /\ Cardinality(CompletedReviews') \in Nat
  <2>1. CompletedReviews' \subseteq DOMAIN items'
    BY DEF CompletedReviews
  <2> QED
    BY <1>1, <2>1, HistoryGrows, Sizes, Places
<1>3. /\ InFlight' = InFlight
      /\ \A grades : With(grades)' = With(grades)
      /\ \A b, m : ScoredBy(b, m)' = ScoredBy(b, m)
      /\ \A b, m : Scoring(b, m)' = Scoring(b, m)
      /\ \A k : ReviewsOf(k)' = ReviewsOf(k)
  BY DEF InFlight, With, ScoredBy, EvidenceOf, Scoring, ReviewsOf
<1>4. SourcesInv'
  <2>1. Len(evidence) \in Nat
    BY <1>1, Places DEF TypeOK
  <2> QED
    BY <2>1 DEF LoopInv, SourcesInv
<1>5. ResolveInv' /\ LoadInv' /\ ScoringInv' /\ FollowedUpOnce' /\ CardWithinEvidence'
  BY <1>3 DEF LoopInv, ResolveInv, LoadInv, ScoringInv, FollowedUpOnce, CardWithinEvidence, Graded
<1>6. HistoryInv'
  <2>1. \A t \in InFlight : txn[t].prior \in Nat
    BY <1>1, Flying, RequestFields
  <2> QED
    BY <1>2, <1>3, <2>1 DEF LoopInv, HistoryInv
<1>7. SeedWithinHistory'
  <2>1. card # NoCard => card.seeded \in Nat
    BY <1>1, CardFields DEF TypeOK
  <2> QED
    BY <1>2, <2>1 DEF LoopInv, SeedWithinHistory
<1> QED
  BY <1>1, <1>4, <1>5, <1>6, <1>7 DEF LoopInv

LEMMA CompleteStep ==
    ASSUME LoopInv, NEW i \in DOMAIN items, CompleteItem(i)
    PROVE  LoopInv'
<1>1. items \in Seq(QueueItems) /\ items' = [items EXCEPT ![i].completed = TRUE]
  BY DEF LoopInv, TypeOK, CompleteItem
<1>2. /\ i \in 1..Len(items) /\ DOMAIN items = 1..Len(items)
      /\ \A j \in DOMAIN items : items[j] \in QueueItems
  BY <1>1, Places
<1>3. [items[i] EXCEPT !.completed = TRUE] \in QueueItems
  BY <1>2 DEF QueueItems
<1>4. /\ items' \in Seq(QueueItems) /\ DOMAIN items' = DOMAIN items
      /\ \A j \in DOMAIN items : items'[j] = IF j = i THEN [items[i] EXCEPT !.completed = TRUE]
                                                      ELSE items[j]
  BY <1>1, <1>2, <1>3, ExceptSeq
<1>5. \A j \in DOMAIN items :
          /\ items'[j].reason = items[j].reason
          /\ items[j].completed => items'[j].completed
          /\ items'[j].source = items[j].source /\ items'[j].kind = items[j].kind
  BY <1>2, <1>4 DEF QueueItems
<1> QED
  BY <1>4, <1>5, QueueStep DEF CompleteItem

\* Items that are added to the queue take the places after those it has.
LEMMA ItemsAdded ==
    ASSUME NEW q \in Seq(QueueItems), NEW s \in Seq(QueueItems)
    PROVE  /\ q \o s \in Seq(QueueItems)
           /\ Len(q) \in Nat /\ DOMAIN q = 1..Len(q)
           /\ Len(s) \in Nat /\ DOMAIN s = 1..Len(s)
           /\ DOMAIN (q \o s) = 1..(Len(q) + Len(s))
           /\ \A i \in DOMAIN q : i \in DOMAIN (q \o s) /\ (q \o s)[i] = q[i]
           /\ \A i \in DOMAIN (q \o s) \ DOMAIN q :
                 i - Len(q) \in DOMAIN s /\ (q \o s)[i] = s[i - Len(q)]
<1>1. /\ q \o s \in Seq(QueueItems)
      /\ Len(q \o s) = Len(q) + Len(s)
      /\ \A i \in 1 .. Len(q) + Len(s) : (q \o s)[i] = IF i <= Len(q) THEN q[i] ELSE s[i - Len(q)]
  BY ConcatProperties
<1>2. /\ Len(q) \in Nat /\ DOMAIN q = 1..Len(q)
      /\ Len(s) \in Nat /\ DOMAIN s = 1..Len(s)
      /\ DOMAIN (q \o s) = 1..Len(q \o s)
  BY <1>1, LenProperties
<1> QED
  BY <1>1, <1>2

LEMMA PlanStep ==
    ASSUME LoopInv, NEW reason \in {"due-review", "remediation"}, PlanReview(reason)
    PROVE  LoopInv'
<1> DEFINE item == QueueItem(0, "plan", reason)
<1>1. items \in Seq(QueueItems) /\ items' = Append(items, item)
  BY DEF LoopInv, TypeOK, PlanReview
<1>2. item \in QueueItems /\ item.source = 0 /\ item.kind # "review"
  BY DEF QueueItem, QueueItems
<1> HIDE DEF item
<1>3. items' = items \o <<item>> /\ <<item>> \in Seq(QueueItems)
  BY <1>1, <1>2
<1>4. /\ items' \in Seq(QueueItems)
      /\ \A i \in DOMAIN items : i \in DOMAIN items' /\ items'[i] = items[i]
      /\ \A i \in DOMAIN items' \ DOMAIN items :
            i - Len(items) \in DOMAIN <<item>> /\ items'[i] = <<item>>[i - Len(items)]
  BY <1>1, <1>3, ItemsAdded
<1>5. \A i \in DOMAIN items' \ DOMAIN items : items'[i] = item
  BY <1>4
<1> QED
  BY <1>2, <1>4, <1>5, QueueStep DEF PlanReview

\* What a commit does to the rows, in terms of the request r that commits:
\* either its evidence is new and its items follow that up, or it advances no
\* card and adds no review.
LEMMA CommitWrites ==
    ASSUME LoopInv, NEW t \in InFlight, Commit(t)
    PROVE  LET r == txn[t]
               e == [attempt |-> r.attempt, method |-> r.request, grade |-> r.grade]
           IN  /\ r \in Active /\ r.step = "ready"
               /\ InFlight' = InFlight \ {t}
               /\ txn' \in [Txns -> Active \cup {Idle}]
               /\ \A u \in InFlight' : u \in InFlight /\ u # t /\ txn'[u] = txn[u]
               /\ receipts' = IF r.grade = Excluded THEN receipts \cup {r.attempt} ELSE receipts
               /\ attempts' \in [Attempts -> {"none", "recorded", "revised", "resolved"}]
               /\ card' = CardAfter(r)
               /\ \/ /\ IsNewEvidence(r) /\ e \in EvidenceRecords /\ r.record = 0
                     /\ evidence' = Append(evidence, e)
                  \/ /\ ~IsNewEvidence(r) /\ ~Graded(r) /\ evidence' = evidence
               /\ items' \in Seq(QueueItems)
               /\ \A i \in DOMAIN items : i \in DOMAIN items' /\ items'[i] = items[i]
               /\ \A i \in DOMAIN items' \ DOMAIN items :
                     /\ items'[i].source \in DOMAIN evidence'
                     /\ IsNewEvidence(r) => items'[i].source = Len(evidence) + 1
                     /\ items'[i].kind = "review" => Graded(r) /\ i = Len(items) + 1
               /\ Graded(r) => /\ Len(items) + 1 \in DOMAIN items' \ DOMAIN items
                               /\ items'[Len(items) + 1].kind = "review"
<1> DEFINE r == txn[t]
           e == [attempt |-> r.attempt, method |-> r.request, grade |-> r.grade]
           source == IF r.record = 0 THEN Len(evidence) + 1 ELSE r.record
<1>1. /\ TypeOK /\ t \in Txns /\ r \in Active /\ r.step = "ready"
      /\ evidence' = EvidenceAfter(r) /\ card' = CardAfter(r)
      /\ receipts' = IF r.grade = Excluded THEN receipts \cup {r.attempt} ELSE receipts
      /\ attempts' = [attempts EXCEPT ![r.attempt] = AttemptAfter(r)]
      /\ txn' = [txn EXCEPT ![t] = Idle]
  BY Flying DEF LoopInv, Commit
<1>2. PICK triggered \in BOOLEAN :
         /\ triggered => r.grade # Unscored
         /\ items' = items \o FollowUps(r, source, triggered)
  BY DEF Commit
<1>3. /\ r.request \in Requests /\ r.attempt \in Attempts /\ r.grade \in Grades \cup {Unscored}
      /\ r.record \in Nat
  BY <1>1, RequestFields
<1>4. ResolveInv /\ items \in Seq(QueueItems) /\ evidence \in Seq(EvidenceRecords)
  BY DEF LoopInv, TypeOK
<1> HIDE DEF r, source
<1>5. /\ r.request # "resolve" => r.record = 0
      /\ r.request = "resolve" /\ r.record = 0 => r.grade = Unscored
      /\ r.record # 0 => r.record \in DOMAIN evidence /\ r.grade = Excluded
  BY <1>4 DEF ResolveInv, r
<1>6. attempts' \in [Attempts -> {"none", "recorded", "revised", "resolved"}]
  <2>1. attempts \in [Attempts -> {"none", "recorded", "revised", "resolved"}]
    BY <1>1 DEF TypeOK
  <2>2. AttemptAfter(r) \in {"none", "recorded", "revised", "resolved"}
    BY <1>3, <2>1 DEF AttemptAfter, Requests
  <2> QED
    BY <1>1, <2>1, <2>2
<1>7. /\ txn' \in [Txns -> Active \cup {Idle}] /\ InFlight' = InFlight \ {t}
      /\ \A u \in InFlight' : u \in InFlight /\ u # t /\ txn'[u] = txn[u]
  <2>1. txn \in [Txns -> Active \cup {Idle}]
    BY <1>1 DEF TypeOK
  <2> QED
    BY <1>1, <2>1 DEF InFlight
<1>8. Graded(r) => IsNewEvidence(r) /\ r.record = 0
  BY <1>5 DEF Graded, IsNewEvidence, Lapse, Pass, Excluded, Unscored
<1>9. IsNewEvidence(r) => /\ e \in EvidenceRecords /\ r.record = 0
                          /\ evidence' = Append(evidence, e)
  BY <1>1, <1>3, <1>5 DEF IsNewEvidence, EvidenceRecords, EvidenceAfter, r
<1>10. ~IsNewEvidence(r) => evidence' = evidence
  BY <1>1 DEF EvidenceAfter
<1> DEFINE s == FollowUps(r, source, triggered)
           kindReason == IF r.grade = Lapse THEN "remediation" ELSE "due-review"
           review == QueueItem(source, "review", kindReason)
           trigger == QueueItem(source, "trigger", "remediation")
<1>11. source \in Nat
  BY <1>3, <1>4, Places DEF source
<1>12. /\ review \in QueueItems /\ review.source = source /\ review.kind = "review"
       /\ trigger \in QueueItems /\ trigger.source = source /\ trigger.kind = "trigger"
  BY <1>11 DEF QueueItem, QueueItems
<1>13. s = (IF Graded(r) THEN <<review>> ELSE <<>>) \o (IF triggered THEN <<trigger>> ELSE <<>>)
  BY DEF FollowUps, Graded
<1> HIDE DEF s, review, trigger, kindReason
<1>14. /\ s \in Seq(QueueItems)
       /\ \A j \in DOMAIN s : /\ s[j].source = source /\ (Graded(r) \/ triggered)
                              /\ s[j].kind = "review" => Graded(r) /\ j = 1
       /\ Graded(r) => 1 \in DOMAIN s /\ s[1].kind = "review"
  <2>1. CASE Graded(r) /\ triggered
    <3>1. s = <<review>> \o <<trigger>>
      BY <1>13, <2>1
    <3>2. /\ <<review>> \in Seq(QueueItems) /\ Len(<<review>>) = 1 /\ <<review>>[1] = review
          /\ <<trigger>> \in Seq(QueueItems) /\ Len(<<trigger>>) = 1 /\ <<trigger>>[1] = trigger
      BY <1>12
    <3>3. /\ s \in Seq(QueueItems) /\ DOMAIN s = 1..2
          /\ s[1] = review /\ s[2] = trigger
      BY <3>1, <3>2, ConcatProperties, ItemsAdded
    <3> QED
      BY <1>12, <2>1, <3>3
  <2>2. CASE Graded(r) /\ ~triggered
    <3>1. s = <<review>>
      BY <1>12, <1>13, <2>2, ConcatEmptySeq
    <3> QED
      BY <1>12, <2>2, <3>1
  <2>3. CASE ~Graded(r) /\ triggered
    <3>1. s = <<trigger>>
      BY <1>12, <1>13, <2>3, ConcatEmptySeq
    <3> QED
      BY <1>12, <2>3, <3>1
  <2>4. CASE ~Graded(r) /\ ~triggered
    <3>1. s = <<>>
      BY <1>13, <2>4, ConcatEmptySeq, EmptySeq
    <3> QED
      BY <2>4, <3>1
  <2> QED
    BY <2>1, <2>2, <2>3, <2>4
<1>15. /\ items' = items \o s
       /\ items' \in Seq(QueueItems)
       /\ Len(items) \in Nat /\ DOMAIN items = 1..Len(items) /\ Len(s) \in Nat
       /\ DOMAIN s = 1..Len(s) /\ DOMAIN items' = 1..(Len(items) + Len(s))
       /\ \A i \in DOMAIN items : i \in DOMAIN items' /\ items'[i] = items[i]
       /\ \A i \in DOMAIN items' \ DOMAIN items :
             i - Len(items) \in DOMAIN s /\ items'[i] = s[i - Len(items)]
  <2>1. items' = items \o s
    BY <1>2 DEF s
  <2> QED
    BY <1>4, <1>14, <2>1, ItemsAdded
<1>16. Graded(r) \/ triggered => source \in DOMAIN evidence'
  <2>1. CASE IsNewEvidence(r)
    <3>1. source = Len(evidence) + 1
      BY <1>9, <2>1 DEF source
    <3> QED
      BY <1>4, <1>9, <2>1, <3>1, RecordAppended
  <2>2. CASE ~IsNewEvidence(r) /\ (Graded(r) \/ triggered)
    <3>1. r.grade # Unscored /\ r.request = "resolve"
      BY <1>2, <1>8, <2>2 DEF IsNewEvidence
    <3>2. r.record # 0
      BY <1>5, <3>1
    <3> QED
      BY <1>5, <1>10, <2>2, <3>2 DEF source
  <2> QED
    BY <2>1, <2>2
<1>17. \A i \in DOMAIN items' \ DOMAIN items :
                     /\ items'[i].source \in DOMAIN evidence'
                     /\ IsNewEvidence(r) => items'[i].source = Len(evidence) + 1
                     /\ items'[i].kind = "review" => Graded(r) /\ i = Len(items) + 1
  <2> SUFFICES ASSUME NEW i \in DOMAIN items' \ DOMAIN items
               PROVE  /\ items'[i].source \in DOMAIN evidence'
                      /\ IsNewEvidence(r) => items'[i].source = Len(evidence) + 1
                      /\ items'[i].kind = "review" => Graded(r) /\ i = Len(items) + 1
    OBVIOUS
  <2>1. /\ i - Len(items) \in DOMAIN s /\ items'[i] = s[i - Len(items)] /\ i \in Nat
    BY <1>15
  <2>2. /\ items'[i].source = source /\ (Graded(r) \/ triggered)
        /\ items'[i].kind = "review" => Graded(r) /\ i - Len(items) = 1
    BY <1>14, <2>1
  <2>3. IsNewEvidence(r) => source = Len(evidence) + 1
    BY <1>9 DEF source
  <2> QED
    BY <1>15, <1>16, <2>1, <2>2, <2>3
<1>18. Graded(r) => /\ Len(items) + 1 \in DOMAIN items' \ DOMAIN items
                    /\ items'[Len(items) + 1].kind = "review"
  <2> SUFFICES ASSUME Graded(r)
               PROVE  /\ Len(items) + 1 \in DOMAIN items' \ DOMAIN items
                      /\ items'[Len(items) + 1].kind = "review"
    OBVIOUS
  <2>1. 1 \in DOMAIN s /\ s[1].kind = "review"
    BY <1>14
  <2>2. Len(items) + 1 \in DOMAIN items' \ DOMAIN items /\ (Len(items) + 1) - Len(items) = 1
    BY <1>15, <2>1
  <2>3. items'[Len(items) + 1] = s[(Len(items) + 1) - Len(items)]
    BY <1>15, <2>2
  <2> QED
    BY <2>1, <2>2, <2>3
<1> QED
  BY <1>1, <1>6, <1>7, <1>8, <1>9, <1>10, <1>15, <1>17, <1>18 DEF r

\* The advance of a card that was loaded within the evidence counts no more
\* than the evidence and the record that it is advanced by.
LEMMA AdvanceWithinEvidence ==
    ASSUME NEW stored \in Cards, NEW loaded \in Cards, NEW g \in {Lapse, Pass},
           NEW w \in Nat, NEW l \in Nat,
           loaded.reviews <= w, loaded.lapses <= l,
           stored.reviewCount <= stored.seeded + w, stored.lapseCount <= l
    PROVE  LET c == Advance(stored, loaded, g)
               m == l + (IF g = Lapse THEN 1 ELSE 0)
           IN  /\ c \in Cards /\ c.seeded = stored.seeded
               /\ 1 <= c.reviews /\ c.reviews <= w + 1 /\ c.lapses <= m
               /\ c.reviewCount <= c.seeded + (w + 1) /\ c.lapseCount <= m
<1> DEFINE reviews == loaded.reviews + 1
           lapses == loaded.lapses + (IF g = Lapse THEN 1 ELSE 0)
           column == IF reviews = loaded.reviewCount THEN stored.reviewCount ELSE reviews
           lapseColumn == IF lapses = loaded.lapseCount THEN stored.lapseCount ELSE lapses
<1>1. Advance(stored, loaded, g) =
         [reviews |-> reviews, lapses |-> lapses, reviewCount |-> column,
          lapseCount |-> lapseColumn, seeded |-> stored.seeded]
  BY DEF Advance
<1>2. /\ loaded.reviews \in Nat /\ loaded.lapses \in Nat /\ loaded.reviewCount \in Nat
      /\ loaded.lapseCount \in Nat /\ stored.reviewCount \in Nat /\ stored.lapseCount \in Nat
      /\ stored.seeded \in Nat
  BY CardFields
<1>3. /\ reviews \in Nat /\ lapses \in Nat /\ column \in Nat /\ lapseColumn \in Nat
      /\ 1 <= reviews /\ reviews <= w + 1 /\ lapses <= l + (IF g = Lapse THEN 1 ELSE 0)
      /\ column <= stored.seeded + (w + 1)
      /\ lapseColumn <= l + (IF g = Lapse THEN 1 ELSE 0)
  BY <1>2
<1> HIDE DEF reviews, lapses, column, lapseColumn
<1> QED
  BY <1>1, <1>2, <1>3 DEF Cards

\* The card after a commit.
LEMMA CommitCard ==
    ASSUME LoopInv, NEW t \in InFlight, Commit(t)
    PROVE  /\ card' \in Cards \cup {NoCard}
           /\ ~Graded(txn[t]) => card' = card
           /\ Graded(txn[t]) =>
                 /\ card' # NoCard
                 /\ \A u \in InFlight : u # t => ~txn[u].inserted
           /\ CardWithinEvidence' /\ SeedWithinHistory'
<1> DEFINE r == txn[t]
           e == [attempt |-> r.attempt, method |-> r.request, grade |-> r.grade]
           w == Cardinality(With({Lapse, Pass}))
           l == Cardinality(With({Lapse}))
<1>1. /\ r \in Active /\ r.step = "ready" /\ card' = CardAfter(r)
      /\ \/ /\ IsNewEvidence(r) /\ e \in EvidenceRecords /\ r.record = 0
            /\ evidence' = Append(evidence, e)
         \/ /\ ~IsNewEvidence(r) /\ ~Graded(r) /\ evidence' = evidence
  BY CommitWrites
<1>2. TypeOK /\ LoadInv /\ CardWithinEvidence /\ SeedWithinHistory /\ HistoryInv
  BY DEF LoopInv
<1>3. /\ r.grade \in Grades \cup {Unscored} /\ r.prior \in Nat
      /\ r.loaded \in Cards \cup {NoCard} /\ r.inserted \in BOOLEAN
  BY <1>1, RequestFields
<1>4. w \in Nat /\ l \in Nat /\ Cardinality(CompletedReviews) \in Nat
  BY <1>2, Sizes
<1>5. /\ Cardinality(CompletedReviews) <= Cardinality(CompletedReviews')
      /\ Cardinality(CompletedReviews') \in Nat
  <2>1. /\ items' \in Seq(QueueItems)
        /\ \A i \in DOMAIN items : i \in DOMAIN items' /\ items'[i] = items[i]
    BY CommitWrites
  <2>2. CompletedReviews' \subseteq DOMAIN items'
    BY DEF CompletedReviews
  <2> QED
    BY <1>2, <2>1, <2>2, HistoryGrows, Places
<1>6. card # NoCard => card \in Cards
  BY <1>2 DEF TypeOK
<1>7. CASE ~Graded(r)
  <2>1. card' = card
    BY <1>1, <1>7 DEF CardAfter, Graded
  <2>2. /\ With({Lapse, Pass})' = With({Lapse, Pass})
        /\ With({Lapse})' = With({Lapse})
    <3>1. CASE evidence' = evidence
      BY <3>1 DEF With
    <3>2. CASE IsNewEvidence(r) /\ e \in EvidenceRecords /\ evidence' = Append(evidence, e)
      <4>1. evidence \in Seq(EvidenceRecords) /\ e.grade \notin {Lapse, Pass}
        BY <1>2, <1>7 DEF TypeOK, Graded
      <4> HIDE DEF e
      <4>2. /\ DOMAIN evidence' = DOMAIN evidence \cup {Len(evidence) + 1}
            /\ evidence'[Len(evidence) + 1] = e
            /\ \A k \in DOMAIN evidence : evidence'[k] = evidence[k]
        BY <3>2, <4>1, RecordAppended
      <4> QED
        BY <4>1, <4>2 DEF With
    <3> QED
      BY <1>1, <3>1, <3>2
  <2>3. CardWithinEvidence'
    BY <1>2, <2>1, <2>2 DEF CardWithinEvidence
  <2>4. SeedWithinHistory'
    <3>1. card # NoCard => card.seeded \in Nat
      BY <1>6, CardFields
    <3> QED
      BY <1>2, <1>4, <1>5, <2>1, <3>1 DEF SeedWithinHistory
  <2> QED
    BY <1>2, <1>7, <2>1, <2>3, <2>4 DEF TypeOK
<1>8. CASE Graded(r)
  <2> DEFINE stored == IF r.inserted THEN r.loaded ELSE card
             c == Advance(stored, r.loaded, r.grade)
             m == l + (IF r.grade = Lapse THEN 1 ELSE 0)
  <2>1. r.grade \in {Lapse, Pass} /\ card' = c
    BY <1>1, <1>8 DEF Graded, CardAfter
  <2>2. IsNewEvidence(r) /\ e \in EvidenceRecords /\ evidence' = Append(evidence, e) /\ e.grade = r.grade
    BY <1>1, <1>8
  <2> HIDE DEF e
  <2>3. /\ Cardinality(With({Lapse, Pass})') = w + 1
        /\ Cardinality(With({Lapse})') = m
    <3>1. /\ Cardinality(With({Lapse, Pass})') = w + (IF e.grade \in {Lapse, Pass} THEN 1 ELSE 0)
          /\ Cardinality(With({Lapse})') = l + (IF e.grade \in {Lapse} THEN 1 ELSE 0)
      BY <1>2, <2>2, GradedCount
    <3>2. e.grade \in {Lapse, Pass} /\ (e.grade \in {Lapse} <=> r.grade = Lapse)
      BY <2>1, <2>2
    <3> QED
      BY <3>1, <3>2
  <2>4. /\ stored \in Cards /\ r.loaded \in Cards
        /\ r.loaded.reviews <= w /\ r.loaded.lapses <= l
        /\ stored.reviewCount <= stored.seeded + w /\ stored.lapseCount <= l
        /\ stored.seeded <= Cardinality(CompletedReviews)
        /\ \A u \in InFlight : u # t => ~txn[u].inserted
    <3>1. CASE r.inserted
      <4>1. r.loaded = NewCard(r.prior)
        BY <1>2, <3>1 DEF LoadInv
      <4>2. /\ r.loaded \in Cards /\ r.loaded.reviews = 0 /\ r.loaded.lapses = 0
            /\ r.loaded.reviewCount = r.prior /\ r.loaded.lapseCount = 0
            /\ r.loaded.seeded = r.prior
        BY <1>3, <4>1 DEF NewCard, Cards
      <4>3. r.prior <= Cardinality(CompletedReviews)
        BY <1>2 DEF HistoryInv
      <4>4. \A u \in InFlight : u # t => ~txn[u].inserted
        BY <1>2, <3>1 DEF LoadInv
      <4>5. stored = r.loaded
        BY <3>1
      <4> QED
        BY <1>3, <1>4, <4>2, <4>3, <4>4, <4>5
    <3>2. CASE ~r.inserted
      <4>1. /\ card # NoCard /\ r.loaded \in Cards
            /\ r.loaded.reviews <= w /\ r.loaded.lapses <= l
        BY <1>1, <1>2, <1>8, <3>2 DEF LoadInv
      <4>2. /\ card.reviewCount <= card.seeded + w /\ card.lapseCount <= l
        BY <1>2, <4>1 DEF CardWithinEvidence
      <4>3. card.seeded <= Cardinality(CompletedReviews)
        BY <1>2, <4>1 DEF SeedWithinHistory
      <4>4. \A u \in InFlight : u # t => ~txn[u].inserted
        BY <1>2, <4>1 DEF LoadInv
      <4>5. stored = card
        BY <3>2
      <4> QED
        BY <1>6, <4>1, <4>2, <4>3, <4>4, <4>5
    <3> QED
      BY <1>3, <3>1, <3>2
  <2> HIDE DEF stored, w, l
  <2>5. /\ c \in Cards /\ c.seeded = stored.seeded
        /\ 1 <= c.reviews /\ c.reviews <= w + 1 /\ c.lapses <= m
        /\ c.reviewCount <= c.seeded + (w + 1) /\ c.lapseCount <= m
    BY <1>4, <2>1, <2>4, AdvanceWithinEvidence
  <2> HIDE DEF c, m
  <2>6. With({Lapse, Pass})' # {}
    <3>1. evidence \in Seq(EvidenceRecords)
      BY <1>2 DEF TypeOK
    <3>2. /\ Len(evidence) + 1 \in DOMAIN evidence'
          /\ evidence'[Len(evidence) + 1] = e
      BY <2>2, <3>1, RecordAppended
    <3> QED
      BY <2>1, <2>2, <3>2 DEF With
  <2>7. card' # NoCard
    BY <2>1, <2>5, CardFields
  <2>8. CardWithinEvidence'
    BY <2>1, <2>3, <2>5, <2>6, <2>7 DEF CardWithinEvidence
  <2>9. SeedWithinHistory'
    <3>1. stored.seeded \in Nat
      BY <2>4, CardFields
    <3> QED
      BY <1>4, <1>5, <2>1, <2>4, <2>5, <3>1 DEF SeedWithinHistory
  <2> QED
    BY <1>8, <2>1, <2>4, <2>5, <2>7, <2>8, <2>9
<1> QED
  BY <1>7, <1>8

\* After a commit every record is followed up once: the new one by its own
\* review or by its receipt, the others as before.
LEMMA CommitFollowUps ==
    ASSUME LoopInv, NEW t \in InFlight, Commit(t)
    PROVE  SourcesInv' /\ FollowedUpOnce'
<1> DEFINE r == txn[t]
           e == [attempt |-> r.attempt, method |-> r.request, grade |-> r.grade]
           n == Len(evidence) + 1
           p == Len(items) + 1
<1>1. /\ TypeOK /\ SourcesInv /\ FollowedUpOnce
      /\ evidence \in Seq(EvidenceRecords) /\ items \in Seq(QueueItems)
  BY DEF LoopInv, TypeOK
<1>2. /\ receipts' = IF r.grade = Excluded THEN receipts \cup {r.attempt} ELSE receipts
      /\ \/ /\ IsNewEvidence(r) /\ e \in EvidenceRecords /\ r.record = 0
            /\ evidence' = Append(evidence, e)
         \/ /\ ~IsNewEvidence(r) /\ ~Graded(r) /\ evidence' = evidence
      /\ items' \in Seq(QueueItems)
      /\ \A i \in DOMAIN items : i \in DOMAIN items' /\ items'[i] = items[i]
      /\ \A i \in DOMAIN items' \ DOMAIN items :
                     /\ items'[i].source \in DOMAIN evidence'
                     /\ IsNewEvidence(r) => items'[i].source = n
                     /\ items'[i].kind = "review" => Graded(r) /\ i = p
      /\ Graded(r) => /\ p \in DOMAIN items' \ DOMAIN items
                      /\ items'[p].kind = "review"
  BY CommitWrites
<1>3. /\ Len(evidence) \in Nat /\ DOMAIN evidence = 1..Len(evidence)
      /\ evidence' \in Seq(EvidenceRecords)
      /\ Len(evidence') \in Nat /\ DOMAIN evidence' = 1..Len(evidence')
      /\ Len(evidence) <= Len(evidence')
      /\ \A k \in DOMAIN evidence : k \in DOMAIN evidence' /\ evidence'[k] = evidence[k]
  <2>1. CASE evidence' = evidence
    BY <1>1, <2>1, Places
  <2>2. CASE e \in EvidenceRecords /\ evidence' = Append(evidence, e)
    <3> HIDE DEF e
    <3>1. /\ evidence' \in Seq(EvidenceRecords) /\ Len(evidence') = Len(evidence) + 1
          /\ DOMAIN evidence' = DOMAIN evidence \cup {Len(evidence) + 1}
          /\ \A k \in DOMAIN evidence : evidence'[k] = evidence[k]
      BY <1>1, <2>2, RecordAppended
    <3>2. Len(evidence) \in Nat /\ DOMAIN evidence = 1..Len(evidence)
      BY <1>1, Places
    <3> QED
      BY <3>1, <3>2
  <2> QED
    BY <1>2, <2>1, <2>2
<1>4. SourcesInv'
  <2> SUFFICES ASSUME NEW i \in DOMAIN items' PROVE items'[i].source <= Len(evidence')
    BY DEF SourcesInv
  <2>1. CASE i \in DOMAIN items
    <3>1. items[i] \in QueueItems /\ items[i].source <= Len(evidence)
      BY <1>1, <2>1, Places DEF SourcesInv
    <3>2. items[i].source \in Nat
      BY <3>1 DEF QueueItems
    <3>3. items'[i] = items[i]
      BY <1>2, <2>1
    <3> QED
      BY <1>3, <3>1, <3>2, <3>3
  <2>2. CASE i \notin DOMAIN items
    <3>1. items'[i].source \in DOMAIN evidence'
      BY <1>2, <2>2
    <3> QED
      BY <1>3, <3>1
  <2> QED
    BY <2>1, <2>2
<1>5. ASSUME NEW k \in DOMAIN evidence, ~(Graded(r) /\ ~IsNewEvidence(r))
      PROVE  ReviewsOf(k)' = ReviewsOf(k)
  <2>1. k # n
    BY <1>3
  <2>2. \A i \in DOMAIN items' \ DOMAIN items : items'[i].kind = "review" => items'[i].source # k
    BY <1>2, <1>5, <2>1
  <2> QED
    BY <1>2, <2>2 DEF ReviewsOf
<1>6. receipts \subseteq receipts' /\ (r.grade = Excluded => r.attempt \in receipts')
  BY <1>2
<1>7. ASSUME NEW k \in DOMAIN evidence
      PROVE  IF evidence'[k].grade = Excluded
             THEN ReviewsOf(k)' = {} /\ evidence'[k].attempt \in receipts'
             ELSE Cardinality(ReviewsOf(k)') = 1
  <2>1. ReviewsOf(k)' = ReviewsOf(k)
    BY <1>2, <1>5
  <2> QED
    BY <1>1, <1>3, <1>6, <2>1 DEF FollowedUpOnce
<1>8. CASE evidence' = evidence
  BY <1>4, <1>7, <1>8 DEF FollowedUpOnce
<1>9. CASE IsNewEvidence(r) /\ e \in EvidenceRecords /\ evidence' = Append(evidence, e)
  <2>1. e.attempt = r.attempt /\ e.grade = r.grade /\ e.grade \in Grades
    BY <1>9 DEF EvidenceRecords
  <2> HIDE DEF e
  <2>2. /\ DOMAIN evidence' = DOMAIN evidence \cup {n} /\ evidence'[n] = e
    BY <1>1, <1>9, RecordAppended
  <2>3. \A i \in DOMAIN items : items[i].source # n
    <3> SUFFICES ASSUME NEW i \in DOMAIN items PROVE items[i].source # n
      OBVIOUS
    <3>1. items[i] \in QueueItems /\ items[i].source <= Len(evidence)
      BY <1>1, Places DEF SourcesInv
    <3>2. items[i].source \in Nat
      BY <3>1 DEF QueueItems
    <3> QED
      BY <1>3, <3>1, <3>2
  <2>4. ASSUME NEW k, k = n
        PROVE  ReviewsOf(k)' = IF Graded(r) THEN {p} ELSE {}
    <3>1. \A i \in DOMAIN items' \ DOMAIN items : items'[i].source = n
      BY <1>2, <1>9
    <3>2. \A i \in DOMAIN items : items'[i].source # n
      BY <1>2, <2>3
    <3>3. ReviewsOf(k)' = {i \in DOMAIN items' : items'[i].kind = "review" /\ items'[i].source = k}
      BY DEF ReviewsOf
    <3>4. \A i : i \in ReviewsOf(k)' <=> i \in DOMAIN items' \ DOMAIN items /\ items'[i].kind = "review"
      BY <2>4, <3>1, <3>2, <3>3
    <3>5. \A i \in DOMAIN items' \ DOMAIN items : items'[i].kind = "review" <=> Graded(r) /\ i = p
      BY <1>2
    <3>6. \A i : i \in ReviewsOf(k)' <=> Graded(r) /\ i = p
      BY <1>2, <3>4, <3>5
    <3> QED
      BY <3>6
  <2>5. ASSUME NEW k, k = n
        PROVE  IF evidence'[k].grade = Excluded
               THEN ReviewsOf(k)' = {} /\ evidence'[k].attempt \in receipts'
               ELSE Cardinality(ReviewsOf(k)') = 1
    <3>0. evidence'[k] = e /\ ReviewsOf(k)' = IF Graded(r) THEN {p} ELSE {}
      BY <2>2, <2>4, <2>5
    <3>1. CASE e.grade = Excluded
      <4>1. ~Graded(r)
        BY <2>1, <3>1 DEF Graded, Excluded, Lapse, Pass
      <4> QED
        BY <1>6, <2>1, <3>0, <3>1, <4>1
    <3>2. CASE e.grade # Excluded
      <4>1. Graded(r)
        BY <2>1, <3>2 DEF Graded, Grades
      <4>2. Cardinality({p}) = 1
        BY FS_Singleton
      <4> QED
        BY <3>0, <3>2, <4>1, <4>2
    <3> QED
      BY <3>1, <3>2
  <2>6. ASSUME NEW k \in DOMAIN evidence'
        PROVE  IF evidence'[k].grade = Excluded
               THEN ReviewsOf(k)' = {} /\ evidence'[k].attempt \in receipts'
               ELSE Cardinality(ReviewsOf(k)') = 1
    <3>1. CASE k = n
      BY <2>5, <3>1
    <3>2. CASE k # n
      BY <1>7, <2>2, <3>2
    <3> QED
      BY <3>1, <3>2
  <2> QED
    BY <1>4, <2>6 DEF FollowedUpOnce
<1> QED
  BY <1>2, <1>8, <1>9

\* A commit leaves the requests it overtakes within what is stored now.
LEMMA CommitStep ==
    ASSUME LoopInv, NEW t \in Txns, Commit(t)
    PROVE  LoopInv'
<1> DEFINE r == txn[t]
           e == [attempt |-> r.attempt, method |-> r.request, grade |-> r.grade]
<1>1. /\ TypeOK /\ ResolveInv /\ LoadInv /\ HistoryInv /\ ScoringInv /\ t \in InFlight
      /\ evidence \in Seq(EvidenceRecords)
  BY DEF LoopInv, Commit, InFlight, TypeOK
<1>2. /\ r \in Active /\ r.step = "ready"
      /\ InFlight' = InFlight \ {t}
      /\ txn' \in [Txns -> Active \cup {Idle}]
      /\ \A u \in InFlight' : u \in InFlight /\ u # t /\ txn'[u] = txn[u]
      /\ receipts' = IF r.grade = Excluded THEN receipts \cup {r.attempt} ELSE receipts
      /\ attempts' \in [Attempts -> {"none", "recorded", "revised", "resolved"}]
      /\ \/ /\ IsNewEvidence(r) /\ e \in EvidenceRecords /\ r.record = 0
            /\ evidence' = Append(evidence, e)
         \/ /\ ~IsNewEvidence(r) /\ ~Graded(r) /\ evidence' = evidence
      /\ items' \in Seq(QueueItems)
      /\ \A i \in DOMAIN items : i \in DOMAIN items' /\ items'[i] = items[i]
  BY <1>1, CommitWrites
<1>3. /\ card' \in Cards \cup {NoCard}
      /\ ~Graded(r) => card' = card
      /\ Graded(r) => card' # NoCard /\ \A u \in InFlight : u # t => ~txn[u].inserted
      /\ CardWithinEvidence' /\ SeedWithinHistory'
  BY <1>1, CommitCard
<1>4. SourcesInv' /\ FollowedUpOnce'
  BY <1>1, CommitFollowUps
<1> HIDE DEF r
<1>5. e.attempt = r.attempt /\ e.method = r.request
  OBVIOUS
<1> HIDE DEF e
<1>5a. evidence' # evidence =>
         /\ evidence' \in Seq(EvidenceRecords)
         /\ DOMAIN evidence' = DOMAIN evidence \cup {Len(evidence) + 1}
         /\ Len(evidence) + 1 \notin DOMAIN evidence
         /\ evidence'[Len(evidence) + 1] = e
         /\ \A k \in DOMAIN evidence : evidence'[k] = evidence[k]
  <2>1. evidence' # evidence => e \in EvidenceRecords /\ evidence' = Append(evidence, e)
    BY <1>2
  <2> QED
    BY <1>1, <2>1, RecordAppended
<1>6. /\ evidence' \in Seq(EvidenceRecords)
      /\ \A k \in DOMAIN evidence : k \in DOMAIN evidence' /\ evidence'[k] = evidence[k]
  BY <1>1, <1>5a
<1>7. /\ Cardinality(CompletedReviews) <= Cardinality(CompletedReviews')
      /\ Cardinality(CompletedReviews) \in Nat /\ Cardinality(CompletedReviews') \in Nat
  <2>1. CompletedReviews' \subseteq DOMAIN items'
    BY DEF CompletedReviews
  <2> QED
    BY <1>1, <1>2, <2>1, HistoryGrows, Sizes, Places
<1>8. ASSUME NEW grades
      PROVE  /\ Cardinality(With(grades)) <= Cardinality(With(grades)')
             /\ Cardinality(With(grades)) \in Nat /\ Cardinality(With(grades)') \in Nat
  <2>1. With(grades) \subseteq With(grades)' /\ With(grades)' \subseteq DOMAIN evidence'
    BY <1>6 DEF With
  <2>2. IsFiniteSet(With(grades)')
    BY <1>6, <2>1, Places
  <2> QED
    BY <1>6, <2>1, <2>2, Fewer, Places
<1>9. TypeOK'
  <2>1. receipts' \subseteq Attempts
    BY <1>1, <1>2, RequestFields DEF TypeOK
  <2> QED
    BY <1>2, <1>3, <1>6, <2>1 DEF TypeOK
<1>10. ResolveInv'
  <2> SUFFICES ASSUME NEW u \in InFlight'
               PROVE  /\ txn'[u].request # "resolve" => txn'[u].record = 0
                      /\ txn'[u].request = "resolve" /\ txn'[u].record = 0 =>
                            txn'[u].grade = Unscored
                      /\ txn'[u].record # 0 =>
                            /\ txn'[u].record \in DOMAIN evidence'
                            /\ evidence'[txn'[u].record].grade = Excluded
                            /\ txn'[u].grade = Excluded
    BY DEF ResolveInv
  <2>1. u \in InFlight /\ txn'[u] = txn[u]
    BY <1>2
  <2> QED
    BY <1>1, <1>6, <2>1 DEF ResolveInv
<1>11. LoadInv'
  <2>1. ASSUME NEW u \in InFlight'
        PROVE  /\ txn'[u].step = "scheduling" => Graded(txn'[u]) /\ ~txn'[u].inserted
               /\ txn'[u].inserted =>
                     Graded(txn'[u]) /\ card' = NoCard /\ txn'[u].loaded = NewCard(txn'[u].prior)
               /\ txn'[u].step = "ready" /\ Graded(txn'[u]) /\ ~txn'[u].inserted =>
                     /\ card' # NoCard
                     /\ txn'[u].loaded \in Cards
                     /\ txn'[u].loaded.reviews <= Cardinality(With({Lapse, Pass})')
                     /\ txn'[u].loaded.lapses <= Cardinality(With({Lapse})')
    <3>1. u \in InFlight /\ u # t /\ txn'[u] = txn[u]
      BY <1>2
    <3>2. txn[u].inserted => card' = card
      BY <1>3, <3>1
    <3>3. card # NoCard => card' # NoCard
      BY <1>3
    <3>4. /\ txn[u].step = "scheduling" => Graded(txn[u]) /\ ~txn[u].inserted
          /\ txn[u].inserted =>
                Graded(txn[u]) /\ card = NoCard /\ txn[u].loaded = NewCard(txn[u].prior)
          /\ txn[u].step = "ready" /\ Graded(txn[u]) /\ ~txn[u].inserted =>
                /\ card # NoCard
                /\ txn[u].loaded \in Cards
                /\ txn[u].loaded.reviews <= Cardinality(With({Lapse, Pass}))
                /\ txn[u].loaded.lapses <= Cardinality(With({Lapse}))
      BY <1>1, <3>1 DEF LoadInv
    <3>5. txn[u].loaded \in Cards => txn[u].loaded.reviews \in Nat /\ txn[u].loaded.lapses \in Nat
      BY CardFields
    <3>6. txn[u].step = "ready" /\ Graded(txn[u]) /\ ~txn[u].inserted =>
                /\ txn[u].loaded.reviews <= Cardinality(With({Lapse, Pass})')
                /\ txn[u].loaded.lapses <= Cardinality(With({Lapse})')
      BY <1>8, <3>4, <3>5
    <3> QED
      BY <3>1, <3>2, <3>3, <3>4, <3>6
  <2>2. \A u, v \in InFlight' : txn'[u].inserted /\ txn'[v].inserted => u = v
    BY <1>1, <1>2 DEF LoadInv
  <2> QED
    BY <2>1, <2>2 DEF LoadInv, Graded
<1>12. HistoryInv'
  <2> SUFFICES ASSUME NEW u \in InFlight'
               PROVE  txn'[u].prior <= Cardinality(CompletedReviews')
    BY DEF HistoryInv
  <2>1. u \in InFlight /\ txn'[u] = txn[u]
    BY <1>2
  <2>2. txn[u].prior \in Nat
    BY <1>1, <2>1, Flying, RequestFields
  <2>3. txn[u].prior <= Cardinality(CompletedReviews)
    BY <1>1, <2>1 DEF HistoryInv
  <2> QED
    BY <1>7, <2>1, <2>2, <2>3
<1>13. ASSUME NEW b \in Attempts, NEW m \in {"self-grade", "rubric"}
       PROVE  Cardinality(ScoredBy(b, m)') + Cardinality(Scoring(b, m)') <= Cardinality(Txns)
  <2>1. /\ Cardinality(ScoredBy(b, m)) + Cardinality(Scoring(b, m)) <= Cardinality(Txns)
        /\ IsFiniteSet(ScoredBy(b, m)) /\ Cardinality(ScoredBy(b, m)) \in Nat
        /\ IsFiniteSet(Scoring(b, m)) /\ Cardinality(Scoring(b, m)) \in Nat
        /\ Cardinality(Txns) \in Nat
    BY <1>1, Sizes DEF ScoringInv
  <2>2. Scoring(b, m)' = Scoring(b, m) \ {t}
    BY <1>2 DEF Scoring
  <2>3. CASE evidence' = evidence \/ e.attempt # b \/ e.method # m
    <3>1. ScoredBy(b, m)' = ScoredBy(b, m)
      <4>1. CASE evidence' = evidence
        BY <4>1 DEF ScoredBy, EvidenceOf
      <4>2. CASE evidence' # evidence /\ (e.attempt # b \/ e.method # m)
        <5>1. /\ DOMAIN evidence' = DOMAIN evidence \cup {Len(evidence) + 1}
              /\ evidence'[Len(evidence) + 1] = e
              /\ \A k \in DOMAIN evidence : evidence'[k] = evidence[k]
          BY <1>5a, <4>2
        <5> QED
          BY <4>2, <5>1 DEF ScoredBy, EvidenceOf
      <4> QED
        BY <2>3, <4>1, <4>2
    <3>2. Cardinality(Scoring(b, m)') \in Nat /\ Cardinality(Scoring(b, m)') <= Cardinality(Scoring(b, m))
      BY <2>1, <2>2, Fewer
    <3> QED
      BY <2>1, <3>1, <3>2
  <2>4. CASE evidence' # evidence /\ e.attempt = b /\ e.method = m
    <3>1. t \in Scoring(b, m)
      BY <1>1, <1>5, <2>4 DEF Scoring, r
    <3>2. Cardinality(Scoring(b, m)') = Cardinality(Scoring(b, m)) - 1
      BY <2>1, <2>2, <3>1, FS_RemoveElement
    <3>3. /\ DOMAIN evidence' = DOMAIN evidence \cup {Len(evidence) + 1}
          /\ Len(evidence) + 1 \notin DOMAIN evidence
          /\ evidence'[Len(evidence) + 1] = e
          /\ \A k \in DOMAIN evidence : evidence'[k] = evidence[k]
      BY <1>5a, <2>4
    <3>4. /\ ScoredBy(b, m)' = ScoredBy(b, m) \cup {Len(evidence) + 1}
          /\ Len(evidence) + 1 \notin ScoredBy(b, m)
      BY <2>4, <3>3 DEF ScoredBy, EvidenceOf
    <3>5. Cardinality(ScoredBy(b, m)') = Cardinality(ScoredBy(b, m)) + 1
      BY <2>1, <3>4, FS_AddElement
    <3> QED
      BY <2>1, <3>2, <3>5
  <2> QED
    BY <2>3, <2>4
<1> QED
  BY <1>3, <1>4, <1>9, <1>10, <1>11, <1>12, <1>13 DEF LoopInv, ScoringInv

\* Every step of the loop keeps the invariant.
LEMMA LoopInvariant == Spec => []LoopInv
<1>1. Init => LoopInv
  <2> SUFFICES ASSUME Init PROVE LoopInv
    OBVIOUS
  <2>1. TypeOK
    BY DEF Init, TypeOK
  <2>2. DOMAIN evidence = {} /\ DOMAIN items = {} /\ InFlight = {}
    BY DEF Init, InFlight
  <2>3. \A grades : With(grades) = {}
    BY <2>2 DEF With
  <2>4. \A a, m : ScoredBy(a, m) = {} /\ Scoring(a, m) = {}
    BY <2>2 DEF ScoredBy, EvidenceOf, Scoring
  <2>5. SourcesInv /\ ResolveInv /\ LoadInv /\ HistoryInv /\ FollowedUpOnce
    BY <2>2 DEF SourcesInv, ResolveInv, LoadInv, HistoryInv, FollowedUpOnce
  <2>6. ScoringInv
    <3>1. Cardinality({}) = 0 /\ Cardinality(Txns) \in Nat
      BY <2>1, FS_EmptySet, Sizes
    <3> QED
      BY <2>4, <3>1 DEF ScoringInv
  <2>7. CardWithinEvidence /\ SeedWithinHistory
    BY <2>3 DEF Init, CardWithinEvidence, SeedWithinHistory
  <2> QED
    BY <2>1, <2>5, <2>6, <2>7 DEF LoopInv
<1>2. LoopInv /\ [Next]_vars => LoopInv'
  <2> SUFFICES ASSUME LoopInv, [Next]_vars PROVE LoopInv'
    OBVIOUS
  <2>1. ASSUME NEW t \in Txns, Request(t) PROVE LoopInv'
    BY <2>1, LearnerStep, ResolveStep, LoadStep, CommitStep, RollbackStep DEF Request
  <2>2. ASSUME NEW i \in DOMAIN items, CompleteItem(i) PROVE LoopInv'
    BY <2>2, CompleteStep
  <2>3. ASSUME NEW reason \in {"due-review", "remediation"}, PlanReview(reason) PROVE LoopInv'
    BY <2>3, PlanStep
  <2>4. CASE UNCHANGED vars
    <3>1. UNCHANGED <<attempts, evidence, card, items, receipts, txn>>
      BY <2>4 DEF vars
    <3>2. items \in Seq(QueueItems)
      BY DEF LoopInv, TypeOK
    <3> QED
      BY <3>1, <3>2, QueueStep
  <2> QED
    BY <2>1, <2>2, <2>3, <2>4 DEF Next
<1> QED
  BY <1>1, <1>2, PTL DEF Spec

\* The rows and requests keep their types.
THEOREM LoopTypeCorrect == Spec => []TypeOK
<1>1. LoopInv => TypeOK
  BY DEF LoopInv
<1> QED
  BY <1>1, LoopInvariant, PTL

\* Each evidence record has one review in the queue or the receipt of its
\* exclusion, whatever resolutions schedule again.
THEOREM EvidenceFollowedUpOnce == Spec => []FollowedUpOnce
<1>1. LoopInv => FollowedUpOnce
  BY DEF LoopInv
<1> QED
  BY <1>1, LoopInvariant, PTL

\* Overwritten advances lose reviews and lapses, and never invent one.
THEOREM CardNeverOvercounts == Spec => []CardWithinEvidence
<1>1. LoopInv => CardWithinEvidence
  BY DEF LoopInv
<1> QED
  BY <1>1, LoopInvariant, PTL

\* A card is seeded with no more successes than reviews were completed.
THEOREM SeedCountsHistory == Spec => []SeedWithinHistory
<1>1. LoopInv => SeedWithinHistory
  BY DEF LoopInv
<1> QED
  BY <1>1, LoopInvariant, PTL

\* An attempt has no more scores of a kind than requests that may overlap.
THEOREM ScoresBounded == Spec => []DuplicatesBounded
<1>1. ASSUME LoopInv PROVE DuplicatesBounded
  <2> SUFFICES ASSUME NEW a \in Attempts, NEW m \in {"self-grade", "rubric"}
               PROVE  Cardinality(ScoredBy(a, m)) <= Cardinality(Txns)
    BY DEF DuplicatesBounded
  <2>1. /\ Cardinality(ScoredBy(a, m)) + Cardinality(Scoring(a, m)) <= Cardinality(Txns)
        /\ Cardinality(ScoredBy(a, m)) \in Nat /\ Cardinality(Scoring(a, m)) \in Nat
        /\ Cardinality(Txns) \in Nat
    BY <1>1, Sizes DEF LoopInv, ScoringInv
  <2> QED
    BY <2>1
<1> QED
  BY <1>1, LoopInvariant, PTL
-----------------------------------------------------------------------------
\* The grade by which the loop stands for an outcome.
LoopGrade(o) == IF o.grade = None THEN Excluded ELSE IF o.grade = 1 THEN Lapse ELSE Pass

\* The loop queues what the rating decides: no review of an excluded record, and
\* for every other one review with the reason of its outcome, so that the three
\* grades of the loop stand for all that a record can be rated.
THEOREM LoopQueuesOutcome ==
    ASSUME NEW e \in Evidence, NEW t \in Timing, NEW r, NEW source,
           r.grade = LoopGrade(Outcome(e, t))
    PROVE  FollowUps(r, source, FALSE) =
              IF e.transfer THEN <<>>
              ELSE <<QueueItem(source, "review", Outcome(e, t).reason)>>
<1>1. CASE e.transfer
  <2>1. r.grade = Excluded
    BY <1>1, ExcludedOutcome DEF LoopGrade, ExclusionOutcome
  <2>2. FollowUps(r, source, FALSE) = <<>> \o <<>>
    BY <2>1 DEF FollowUps, Excluded, Lapse, Pass
  <2> QED
    BY <1>1, <2>2, ConcatEmptySeq, EmptySeq
<1>2. CASE ~e.transfer
  <2> DEFINE reason == IF r.grade = Lapse THEN "remediation" ELSE "due-review"
             review == QueueItem(source, "review", reason)
  <2>1. PolicyGrade(e, t) \in 1..4
    BY DEF PolicyGrade
  <2>2. Outcome(e, t).grade \in 1..4
    BY <1>2, <2>1, GradeFollowsPolicy
  <2>3. /\ r.grade \in {Lapse, Pass}
        /\ r.grade = Lapse <=> Outcome(e, t).grade = 1
    BY <2>2 DEF LoopGrade, None, Lapse, Pass
  <2>4. Outcome(e, t).reason \in {"remediation", "due-review"}
    <3>1. AdapterRating(e, t).rule # "transfer-excluded"
      BY <1>2 DEF AdapterRating
    <3> QED
      BY <3>1 DEF Outcome, Reason
  <2>5. reason = Outcome(e, t).reason
    BY <1>2, <2>3, <2>4, QueueFollowsGrade
  <2> HIDE DEF reason
  <2>6. FollowUps(r, source, FALSE) = <<review>> \o <<>>
    BY <2>3 DEF FollowUps, reason
  <2>7. review \in {review} /\ <<review>> \in Seq({review})
    OBVIOUS
  <2>8. FollowUps(r, source, FALSE) = <<review>>
    BY <2>6, <2>7, ConcatEmptySeq
  <2> QED
    BY <1>2, <2>5, <2>8
<1> QED
  BY <1>1, <1>2
=============================================================================
