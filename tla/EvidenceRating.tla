--------------------------- MODULE EvidenceRating ---------------------------
(***************************************************************************)
(* How one evidence record becomes a scheduling outcome: the ordered rules *)
(* of the FSRS adapter (scheduling/fsrs_adapter.py), the internal          *)
(* classifier, their blend and the decision (scheduling/service.py).       *)
(*                                                                         *)
(* Scores are percentages.  Evidence is what create_evidence_record lets   *)
(* in: its score is finite, in 0..100 and already resolved from raw and    *)
(* maximum, so the adapter and the classifier read the same one.           *)
(***************************************************************************)
EXTENDS Integers

CONSTANTS
    Scores,         \* scores a record can carry, a subset of 0..100
    Confidences     \* confidence ratings it can carry, a subset of 1..5

ASSUME ScoresAssumption == Scores \subseteq 0..100
ASSUME ConfidencesAssumption == Confidences \subseteq 1..5

None == -1      \* an absent score or confidence

Evidence ==
    [transfer    : BOOLEAN,     \* transfer_distance is near, far or novel
     correctness : {"correct", "incorrect", "unknown"},
     score       : Scores \cup {None},
     confidence  : Confidences \cup {None},
     assisted    : BOOLEAN,     \* hint_used or reference_accessed
     supported   : BOOLEAN,     \* support_level other than "none"
     binary      : BOOLEAN,     \* scoring_method = "binary"
     firstInContext : BOOLEAN]  \* attempt_number = 1, or no earlier attempt noted

\* What _prompt_class_timing_context says of the attempt: first attempt at its
\* prompt, and answered within the median of at least three eligible samples.
Timing == [first : BOOLEAN, withinMedian : BOOLEAN]

LowConfidenceMax == 2
MediumConfidenceMin == 3
HighConfidenceMin == 5
FailureScoreThreshold == 50
SuccessScoreThreshold == 85
-----------------------------------------------------------------------------
HasScore(e) == e.score # None
LowConfidence(e) == e.confidence # None /\ e.confidence <= LowConfidenceMax

\* The predicates of the adapter's rules.
HasSupport(e) == e.assisted \/ e.supported

IsSupportedCorrectOrLowConfidence(e) ==
    /\ \/ e.correctness = "correct"
       \/ e.correctness = "unknown" /\ HasScore(e) /\ e.score >= FailureScoreThreshold
    /\ HasSupport(e) \/ LowConfidence(e)

IsGoodUnsupportedCorrect(e) ==
    /\ e.correctness = "correct"
    /\ ~HasSupport(e)
    /\ e.confidence # None /\ e.confidence >= MediumConfidenceMin

IsScoreUnderHalf(e) ==
    /\ e.correctness # "incorrect"
    /\ HasScore(e) /\ e.score < FailureScoreThreshold

IsScoreUnderMastery(e) ==
    /\ e.correctness # "incorrect"
    /\ ~HasSupport(e)
    /\ HasScore(e) /\ FailureScoreThreshold <= e.score /\ e.score < SuccessScoreThreshold

\* Mutant: a binary grade is taken for partial credit.
IsAnyScoreAtMastery(e) ==
    /\ e.correctness # "incorrect"
    /\ ~HasSupport(e)
    /\ ~(e.correctness = "correct" /\ LowConfidence(e))
    /\ HasScore(e) /\ e.score >= SuccessScoreThreshold

IsScoreAtMastery(e) ==
    /\ e.correctness # "incorrect"
    /\ ~HasSupport(e)
    /\ ~(e.correctness = "correct" /\ LowConfidence(e))
    /\ HasScore(e) /\ e.score >= SuccessScoreThreshold
    /\ ~(e.binary /\ IsGoodUnsupportedCorrect(e))

\* The rule and the timing gate evidence_to_fsrs_rating puts before it.
IsFastFirstAttempt(e, t) ==
    /\ t.first /\ t.withinMedian
    /\ e.correctness = "correct"
    /\ ~HasSupport(e)
    /\ e.confidence # None /\ e.confidence >= HighConfidenceMin
    /\ e.firstInContext

\* FSRS_RULES in order, the first that applies wins; the grades are again 1,
\* hard 2, good 3, easy 4.
AdapterRating(e, t) ==
    LET Rated(rule, value) == [rule |-> rule, value |-> value]
    IN  IF e.transfer THEN Rated("transfer-excluded", None)
        ELSE IF e.correctness = "incorrect" THEN Rated("incorrect", 1)
        ELSE IF IsSupportedCorrectOrLowConfidence(e)
             THEN Rated("supported-or-low-confidence-correct", 2)
        ELSE IF IsScoreUnderHalf(e) THEN Rated("partial-under-half", 1)
        ELSE IF IsScoreUnderMastery(e) THEN Rated("partial-under-mastery", 2)
        ELSE IF IsScoreAtMastery(e) THEN Rated("partial-at-mastery", 3)
        ELSE IF IsFastFirstAttempt(e, t) THEN Rated("fast-first-attempt", 4)
        ELSE IF IsGoodUnsupportedCorrect(e) THEN Rated("unsupported-correct", 3)
        ELSE Rated("insufficient-signal", 1)

\* Signals are ordered: fail 1, low-confidence-success 2, success 3.
Fail == 1
LowConfidenceSuccess == 2
Success == 3

\* _classify_signal, its early returns in order.
ClassifySignal(e) ==
    IF e.correctness = "incorrect" \/ (HasScore(e) /\ e.score < FailureScoreThreshold)
    THEN Fail
    ELSE IF \/ LowConfidence(e) /\ (e.correctness = "correct" \/ HasScore(e))
            \/ e.supported
            \/ HasScore(e) /\ e.score < SuccessScoreThreshold
    THEN LowConfidenceSuccess
    ELSE IF e.correctness = "correct" \/ HasScore(e) THEN Success
    ELSE LowConfidenceSuccess

\* _fsrs_to_signal: no verdict when the adapter lacked signal.
FsrsVerdict(rating) ==
    IF rating.rule = "insufficient-signal" THEN None
    ELSE IF rating.value = 4 THEN Success ELSE rating.value

\* Mutant: the adapter overrules the classifier.
AdapterSignal(e, rating) ==
    IF FsrsVerdict(rating) # None THEN FsrsVerdict(rating) ELSE ClassifySignal(e)

\* The more conservative of the two when the adapter has a verdict.
BlendedSignal(e, rating) ==
    LET verdict == FsrsVerdict(rating)
        signal == ClassifySignal(e)
    IN  IF verdict # None /\ verdict <= signal THEN verdict ELSE signal

\* Mutant: the card gets the raw rating of the adapter.
RawGrade(e, rating) ==
    IF FsrsVerdict(rating) = None THEN BlendedSignal(e, rating) ELSE rating.value

\* _signal_to_rating_value: the grade the card is advanced with.
CardGrade(e, rating) ==
    LET signal == BlendedSignal(e, rating)
        cap == IF signal = Success THEN 4 ELSE signal
    IN  IF FsrsVerdict(rating) = None THEN signal
        ELSE IF rating.value <= cap THEN rating.value ELSE cap

\* Mutant: a weak success is queued as overdue work.
ReasonOverdue(signal) ==
    IF signal = Fail THEN "remediation"
    ELSE IF signal = LowConfidenceSuccess THEN "overdue" ELSE "due-review"

\* _decide: the kind of queue item and when it is due.
Reason(signal) == IF signal = Fail THEN "remediation" ELSE "due-review"

Due(signal) ==
    IF signal = Fail THEN "now"
    ELSE IF signal = LowConfidenceSuccess THEN "in one day"
    ELSE "by memory model"

ExclusionOutcome == [grade |-> None, reason |-> "excluded", due |-> "never"]

\* schedule_from_attempt, from evidence to outcome.
Outcome(e, t) ==
    LET rating == AdapterRating(e, t)
        signal == BlendedSignal(e, rating)
    IN  IF rating.rule = "transfer-excluded" THEN ExclusionOutcome
        ELSE [grade  |-> CardGrade(e, rating),
              reason |-> Reason(signal),
              due    |-> Due(signal)]
-----------------------------------------------------------------------------
VARIABLES
    rated, timing,      \* the record being scheduled
    outcome             \* what was scheduled for it

ratingVars == <<rated, timing, outcome>>

Unscheduled == [grade |-> None, reason |-> "none", due |-> "none"]

\* Any record, one whose only signal is its partial-credit dimensions included.
RatingInit ==
    /\ rated \in Evidence
    /\ timing \in Timing
    /\ outcome = Unscheduled

Schedule ==
    /\ outcome = Unscheduled
    /\ outcome' = Outcome(rated, timing)
    /\ UNCHANGED <<rated, timing>>

RatingNext == Schedule

RatingSpec == RatingInit /\ [][RatingNext]_ratingVars

Scheduled == outcome # Unscheduled
-----------------------------------------------------------------------------
\* A grade of the adapter or none, and one of the reasons and due dates of _decide.
RatingTypeOK ==
    /\ rated \in Evidence /\ timing \in Timing
    /\ outcome \in [grade : {None, 1, 2, 3, 4},
                    reason : {"none", "excluded", "remediation", "due-review"},
                    due : {"none", "never", "now", "in one day", "by memory model"}]

\* The scheduling policy in five cases that do not depend on the order of the
\* rules or on which of the two classifiers saw the signal.
Failed(e) ==
    \/ e.correctness = "incorrect"
    \/ HasScore(e) /\ e.score < FailureScoreThreshold

Weak(e) ==
    \/ HasSupport(e)
    \/ LowConfidence(e)
    \/ HasScore(e) /\ e.score < SuccessScoreThreshold
    \/ ~HasScore(e) /\ e.correctness = "unknown"

\* Only a binary grade, or none at all, leaves room for Easy.
Fast(e, t) ==
    /\ t.first /\ t.withinMedian /\ e.firstInContext
    /\ e.correctness = "correct" /\ e.confidence # None /\ e.confidence >= HighConfidenceMin
    /\ HasScore(e) => e.binary

PolicyGrade(e, t) ==
    CASE Failed(e)                            -> 1
      [] ~Failed(e) /\ Weak(e)                -> 2
      [] ~Failed(e) /\ ~Weak(e) /\ Fast(e, t) -> 4
      [] OTHER                                -> 3

\* A conflict between a failing score and support is where the two disagree:
\* the rule for supported answers comes before the rule for failing scores, and
\* only the classifier's caution makes the blend a failure.
FollowsPolicy ==
    Scheduled /\ ~rated.transfer => outcome.grade = PolicyGrade(rated, timing)

\* The gate of the transfer distances: excluded evidence has no grade and no
\* due date, and nothing else is excluded.
ExclusionGate ==
    Scheduled => (rated.transfer <=> outcome = ExclusionOutcome)

\* A supported or low-confidence answer is never promoted to Good or beyond,
\* nor is its review put off past the next day, whatever its score says.
NeverPromoted ==
    Scheduled /\ ~rated.transfer /\ (HasSupport(rated) \/ LowConfidence(rated))
        => outcome.grade <= 2 /\ outcome.due # "by memory model"

\* The queue and the memory card agree: remediation exactly on a lapse, and an
\* interval of the memory model exactly when the card saw a success.
QueueAgreesWithCard ==
    Scheduled /\ ~rated.transfer =>
        /\ outcome.reason = "remediation" <=> outcome.grade = 1
        /\ outcome.due = "by memory model" <=> outcome.grade >= 3

\* Doing worse never schedules later: with a lower score, everything else
\* equal, the grade is not higher.
MonotoneInScore ==
    Scheduled /\ HasScore(rated) /\ ~rated.transfer =>
        \A s \in Scores : s <= rated.score =>
            Outcome([rated EXCEPT !.score = s], timing).grade <= outcome.grade
=============================================================================
