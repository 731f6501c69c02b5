------------------------------ MODULE LlmBudget ------------------------------
(***************************************************************************)
(* The daily budget of outbound model calls (llm/budgets.py) as the calls  *)
(* of LLMClient.complete (llm/client.py) use it from the threads of one    *)
(* process: a call takes the cached client, reserves its projected cost,   *)
(* asks the provider, and settles the reservation, maybe on a later day.   *)
(* Every tracker operation holds the tracker's lock from the roll of its   *)
(* period to its last write, so it is one step.                            *)
(*                                                                         *)
(* The cache of the client is external: two threads that both miss it both *)
(* build a client with a tracker of its own, and only one is kept.         *)
(***************************************************************************)
EXTENDS Integers, FiniteSets

CONSTANTS
    Calls,          \* calls of complete
    Modes,
    ModeCaps,       \* mode -> its daily cap, for the modes that have one
    GlobalCap,      \* daily cap over all modes
    Costs,          \* costs a call can be projected at, or turn out to have
    Nobody,         \* the builder of a client that is not cached yet
    MaxDay          \* bound: days that pass

ASSUME CapsAssumption == ModeCaps \in [DOMAIN ModeCaps -> Nat] /\ DOMAIN ModeCaps \subseteq Modes
ASSUME CostsAssumption == GlobalCap \in Nat /\ Costs \subseteq Nat
ASSUME NobodyAssumption == Nobody \notin Calls
ASSUME BoundsAssumption == IsFiniteSet(Calls) /\ MaxDay \in Nat /\ Modes # {} /\ Costs # {}

VARIABLES
    today,      \* the clock, in UTC days
    cached,     \* the call that built the cached client
    tracker,    \* the tracker of the client each call may build
    call        \* what each call has done so far

vars == <<today, cached, tracker, call>>

Stages == {"idle", "building", "ready", "calling", "refused", "failed", "answered"}

Trackers == [period : 0..MaxDay, generation : Nat, spend : Nat, modeSpend : [Modes -> Nat]]

\* What is known of a call: whose tracker it uses, what it reserved and when,
\* and what it cost.
CallStates == [stage : Stages, tracker : Calls \cup {Nobody}, mode : Modes,
               projected : Costs, generation : Nat, day : 0..MaxDay, actual : Costs]

\* Spend is never negative, whatever is refunded on whichever day.
TypeOK ==
    /\ today \in 0..MaxDay
    /\ cached \in Calls \cup {Nobody}
    /\ tracker \in [Calls -> Trackers]
    /\ call \in [Calls -> CallStates]

FreshTracker(day) ==
    [period |-> day, generation |-> 0, spend |-> 0, modeSpend |-> [m \in Modes |-> 0]]

\* The mode and the costs of a call count only once it has reserved them.
NoCall ==
    [stage |-> "idle", tracker |-> Nobody, mode |-> CHOOSE m \in Modes : TRUE,
     projected |-> CHOOSE cost \in Costs : TRUE, generation |-> 0, day |-> 0,
     actual |-> CHOOSE cost \in Costs : TRUE]

Init ==
    /\ today = 0
    /\ cached = Nobody
    /\ tracker = [c \in Calls |-> FreshTracker(0)]
    /\ call = [c \in Calls |-> NoCall]
-----------------------------------------------------------------------------
\* _roll_period_locked: every operation drains the spend of an earlier day.
Rolled(b) ==
    IF today > b.period
    THEN [FreshTracker(today) EXCEPT !.generation = b.generation + 1]
    ELSE b

\* Mutant: the call's own cost is left out of the check.
FitsBefore(b, m, cost) ==
    /\ b.spend <= GlobalCap
    /\ m \in DOMAIN ModeCaps => b.modeSpend[m] <= ModeCaps[m]

\* _check_caps_locked
Fits(b, m, cost) ==
    /\ b.spend + cost <= GlobalCap
    /\ m \in DOMAIN ModeCaps => b.modeSpend[m] + cost <= ModeCaps[m]

\* _add_spend_locked
Charged(b, m, delta) == [b EXCEPT !.spend = @ + delta, !.modeSpend[m] = @ + delta]

\* _default_client: a hit.
GetCachedClient(c) ==
    /\ call[c].stage = "idle" /\ cached # Nobody
    /\ call' = [call EXCEPT ![c].stage = "ready", ![c].tracker = cached]
    /\ UNCHANGED <<today, cached, tracker>>

\* _default_client: a miss; the body runs outside the lock of the cache.
MissClient(c) ==
    /\ call[c].stage = "idle" /\ cached = Nobody
    /\ call' = [call EXCEPT ![c].stage = "building"]
    /\ UNCHANGED <<today, cached, tracker>>

\* The body returns: its client is used, and kept if none was kept before.
BuildClient(c) ==
    /\ call[c].stage = "building"
    /\ tracker' = [tracker EXCEPT ![c] = FreshTracker(today)]
    /\ cached' = IF cached = Nobody THEN c ELSE cached
    /\ call' = [call EXCEPT ![c].stage = "ready", ![c].tracker = c]
    /\ UNCHANGED today

\* reserve, when the projection fits.
Reserve(c, m, cost) ==
    LET k == call[c].tracker
        b == Rolled(tracker[k])
    IN  /\ call[c].stage = "ready"
        /\ Fits(b, m, cost)
        /\ tracker' = [tracker EXCEPT ![k] = Charged(b, m, cost)]
        /\ call' = [call EXCEPT ![c] =
              [@ EXCEPT !.stage = "calling", !.mode = m, !.projected = cost,
                        !.generation = b.generation, !.day = today]]
        /\ UNCHANGED <<today, cached>>

\* reserve, when it raises BudgetExceeded.
Refuse(c, m, cost) ==
    LET k == call[c].tracker
        b == Rolled(tracker[k])
    IN  /\ call[c].stage = "ready"
        /\ ~Fits(b, m, cost)
        /\ tracker' = [tracker EXCEPT ![k] = b]
        /\ call' = [call EXCEPT ![c].stage = "refused"]
        /\ UNCHANGED <<today, cached>>

\* Mutant: the actual cost is added to the reservation it should replace.
SettledTwice(c, b, cost) ==
    IF call[c].generation = b.generation
    THEN Charged(b, call[c].mode, cost)
    ELSE b

\* Mutant: a reservation of an earlier day is settled against today.
SettledAcrossDays(c, b, cost) == Charged(b, call[c].mode, cost - call[c].projected)

\* The rolled tracker b with the reservation of c corrected to cost, unless the
\* reservation was drained with its day.
Settled(c, b, cost) ==
    IF call[c].generation = b.generation
    THEN Charged(b, call[c].mode, cost - call[c].projected)
    ELSE b

\* The provider answers; commit.  What complete does next can fail, but it
\* leaves the tracker alone.
Commit(c, cost) ==
    LET k == call[c].tracker
    IN  /\ call[c].stage = "calling"
        /\ tracker' = [tracker EXCEPT ![k] = Settled(c, Rolled(@), cost)]
        /\ call' = [call EXCEPT ![c].stage = "answered", ![c].actual = cost]
        /\ UNCHANGED <<today, cached>>

\* The provider raises; release.
Release(c) ==
    LET k == call[c].tracker
    IN  /\ call[c].stage = "calling"
        /\ tracker' = [tracker EXCEPT ![k] = Settled(c, Rolled(@), 0)]
        /\ call' = [call EXCEPT ![c].stage = "failed"]
        /\ UNCHANGED <<today, cached>>

NextDay ==
    /\ today < MaxDay
    /\ today' = today + 1
    /\ UNCHANGED <<cached, tracker, call>>

Next ==
    \/ \E c \in Calls :
          \/ GetCachedClient(c)
          \/ MissClient(c)
          \/ BuildClient(c)
          \/ \E m \in Modes, cost \in Costs : Reserve(c, m, cost) \/ Refuse(c, m, cost)
          \/ \E cost \in Costs : Commit(c, cost)
          \/ Release(c)
    \/ NextDay

Spec == Init /\ [][Next]_vars
-----------------------------------------------------------------------------
\* What a call weighs on the budget: its projection while it runs, then its
\* actual cost.
Charge(r) ==
    CASE r.stage = "calling"  -> r.projected
      [] r.stage = "answered" -> r.actual
      [] OTHER                -> 0

Overrun(r) ==
    IF r.stage = "answered" /\ r.actual > r.projected THEN r.actual - r.projected ELSE 0

Charges == [c \in Calls |-> Charge(call[c])]
Overruns == [c \in Calls |-> Overrun(call[c])]

\* A sum of weights: a member of S stands for as many units as it weighs.
Units(weight, S) == UNION {{c} \X (1..weight[c]) : c \in S}
Total(weight, S) == Cardinality(Units(weight, S))

\* The calls tracker k accounts for in its current period.
AccountedBy(k) == {c \in Calls : call[c].tracker = k /\ call[c].generation = tracker[k].generation}
InMode(S, m) == {c \in S : call[c].mode = m}

\* Nothing leaks: through refunds, corrections and rolls between the
\* reservation of a call and its settlement, a tracker's spend is the sum of
\* what its calls of the period weigh, overall and per mode.
SpendIsLedger ==
    \A k \in Calls :
        /\ tracker[k].spend = Total(Charges, AccountedBy(k))
        /\ \A m \in Modes : tracker[k].modeSpend[m] = Total(Charges, InMode(AccountedBy(k), m))

\* A tracker exceeds a cap by no more than its calls cost beyond their
\* projections: running calls count in each other's checks.  This is of one
\* tracker; a process may have several, see DailyCapHeld.
CapsHeld ==
    \A k \in Calls :
        /\ tracker[k].spend <= GlobalCap + Total(Overruns, AccountedBy(k))
        /\ \A m \in DOMAIN ModeCaps :
              tracker[k].modeSpend[m] <= ModeCaps[m] + Total(Overruns, InMode(AccountedBy(k), m))

\* What the docstring of the tracker promises of the process, whose routes share
\* one: calls that run at the same time do not overshoot the daily cap, but for
\* what they cost beyond their projections.
ReservedToday ==
    {c \in Calls : call[c].stage \in {"calling", "answered"} /\ call[c].day = today}

DailyCapHeld ==
    Total(Charges, ReservedToday) <= GlobalCap + Total(Overruns, ReservedToday)
=============================================================================
