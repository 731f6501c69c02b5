--------------------------- MODULE LlmBudgetProofs ---------------------------
(***************************************************************************)
(* For any calls, modes, caps and costs: a tracker's spend is the sum of   *)
(* what its calls weigh, it is never negative, and it exceeds a cap by no  *)
(* more than calls cost beyond their projections.                          *)
(*                                                                         *)
(* The invariant adds what keeps a reservation and the day it was made on  *)
(* together: no call is ahead of its tracker's generation, so a roll makes *)
(* a tracker account for nothing, and a tracker is built before any call   *)
(* uses it.                                                                *)
(***************************************************************************)
EXTENDS LlmBudget, FiniteSetTheorems, TLAPS

\* What is accounted for depends on the calls and a tracker's generation alone.
Accounts(cs, k, g) == {c \in Calls : cs[c].tracker = k /\ cs[c].generation = g}
Within(cs, S, m) == {c \in S : cs[c].mode = m}
ChargesOf(cs) == [c \in Calls |-> Charge(cs[c])]
OverrunsOf(cs) == [c \in Calls |-> Overrun(cs[c])]

\* The books of tracker k, in state b, over the calls cs: it is not behind any
\* of them, its spend is what they weigh and it is within its caps.
Sound(b, cs, k) ==
    LET S == Accounts(cs, k, b.generation)
    IN  /\ \A c \in Calls : cs[c].tracker = k => cs[c].generation <= b.generation
        /\ b.spend = Total(ChargesOf(cs), S)
        /\ b.spend <= GlobalCap + Total(OverrunsOf(cs), S)
        /\ \A m \in Modes : b.modeSpend[m] = Total(ChargesOf(cs), Within(cs, S, m))
        /\ \A m \in DOMAIN ModeCaps :
              b.modeSpend[m] <= ModeCaps[m] + Total(OverrunsOf(cs), Within(cs, S, m))

\* A tracker is used once it is built, a call that has reserved uses one, and
\* one that has not carries no generation.
UsersInv ==
    \A c \in Calls :
        /\ call[c].stage \in {"idle", "building"} =>
              cached # c /\ \A d \in Calls : call[d].tracker # c
        /\ call[c].stage \in {"idle", "building", "ready"} => call[c].generation = 0
        /\ call[c].stage \notin {"idle", "building"} => call[c].tracker \in Calls

BudgetInv ==
    /\ TypeOK /\ UsersInv
    /\ \A k \in Calls : Sound(tracker[k], call, k)
-----------------------------------------------------------------------------
\* The units of finitely many calls are finitely many.
LEMMA UnitsFinite ==
    ASSUME NEW w \in [Calls -> Nat], NEW S, S \subseteq Calls
    PROVE  IsFiniteSet(Units(w, S)) /\ Total(w, S) \in Nat
<1> DEFINE f == [c \in S |-> {c} \X (1..w[c])]
           F == {{c} \X (1..w[c]) : c \in S}
<1>1. IsFiniteSet(S)
  BY BoundsAssumption, FS_Subset
<1>2. f \in Surjection(S, F)
  BY DEF Surjection
<1>3. IsFiniteSet(F)
  BY <1>1, <1>2, FS_Surjection
<1>4. ASSUME NEW c \in S PROVE IsFiniteSet({c} \X (1..w[c]))
  <2>1. w[c] \in Nat
    OBVIOUS
  <2>2. IsFiniteSet(1..w[c])
    BY <2>1, FS_Interval
  <2>3. IsFiniteSet({c})
    BY FS_Singleton
  <2> QED
    BY <2>2, <2>3, FS_Product
<1>5. \A T \in F : IsFiniteSet(T)
  BY <1>4
<1>6. IsFiniteSet(UNION F)
  BY <1>3, <1>5, FS_UNION
<1> QED
  BY <1>6, FS_CardinalityType DEF Units, Total

\* Calls that weigh nothing sum up to nothing.
LEMMA TotalOfNothing ==
    ASSUME NEW w, NEW S, \A c \in S : w[c] = 0
    PROVE  Total(w, S) = 0
<1>1. \A c \in S : {c} \X (1..w[c]) = {}
  OBVIOUS
<1>2. Units(w, S) = {}
  BY <1>1 DEF Units
<1> QED
  BY <1>2, FS_EmptySet DEF Total

\* A call adds its weight to the sum.
LEMMA TotalWith ==
    ASSUME NEW w \in [Calls -> Nat], NEW S, S \subseteq Calls, NEW c \in S
    PROVE  Total(w, S) = Total(w, S \ {c}) + w[c]
<1> DEFINE own == {c} \X (1..w[c])
           rest == Units(w, S \ {c})
<1>1. w[c] \in Nat
  OBVIOUS
<1>2. IsFiniteSet(own) /\ Cardinality(own) = w[c]
  <2>1. IsFiniteSet(1..w[c]) /\ Cardinality(1..w[c]) = w[c]
    BY <1>1, FS_Interval
  <2>2. IsFiniteSet({c}) /\ Cardinality({c}) = 1
    BY FS_Singleton
  <2>3. IsFiniteSet(own) /\ Cardinality(own) = 1 * w[c]
    BY <2>1, <2>2, FS_Product
  <2> QED
    BY <1>1, <2>3
<1>3. IsFiniteSet(rest) /\ Cardinality(rest) = Total(w, S \ {c}) /\ Cardinality(rest) \in Nat
  BY UnitsFinite DEF Total
<1>4. own \cap rest = {}
  BY DEF Units
<1>5. Units(w, S) = rest \cup own
  BY DEF Units
<1>6. Cardinality(rest \cup own) = Cardinality(rest) + Cardinality(own) - Cardinality(rest \cap own)
  BY <1>2, <1>3, FS_Union
<1>7. Cardinality(rest \cap own) = 0
  BY <1>4, FS_EmptySet
<1> HIDE DEF rest, own
<1> QED
  BY <1>1, <1>2, <1>3, <1>5, <1>6, <1>7 DEF Total

\* Weights, and sets of calls, that differ in call c at most.
SameWeights(w, v, c) ==
    /\ w \in [Calls -> Nat] /\ v \in [Calls -> Nat]
    /\ \A d \in Calls : d # c => v[d] = w[d]

SameCalls(S, T, c) == S \subseteq Calls /\ T \subseteq Calls /\ S \ {c} = T \ {c}

\* One call that changes, in weight or in whether it counts, changes the sum by
\* what it weighed and weighs.
LEMMA TotalMoves ==
    ASSUME NEW w, NEW v, NEW c \in Calls, NEW S, NEW T,
           SameWeights(w, v, c), SameCalls(S, T, c)
    PROVE  /\ Total(w, S) \in Nat /\ Total(v, T) \in Nat
           /\ Total(v, T) = Total(w, S) - (IF c \in S THEN w[c] ELSE 0)
                                        + (IF c \in T THEN v[c] ELSE 0)
<1> USE DEF SameWeights, SameCalls
<1>1. Total(w, S) \in Nat /\ Total(v, T) \in Nat /\ Total(w, S \ {c}) \in Nat
  BY UnitsFinite
<1>2. Total(v, T \ {c}) = Total(w, S \ {c})
  <2>1. Units(v, T \ {c}) = Units(w, S \ {c})
    BY DEF Units
  <2> QED
    BY <2>1 DEF Total
<1>3. Total(w, S) = Total(w, S \ {c}) + (IF c \in S THEN w[c] ELSE 0)
  <2>1. CASE c \in S
    BY <2>1, TotalWith
  <2>2. CASE c \notin S
    <3>1. S \ {c} = S
      BY <2>2
    <3> QED
      BY <1>1, <2>2, <3>1
  <2> QED
    BY <2>1, <2>2
<1>4. Total(v, T) = Total(v, T \ {c}) + (IF c \in T THEN v[c] ELSE 0)
  <2>1. CASE c \in T
    BY <2>1, TotalWith
  <2>2. CASE c \notin T
    <3>1. T \ {c} = T
      BY <2>2
    <3> QED
      BY <1>1, <2>2, <3>1
  <2> QED
    BY <2>1, <2>2
<1>5. w[c] \in Nat /\ v[c] \in Nat
  OBVIOUS
<1> QED
  BY <1>1, <1>2, <1>3, <1>4, <1>5
-----------------------------------------------------------------------------
\* What calls weigh and overrun are naturals.
LEMMA Weights ==
    ASSUME NEW cs \in [Calls -> CallStates]
    PROVE  ChargesOf(cs) \in [Calls -> Nat] /\ OverrunsOf(cs) \in [Calls -> Nat]
<1>1. \A r \in CallStates : r.projected \in Nat /\ r.actual \in Nat
  BY CostsAssumption DEF CallStates
<1>2. \A r \in CallStates : Charge(r) \in Nat /\ Overrun(r) \in Nat
  BY <1>1 DEF Charge, Overrun
<1> QED
  BY <1>2 DEF ChargesOf, OverrunsOf

\* A roll starts books that account for no call.
LEMMA RollSound ==
    ASSUME NEW b \in Trackers, NEW cs \in [Calls -> CallStates], NEW k \in Calls,
           Sound(b, cs, k), today \in 0..MaxDay
    PROVE  /\ Rolled(b) \in Trackers /\ Sound(Rolled(b), cs, k)
           /\ b.generation <= Rolled(b).generation
<1>1. b.generation \in Nat
  BY DEF Trackers
<1>2. CASE today > b.period
  <2> DEFINE r == Rolled(b)
             S == Accounts(cs, k, r.generation)
  <2>1. /\ r \in Trackers /\ r.generation = b.generation + 1 /\ r.spend = 0
        /\ \A m \in Modes : r.modeSpend[m] = 0
    BY <1>1, <1>2 DEF Rolled, FreshTracker, Trackers
  <2> HIDE DEF r
  <2>2. \A c \in Calls : cs[c].tracker = k => cs[c].generation <= b.generation
    BY DEF Sound
  <2>3. \A c \in Calls : cs[c].generation \in Nat
    BY DEF CallStates
  <2>4. S = {} /\ \A m : Within(cs, S, m) = {}
    BY <1>1, <2>1, <2>2, <2>3 DEF Accounts, Within
  <2>5. \A w : Total(w, {}) = 0
    BY TotalOfNothing
  <2>6. \A c \in Calls : cs[c].tracker = k => cs[c].generation <= r.generation
    BY <1>1, <2>1, <2>2, <2>3
  <2>7. \A m \in DOMAIN ModeCaps : m \in Modes /\ ModeCaps[m] \in Nat
    BY CapsAssumption
  <2> DEFINE w == ChargesOf(cs)
             o == OverrunsOf(cs)
  <2> HIDE DEF S, w, o
  <2>8. /\ r.spend = Total(w, S) /\ r.spend <= GlobalCap + Total(o, S)
        /\ \A m \in Modes : r.modeSpend[m] = Total(w, Within(cs, S, m))
        /\ \A m \in DOMAIN ModeCaps : r.modeSpend[m] <= ModeCaps[m] + Total(o, Within(cs, S, m))
    <3>1. Total(w, S) = 0 /\ Total(o, S) = 0
      BY <2>4, <2>5
    <3>2. \A m : Total(w, Within(cs, S, m)) = 0 /\ Total(o, Within(cs, S, m)) = 0
      BY <2>4, <2>5
    <3> QED
      BY <2>1, <2>7, <3>1, <3>2, CostsAssumption
  <2>9. Sound(r, cs, k)
    BY <2>6, <2>8 DEF Sound, S, w, o
  <2>10. b.generation <= r.generation
    BY <1>1, <2>1
  <2> QED
    BY <2>1, <2>9, <2>10 DEF r
<1>3. CASE ~(today > b.period)
  BY <1>1, <1>3 DEF Rolled
<1> QED
  BY <1>2, <1>3

\* What call c weighs for tracker k at generation g, and beyond its projection.
Part(r, k, g) == IF r.tracker = k /\ r.generation = g THEN Charge(r) ELSE 0
Excess(r, k, g) == IF r.tracker = k /\ r.generation = g THEN Overrun(r) ELSE 0

\* The books b2 of tracker k differ from b by what a call weighed as r and weighs
\* as r2, overall and in its modes; they are within each cap or grow by no more
\* than the call overruns.
Shifts(b, b2, k, r, r2) ==
    LET x == Part(r, k, b.generation)
        y == Part(r2, k, b.generation)
        over == Excess(r, k, b.generation)
        over2 == Excess(r2, k, b.generation)
    IN  /\ b2.spend = b.spend - x + y
        /\ b2.spend <= GlobalCap \/ y - x <= over2 - over
        /\ \A m \in Modes : b2.modeSpend[m] = b.modeSpend[m] - (IF r.mode = m THEN x ELSE 0)
                                                             + (IF r2.mode = m THEN y ELSE 0)
        /\ \A m \in DOMAIN ModeCaps :
              \/ b2.modeSpend[m] <= ModeCaps[m]
              \/ (IF r2.mode = m THEN y ELSE 0) - (IF r.mode = m THEN x ELSE 0)
                   <= (IF r2.mode = m THEN over2 ELSE 0) - (IF r.mode = m THEN over ELSE 0)

\* One call that changes keeps the books of a tracker that shift with it.
LEMMA MoveSound ==
    ASSUME NEW k \in Calls, NEW c \in Calls, NEW b \in Trackers, NEW b2,
           NEW cs \in [Calls -> CallStates], NEW cs2 \in [Calls -> CallStates],
           Sound(b, cs, k), b2.generation = b.generation,
           \A d \in Calls : d # c => cs2[d] = cs[d],
           cs2[c].tracker = k => cs2[c].generation <= b.generation,
           Shifts(b, b2, k, cs[c], cs2[c])
    PROVE  /\ Sound(b2, cs2, k)
           /\ b2.spend \in Nat /\ \A m \in Modes : b2.modeSpend[m] \in Nat
<1> DEFINE g == b.generation
           x == Part(cs[c], k, g)
           y == Part(cs2[c], k, g)
           over == Excess(cs[c], k, g)
           over2 == Excess(cs2[c], k, g)
           S == Accounts(cs, k, g)
           T == Accounts(cs2, k, g)
           w == ChargesOf(cs)
           w2 == ChargesOf(cs2)
           o == OverrunsOf(cs)
           o2 == OverrunsOf(cs2)
<1>1. /\ w \in [Calls -> Nat] /\ o \in [Calls -> Nat] /\ w2 \in [Calls -> Nat] /\ o2 \in [Calls -> Nat]
      /\ \A d \in Calls : d # c => w2[d] = w[d] /\ o2[d] = o[d]
      /\ w[c] = Charge(cs[c]) /\ w2[c] = Charge(cs2[c])
      /\ o[c] = Overrun(cs[c]) /\ o2[c] = Overrun(cs2[c])
  BY Weights DEF ChargesOf, OverrunsOf
<1>2. /\ S \subseteq Calls /\ T \subseteq Calls /\ S \ {c} = T \ {c}
      /\ c \in S <=> cs[c].tracker = k /\ cs[c].generation = g
      /\ c \in T <=> cs2[c].tracker = k /\ cs2[c].generation = g
  BY DEF Accounts
<1>3. /\ x = IF c \in S THEN w[c] ELSE 0
      /\ y = IF c \in T THEN w2[c] ELSE 0
      /\ over = IF c \in S THEN o[c] ELSE 0
      /\ over2 = IF c \in T THEN o2[c] ELSE 0
  BY <1>1, <1>2 DEF Part, Excess
<1>4. ASSUME NEW m
      PROVE  /\ Within(cs, S, m) \subseteq Calls /\ Within(cs2, T, m) \subseteq Calls
             /\ Within(cs, S, m) \ {c} = Within(cs2, T, m) \ {c}
             /\ c \in Within(cs, S, m) <=> c \in S /\ cs[c].mode = m
             /\ c \in Within(cs2, T, m) <=> c \in T /\ cs2[c].mode = m
  BY <1>2 DEF Within
<1>4a. SameWeights(w, w2, c) /\ SameWeights(o, o2, c) /\ SameCalls(S, T, c)
  BY <1>1, <1>2 DEF SameWeights, SameCalls
<1> HIDE DEF S, T, w, w2, o, o2
<1>5. /\ Total(w2, T) \in Nat /\ Total(w2, T) = Total(w, S) - x + y
      /\ Total(o, S) \in Nat /\ Total(o2, T) \in Nat /\ Total(o2, T) = Total(o, S) - over + over2
      /\ Total(w, S) \in Nat
  <2>1. /\ Total(w, S) \in Nat /\ Total(w2, T) \in Nat
        /\ Total(w2, T) = Total(w, S) - (IF c \in S THEN w[c] ELSE 0) + (IF c \in T THEN w2[c] ELSE 0)
    BY <1>4a, TotalMoves
  <2>2. /\ Total(o, S) \in Nat /\ Total(o2, T) \in Nat
        /\ Total(o2, T) = Total(o, S) - (IF c \in S THEN o[c] ELSE 0) + (IF c \in T THEN o2[c] ELSE 0)
    BY <1>4a, TotalMoves
  <2> QED
    BY <1>3, <2>1, <2>2
<1>6. x \in Nat /\ y \in Nat /\ over \in Nat /\ over2 \in Nat
  BY <1>1, <1>3
<1>7. ASSUME NEW m
      PROVE  /\ Total(w, Within(cs, S, m)) \in Nat /\ Total(w2, Within(cs2, T, m)) \in Nat
             /\ Total(o, Within(cs, S, m)) \in Nat /\ Total(o2, Within(cs2, T, m)) \in Nat
             /\ Total(w2, Within(cs2, T, m)) = Total(w, Within(cs, S, m))
                   - (IF cs[c].mode = m THEN x ELSE 0) + (IF cs2[c].mode = m THEN y ELSE 0)
             /\ Total(o2, Within(cs2, T, m)) = Total(o, Within(cs, S, m))
                   - (IF cs[c].mode = m THEN over ELSE 0) + (IF cs2[c].mode = m THEN over2 ELSE 0)
  <2> DEFINE A == Within(cs, S, m)
             B == Within(cs2, T, m)
  <2>1. /\ A \subseteq Calls /\ B \subseteq Calls /\ A \ {c} = B \ {c}
        /\ c \in A <=> c \in S /\ cs[c].mode = m
        /\ c \in B <=> c \in T /\ cs2[c].mode = m
    BY <1>4
  <2>1a. SameCalls(A, B, c)
    BY <2>1 DEF SameCalls
  <2> HIDE DEF A, B
  <2>2. /\ Total(w, A) \in Nat /\ Total(w2, B) \in Nat
        /\ Total(w2, B) = Total(w, A) - (IF c \in A THEN w[c] ELSE 0) + (IF c \in B THEN w2[c] ELSE 0)
    BY <1>4a, <2>1a, TotalMoves
  <2>3. /\ Total(o, A) \in Nat /\ Total(o2, B) \in Nat
        /\ Total(o2, B) = Total(o, A) - (IF c \in A THEN o[c] ELSE 0) + (IF c \in B THEN o2[c] ELSE 0)
    BY <1>4a, <2>1a, TotalMoves
  <2>4. /\ (IF c \in A THEN w[c] ELSE 0) = (IF cs[c].mode = m THEN x ELSE 0)
        /\ (IF c \in B THEN w2[c] ELSE 0) = (IF cs2[c].mode = m THEN y ELSE 0)
        /\ (IF c \in A THEN o[c] ELSE 0) = (IF cs[c].mode = m THEN over ELSE 0)
        /\ (IF c \in B THEN o2[c] ELSE 0) = (IF cs2[c].mode = m THEN over2 ELSE 0)
    BY <1>3, <2>1
  <2> QED
    BY <2>2, <2>3, <2>4 DEF A, B
<1>8. /\ b.spend = Total(w, S) /\ b.spend <= GlobalCap + Total(o, S)
      /\ \A m \in Modes : b.modeSpend[m] = Total(w, Within(cs, S, m))
      /\ \A m \in DOMAIN ModeCaps : b.modeSpend[m] <= ModeCaps[m] + Total(o, Within(cs, S, m))
      /\ \A d \in Calls : cs[d].tracker = k => cs[d].generation <= g
  BY DEF Sound, S, w, o
<1>9. /\ b2.generation = g
      /\ b2.spend = b.spend - x + y
      /\ b2.spend <= GlobalCap \/ y - x <= over2 - over
      /\ \A m \in Modes : b2.modeSpend[m] = b.modeSpend[m] - (IF cs[c].mode = m THEN x ELSE 0)
                                                           + (IF cs2[c].mode = m THEN y ELSE 0)
      /\ \A m \in DOMAIN ModeCaps :
            \/ b2.modeSpend[m] <= ModeCaps[m]
            \/ (IF cs2[c].mode = m THEN y ELSE 0) - (IF cs[c].mode = m THEN x ELSE 0)
                 <= (IF cs2[c].mode = m THEN over2 ELSE 0) - (IF cs[c].mode = m THEN over ELSE 0)
  BY DEF Shifts
<1> HIDE DEF x, y, over, over2, g
<1>10. b2.spend = Total(w2, T) /\ b2.spend <= GlobalCap + Total(o2, T)
  BY <1>5, <1>6, <1>8, <1>9, CostsAssumption
<1>11. ASSUME NEW m \in Modes
       PROVE  b2.modeSpend[m] = Total(w2, Within(cs2, T, m))
  BY <1>6, <1>7, <1>8, <1>9
<1>12. ASSUME NEW m \in DOMAIN ModeCaps
       PROVE  b2.modeSpend[m] <= ModeCaps[m] + Total(o2, Within(cs2, T, m))
  <2>1. m \in Modes /\ ModeCaps[m] \in Nat
    BY CapsAssumption
  <2>2. b2.modeSpend[m] = Total(w2, Within(cs2, T, m)) /\ b.modeSpend[m] = Total(w, Within(cs, S, m))
    BY <1>8, <1>11, <2>1
  <2>3. CASE b2.modeSpend[m] <= ModeCaps[m]
    BY <1>7, <2>1, <2>2, <2>3
  <2>4. CASE (IF cs2[c].mode = m THEN y ELSE 0) - (IF cs[c].mode = m THEN x ELSE 0)
                 <= (IF cs2[c].mode = m THEN over2 ELSE 0) - (IF cs[c].mode = m THEN over ELSE 0)
    <3>1. b.modeSpend[m] <= ModeCaps[m] + Total(o, Within(cs, S, m))
      BY <1>8
    <3> QED
      BY <1>6, <1>7, <2>1, <2>2, <2>4, <3>1
  <2> QED
    BY <1>9, <2>3, <2>4
<1>13. \A d \in Calls : cs2[d].tracker = k => cs2[d].generation <= b2.generation
  BY <1>8, <1>9 DEF g
<1>14. Sound(b2, cs2, k)
  BY <1>9, <1>10, <1>11, <1>12, <1>13 DEF Sound, T, w2, o2
<1> QED
  BY <1>5, <1>7, <1>10, <1>11, <1>14

\* A call that weighs nothing before and after it changes leaves every book as
\* it is, unless it runs ahead of one.
LEMMA IdleMoveSound ==
    ASSUME NEW k \in Calls, NEW c \in Calls, NEW b \in Trackers,
           NEW cs \in [Calls -> CallStates], NEW cs2 \in [Calls -> CallStates],
           Sound(b, cs, k), \A d \in Calls : d # c => cs2[d] = cs[d],
           cs2[c].tracker = k => cs2[c].generation <= b.generation,
           \/ cs[c].stage \notin {"calling", "answered"} /\ cs2[c].stage \notin {"calling", "answered"}
           \/ cs2[c].tracker = cs[c].tracker /\ cs[c].tracker # k
           \/ /\ cs2[c].tracker = cs[c].tracker /\ cs2[c].generation = cs[c].generation
              /\ cs[c].generation # b.generation
    PROVE  Sound(b, cs2, k)
<1>1. /\ Part(cs[c], k, b.generation) = 0 /\ Part(cs2[c], k, b.generation) = 0
      /\ Excess(cs[c], k, b.generation) = 0 /\ Excess(cs2[c], k, b.generation) = 0
  BY DEF Part, Excess, Charge, Overrun
<1>2. b.spend \in Nat /\ \A m \in Modes : b.modeSpend[m] \in Nat
  BY DEF Trackers
<1>3. \A m \in DOMAIN ModeCaps : m \in Modes
  BY CapsAssumption
<1>4. Shifts(b, b, k, cs[c], cs2[c])
  BY <1>1, <1>2, <1>3 DEF Shifts
<1> QED
  BY <1>4, MoveSound

\* A settled reservation leaves sound books: it is corrected if its day still
\* counts, and counts for nothing if not.
LEMMA SettleSound ==
    ASSUME NEW k \in Calls, NEW c \in Calls, NEW b \in Trackers, call \in [Calls -> CallStates],
           NEW cs2 \in [Calls -> CallStates], NEW cost \in Nat,
           Sound(b, call, k), \A d \in Calls : d # c => cs2[d] = call[d],
           call[c].stage = "calling", call[c].tracker = k,
           cs2[c].tracker = k, cs2[c].generation = call[c].generation, cs2[c].mode = call[c].mode,
           \/ cs2[c].stage = "answered" /\ cs2[c].actual = cost
              /\ cs2[c].projected = call[c].projected
           \/ cs2[c].stage = "failed" /\ cost = 0
    PROVE  Settled(c, b, cost) \in Trackers /\ Sound(Settled(c, b, cost), cs2, k)
<1>1. /\ call[c] \in CallStates /\ call[c].mode \in Modes /\ call[c].projected \in Nat
      /\ call[c].generation <= b.generation
  BY CostsAssumption DEF CallStates, Sound
<1>2. CASE call[c].generation # b.generation
  BY <1>1, <1>2, IdleMoveSound DEF Settled
<1>3. CASE call[c].generation = b.generation
  <2> DEFINE m0 == call[c].mode
             projected == call[c].projected
             delta == cost - projected
             b2 == Settled(c, b, cost)
  <2>1. /\ Part(call[c], k, b.generation) = projected /\ Part(cs2[c], k, b.generation) = cost
        /\ Excess(call[c], k, b.generation) = 0
        /\ Excess(cs2[c], k, b.generation) \in Nat
        /\ delta <= Excess(cs2[c], k, b.generation)
    BY <1>1, <1>3 DEF Part, Excess, Charge, Overrun
  <2>2. /\ b.spend \in Nat /\ b.modeSpend \in [Modes -> Nat] /\ b.generation \in Nat
    BY DEF Trackers
  <2>3. b2 = [b EXCEPT !.spend = @ + delta, !.modeSpend[m0] = @ + delta]
    BY <1>3 DEF Settled, Charged
  <2> HIDE DEF b2, m0, projected
  <2>4. /\ b2.generation = b.generation /\ b2.period = b.period
        /\ b2.spend = b.spend + delta
        /\ b2.modeSpend = [b.modeSpend EXCEPT ![m0] = @ + delta]
        /\ b2 = [period |-> b2.period, generation |-> b2.generation, spend |-> b2.spend,
                 modeSpend |-> b2.modeSpend]
    BY <2>3 DEF Trackers
  <2>5. m0 \in Modes /\ projected \in Nat
    BY <1>1 DEF m0, projected
  <2>6. \A m \in Modes : b2.modeSpend[m] = b.modeSpend[m] - (IF call[c].mode = m THEN projected ELSE 0)
                                           + (IF cs2[c].mode = m THEN cost ELSE 0)
    BY <2>2, <2>4, <2>5 DEF m0
  <2>7. \A m \in DOMAIN ModeCaps : m \in Modes
    BY CapsAssumption
  <2>8. /\ Sound(b2, cs2, k) /\ b2.spend \in Nat
        /\ \A m \in Modes : b2.modeSpend[m] \in Nat
    <3> DEFINE x == Part(call[c], k, b.generation)
               y == Part(cs2[c], k, b.generation)
               over == Excess(call[c], k, b.generation)
               over2 == Excess(cs2[c], k, b.generation)
    <3>1. x = projected /\ y = cost /\ over = 0 /\ over2 \in Nat /\ y - x <= over2 - over
      BY <2>1, <2>5 DEF projected
    <3>2. b2.spend = b.spend - x + y
      BY <2>2, <2>4, <2>5, <3>1
    <3>3. \A m \in Modes : b2.modeSpend[m] = b.modeSpend[m] - (IF call[c].mode = m THEN x ELSE 0)
                                           + (IF cs2[c].mode = m THEN y ELSE 0)
      BY <2>6, <3>1
    <3>4. \A m \in DOMAIN ModeCaps :
             (IF cs2[c].mode = m THEN y ELSE 0) - (IF call[c].mode = m THEN x ELSE 0)
               <= (IF cs2[c].mode = m THEN over2 ELSE 0) - (IF call[c].mode = m THEN over ELSE 0)
      BY <2>5, <3>1
    <3>5. cs2[c].generation <= b.generation
      BY <1>1
    <3>6. Shifts(b, b2, k, call[c], cs2[c])
      BY <3>1, <3>2, <3>3, <3>4 DEF Shifts
    <3>7. b2.generation = b.generation
      BY <2>4
    <3> HIDE DEF x, y, over, over2, delta
    <3> QED
      BY <3>5, <3>6, <3>7, MoveSound, SMTT(60)
  <2>9. b2.modeSpend \in [Modes -> Nat]
    BY <2>2, <2>4, <2>5, <2>8
  <2>10. b2 \in Trackers
    BY <2>2, <2>4, <2>8, <2>9 DEF Trackers
  <2> QED
    BY <2>8, <2>10 DEF b2
<1> QED
  BY <1>2, <1>3

\* A reservation that fits leaves sound books: the running call counts at its
\* projection, within the caps.
LEMMA ReserveSound ==
    ASSUME NEW k \in Calls, NEW c \in Calls, NEW b \in Trackers, call \in [Calls -> CallStates],
           NEW cs2 \in [Calls -> CallStates], NEW cost \in Nat, NEW m0 \in Modes,
           Sound(b, call, k), \A d \in Calls : d # c => cs2[d] = call[d],
           call[c].stage = "ready", cs2[c].stage = "calling", cs2[c].tracker = k,
           cs2[c].generation = b.generation, cs2[c].mode = m0, cs2[c].projected = cost,
           Fits(b, m0, cost)
    PROVE  Charged(b, m0, cost) \in Trackers /\ Sound(Charged(b, m0, cost), cs2, k)
<1> DEFINE b2 == Charged(b, m0, cost)
           x == Part(call[c], k, b.generation)
           y == Part(cs2[c], k, b.generation)
           over == Excess(call[c], k, b.generation)
           over2 == Excess(cs2[c], k, b.generation)
<1>1. x = 0 /\ y = cost /\ over = 0 /\ over2 = 0
  BY DEF Part, Excess, Charge, Overrun
<1>2. b.spend \in Nat /\ b.modeSpend \in [Modes -> Nat] /\ b.generation \in Nat
  BY DEF Trackers
<1>3. /\ b2.generation = b.generation /\ b2.period = b.period
      /\ b2.spend = b.spend + cost
      /\ b2.modeSpend = [b.modeSpend EXCEPT ![m0] = @ + cost]
      /\ b2 \in Trackers
  <2>1. b2 = [b EXCEPT !.spend = @ + cost, !.modeSpend[m0] = @ + cost]
    BY DEF Charged
  <2>2. [b.modeSpend EXCEPT ![m0] = @ + cost] \in [Modes -> Nat]
    BY <1>2
  <2> HIDE DEF b2
  <2>3. /\ b2.generation = b.generation /\ b2.period = b.period
        /\ b2.spend = b.spend + cost
        /\ b2.modeSpend = [b.modeSpend EXCEPT ![m0] = @ + cost]
        /\ b2 = [period |-> b2.period, generation |-> b2.generation, spend |-> b2.spend,
                 modeSpend |-> b2.modeSpend]
    BY <2>1 DEF Trackers
  <2>4. b2.spend \in Nat
    BY <1>2, <2>3
  <2>5. b2 \in Trackers
    BY <2>2, <2>3, <2>4 DEF Trackers
  <2> QED
    BY <2>3, <2>5
<1>4. /\ b.spend + cost <= GlobalCap
      /\ m0 \in DOMAIN ModeCaps => b.modeSpend[m0] + cost <= ModeCaps[m0]
  BY DEF Fits
<1>5. \A m \in DOMAIN ModeCaps : m \in Modes
  BY CapsAssumption
<1>6. \A m \in Modes : b2.modeSpend[m] = IF m = m0 THEN b.modeSpend[m] + cost ELSE b.modeSpend[m]
  BY <1>2, <1>3
<1> HIDE DEF b2
<1>7. Shifts(b, b2, k, call[c], cs2[c])
  <2>1. b2.spend = b.spend - x + y /\ b2.spend <= GlobalCap
    BY <1>1, <1>2, <1>3, <1>4
  <2>2. \A m \in Modes : b2.modeSpend[m] = b.modeSpend[m] - (IF call[c].mode = m THEN x ELSE 0)
                                                        + (IF cs2[c].mode = m THEN y ELSE 0)
    BY <1>1, <1>2, <1>6
  <2>3. ASSUME NEW m \in DOMAIN ModeCaps
        PROVE  \/ b2.modeSpend[m] <= ModeCaps[m]
               \/ (IF cs2[c].mode = m THEN y ELSE 0) - (IF call[c].mode = m THEN x ELSE 0)
                    <= (IF cs2[c].mode = m THEN over2 ELSE 0) - (IF call[c].mode = m THEN over ELSE 0)
    BY <1>1, <1>4, <1>5, <1>6
  <2> QED
    BY <2>1, <2>2, <2>3 DEF Shifts
<1>8. b2.generation = b.generation /\ cs2[c].generation <= b.generation
  BY <1>2, <1>3
<1> HIDE DEF x, y, over, over2
<1>9. Sound(b2, cs2, k)
  BY <1>7, <1>8, MoveSound, SMTT(60)
<1> QED
  BY <1>3, <1>9 DEF b2

\* The books of a tracker that no call uses are those of a fresh one.
LEMMA FreshSound ==
    ASSUME NEW k \in Calls, NEW cs \in [Calls -> CallStates], NEW day \in 0..MaxDay,
           \A d \in Calls : cs[d].tracker # k
    PROVE  FreshTracker(day) \in Trackers /\ Sound(FreshTracker(day), cs, k)
<1> DEFINE b == FreshTracker(day)
           w == ChargesOf(cs)
           o == OverrunsOf(cs)
           S == Accounts(cs, k, b.generation)
<1>1. /\ b \in Trackers /\ b.generation = 0 /\ b.spend = 0
      /\ \A m \in Modes : b.modeSpend[m] = 0
  BY DEF FreshTracker, Trackers
<1>2. S = {} /\ \A m : Within(cs, S, m) = {}
  BY DEF Accounts, Within
<1>3. \A v : Total(v, {}) = 0
  BY TotalOfNothing
<1>4. \A m \in DOMAIN ModeCaps : m \in Modes /\ ModeCaps[m] \in Nat
  BY CapsAssumption
<1> HIDE DEF b, w, o, S
<1>5. /\ b.spend = Total(w, S) /\ b.spend <= GlobalCap + Total(o, S)
      /\ \A m \in Modes : b.modeSpend[m] = Total(w, Within(cs, S, m))
      /\ \A m \in DOMAIN ModeCaps : b.modeSpend[m] <= ModeCaps[m] + Total(o, Within(cs, S, m))
  <2>1. Total(w, S) = 0 /\ Total(o, S) = 0
    BY <1>2, <1>3
  <2>2. \A m : Total(w, Within(cs, S, m)) = 0 /\ Total(o, Within(cs, S, m)) = 0
    BY <1>2, <1>3
  <2> QED
    BY <1>1, <1>4, <2>1, <2>2, CostsAssumption
<1>6. Sound(b, cs, k)
  BY <1>5 DEF Sound, S, w, o
<1> QED
  BY <1>1, <1>6 DEF b
-----------------------------------------------------------------------------
\* The parts of the types.
LEMMA CallTypes ==
    ASSUME TypeOK
    PROVE  /\ today \in 0..MaxDay /\ cached \in Calls \cup {Nobody}
           /\ tracker \in [Calls -> Trackers] /\ call \in [Calls -> CallStates]
           /\ \A c \in Calls : /\ call[c].generation \in Nat
                               /\ call[c].tracker \in Calls \cup {Nobody}
                               /\ tracker[c].generation \in Nat
  BY DEF TypeOK, CallStates, Trackers

LEMMA CachedStep ==
    ASSUME BudgetInv, NEW c \in Calls, GetCachedClient(c)
    PROVE  BudgetInv'
<1>1. /\ TypeOK /\ UsersInv /\ \A k \in Calls : Sound(tracker[k], call, k)
      /\ call[c].stage = "idle" /\ cached \in Calls /\ UNCHANGED <<today, cached, tracker>>
      /\ call' = [call EXCEPT ![c].stage = "ready", ![c].tracker = cached]
  BY DEF BudgetInv, GetCachedClient, TypeOK
<1>2. /\ call' \in [Calls -> CallStates]
      /\ call'[c].stage = "ready" /\ call'[c].tracker = cached
      /\ call'[c].generation = call[c].generation
      /\ \A d \in Calls : d # c => call'[d] = call[d]
  BY <1>1, CallTypes DEF CallStates, Stages
<1>3. call[c].generation = 0
  BY <1>1 DEF UsersInv
<1>4. TypeOK'
  BY <1>1, <1>2 DEF TypeOK
<1>5. UsersInv'
  <2>1. call[cached].stage \notin {"idle", "building"} /\ c # cached
    BY <1>1 DEF UsersInv
  <2> QED
    BY <1>1, <1>2, <1>3, <2>1 DEF UsersInv
<1>6. ASSUME NEW k \in Calls PROVE Sound(tracker[k], call', k)
  <2>1. tracker[k] \in Trackers /\ call'[c].generation <= tracker[k].generation
    BY <1>1, <1>2, <1>3, CallTypes
  <2> QED
    BY <1>1, <1>2, <2>1, CallTypes, IdleMoveSound
<1> QED
  BY <1>1, <1>4, <1>5, <1>6 DEF BudgetInv

LEMMA MissStep ==
    ASSUME BudgetInv, NEW c \in Calls, MissClient(c)
    PROVE  BudgetInv'
<1>1. /\ TypeOK /\ UsersInv /\ \A k \in Calls : Sound(tracker[k], call, k)
      /\ call[c].stage = "idle" /\ UNCHANGED <<today, cached, tracker>>
      /\ call' = [call EXCEPT ![c].stage = "building"]
  BY DEF BudgetInv, MissClient
<1>2. /\ call' \in [Calls -> CallStates]
      /\ call'[c].stage = "building" /\ call'[c].tracker = call[c].tracker
      /\ call'[c].generation = call[c].generation
      /\ \A d \in Calls : d # c => call'[d] = call[d]
  BY <1>1, CallTypes DEF CallStates, Stages
<1>3. TypeOK' /\ UsersInv'
  BY <1>1, <1>2 DEF TypeOK, UsersInv
<1>4. ASSUME NEW k \in Calls PROVE Sound(tracker[k], call', k)
  <2>1. tracker[k] \in Trackers /\ call'[c].generation <= tracker[k].generation
    BY <1>1, <1>2, CallTypes DEF UsersInv
  <2> QED
    BY <1>1, <1>2, <2>1, CallTypes, IdleMoveSound
<1> QED
  BY <1>1, <1>3, <1>4 DEF BudgetInv

LEMMA BuildStep ==
    ASSUME BudgetInv, NEW c \in Calls, BuildClient(c)
    PROVE  BudgetInv'
<1>1. /\ TypeOK /\ UsersInv /\ \A k \in Calls : Sound(tracker[k], call, k)
      /\ call[c].stage = "building" /\ UNCHANGED today
      /\ tracker' = [tracker EXCEPT ![c] = FreshTracker(today)]
      /\ cached' \in {cached, c}
      /\ call' = [call EXCEPT ![c].stage = "ready", ![c].tracker = c]
  BY DEF BudgetInv, BuildClient
<1>2. /\ call' \in [Calls -> CallStates]
      /\ call'[c].stage = "ready" /\ call'[c].tracker = c
      /\ call'[c].generation = call[c].generation
      /\ \A d \in Calls : d # c => call'[d] = call[d]
  BY <1>1, CallTypes DEF CallStates, Stages
<1>3. /\ call[c].generation = 0 /\ cached # c /\ \A d \in Calls : call[d].tracker # c
  BY <1>1 DEF UsersInv
<1>4. FreshTracker(today) \in Trackers /\ Sound(FreshTracker(today), call, c)
  BY <1>1, <1>3, CallTypes, FreshSound
<1>5. /\ tracker' \in [Calls -> Trackers]
      /\ \A k \in Calls : tracker'[k] = IF k = c THEN FreshTracker(today) ELSE tracker[k]
  BY <1>1, <1>4, CallTypes
<1>6. TypeOK'
  BY <1>1, <1>2, <1>5 DEF TypeOK
<1>7. UsersInv'
  BY <1>1, <1>2, <1>3 DEF UsersInv
<1>8. ASSUME NEW k \in Calls PROVE Sound(tracker'[k], call', k)
  <2>1. /\ tracker'[k] \in Trackers /\ Sound(tracker'[k], call, k)
    BY <1>1, <1>4, <1>5
  <2>2. call'[c].generation <= tracker'[k].generation
    BY <1>2, <1>3, <2>1 DEF Trackers
  <2> QED
    BY <1>1, <1>2, <2>1, <2>2, CallTypes, IdleMoveSound
<1> QED
  BY <1>6, <1>7, <1>8 DEF BudgetInv

\* A call that uses tracker k and whose step leaves the sound books b2 in it
\* leaves the books of the other trackers as they are.
LEMMA UserStep ==
    ASSUME BudgetInv, NEW c \in Calls, call[c].stage \in {"ready", "calling"},
           call' \in [Calls -> CallStates], \A d \in Calls : d # c => call'[d] = call[d],
           call'[c].tracker = call[c].tracker, call'[c].stage \notin {"idle", "building", "ready"},
           UNCHANGED <<today, cached>>,
           NEW b2 \in Trackers, Sound(b2, call', call[c].tracker),
           tracker' = [tracker EXCEPT ![call[c].tracker] = b2]
    PROVE  BudgetInv'
<1> DEFINE k == call[c].tracker
<1>1. /\ TypeOK /\ UsersInv /\ \A j \in Calls : Sound(tracker[j], call, j)
      /\ k \in Calls
  BY DEF BudgetInv, UsersInv
<1>2. /\ tracker' \in [Calls -> Trackers]
      /\ \A j \in Calls : tracker'[j] = IF j = k THEN b2 ELSE tracker[j]
  BY <1>1, CallTypes
<1>3. TypeOK'
  BY <1>1, <1>2 DEF TypeOK
<1>4. UsersInv'
  BY <1>1 DEF UsersInv
<1>5. ASSUME NEW j \in Calls PROVE Sound(tracker'[j], call', j)
  <2>1. CASE j = k
    BY <1>2, <2>1
  <2>2. CASE j # k
    <3>1. tracker[j] \in Trackers /\ Sound(tracker[j], call, j) /\ tracker'[j] = tracker[j]
      BY <1>1, <1>2, <2>2, CallTypes
    <3>2. Sound(tracker[j], call', j)
      BY <1>1, <2>2, <3>1, CallTypes, IdleMoveSound
    <3> QED
      BY <3>1, <3>2
  <2> QED
    BY <2>1, <2>2
<1> QED
  BY <1>3, <1>4, <1>5 DEF BudgetInv

\* What a call that uses a tracker finds: sound books once they are rolled.
LEMMA RolledBooks ==
    ASSUME BudgetInv, NEW c \in Calls, call[c].stage \in {"ready", "calling"}
    PROVE  LET k == call[c].tracker
               b == Rolled(tracker[k])
           IN  /\ k \in Calls /\ b \in Trackers /\ Sound(b, call, k)
               /\ call[c].generation <= b.generation /\ b.generation \in Nat
<1> DEFINE k == call[c].tracker
           b == Rolled(tracker[k])
<1>1. /\ TypeOK /\ k \in Calls /\ Sound(tracker[k], call, k)
  BY DEF BudgetInv, UsersInv
<1>2. /\ tracker[k] \in Trackers /\ call \in [Calls -> CallStates] /\ today \in 0..MaxDay
  BY <1>1, CallTypes
<1>3. b \in Trackers /\ Sound(b, call, k)
  BY <1>1, <1>2, RollSound
<1> HIDE DEF b, k
<1>4. call[c].generation <= b.generation
  BY <1>3 DEF Sound, k
<1>5. b.generation \in Nat
  BY <1>3 DEF Trackers
<1> QED
  BY <1>1, <1>3, <1>4, <1>5 DEF b, k

LEMMA ReserveStep ==
    ASSUME BudgetInv, NEW c \in Calls, NEW m \in Modes, NEW cost \in Costs,
           Reserve(c, m, cost) \/ Refuse(c, m, cost)
    PROVE  BudgetInv'
<1> DEFINE k == call[c].tracker
           b == Rolled(tracker[k])
<1>1. /\ call[c].stage = "ready" /\ UNCHANGED <<today, cached>>
      /\ call \in [Calls -> CallStates] /\ today \in 0..MaxDay
  BY CallTypes DEF Reserve, Refuse, BudgetInv
<1>2. k \in Calls /\ b \in Trackers /\ Sound(b, call, k) /\ b.generation \in Nat
      /\ call[c].generation <= b.generation
  BY <1>1, RolledBooks
<1>3. cost \in Nat
  BY CostsAssumption
<1>4. CASE Reserve(c, m, cost)
  <2>1. /\ Fits(b, m, cost) /\ tracker' = [tracker EXCEPT ![k] = Charged(b, m, cost)]
        /\ call' = [call EXCEPT ![c] =
              [@ EXCEPT !.stage = "calling", !.mode = m, !.projected = cost,
                        !.generation = b.generation, !.day = today]]
    BY <1>4 DEF Reserve
  <2> DEFINE r == [call[c] EXCEPT !.stage = "calling", !.mode = m, !.projected = cost,
                                  !.generation = b.generation, !.day = today]
  <2>2. /\ r \in CallStates /\ r.stage = "calling" /\ r.tracker = k
        /\ r.generation = b.generation /\ r.mode = m /\ r.projected = cost
    BY <1>1, <1>2 DEF CallStates, Stages
  <2>3. call' = [call EXCEPT ![c] = r]
    BY <1>1, <2>1
  <2> HIDE DEF r, b
  <2>4. /\ call' \in [Calls -> CallStates] /\ call'[c] = r
        /\ \A d \in Calls : d # c => call'[d] = call[d]
    BY <1>1, <2>2, <2>3
  <2>5. Charged(b, m, cost) \in Trackers /\ Sound(Charged(b, m, cost), call', k)
    <3>1. /\ call'[c].stage = "calling" /\ call'[c].tracker = k /\ call'[c].mode = m
          /\ call'[c].generation = b.generation /\ call'[c].projected = cost
      BY <2>2, <2>4
    <3>2. Fits(b, m, cost)
      BY <2>1
    <3> HIDE DEF k
    <3> QED
      BY <1>1, <1>2, <1>3, <2>4, <3>1, <3>2, ReserveSound, SMTT(60)
  <2> QED
    BY <1>1, <2>1, <2>2, <2>4, <2>5, UserStep
<1>5. CASE Refuse(c, m, cost)
  <2>1. /\ tracker' = [tracker EXCEPT ![k] = b]
        /\ call' = [call EXCEPT ![c].stage = "refused"]
    BY <1>5 DEF Refuse
  <2>2. /\ call' \in [Calls -> CallStates]
        /\ call'[c].stage = "refused" /\ call'[c].tracker = k
        /\ call'[c].generation = call[c].generation
        /\ \A d \in Calls : d # c => call'[d] = call[d]
    BY <1>1, <2>1 DEF CallStates, Stages
  <2> HIDE DEF b
  <2>3. Sound(b, call', k)
    BY <1>1, <1>2, <2>2, IdleMoveSound
  <2> QED
    BY <1>1, <1>2, <2>1, <2>2, <2>3, UserStep
<1> QED
  BY <1>4, <1>5

LEMMA SettleStep ==
    ASSUME BudgetInv, NEW c \in Calls, (\E cost \in Costs : Commit(c, cost)) \/ Release(c)
    PROVE  BudgetInv'
<1> DEFINE k == call[c].tracker
           b == Rolled(tracker[k])
<1>1. /\ call[c].stage = "calling" /\ UNCHANGED <<today, cached>>
      /\ call \in [Calls -> CallStates] /\ tracker \in [Calls -> Trackers]
  BY CallTypes DEF Commit, Release, BudgetInv
<1>2. k \in Calls /\ b \in Trackers /\ Sound(b, call, k)
  BY <1>1, RolledBooks
<1>3. ASSUME NEW cost \in Costs, Commit(c, cost) PROVE BudgetInv'
  <2>1. /\ tracker' = [tracker EXCEPT ![k] = Settled(c, b, cost)]
        /\ call' = [call EXCEPT ![c].stage = "answered", ![c].actual = cost]
    BY <1>1, <1>2, <1>3 DEF Commit
  <2>2. /\ call' \in [Calls -> CallStates]
        /\ call'[c].stage = "answered" /\ call'[c].tracker = k /\ call'[c].actual = cost
        /\ call'[c].generation = call[c].generation /\ call'[c].mode = call[c].mode
        /\ call'[c].projected = call[c].projected
        /\ \A d \in Calls : d # c => call'[d] = call[d]
    BY <1>1, <2>1 DEF CallStates, Stages
  <2>3. cost \in Nat
    BY CostsAssumption
  <2> HIDE DEF b
  <2>4. Settled(c, b, cost) \in Trackers /\ Sound(Settled(c, b, cost), call', k)
    BY <1>1, <1>2, <2>2, <2>3, SettleSound
  <2> QED
    BY <1>1, <2>1, <2>2, <2>4, UserStep
<1>4. CASE Release(c)
  <2>1. /\ tracker' = [tracker EXCEPT ![k] = Settled(c, b, 0)]
        /\ call' = [call EXCEPT ![c].stage = "failed"]
    BY <1>1, <1>2, <1>4 DEF Release
  <2>2. /\ call' \in [Calls -> CallStates]
        /\ call'[c].stage = "failed" /\ call'[c].tracker = k
        /\ call'[c].generation = call[c].generation /\ call'[c].mode = call[c].mode
        /\ \A d \in Calls : d # c => call'[d] = call[d]
    BY <1>1, <2>1 DEF CallStates, Stages
  <2> HIDE DEF b
  <2>3. Settled(c, b, 0) \in Trackers /\ Sound(Settled(c, b, 0), call', k)
    BY <1>1, <1>2, <2>2, SettleSound
  <2> QED
    BY <1>1, <2>1, <2>2, <2>3, UserStep
<1> QED
  BY <1>3, <1>4

\* Every step of a call, and every new day, keeps the books.
LEMMA BudgetInvariant == Spec => []BudgetInv
<1>1. Init => BudgetInv
  <2> SUFFICES ASSUME Init PROVE BudgetInv
    OBVIOUS
  <2>1. 0 \in 0..MaxDay
    BY BoundsAssumption
  <2>2. NoCall \in CallStates /\ NoCall.stage = "idle" /\ NoCall.tracker = Nobody /\ NoCall.generation = 0
    <3>1. (CHOOSE m \in Modes : TRUE) \in Modes /\ (CHOOSE cost \in Costs : TRUE) \in Costs
      BY BoundsAssumption
    <3> QED
      BY <2>1, <3>1 DEF NoCall, CallStates, Stages
  <2>3. /\ call \in [Calls -> CallStates]
        /\ \A c \in Calls : call[c] = NoCall
    BY <2>2 DEF Init
  <2>4. \A c \in Calls : call[c].tracker \notin Calls
    BY <2>2, <2>3, NobodyAssumption
  <2>5. ASSUME NEW k \in Calls
        PROVE  tracker[k] \in Trackers /\ Sound(tracker[k], call, k)
    <3>1. tracker[k] = FreshTracker(0)
      BY DEF Init
    <3> QED
      BY <2>1, <2>3, <2>4, <3>1, FreshSound
  <2>6. TypeOK
    BY <2>1, <2>3, <2>5 DEF Init, TypeOK
  <2>7. UsersInv
    BY <2>2, <2>3, <2>4, NobodyAssumption DEF Init, UsersInv
  <2> QED
    BY <2>5, <2>6, <2>7 DEF BudgetInv
<1>2. BudgetInv /\ [Next]_vars => BudgetInv'
  <2> SUFFICES ASSUME BudgetInv, [Next]_vars PROVE BudgetInv'
    OBVIOUS
  <2>1. ASSUME NEW c \in Calls, GetCachedClient(c) PROVE BudgetInv'
    BY <2>1, CachedStep
  <2>2. ASSUME NEW c \in Calls, MissClient(c) PROVE BudgetInv'
    BY <2>2, MissStep
  <2>3. ASSUME NEW c \in Calls, BuildClient(c) PROVE BudgetInv'
    BY <2>3, BuildStep
  <2>4. ASSUME NEW c \in Calls, NEW m \in Modes, NEW cost \in Costs,
               Reserve(c, m, cost) \/ Refuse(c, m, cost)
        PROVE  BudgetInv'
    BY <2>4, ReserveStep
  <2>5. ASSUME NEW c \in Calls, (\E cost \in Costs : Commit(c, cost)) \/ Release(c) PROVE BudgetInv'
    BY <2>5, SettleStep
  <2>6. CASE NextDay \/ UNCHANGED vars
    <3>1. /\ UNCHANGED <<cached, tracker, call>> /\ today' \in 0..MaxDay
      BY <2>6, BoundsAssumption DEF NextDay, vars, BudgetInv, TypeOK
    <3>2. TypeOK' /\ UsersInv'
      BY <3>1 DEF BudgetInv, TypeOK, UsersInv
    <3> QED
      BY <3>1, <3>2 DEF BudgetInv
  <2> QED
    BY <2>1, <2>2, <2>3, <2>4, <2>5, <2>6 DEF Next
<1> QED
  BY <1>1, <1>2, PTL DEF Spec

\* Whatever is refunded on whichever day, spend stays a natural number.
THEOREM BudgetTypeCorrect == Spec => []TypeOK
<1>1. BudgetInv => TypeOK
  BY DEF BudgetInv
<1> QED
  BY <1>1, BudgetInvariant, PTL

\* The spend of a tracker is what its calls of the period weigh.
THEOREM SpendAlwaysLedger == Spec => []SpendIsLedger
<1>1. BudgetInv => SpendIsLedger
  BY DEF BudgetInv, Sound, SpendIsLedger, AccountedBy, InMode, Accounts, Within, Charges, ChargesOf
<1> QED
  BY <1>1, BudgetInvariant, PTL

\* Calls exceed a cap only by what they cost beyond their projections.
THEOREM CapsAlwaysHeld == Spec => []CapsHeld
<1>1. BudgetInv => CapsHeld
  BY DEF BudgetInv, Sound, CapsHeld, AccountedBy, InMode, Accounts, Within, Overruns, OverrunsOf
<1> QED
  BY <1>1, BudgetInvariant, PTL
=============================================================================
