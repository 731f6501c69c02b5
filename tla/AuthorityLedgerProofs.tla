------------------------- MODULE AuthorityLedgerProofs -------------------------
(***************************************************************************)
(* For any number of attempts: the ledger is valid in every revision, it   *)
(* grants one worker, and a refund leaves no reservation behind.           *)
(***************************************************************************)
EXTENDS AuthorityLedger, TLAPS

Begun == {"working", "settling", "over"}

\* A worker that has started is never at a place before its start again.
StartedInv == \A a \in started : pc[a] \in Begun

\* Only the owner of a consumed challenge is about to start.
ReadyInv ==
  \A a \in Attempts : pc[a] \in {"finalized", "granted"} =>
    ledger.status = "consumed" /\ ledger.owner = a /\ a \notin started

\* A write is under way only from an attempt that has not started, and on the
\* challenge it was computed from.
Fits(a, kind) ==
  /\ kind = "prepare" => ledger.status = "available"
  /\ kind \in {"finalize", "release"} => HeldBy(a)

SentInv ==
  \A a \in Attempts, kind \in Kinds : <<a, kind>> \in sent => a \notin started /\ Fits(a, kind)

HeldInv == ledger.status = "prepared" => ledger.owner \notin started

GrantInv == StartedInv /\ ReadyInv /\ SentInv /\ HeldInv

\* Places of an attempt that has not reserved yet, or has given its reservation up.
Unreserved == {"idle", "asked", "preparing", "prepared", "reserving",
               "refunding", "releasing", "refunded"}

SlotInv == \A a \in Attempts : pc[a] \in Unreserved => ~OwnReservation(a)

\* What Answered leaves: only the attempt that waits for the answer moves, to the place
\* the answer leads to.
LEMMA AnsweredMoves ==
  ASSUME NEW a \in Attempts, NEW waiting, NEW place, pc \in [Attempts -> Places],
         place \in Places, Answered(a, waiting, place)
  PROVE  /\ pc' \in [Attempts -> Places]
         /\ \A b \in Attempts : pc'[b] = pc[b] \/ (b = a /\ pc[b] = waiting /\ pc'[b] = place)
  BY DEF Answered, Move

LEMMA MoveMoves ==
  ASSUME NEW a \in Attempts, NEW place \in Places, pc \in [Attempts -> Places],
         Move(a, place)
  PROVE  /\ pc' \in [Attempts -> Places]
         /\ pc'[a] = place
         /\ \A b \in Attempts \ {a} : pc'[b] = pc[b]
  BY DEF Move

\* The revisions the ledger takes are valid states.
LEMMA RevisionsValid ==
  ASSUME LedgerTypeOK, NEW a \in Attempts
  PROVE  /\ ledger.status = "available" =>
              Prepared(a) \in Ledgers /\ ValidState(Prepared(a)) /\
              Prepared(a).status = "prepared" /\ Prepared(a).owner = a
         /\ ledger.status = "prepared" =>
              /\ Consumed \in Ledgers /\ ValidState(Consumed)
              /\ Consumed.status = "consumed" /\ Consumed.owner = ledger.owner
              /\ Released \in Ledgers /\ ValidState(Released)
              /\ Released.status = "available" /\ Released.owner = NoAttempt
         /\ ledger.status = "consumed" =>
              /\ Recovered \in Ledgers /\ ValidState(Recovered)
              /\ Recovered.status = "available" /\ Recovered.owner = NoAttempt
  <1>1. ledger \in Ledgers /\ ValidState(ledger)
    BY DEF LedgerTypeOK, Ledgers
  <1>2. NoAttempt \notin Attempts
    BY AttemptsAssumption
  <1> QED
    BY <1>1, <1>2 DEF Ledgers, ValidState, Prepared, Consumed, Released, Recovered

\* A rotation is a revision that makes the challenge current again.
LEMMA RotateRevises ==
  ASSUME NEW state \in Ledgers, ValidState(state), Rotate(state)
  PROVE  /\ ledger' \in Ledgers /\ ValidState(ledger')
         /\ ledger'.status = state.status /\ ledger'.owner = state.owner
         /\ sent' = {} /\ claimed' = {}
  BY DEF Rotate, Revise, Ledgers, ValidState

\* Giving back a held challenge frees it.
LEMMA GiveBackFrees ==
  ASSUME LedgerTypeOK, ledger.status = "prepared", GiveBack, NEW a \in Attempts
  PROVE  /\ ledger' \in Ledgers /\ ValidState(ledger')
         /\ ledger'.status = "available" /\ ledger'.owner = NoAttempt
         /\ sent' = {} /\ claimed' \in SUBSET Attempts
  <1>1. Released \in Ledgers /\ ValidState(Released)
        /\ Released.status = "available" /\ Released.owner = NoAttempt
    BY RevisionsValid
  <1>2. CASE ledger.expired
    <2>1. Rotate(Released)
      BY <1>2 DEF GiveBack
    <2> QED
      BY <1>1, <2>1, RotateRevises
  <1>3. CASE ~ledger.expired
    BY <1>1, <1>3 DEF GiveBack, Revise, LedgerTypeOK
  <1> QED
    BY <1>2, <1>3

\* Initially nothing is held, sent, reserved or started.
LEMMA InitInv == LedgerInit => LedgerTypeOK /\ GrantInv /\ SlotInv
  <1> SUFFICES ASSUME LedgerInit PROVE LedgerTypeOK /\ GrantInv /\ SlotInv
    OBVIOUS
  <1>1. LedgerTypeOK
    BY DEF LedgerInit, LedgerTypeOK, Ledgers, ValidState, Places, Ended
  <1>2. GrantInv
    BY DEF LedgerInit, GrantInv, StartedInv, ReadyInv, SentInv, HeldInv
  <1>3. SlotInv
    BY DEF LedgerInit, SlotInv, OwnReservation
  <1> QED
    BY <1>1, <1>2, <1>3

\* A challenge is opened, renewed, or taken back once it has expired.
LEMMA BeginRevises ==
  ASSUME LedgerTypeOK, BeginChallenge
  PROVE  /\ ledger' \in Ledgers /\ ValidState(ledger')
         /\ ledger'.status = "available" /\ ledger'.owner = NoAttempt
         /\ ledger.status \in {"absent", "available", "prepared"}
         /\ sent' = {} /\ claimed' = {}
  <1>0. ledger \in Ledgers /\ ValidState(ledger)
    BY DEF LedgerTypeOK
  <1>1. CASE ledger.status = "absent" /\ Rotate([ledger EXCEPT !.status = "available"])
    <2> DEFINE opened == [ledger EXCEPT !.status = "available"]
    <2>1. opened \in Ledgers /\ ValidState(opened)
          /\ opened.status = "available" /\ opened.owner = NoAttempt
      BY <1>0, <1>1 DEF Ledgers, ValidState
    <2> HIDE DEF opened
    <2>2. Rotate(opened)
      BY <1>1 DEF opened
    <2> QED
      BY <1>1, <2>1, <2>2, RotateRevises
  <1>2. CASE ledger.status = "available" /\ Rotate([ledger EXCEPT !.recovered = NoAttempt])
    <2> DEFINE renewed == [ledger EXCEPT !.recovered = NoAttempt]
    <2>1. renewed \in Ledgers /\ ValidState(renewed)
          /\ renewed.status = "available" /\ renewed.owner = NoAttempt
      BY <1>0, <1>2 DEF Ledgers, ValidState
    <2> HIDE DEF renewed
    <2>2. Rotate(renewed)
      BY <1>2 DEF renewed
    <2> QED
      BY <1>2, <2>1, <2>2, RotateRevises
  <1>3. CASE ledger.status = "prepared" /\ Rotate(Released)
    <2>1. Attempts # {}
      BY <1>0, <1>3 DEF Ledgers, ValidState
    <2>2. Released \in Ledgers /\ ValidState(Released)
          /\ Released.status = "available" /\ Released.owner = NoAttempt
      BY <1>3, <2>1, RevisionsValid
    <2> QED
      BY <1>3, <2>2, RotateRevises
  <1> QED
    BY <1>1, <1>2, <1>3 DEF BeginChallenge

\* Every step leaves a valid ledger, known writes and places.
LEMMA TypeStep == LedgerTypeOK /\ GrantInv /\ [LedgerNext]_ledgerVars => LedgerTypeOK'
  <1> SUFFICES ASSUME LedgerTypeOK, GrantInv, [LedgerNext]_ledgerVars PROVE LedgerTypeOK'
    OBVIOUS
  <1> USE DEF LedgerTypeOK
  <1>1. ASSUME NEW a \in Attempts, AttemptNext(a) PROVE LedgerTypeOK'
    <2>1. CASE Dispatch(a)
      BY <2>1 DEF Dispatch, Move, Places
    <2>2. CASE Prepare(a)
      BY <2>2 DEF Prepare, Move, Places, Ended, Kinds
    <2>3. CASE CheckSlot(a)
      BY <2>3 DEF CheckSlot, Move, Places
    <2>4. CASE ReserveSlot(a)
      BY <2>4 DEF ReserveSlot, Move, Places, Ended, Reservations
    <2>5. CASE Finalize(a)
      BY <2>5 DEF Finalize, Move, Places, Kinds
    <2>6. CASE ReadBack(a)
      BY <2>6 DEF ReadBack, Move, Places
    <2>7. CASE FailBeforeStart(a)
      BY <2>7 DEF FailBeforeStart, Move, Places
    <2>8. CASE Start(a)
      BY <2>8 DEF Start, Move, Places
    <2>9. CASE FindBlocker(a)
      BY <2>9 DEF FindBlocker, Move, Places
    <2>10. CASE Confirm(a)
      <3>1. ledger' \in Ledgers /\ ValidState(ledger') /\ sent' = {}
        BY <2>10 DEF Confirm, Revise, Ledgers, ValidState
      <3> QED
        BY <2>10, <3>1 DEF Confirm, Move, Places, Ended
    <2>11. CASE Clean(a)
      BY <2>11 DEF Clean, Move, Places, Ended, Terminalised, OwnReservation, Reservations
    <2>12. CASE Refund(a)
      <3>1. pc' \in [Attempts -> Places]
        BY <2>12 DEF Refund, Move, Places, Ended
      <3>2. ledger' \in Ledgers /\ ValidState(ledger')
            /\ sent' \in SUBSET (Attempts \X Kinds) /\ claimed' \in SUBSET Attempts
        BY <2>12, RotateRevises DEF Refund, Kinds
      <3> QED
        BY <2>12, <3>1, <3>2 DEF Refund
    <2>13. CASE ReadRelease(a)
      BY <2>13 DEF ReadRelease, Move, Places, Ended
    <2>14. CASE GiveUp(a)
      BY <2>14 DEF GiveUp, Move, Places, Ended
    <2>15. CASE Stop(a)
      BY <2>15 DEF Stop, Move, Places, Ended, Terminalised, OwnReservation, Reservations
    <2> QED
      BY <1>1, <2>1, <2>2, <2>3, <2>4, <2>5, <2>6, <2>7, <2>8, <2>9, <2>10, <2>11,
         <2>12, <2>13, <2>14, <2>15 DEF AttemptNext
  <1>2. ASSUME NEW a \in Attempts, WriteLands(a) PROVE LedgerTypeOK'
    <2>1. CASE PrepareLands(a)
      <3>1. ledger.status = "available"
        BY <1>2, <2>1 DEF PrepareLands, GrantInv, SentInv, Fits, Kinds
      <3>2. ledger' \in Ledgers /\ ValidState(ledger') /\ sent' = {}
        BY <2>1, <3>1, RevisionsValid DEF PrepareLands, Revise
      <3>3. pc' \in [Attempts -> Places]
        BY <2>1, AnsweredMoves DEF PrepareLands, Places
      <3> QED
        BY <2>1, <3>2, <3>3 DEF PrepareLands
    <2>2. CASE FinalizeLands(a)
      <3>1. ledger.status = "prepared"
        BY <1>2, <2>2 DEF FinalizeLands, GrantInv, SentInv, Fits, Kinds, HeldBy
      <3>2. ledger' \in Ledgers /\ ValidState(ledger') /\ sent' = {}
        BY <2>2, <3>1, RevisionsValid DEF FinalizeLands, Revise
      <3>3. pc' \in [Attempts -> Places]
        BY <2>2, AnsweredMoves DEF FinalizeLands, Places
      <3> QED
        BY <2>2, <3>2, <3>3 DEF FinalizeLands
    <2>3. CASE ReleaseLands(a)
      <3>1. ledger.status = "prepared"
        BY <1>2, <2>3 DEF ReleaseLands, GrantInv, SentInv, Fits, Kinds, HeldBy
      <3>2. ledger' \in Ledgers /\ ValidState(ledger') /\ sent' = {}
            /\ claimed' \in SUBSET Attempts
        BY <2>3, <3>1, GiveBackFrees DEF ReleaseLands
      <3>3. pc' \in [Attempts -> Places]
        BY <2>3, AnsweredMoves DEF ReleaseLands, Places, Ended
      <3> QED
        BY <2>3, <3>2, <3>3 DEF ReleaseLands
    <2> QED
      BY <1>2, <2>1, <2>2, <2>3 DEF WriteLands
  <1>3. ASSUME NEW a \in Attempts, Reconcile(a) PROVE LedgerTypeOK'
    <2>1. /\ ledger' \in Ledgers /\ ValidState(ledger') /\ sent' = {}
          /\ claimed' \in SUBSET Attempts
      <3>1. CASE HeldBy(a) /\ GiveBack
        BY <3>1, GiveBackFrees DEF HeldBy
      <3>2. CASE ledger.status = "consumed" /\ Rotate(Recovered)
        BY <3>2, RevisionsValid, RotateRevises
      <3>3. CASE Rotate(ledger)
        BY <3>3, RotateRevises
      <3> QED
        BY <1>3, <3>1, <3>2, <3>3 DEF Reconcile
    <2> QED
      BY <1>3, <2>1 DEF Reconcile
  <1>4. ASSUME BeginChallenge PROVE LedgerTypeOK'
    <2>1. /\ ledger' \in Ledgers /\ ValidState(ledger') /\ sent' = {} /\ claimed' = {}
      BY <1>4, BeginRevises
    <2> QED
      BY <1>4, <2>1 DEF BeginChallenge
  <1>5. ASSUME Expire PROVE LedgerTypeOK'
    BY <1>5 DEF Expire, Ledgers, ValidState
  <1>6. ASSUME Relabel PROVE LedgerTypeOK'
    BY <1>6 DEF Relabel
  <1>7. ASSUME OthersReserve PROVE LedgerTypeOK'
    BY <1>7 DEF OthersReserve, Reservations
  <1>8. ASSUME SlotEnds PROVE LedgerTypeOK'
    BY <1>8 DEF SlotEnds, Reservations
  <1>9. ASSUME UNCHANGED ledgerVars PROVE LedgerTypeOK'
    BY <1>9 DEF ledgerVars
  <1> QED
    BY <1>1, <1>2, <1>3, <1>4, <1>5, <1>6, <1>7, <1>8, <1>9 DEF LedgerNext

\* What the mapping gives for each status, before and after a step.
Free(status) == status \in {"absent", "available"}
Spent(status) == status \in {"consumed", "confirmed"}

LEMMA MappedStage ==
  ASSUME LedgerTypeOK, LedgerTypeOK'
  PROVE  /\ Free(ledger.status) => Stage = "free" /\ ledger.owner = NoAttempt
         /\ ledger.status = "prepared" => Stage = "held"
         /\ Spent(ledger.status) => Stage = "spent"
         /\ Stage # "spent" => CurrentUsers = {}
         /\ Free(ledger'.status) => Stage' = "free" /\ ledger'.owner = NoAttempt
         /\ ledger'.status = "prepared" => Stage' = "held"
         /\ Spent(ledger'.status) => Stage' = "spent"
         /\ Stage' # "spent" => CurrentUsers' = {}
  BY DEF LedgerTypeOK, ValidState, Free, Spent, Stage, CurrentUsers

GrantStep == [Grant!GrantNext]_(Grant!grantVars)

\* A step that touches neither the ledger's status and owner nor the workers is a
\* stutter of the abstract grant.
LEMMA Stutters ==
  ASSUME ledger'.status = ledger.status, ledger'.owner = ledger.owner, started' = started
  PROVE  GrantStep
  BY DEF GrantStep, Grant!grantVars, Stage, CurrentUsers

\* The ledger is freed while nobody has started on it, and nobody holds it any more.
LEMMA FreeingIsMapped ==
  ASSUME LedgerTypeOK, LedgerTypeOK', GrantInv, started' = started,
         \/ Free(ledger.status)
         \/ ledger.status = "prepared"
         \/ ledger.status = "consumed" /\ ledger.owner \notin started,
         Free(ledger'.status)
  PROVE  GrantStep
  <1>1. CASE Free(ledger.status)
    BY <1>1, MappedStage DEF GrantStep, Grant!grantVars, Free
  <1>2. CASE ledger.status = "prepared"
    <2>1. Grant!Return
      BY <1>2, MappedStage DEF Grant!Return, Free
    <2> QED
      BY <2>1 DEF GrantStep, Grant!GrantNext
  <1>3. CASE ledger.status = "consumed" /\ ledger.owner \notin started
    <2>1. CurrentUsers = {}
      BY <1>3 DEF CurrentUsers, Stage
    <2>2. Grant!Reopen
      BY <1>3, <2>1, MappedStage DEF Grant!Reopen, Free, Spent
    <2> QED
      BY <2>2 DEF GrantStep, Grant!GrantNext
  <1> QED
    BY <1>1, <1>2, <1>3

\* Nobody arrives where a consumed challenge is needed, and a started worker goes on.
Moves ==
  \A b \in Attempts :
    /\ pc'[b] \in {"finalized", "granted"} => pc[b] \in {"finalized", "granted"}
    /\ pc[b] \in Begun => pc'[b] \in Begun

LEMMA MovingKeepsGrant ==
  ASSUME LedgerTypeOK, GrantInv, UNCHANGED <<ledger, sent, started>>, Moves
  PROVE  GrantInv' /\ GrantStep
  <1>1. StartedInv' /\ ReadyInv'
    BY DEF GrantInv, StartedInv, ReadyInv, Moves, LedgerTypeOK
  <1>2. SentInv' /\ HeldInv'
    BY DEF GrantInv, SentInv, HeldInv, Fits, HeldBy
  <1> QED
    BY <1>1, <1>2, Stutters DEF GrantInv

\* So does an attempt that has not started and sends a write that fits.
LEMMA SendingKeepsGrant ==
  ASSUME LedgerTypeOK, GrantInv, NEW a \in Attempts, NEW kind \in Kinds,
         a \notin started, Fits(a, kind), sent' = sent \cup {<<a, kind>>},
         UNCHANGED <<ledger, started>>, Moves
  PROVE  GrantInv' /\ GrantStep
  <1>1. StartedInv' /\ ReadyInv'
    BY DEF GrantInv, StartedInv, ReadyInv, Moves, LedgerTypeOK
  <1>2. HeldInv'
    BY DEF GrantInv, HeldInv
  <1>3. SentInv'
    <2> SUFFICES ASSUME NEW b \in Attempts, NEW k \in Kinds, <<b, k>> \in sent'
                 PROVE  b \notin started /\ Fits(b, k)'
      BY DEF SentInv
    <2>1. CASE <<b, k>> \in sent
      BY <2>1 DEF GrantInv, SentInv, Fits, HeldBy
    <2>2. CASE b = a /\ k = kind
      BY <2>2 DEF Fits, HeldBy
    <2> QED
      BY <2>1, <2>2
  <1> QED
    BY <1>1, <1>2, <1>3, Stutters DEF GrantInv

\* A revision leaves no write under way, so that only who is ready and who holds the
\* challenge is left to ask.
LEMMA RevisingKeepsGrant ==
  ASSUME LedgerTypeOK, GrantInv, sent' = {}, started' = started,
         \A b \in Attempts : pc[b] \in Begun => pc'[b] \in Begun,
         ReadyInv', HeldInv'
  PROVE  GrantInv'
  <1>1. StartedInv'
    BY DEF GrantInv, StartedInv, LedgerTypeOK
  <1>2. SentInv'
    BY DEF SentInv
  <1> QED
    BY <1>1, <1>2 DEF GrantInv

\* Nobody is ready while the challenge is not consumed, and nobody becomes so.
LEMMA NobodyReady ==
  ASSUME GrantInv, ledger.status # "consumed",
         \A b \in Attempts :
           pc'[b] \in {"finalized", "granted"} => pc[b] \in {"finalized", "granted"}
  PROVE  ReadyInv'
  BY DEF GrantInv, ReadyInv

\* A step of an attempt changes the ledger only to confirm its own challenge or to
\* renew one that is free, and it starts only the worker of the challenge it consumed.
LEMMA AttemptGrant ==
  ASSUME LedgerTypeOK, LedgerTypeOK', GrantInv, NEW a \in Attempts, AttemptNext(a)
  PROVE  GrantInv' /\ GrantStep
  <1>0. pc \in [Attempts -> Places]
    BY DEF LedgerTypeOK
  <1>1. CASE Dispatch(a)
    BY <1>0, <1>1, MovingKeepsGrant DEF Dispatch, Move, Moves, Begun
  <1>2. CASE Prepare(a)
    <2>1. a \notin started
      BY <1>2 DEF Prepare, GrantInv, StartedInv, Begun
    <2>2. Moves
      BY <1>0, <1>2 DEF Prepare, Move, Moves, Begun
    <2>3. CASE sent' = sent \cup {<<a, "prepare">>} /\ MayPrepare(a)
      BY <1>2, <2>1, <2>2, <2>3, SendingKeepsGrant DEF Prepare, MayPrepare, Fits, Kinds
    <2>4. CASE UNCHANGED sent
      BY <1>2, <2>2, <2>4, MovingKeepsGrant DEF Prepare
    <2> QED
      BY <1>2, <2>3, <2>4 DEF Prepare
  <1>3. CASE CheckSlot(a)
    BY <1>0, <1>3, MovingKeepsGrant DEF CheckSlot, Move, Moves, Begun
  <1>4. CASE ReserveSlot(a)
    BY <1>0, <1>4, MovingKeepsGrant DEF ReserveSlot, Move, Moves, Begun
  <1>5. CASE Finalize(a)
    <2>1. a \notin started
      BY <1>5 DEF Finalize, GrantInv, StartedInv, Begun
    <2>2. Moves
      BY <1>0, <1>5 DEF Finalize, Move, Moves, Begun
    <2>3. CASE sent' = sent \cup {<<a, "finalize">>} /\ HeldBy(a)
      BY <1>5, <2>1, <2>2, <2>3, SendingKeepsGrant DEF Finalize, Fits, Kinds
    <2>4. CASE UNCHANGED sent
      BY <1>5, <2>2, <2>4, MovingKeepsGrant DEF Finalize
    <2> QED
      BY <1>5, <2>3, <2>4 DEF Finalize
  <1>6. CASE ReadBack(a)
    BY <1>0, <1>6, MovingKeepsGrant DEF ReadBack, Move, Moves, Begun
  <1>7. CASE FailBeforeStart(a)
    BY <1>0, <1>7, MovingKeepsGrant DEF FailBeforeStart, Move, Moves, Begun
  <1>8. CASE Start(a)
    <2>1. ledger.status = "consumed" /\ ledger.owner = a /\ a \notin started
      BY <1>8 DEF Start, GrantInv, ReadyInv
    <2>2. \A kind \in Kinds : <<a, kind>> \notin sent
      BY <2>1 DEF GrantInv, SentInv, Fits, Kinds, HeldBy
    <2>3. GrantInv'
      <3>1. StartedInv'
        BY <1>0, <1>8 DEF Start, Move, GrantInv, StartedInv, Begun
      <3>2. ReadyInv'
        BY <1>0, <1>8, <2>1 DEF Start, Move, GrantInv, ReadyInv
      <3>3. SentInv'
        BY <1>8, <2>2 DEF Start, GrantInv, SentInv, Fits, HeldBy
      <3>4. HeldInv'
        BY <1>8, <2>1 DEF Start, HeldInv
      <3> QED
        BY <3>1, <3>2, <3>3, <3>4 DEF GrantInv
    <2>4. CurrentUsers = {} /\ CurrentUsers' = {a}
      BY <1>8, <2>1 DEF Start, CurrentUsers, Stage
    <2>5. Grant!Use(a)
      BY <1>8, <2>1, <2>4 DEF Grant!Use, Start, Stage
    <2> QED
      BY <2>3, <2>5 DEF GrantStep, Grant!GrantNext
  <1>9. CASE FindBlocker(a)
    BY <1>0, <1>9, MovingKeepsGrant DEF FindBlocker, Move, Moves, Begun
  <1>10. CASE Confirm(a)
    <2>1. ledger.status = "consumed" /\ ledger.owner = a /\ pc[a] = "settling"
      BY <1>10 DEF Confirm
    <2>2. ledger'.status = "confirmed" /\ ledger'.owner = a /\ sent' = {} /\ started' = started
      BY <1>10, <2>1 DEF Confirm, Revise, LedgerTypeOK, Ledgers
    <2>3. GrantInv'
      <3>1. \A b \in Attempts : pc[b] \in Begun => pc'[b] \in Begun
        BY <1>0, <1>10 DEF Confirm, Move, Begun
      <3>2. ReadyInv'
        BY <1>0, <1>10, <2>1 DEF Confirm, Move, GrantInv, ReadyInv
      <3>3. HeldInv'
        BY <2>2 DEF HeldInv
      <3> QED
        BY <2>2, <3>1, <3>2, <3>3, RevisingKeepsGrant
    <2>4. GrantStep
      BY <2>1, <2>2 DEF GrantStep, Grant!grantVars, Stage, CurrentUsers
    <2> QED
      BY <2>3, <2>4
  <1>11. CASE Clean(a)
    BY <1>0, <1>11, MovingKeepsGrant DEF Clean, Move, Moves, Begun
  <1>12. CASE Refund(a)
    <2>1. a \notin started
      BY <1>12 DEF Refund, GrantInv, StartedInv, Begun
    <2>6. Moves
      BY <1>0, <1>12 DEF Refund, Move, Moves, Begun
    <2>2. CASE MayRelease(a) /\ sent' = sent \cup {<<a, "release">>}
               /\ UNCHANGED <<ledger, claimed>>
      BY <1>12, <2>1, <2>2, <2>6, SendingKeepsGrant DEF Refund, MayRelease, Fits, Kinds
    <2>3. CASE IsReleased(a) /\ Rotate(ledger)
      <3>1. ledger'.status = ledger.status /\ ledger'.owner = ledger.owner /\ sent' = {}
            /\ started' = started /\ ledger.status = "available"
        BY <1>12, <2>3, RotateRevises DEF Refund, IsReleased, LedgerTypeOK
      <3>2. ReadyInv'
        BY <2>6, <3>1, NobodyReady DEF Moves
      <3>3. HeldInv'
        BY <3>1 DEF HeldInv
      <3> QED
        BY <2>6, <3>1, <3>2, <3>3, RevisingKeepsGrant, Stutters DEF Moves
    <2>4. CASE UNCHANGED <<ledger, sent, claimed>>
      BY <1>12, <2>4, <2>6, MovingKeepsGrant DEF Refund
    <2> QED
      BY <1>12, <2>2, <2>3, <2>4 DEF Refund
  <1>13. CASE ReadRelease(a)
    BY <1>0, <1>13, MovingKeepsGrant DEF ReadRelease, Move, Moves, Begun
  <1>14. CASE GiveUp(a)
    BY <1>0, <1>14, MovingKeepsGrant DEF GiveUp, Move, Moves, Begun
  <1>15. CASE Stop(a)
    BY <1>0, <1>15, MovingKeepsGrant DEF Stop, Move, Moves, Begun
  <1> QED
    BY <1>1, <1>2, <1>3, <1>4, <1>5, <1>6, <1>7, <1>8, <1>9, <1>10, <1>11, <1>12,
       <1>13, <1>14, <1>15 DEF AttemptNext

\* A write that lands was sent by an attempt that has not started, on the challenge it
\* was computed from; it takes, spends or gives back the challenge.
LEMMA WriteGrant ==
  ASSUME LedgerTypeOK, LedgerTypeOK', GrantInv, NEW a \in Attempts, WriteLands(a)
  PROVE  GrantInv' /\ GrantStep
  <1>0. pc \in [Attempts -> Places]
    BY DEF LedgerTypeOK
  <1>1. CASE PrepareLands(a)
    <2>1. ledger.status = "available" /\ a \notin started
      BY <1>1 DEF PrepareLands, GrantInv, SentInv, Fits, Kinds
    <2>2. /\ ledger'.status = "prepared" /\ ledger'.owner = a
          /\ sent' = {} /\ started' = started
      BY <1>1, <2>1, RevisionsValid DEF PrepareLands, Revise
    <2>3. \A b \in Attempts : pc'[b] = pc[b] \/ (pc[b] = "preparing" /\ pc'[b] = "prepared")
      BY <1>0, <1>1, AnsweredMoves DEF PrepareLands, Places
    <2>4. ReadyInv'
      BY <2>1, <2>3, NobodyReady
    <2>5. HeldInv'
      BY <2>1, <2>2 DEF HeldInv
    <2>6. GrantInv'
      BY <2>2, <2>3, <2>4, <2>5, RevisingKeepsGrant DEF Begun
    <2>7. Grant!Hold(a)
      BY <2>1, <2>2, MappedStage DEF Grant!Hold, Free
    <2> QED
      BY <2>6, <2>7 DEF GrantStep, Grant!GrantNext
  <1>2. CASE FinalizeLands(a)
    <2>1. ledger.status = "prepared" /\ ledger.owner = a /\ a \notin started
      BY <1>2 DEF FinalizeLands, GrantInv, SentInv, Fits, Kinds, HeldBy
    <2>2. /\ ledger'.status = "consumed" /\ ledger'.owner = a
          /\ sent' = {} /\ started' = started
      BY <1>2, <2>1, RevisionsValid DEF FinalizeLands, Revise
    <2>3. \A b \in Attempts :
            pc'[b] = pc[b] \/ (b = a /\ pc[b] = "finalizing" /\ pc'[b] = "finalized")
      BY <1>0, <1>2, AnsweredMoves DEF FinalizeLands, Places
    <2>4. ReadyInv'
      BY <2>1, <2>2, <2>3 DEF GrantInv, ReadyInv
    <2>5. HeldInv'
      BY <2>2 DEF HeldInv
    <2>6. GrantInv'
      BY <2>2, <2>3, <2>4, <2>5, RevisingKeepsGrant DEF Begun
    <2>7. CurrentUsers = {} /\ CurrentUsers' = {}
      BY <2>1, <2>2 DEF CurrentUsers
    <2>8. Grant!Spend
      BY <2>1, <2>2, <2>7, MappedStage DEF Grant!Spend, Spent
    <2> QED
      BY <2>6, <2>8 DEF GrantStep, Grant!GrantNext
  <1>3. CASE ReleaseLands(a)
    <2>1. ledger.status = "prepared"
      BY <1>3 DEF ReleaseLands, GrantInv, SentInv, Fits, Kinds, HeldBy
    <2>2. ledger'.status = "available" /\ sent' = {} /\ started' = started
      BY <1>3, <2>1, GiveBackFrees DEF ReleaseLands
    <2>3. \A b \in Attempts : pc'[b] = pc[b] \/ (pc[b] = "releasing" /\ pc'[b] = "refunded")
      BY <1>0, <1>3, AnsweredMoves DEF ReleaseLands, Places, Ended
    <2>4. ReadyInv'
      BY <2>1, <2>3, NobodyReady
    <2>5. HeldInv'
      BY <2>2 DEF HeldInv
    <2>6. GrantInv'
      BY <2>2, <2>3, <2>4, <2>5, RevisingKeepsGrant DEF Begun
    <2> QED
      BY <2>1, <2>2, <2>6, FreeingIsMapped DEF Free
  <1> QED
    BY <1>1, <1>2, <1>3 DEF WriteLands

\* The challenge is freed by a step that moves no attempt and starts none.
LEMMA FreeingKeepsGrant ==
  ASSUME LedgerTypeOK, LedgerTypeOK', GrantInv, UNCHANGED <<pc, started>>, sent' = {},
         ledger'.status = "available",
         \A a \in Attempts : pc[a] \notin {"finalized", "granted"} \/ ledger.owner # a,
         \/ Free(ledger.status)
         \/ ledger.status = "prepared"
         \/ ledger.status = "consumed" /\ ledger.owner \notin started
  PROVE  GrantInv' /\ GrantStep
  <1>1. ReadyInv'
    BY DEF GrantInv, ReadyInv
  <1>2. HeldInv'
    BY DEF HeldInv
  <1> QED
    BY <1>1, <1>2, RevisingKeepsGrant, FreeingIsMapped DEF Free

\* The reporter gives a challenge back only for an attempt that is over and not started.
LEMMA ReconcileGrant ==
  ASSUME LedgerTypeOK, LedgerTypeOK', GrantInv, NEW a \in Attempts, Reconcile(a)
  PROVE  GrantInv' /\ GrantStep
  <1>1. UNCHANGED <<pc, started>> /\ a \notin started /\ pc[a] \in Ended
    BY DEF Reconcile
  <1>2. CASE HeldBy(a) /\ GiveBack
    <2>1. ledger.status = "prepared" /\ ledger'.status = "available" /\ sent' = {}
      BY <1>2, GiveBackFrees DEF HeldBy
    <2>2. \A b \in Attempts : pc[b] \notin {"finalized", "granted"}
      BY <2>1 DEF GrantInv, ReadyInv
    <2> QED
      BY <1>1, <2>1, <2>2, FreeingKeepsGrant
  <1>3. CASE ledger.status = "consumed" /\ ledger.owner = a /\ Rotate(Recovered)
    <2>1. ledger'.status = "available" /\ sent' = {}
      BY <1>3, RevisionsValid, RotateRevises
    <2>2. \A b \in Attempts : pc[b] \notin {"finalized", "granted"} \/ ledger.owner # b
      BY <1>1, <1>3 DEF Ended
    <2> QED
      BY <1>1, <1>3, <2>1, <2>2, FreeingKeepsGrant
  <1>4. CASE ledger.status = "available" /\ Rotate(ledger)
    <2>1. ledger'.status = "available" /\ sent' = {}
      BY <1>4, RotateRevises DEF LedgerTypeOK
    <2>2. \A b \in Attempts : pc[b] \notin {"finalized", "granted"}
      BY <1>4 DEF GrantInv, ReadyInv
    <2> QED
      BY <1>1, <1>4, <2>1, <2>2, FreeingKeepsGrant DEF Free
  <1> QED
    BY <1>2, <1>3, <1>4 DEF Reconcile

\* Every step keeps the invariant of the grant and is a step of the abstract grant.
LEMMA GrantStepLemma ==
  LedgerTypeOK /\ LedgerTypeOK' /\ GrantInv /\ [LedgerNext]_ledgerVars => GrantInv' /\ GrantStep
  <1> SUFFICES ASSUME LedgerTypeOK, LedgerTypeOK', GrantInv, [LedgerNext]_ledgerVars
               PROVE  GrantInv' /\ GrantStep
    OBVIOUS
  <1>1. CASE \E a \in Attempts : AttemptNext(a) \/ WriteLands(a) \/ Reconcile(a)
    BY <1>1, AttemptGrant, WriteGrant, ReconcileGrant
  <1>2. CASE BeginChallenge
    <2>1. UNCHANGED <<pc, started>>
      BY <1>2 DEF BeginChallenge
    <2>2. ledger'.status = "available" /\ sent' = {}
          /\ ledger.status \in {"absent", "available", "prepared"}
      BY <1>2, BeginRevises
    <2>3. \A b \in Attempts : pc[b] \notin {"finalized", "granted"}
      BY <2>2 DEF GrantInv, ReadyInv
    <2> QED
      BY <2>1, <2>2, <2>3, FreeingKeepsGrant DEF Free
  <1>3. CASE Expire
    <2>1. /\ ledger'.status = ledger.status /\ ledger'.owner = ledger.owner
          /\ UNCHANGED <<sent, pc, started>>
      BY <1>3 DEF Expire, LedgerTypeOK, Ledgers
    <2>2. GrantInv'
      BY <2>1 DEF GrantInv, StartedInv, ReadyInv, SentInv, HeldInv, Fits, HeldBy
    <2> QED
      BY <2>1, <2>2, Stutters
  <1>4. CASE Relabel \/ OthersReserve \/ SlotEnds \/ UNCHANGED ledgerVars
    <2>1. UNCHANGED <<ledger, sent, pc, started>>
      BY <1>4 DEF Relabel, OthersReserve, SlotEnds, ledgerVars
    <2>2. Moves
      BY <2>1 DEF Moves
    <2> QED
      BY <2>1, <2>2, MovingKeepsGrant
  <1> QED
    BY <1>1, <1>2, <1>3, <1>4 DEF LedgerNext

------------------------------------------------------------------------------
(* The reservation *)

\* No attempt gains a reservation, and none arrives where it must not have one.
LEMMA SlotKept ==
  ASSUME SlotInv,
         \A b \in Attempts : pc'[b] \in Unreserved => pc[b] \in Unreserved,
         \A b \in Attempts : OwnReservation(b)' => OwnReservation(b)
  PROVE  SlotInv'
  BY DEF SlotInv

LEMMA SameSlot ==
  ASSUME slot' = slot, NEW b \in Attempts
  PROVE  OwnReservation(b)' <=> OwnReservation(b)
  BY DEF OwnReservation

\* Ending a reservation gives none to anybody.
LEMMA EndingGivesNone ==
  ASSUME LedgerTypeOK, NEW a \in Attempts, slot' \in {slot, Terminalised(a)}, NEW b \in Attempts
  PROVE  /\ OwnReservation(b)' => OwnReservation(b)
         /\ slot' = Terminalised(a) => ~OwnReservation(a)'
  BY DEF OwnReservation, Terminalised, LedgerTypeOK, Reservations

LEMMA SlotStep == LedgerTypeOK /\ SlotInv /\ [LedgerNext]_ledgerVars => SlotInv'
  <1> SUFFICES ASSUME LedgerTypeOK, SlotInv, [LedgerNext]_ledgerVars PROVE SlotInv'
    OBVIOUS
  <1>0. pc \in [Attempts -> Places]
    BY DEF LedgerTypeOK
  <1>1. ASSUME NEW a \in Attempts, AttemptNext(a) PROVE SlotInv'
    <2>1. CASE ReserveSlot(a)
      <3>1. CASE slot' = [by |-> a, status |-> "pending"] /\ pc' = [pc EXCEPT ![a] = "reserved"]
        BY <1>0, <3>1 DEF SlotInv, OwnReservation, Unreserved
      <3>2. CASE UNCHANGED slot
        <4>1. \A b \in Attempts : pc'[b] \in Unreserved => pc[b] \in Unreserved
          BY <1>0, <2>1 DEF ReserveSlot, Move, Unreserved
        <4> QED
          BY <3>2, <4>1, SlotKept, SameSlot
      <3> QED
        BY <2>1, <3>1, <3>2 DEF ReserveSlot, Move
    <2>2. CASE Clean(a)
      <3>1. slot' \in {slot, Terminalised(a)}
        BY <2>2 DEF Clean
      <3>2. \A b \in Attempts : OwnReservation(b)' => OwnReservation(b)
        BY <3>1, EndingGivesNone
      <3>3. CASE slot' = Terminalised(a) /\ Move(a, "refunding")
        <4>1. ~OwnReservation(a)'
          BY <3>1, <3>3, EndingGivesNone
        <4>2. \A b \in Attempts \ {a} : pc'[b] = pc[b]
          BY <1>0, <3>3 DEF Move
        <4> QED
          BY <3>2, <4>1, <4>2 DEF SlotInv
      <3>4. CASE Move(a, "over")
        <4>1. \A b \in Attempts : pc'[b] \in Unreserved => pc[b] \in Unreserved
          BY <1>0, <3>4 DEF Move, Unreserved
        <4> QED
          BY <3>2, <4>1, SlotKept
      <3> QED
        BY <2>2, <3>3, <3>4 DEF Clean
    <2>3. CASE Stop(a)
      <3>1. \A b \in Attempts : OwnReservation(b)' => OwnReservation(b)
        BY <2>3, EndingGivesNone DEF Stop
      <3>2. \A b \in Attempts : pc'[b] \in Unreserved => pc[b] \in Unreserved
        BY <1>0, <2>3 DEF Stop, Move, Unreserved
      <3> QED
        BY <3>1, <3>2, SlotKept
    <2>4. CASE Dispatch(a) \/ Prepare(a) \/ CheckSlot(a)
      <3>1. slot' = slot /\ \A b \in Attempts : pc'[b] \in Unreserved => pc[b] \in Unreserved
        BY <1>0, <2>4 DEF Dispatch, Prepare, CheckSlot, Move, Unreserved
      <3> QED
        BY <3>1, SlotKept, SameSlot
    <2>5. CASE \/ Finalize(a) \/ ReadBack(a) \/ FailBeforeStart(a)
               \/ Start(a) \/ FindBlocker(a) \/ Confirm(a)
      <3>1. slot' = slot /\ \A b \in Attempts : pc'[b] \in Unreserved => pc[b] \in Unreserved
        BY <1>0, <2>5
        DEF Finalize, ReadBack, FailBeforeStart, Start, FindBlocker, Confirm, Move, Unreserved
      <3> QED
        BY <3>1, SlotKept, SameSlot
    <2>6. CASE Refund(a) \/ ReadRelease(a) \/ GiveUp(a)
      <3>1. slot' = slot /\ \A b \in Attempts : pc'[b] \in Unreserved => pc[b] \in Unreserved
        BY <1>0, <2>6 DEF Refund, ReadRelease, GiveUp, Move, Unreserved
      <3> QED
        BY <3>1, SlotKept, SameSlot
    <2> QED
      BY <1>1, <2>1, <2>2, <2>3, <2>4, <2>5, <2>6 DEF AttemptNext
  <1>2. ASSUME NEW a \in Attempts, WriteLands(a) PROVE SlotInv'
    <2>1. /\ slot' = slot
          /\ \A b \in Attempts : pc'[b] \in Unreserved => pc[b] \in Unreserved
      <3>1. CASE PrepareLands(a)
        BY <1>0, <3>1, AnsweredMoves DEF PrepareLands, Places, Unreserved
      <3>2. CASE FinalizeLands(a)
        BY <1>0, <3>2, AnsweredMoves DEF FinalizeLands, Places, Unreserved
      <3>3. CASE ReleaseLands(a)
        BY <1>0, <3>3, AnsweredMoves DEF ReleaseLands, Places, Ended, Unreserved
      <3> QED
        BY <1>2, <3>1, <3>2, <3>3 DEF WriteLands
    <2> QED
      BY <2>1, SlotKept, SameSlot
  <1>3. CASE OthersReserve
    BY <1>3, AttemptsAssumption DEF OthersReserve, SlotInv, OwnReservation
  <1>4. CASE SlotEnds
    <2>1. \A b \in Attempts : OwnReservation(b)' => OwnReservation(b)
      BY <1>4, AttemptsAssumption DEF SlotEnds, OwnReservation, LedgerTypeOK, Reservations
    <2>2. pc' = pc
      BY <1>4 DEF SlotEnds
    <2> QED
      BY <2>1, <2>2, SlotKept
  <1>5. CASE \/ \E a \in Attempts : Reconcile(a)
             \/ BeginChallenge \/ Expire \/ Relabel \/ UNCHANGED ledgerVars
    <2>1. UNCHANGED <<pc, slot>>
      BY <1>5 DEF Reconcile, BeginChallenge, Expire, Relabel, ledgerVars
    <2> QED
      BY <2>1, SlotKept, SameSlot
  <1> QED
    BY <1>1, <1>2, <1>3, <1>4, <1>5 DEF LedgerNext

------------------------------------------------------------------------------
(* Theorems *)

LEMMA LedgerInvariant == LedgerSpec => [](LedgerTypeOK /\ GrantInv /\ SlotInv)
  <1>1. LedgerInit => LedgerTypeOK /\ GrantInv /\ SlotInv
    BY InitInv
  <1>2. LedgerTypeOK /\ GrantInv /\ SlotInv /\ [LedgerNext]_ledgerVars
          => (LedgerTypeOK /\ GrantInv /\ SlotInv)'
    BY TypeStep, GrantStepLemma, SlotStep
  <1> QED
    BY <1>1, <1>2, PTL DEF LedgerSpec

\* The ledger is a valid state in every revision: a challenge that is available has no
\* receipt, any other has one, and each process is at a known place.
THEOREM TypeCorrect == LedgerSpec => []LedgerTypeOK
  BY LedgerInvariant, PTL

\* The ledger implements the single use of a challenge: one worker, that of the attempt
\* that consumed it, and no new grant once it has started.
THEOREM ChallengeIsSingleUse == LedgerSpec => SingleUse
  <1>1. LedgerInit => Grant!GrantInit
    BY DEF LedgerInit, Grant!GrantInit, Stage, CurrentUsers
  <1>2. LedgerTypeOK /\ GrantInv /\ (LedgerTypeOK /\ GrantInv)' /\ [LedgerNext]_ledgerVars
          => [Grant!GrantNext]_(Grant!grantVars)
    BY GrantStepLemma DEF GrantStep
  <1> QED
    BY <1>1, <1>2, LedgerInvariant, PTL DEF LedgerSpec, SingleUse, Grant!GrantSpec

\* An attempt that was told the challenge is given back has no pending reservation left.
THEOREM RefundsLeaveNoReservation == LedgerSpec => []RefundLeavesNoReservation
  <1>1. SlotInv => RefundLeavesNoReservation
    BY DEF SlotInv, Unreserved, RefundLeavesNoReservation
  <1> QED
    BY <1>1, LedgerInvariant, PTL
==============================================================================
