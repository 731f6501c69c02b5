---------------------------- MODULE AuthorityLedger ----------------------------
(***************************************************************************)
(* The ledger of authority challenges of one pull request at one commit    *)
(* (.github/scripts/keepalive_authority_state.js): a challenge grants one  *)
(* agent run.  An attempt of the keepalive workflow prepares the challenge,*)
(* reserves the pull request in the other store (RunnerDispatch), consumes *)
(* the challenge after its preflight, and starts its worker.  Whatever     *)
(* fails before that is undone by the attempt, by the reporter that runs   *)
(* when the attempt is over, or by the next challenge.                     *)
(*                                                                         *)
(* A ledger write names the revision it was computed from and is refused   *)
(* when there is a newer one.  It may take effect at any time after it was *)
(* sent, also after the sender gave up waiting for the answer.             *)
(***************************************************************************)
EXTENDS FiniteSets

CONSTANTS
  Attempts,     \* attempts of the keepalive workflow, each of which asks once
  NoAttempt,
  Ordinary      \* owner of the reservations of all other dispatches

ASSUME AttemptsAssumption ==
  NoAttempt \notin Attempts /\ Ordinary \notin Attempts /\ Ordinary # NoAttempt

VARIABLES
  ledger,    \* the newest revision of the challenge
  sent,      \* writes computed from that revision and not yet in effect
  claimed,   \* attempts whose claim is for the current generation
  attention, \* the pull request is open and asks for attention, not for a human
  pc,        \* where each attempt is
  slot,      \* the reservation of the pull request
  started    \* history: attempts whose worker has started

ledgerVars == <<ledger, sent, claimed, attention, pc, slot, started>>

\* The writes an attempt may have under way.
Kinds == {"prepare", "finalize", "release"}

\* An attempt is over when its run is; refunded when it gave the challenge back itself.
Ended == {"over", "refunded"}

\* validState: a challenge that is available has no receipt, any other has one.
ValidState(state) ==
  state.owner = NoAttempt <=> state.status \in {"absent", "available"}

Ledgers ==
  [status : {"absent", "available", "prepared", "consumed", "confirmed"},
   owner : Attempts \cup {NoAttempt},       \* receipt
   released : Attempts \cup {NoAttempt},    \* released_receipt
   recovered : Attempts \cup {NoAttempt},   \* recovered_receipt
   expired : BOOLEAN]

Places ==
  {"idle", "asked", "preparing", "prepared", "reserving", "reserved", "finalizing",
   "finalized", "granted", "working", "settling", "cleaning", "refunding",
   "releasing"} \cup Ended

Reservations == [by : Attempts \cup {Ordinary}, status : {"pending", "stale", "ended"}]

\* The ledger is a valid state in every revision, and each process is at a known place.
LedgerTypeOK ==
  /\ ledger \in Ledgers /\ ValidState(ledger)
  /\ sent \in SUBSET (Attempts \X Kinds)
  /\ claimed \in SUBSET Attempts
  /\ attention \in BOOLEAN
  /\ pc \in [Attempts -> Places]
  /\ slot \in Reservations \cup {NoAttempt}
  /\ started \in SUBSET Attempts

LedgerInit ==
  /\ ledger = [status |-> "absent", owner |-> NoAttempt, released |-> NoAttempt,
               recovered |-> NoAttempt, expired |-> FALSE]
  /\ sent = {} /\ claimed = {} /\ attention = TRUE
  /\ pc = [a \in Attempts |-> "idle"]
  /\ slot = NoAttempt
  /\ started = {}

------------------------------------------------------------------------------
(* Revisions of the ledger *)

\* Mutant: a write does not name the revision it was computed from.
ReviseAnyRevision(state) == ledger' = state /\ UNCHANGED sent

\* A new revision: every write computed from an older one is refused.
Revise(state) == ledger' = state /\ sent' = {}

\* A new generation: no claim made before is for it.
Rotate(state) == Revise([state EXCEPT !.expired = FALSE]) /\ claimed' = {}

MayPrepare(a) ==
  /\ ledger.status = "available" /\ a \in claimed /\ ~ledger.expired
  /\ a \notin {ledger.released, ledger.recovered}

Prepared(a) ==
  [ledger EXCEPT !.status = "prepared", !.owner = a, !.released = NoAttempt,
                 !.recovered = NoAttempt]

HeldBy(a) == ledger.status = "prepared" /\ ledger.owner = a

Consumed == [ledger EXCEPT !.status = "consumed"]

\* Mutant: the receipt is recorded as released and also stays the current one.
ReleasedAndKept ==
  [ledger EXCEPT !.status = "available", !.released = ledger.owner]

\* releasePreparedChallenge
Released ==
  [ledger EXCEPT !.status = "available", !.owner = NoAttempt, !.released = ledger.owner]

\* reopenUnconfirmedChallenge
Recovered ==
  [ledger EXCEPT !.status = "available", !.owner = NoAttempt, !.recovered = ledger.owner]

\* A held challenge that has expired comes back as a new generation, and only
\* while the pull request still asks for it.
GiveBack ==
  IF ledger.expired THEN attention /\ Rotate(Released)
  ELSE Revise(Released) /\ UNCHANGED claimed

Move(a, place) == pc' = [pc EXCEPT ![a] = place]

\* Own and still pending: a stale reservation has that status too.
OwnReservation(a) == slot # NoAttempt /\ slot.by = a /\ slot.status \in {"pending", "stale"}

Occupied == slot # NoAttempt /\ slot.status = "pending"

------------------------------------------------------------------------------
(* The challenge itself: the summary of a keepalive run, and the sweep *)

\* A run that is to be escalated opens the challenge, or replaces one that has
\* expired or is about something else.
BeginChallenge ==
  /\ \/ /\ ledger.status = "absent"
        /\ Rotate([ledger EXCEPT !.status = "available"])
     \/ /\ ledger.status = "available"
        /\ Rotate([ledger EXCEPT !.recovered = NoAttempt])
     \/ /\ ledger.status = "prepared" /\ ledger.expired /\ attention
        /\ Rotate(Released)
  /\ UNCHANGED <<attention, pc, slot, started>>

\* The sweep dispatches an attempt with a claim on the current generation.
Dispatch(a) ==
  /\ pc[a] = "idle" /\ ledger.status = "available"
  /\ claimed' = claimed \cup {a}
  /\ Move(a, "asked")
  /\ UNCHANGED <<ledger, sent, attention, slot, started>>

Expire ==
  /\ ledger.status # "absent" /\ ~ledger.expired
  /\ ledger' = [ledger EXCEPT !.expired = TRUE]
  /\ UNCHANGED <<sent, claimed, attention, pc, slot, started>>

\* Labels, closing and reopening: whatever people do with the pull request.
Relabel ==
  /\ attention' = ~attention
  /\ UNCHANGED <<ledger, sent, claimed, pc, slot, started>>

------------------------------------------------------------------------------
(* An attempt: should_dispatch, finalize and release of scripts/runner_lib *)
(* Each of its three commands first asks for a pull request that still     *)
(* routes to the challenge.                                                *)

\* prepareChallenge reads the ledger, after should_dispatch found no live
\* reservation, and sends its write.
Prepare(a) ==
  /\ pc[a] = "asked"
  /\ IF ~Occupied /\ attention /\ MayPrepare(a)
     THEN Move(a, "preparing") /\ sent' = sent \cup {<<a, "prepare">>}
     ELSE Move(a, "over") /\ UNCHANGED sent
  /\ UNCHANGED <<ledger, claimed, attention, slot, started>>

\* The reservation is read again before it is written.
CheckSlot(a) ==
  /\ pc[a] = "prepared"
  /\ Move(a, IF Occupied THEN "refunding" ELSE "reserving")
  /\ UNCHANGED <<ledger, sent, claimed, attention, slot, started>>

\* Mutant: a write of the reservation that failed is not followed by a read.
ReserveOrRefund(a) ==
  /\ pc[a] = "reserving"
  /\ \/ /\ slot' = [by |-> a, status |-> "pending"]
        /\ pc' \in {[pc EXCEPT ![a] = "reserved"], [pc EXCEPT ![a] = "refunding"]}
     \/ /\ UNCHANGED slot
        /\ Move(a, "refunding")
  /\ UNCHANGED <<ledger, sent, claimed, attention, started>>

\* The write of the reservation may fail, and may have happened all the same: what
\* is there afterwards decides.  A reservation that is neither absent nor its own
\* leaves the challenge held.
ReserveSlot(a) ==
  /\ pc[a] = "reserving"
  /\ \/ /\ slot' = [by |-> a, status |-> "pending"]
        /\ Move(a, "reserved")
     \/ /\ UNCHANGED slot
        /\ Move(a, IF slot = NoAttempt THEN "refunding" ELSE "over")
  /\ UNCHANGED <<ledger, sent, claimed, attention, started>>

\* finalizeChallenge, after the preflight has passed.
Finalize(a) ==
  /\ pc[a] = "reserved"
  /\ IF attention /\ HeldBy(a) /\ a \in claimed
     THEN Move(a, "finalizing") /\ sent' = sent \cup {<<a, "finalize">>}
     ELSE Move(a, "cleaning") /\ UNCHANGED sent
  /\ UNCHANGED <<ledger, claimed, attention, slot, started>>

\* The challenge is consumed; the grant also takes a pull request that is read and
\* still asks for attention, and a reservation that is still the attempt's own.
ReadBack(a) ==
  /\ pc[a] = "finalized"
  /\ \/ attention /\ OwnReservation(a) /\ Move(a, "granted")
     \/ Move(a, "cleaning")
  /\ UNCHANGED <<ledger, sent, claimed, attention, slot, started>>

Start(a) ==
  /\ pc[a] = "granted"
  /\ started' = started \cup {a}
  /\ Move(a, "working")
  /\ UNCHANGED <<ledger, sent, claimed, attention, slot>>

\* The worker ends with the blocker confirmed, and the pull request asks for a human.
FindBlocker(a) ==
  /\ pc[a] = "working"
  /\ attention' = FALSE
  /\ Move(a, "settling")
  /\ UNCHANGED <<ledger, sent, claimed, slot, started>>

\* confirmChallenge
Confirm(a) ==
  /\ pc[a] = "settling"
  /\ ledger.status = "consumed" /\ ledger.owner = a /\ a \in claimed
  /\ ~ledger.expired /\ ~attention
  /\ Revise([ledger EXCEPT !.status = "confirmed"])
  /\ Move(a, "over")
  /\ UNCHANGED <<claimed, attention, slot, started>>

\* The preflight, or a later step of the job, fails before the worker starts.
FailBeforeStart(a) ==
  /\ pc[a] \in {"reserved", "granted"}
  /\ Move(a, "cleaning")
  /\ UNCHANGED <<ledger, sent, claimed, attention, slot, started>>

Terminalised(a) == IF OwnReservation(a) THEN [slot EXCEPT !.status = "ended"] ELSE slot

\* release_authority_challenge: the attempt first ends the reservation it made, and
\* leaves the challenge alone when it finds another or its write is not confirmed.
Clean(a) ==
  /\ pc[a] = "cleaning"
  /\ \/ OwnReservation(a) /\ slot' = Terminalised(a) /\ Move(a, "refunding")
     \/ slot' \in {slot, Terminalised(a)} /\ Move(a, "over")
  /\ UNCHANGED <<ledger, sent, claimed, attention, started>>

MayRelease(a) == attention /\ HeldBy(a) /\ a \in claimed

IsReleased(a) == attention /\ ledger.status = "available" /\ ledger.released = a

\* releasePreparedChallenge of the attempt itself: it sends its write, or finds that
\* the challenge was given back already, or that it does not hold it.
Refund(a) ==
  /\ pc[a] = "refunding"
  /\ \/ /\ MayRelease(a)
        /\ sent' = sent \cup {<<a, "release">>}
        /\ Move(a, "releasing")
        /\ UNCHANGED <<ledger, claimed>>
     \/ /\ IsReleased(a) /\ ~ledger.expired
        /\ Move(a, "refunded")
        /\ UNCHANGED <<ledger, sent, claimed>>
     \/ /\ IsReleased(a) /\ ledger.expired
        /\ Rotate(ledger)
        /\ Move(a, "refunded")
     \/ /\ ~MayRelease(a) /\ ~IsReleased(a)
        /\ Move(a, "over")
        /\ UNCHANGED <<ledger, sent, claimed>>
  /\ UNCHANGED <<attention, slot, started>>

\* The answer of a release that was lost is made up for by reading the ledger.
ReadRelease(a) ==
  /\ pc[a] = "releasing"
  /\ ledger.status = "available" /\ ledger.released = a
  /\ Move(a, "refunded")
  /\ UNCHANGED <<ledger, sent, claimed, attention, slot, started>>

\* No answer within the time allowed, or a refusal: the write may still take effect.
GiveUp(a) ==
  /\ \/ pc[a] \in {"preparing", "releasing"} /\ Move(a, "over")
     \/ pc[a] = "finalizing" /\ Move(a, "cleaning")
  /\ UNCHANGED <<ledger, sent, claimed, attention, slot, started>>

\* A run that is cancelled, or whose machine is lost, stops where it is.  What it
\* reserved stays pending unless the job that records a completion still ran.
Stop(a) ==
  /\ pc[a] \notin {"idle"} \cup Ended
  /\ Move(a, "over")
  /\ slot' \in {slot, Terminalised(a)}
  /\ UNCHANGED <<ledger, sent, claimed, attention, started>>

------------------------------------------------------------------------------
(* A write takes effect; the sender hears of it or not *)

Answered(a, waiting, place) ==
  \/ UNCHANGED pc
  \/ pc[a] = waiting /\ Move(a, place)

PrepareLands(a) ==
  /\ <<a, "prepare">> \in sent
  /\ Revise(Prepared(a))
  /\ Answered(a, "preparing", "prepared")
  /\ UNCHANGED <<claimed, attention, slot, started>>

FinalizeLands(a) ==
  /\ <<a, "finalize">> \in sent
  /\ Revise(Consumed)
  /\ Answered(a, "finalizing", "finalized")
  /\ UNCHANGED <<claimed, attention, slot, started>>

ReleaseLands(a) ==
  /\ <<a, "release">> \in sent
  /\ GiveBack
  /\ Answered(a, "releasing", "refunded")
  /\ UNCHANGED <<attention, slot, started>>

------------------------------------------------------------------------------
(* Afterwards: the reporter of an attempt that is over *)
(* It may fail or come too early: nothing makes it give a challenge back. *)

\* reconcileFailedAuthorityAttempt, with the evidence that no worker started.
Reconcile(a) ==
  /\ pc[a] \in Ended /\ a \notin started
  /\ \/ HeldBy(a) /\ GiveBack
     \/ /\ ledger.status = "consumed" /\ ledger.owner = a /\ attention
        /\ Rotate(Recovered)
     \/ /\ ledger.status = "available" /\ a \in {ledger.released, ledger.recovered}
        /\ ledger.expired /\ attention
        /\ Rotate(ledger)
  /\ UNCHANGED <<attention, pc, slot, started>>

------------------------------------------------------------------------------
(* The other dispatches of the pull request, which know nothing of the ledger *)

OthersReserve ==
  /\ slot' = [by |-> Ordinary, status |-> "pending"]
  /\ UNCHANGED <<ledger, sent, claimed, attention, pc, started>>

\* A completion of the holder, or half an hour without one.
SlotEnds ==
  /\ slot # NoAttempt
  /\ \/ slot.by = Ordinary /\ slot' = [slot EXCEPT !.status = "ended"]
     \/ slot.status = "pending" /\ slot' = [slot EXCEPT !.status = "stale"]
  /\ UNCHANGED <<ledger, sent, claimed, attention, pc, started>>

------------------------------------------------------------------------------
AttemptNext(a) ==
  \/ Dispatch(a) \/ Prepare(a) \/ CheckSlot(a) \/ ReserveSlot(a) \/ Finalize(a)
  \/ ReadBack(a) \/ FailBeforeStart(a) \/ Start(a) \/ FindBlocker(a) \/ Confirm(a)
  \/ Clean(a) \/ Refund(a) \/ ReadRelease(a) \/ GiveUp(a) \/ Stop(a)

WriteLands(a) == PrepareLands(a) \/ FinalizeLands(a) \/ ReleaseLands(a)

LedgerNext ==
  \/ \E a \in Attempts : AttemptNext(a) \/ WriteLands(a) \/ Reconcile(a)
  \/ BeginChallenge \/ Expire \/ Relabel \/ OthersReserve \/ SlotEnds

LedgerSpec == LedgerInit /\ [][LedgerNext]_ledgerVars

------------------------------------------------------------------------------
(* What is checked *)

Stage ==
  CASE ledger.status \in {"absent", "available"} -> "free"
    [] ledger.status = "prepared" -> "held"
    [] ledger.status \in {"consumed", "confirmed"} -> "spent"

\* Workers that run on the challenge that is spent now.
CurrentUsers == IF Stage = "spent" THEN {a \in started : a = ledger.owner} ELSE {}

Grant == INSTANCE SingleUseGrant
  WITH stage <- Stage, holder <- ledger.owner, users <- CurrentUsers

\* A challenge grants one worker, that of the attempt that consumed it, and once a
\* worker has started on it it is not given again, whatever writes land late, whichever
\* answers are lost and whoever gives back a challenge that was not used.
SingleUse == Grant!GrantSpec

\* An attempt that was told the challenge is given back has no pending reservation
\* left: a live reservation next to a reusable challenge would let two agents run.
RefundLeavesNoReservation ==
  \A a \in Attempts : pc[a] = "refunded" => ~OwnReservation(a)
==============================================================================
