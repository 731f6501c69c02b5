---------------------------- MODULE RunnerDispatch ----------------------------
(***************************************************************************)
(* Which job may start an agent on a pull request (scripts/runner_lib):    *)
(* a job reads the latest reservation of the pull request, decides, and    *)
(* writes a reservation of its own; when its agent has ended it reads the  *)
(* latest reservation again and attaches a receipt to it.  The store of    *)
(* pull request comments offers no conditional write, so other jobs run    *)
(* between each read and the write that follows it.                        *)
(*                                                                         *)
(* One pull request and one provider.  Jobs of one workflow run share the  *)
(* identity the store keeps of a run.  Time passes in units of the half    *)
(* hour that both the age limit and the cooldown are.                      *)
(***************************************************************************)
EXTENDS Integers

CONSTANTS
  Dispatches,   \* jobs that ask for an agent
  Runs,         \* workflow runs
  RunOf,        \* the run each job is part of
  Recorders,    \* the jobs whose run records the completion
  MaxHead,      \* bound: commits the branch can have
  RetryLimit,   \* UNPRODUCTIVE_COMPLETION_RETRY_LIMIT
  StaleAfter,   \* PENDING_STALE_AFTER_SECONDS
  Cooldown,     \* UNPRODUCTIVE_COMPLETION_COOLDOWN_SECONDS
  Past,         \* owner of a reservation of an attempt that is over
  None

ASSUME RunOfAssumption == RunOf \in [Dispatches -> Runs]
ASSUME RecordersAssumption == Recorders \subseteq Dispatches
ASSUME BoundsAssumption ==
  /\ MaxHead \in Nat \ {0} /\ RetryLimit \in Nat
  /\ StaleAfter \in Nat /\ Cooldown \in Nat
ASSUME DistinctAssumption ==
  /\ None \notin Runs \cup Dispatches /\ Past \notin Runs \cup Dispatches
  /\ Past # None

VARIABLES
  head,      \* the commit the branch is at
  slot,      \* what a reader finds: the newest reservation, or its receipt
  pc,        \* where each job is
  at,        \* the commit each job was evaluated for
  draft,     \* the record each job has computed and not yet written
  reserved,  \* history: reservations whose retries may be charged to each commit
  overtaken  \* history: jobs that decided before the newest reservation was written

dispatchVars == <<head, slot, pc, at, draft, reserved, overtaken>>

Heads == 1..MaxHead
Owners == Runs \cup {Past}
Counts == 0..(RetryLimit + 1)
Absent == -1                       \* a field the record does not have
Larger(m, n) == IF m >= n THEN m ELSE n

OldestAge == Larger(StaleAfter + 1, Cooldown)   \* an age beyond this tells nothing more

Terminal == {"completed", "error"}

\* The store knows a reservation by a random identity, which here is the pair
\* of by and run.
Records ==
  [by : Dispatches \cup {Past}, run : Owners, head : Heads,
   status : {"pending"} \cup Terminal,
   productive : {"yes", "no", "unset"},
   unproductive : Counts,                     \* unproductive_completions
   continuations : Counts \cup {Absent},      \* continuation_completions
   incomplete : {"yes", "no", "unset"},       \* completion_incomplete
   age : 0..OldestAge]

ASSUME NoneAssumption == None \notin Records

\* What the finishing job can observe: the branch, the comparison of the two
\* task snapshots, and the checklist itself.
Observations ==
  [head : {"unread", "moved"}, productive : {"unset"}, tasks : {"none"}]
    \cup
  {o \in [head : {"same"}, productive : {"yes", "no", "unset"},
          tasks : {"remaining", "finished", "none"}] :
     ~(o.productive = "yes" /\ o.tasks = "none")}

TypeOK ==
  /\ head \in Heads
  /\ slot \in Records \cup {None}
  /\ pc \in [Dispatches -> {"off", "queued", "checking", "reserving", "running",
                            "closing", "closed", "failed"}]
  /\ at \in [Dispatches -> Heads \cup {0}]
  /\ draft \in [Dispatches -> Records \cup {None}]
  /\ reserved \in [Heads -> Counts]
  /\ overtaken \in SUBSET Dispatches

------------------------------------------------------------------------------
(* Reading a record *)

IsStale(record) == record.age > StaleAfter

IsLive(record) == record.status = "pending" /\ ~IsStale(record)

WasUnproductive(record) == record.productive = "no"

NeedsContinuation(record) == record.incomplete = "yes"

ContinuationCount(record) ==
  IF record.continuations = Absent THEN record.unproductive ELSE record.continuations

RetryCount(record) ==
  IF NeedsContinuation(record) /\ ~WasUnproductive(record)
  THEN ContinuationCount(record)
  ELSE Larger(ContinuationCount(record), record.unproductive)

CooledDown(record) == record.age >= Cooldown

RefusedForGood(prior, h) ==
  /\ prior # None
  /\ prior.head = h
  /\ \/ /\ prior.status = "completed"
        /\ (WasUnproductive(prior) \/ NeedsContinuation(prior)) => RetryCount(prior) > RetryLimit
     \/ IsLive(prior)

RefusedWhenCompleted(prior, h) ==
  /\ prior # None
  /\ prior.head = h
  /\ prior.status = "completed"
  /\ (WasUnproductive(prior) \/ NeedsContinuation(prior))
     => RetryCount(prior) > RetryLimit /\ ~CooledDown(prior)

\* The answer of should_dispatch to a job evaluated for commit h.
Refused(prior, h) ==
  /\ prior # None
  /\ prior.head = h
  /\ \/ /\ prior.status = "completed"
        /\ (WasUnproductive(prior) \/ NeedsContinuation(prior))
           => RetryCount(prior) > RetryLimit /\ ~CooledDown(prior)
     \/ IsLive(prior)

------------------------------------------------------------------------------
(* Computing a record *)

Fresh(d, h) ==
  [by |-> d, run |-> RunOf[d], head |-> h, status |-> "pending",
   productive |-> "unset", unproductive |-> 0, continuations |-> Absent,
   incomplete |-> "unset", age |-> 0]

\* The tallies follow the commit from one reservation to the next.
Reservation(d, h, prior) ==
  IF prior = None \/ (prior # None /\ prior.head # h) THEN Fresh(d, h)
  ELSE [Fresh(d, h) EXCEPT
          !.continuations = IF ContinuationCount(prior) > 0
                            THEN ContinuationCount(prior) ELSE Absent,
          !.incomplete = IF NeedsContinuation(prior) THEN "yes" ELSE "unset",
          !.unproductive = prior.unproductive,
          !.productive = IF prior.unproductive > 0 /\ WasUnproductive(prior)
                         THEN "no" ELSE "unset"]

\* A completion of a commit whose receipt is already there.
IsReplay(prior, h) == prior.status \in Terminal /\ prior.head = h

Derived(prior, h, o) ==
  LET measured == IF IsReplay(prior, h) THEN prior.productive
                  ELSE IF o.head = "moved" THEN "yes" ELSE o.productive
  IN  IF measured = "unset" /\ prior.head = h /\ WasUnproductive(prior)
      THEN "no" ELSE measured

IncompleteAfter(prior, h, ok, o) ==
  IF ~ok
  THEN IF o.head = "same" /\ o.tasks = "remaining" /\ ~IsReplay(prior, h)
       THEN "yes" ELSE prior.incomplete
  ELSE IF IsReplay(prior, h) \/ o.head = "unread" THEN prior.incomplete
  ELSE IF o.head = "moved" \/ o.tasks = "finished" THEN "no" ELSE "yes"

OneMoreUncapped(n) == n + 1

\* Past the allowance a tally stops climbing.
OneMore(n) == IF n > RetryLimit THEN RetryLimit + 1 ELSE n + 1

UnproductiveAfterAnyReceipt(prior, h, ok, o) ==
  IF ~ok \/ Derived(prior, h, o) = "unset" THEN prior.unproductive
  ELSE IF Derived(prior, h, o) = "yes" THEN 0
  ELSE OneMore(prior.unproductive)

\* A second receipt for the same run must not spend another retry.
UnproductiveAfter(prior, h, ok, o) ==
  IF ~ok \/ Derived(prior, h, o) = "unset" THEN prior.unproductive
  ELSE IF Derived(prior, h, o) = "yes" THEN 0
  ELSE IF IsReplay(prior, h) THEN Larger(prior.unproductive, 1)
  ELSE OneMore(prior.unproductive)

ContinuationsAfter(prior, h, ok, o) ==
  LET incomplete == IncompleteAfter(prior, h, ok, o)
  IN  IF ~ok THEN prior.continuations
      ELSE IF incomplete = "yes"
        THEN IF IsReplay(prior, h) THEN ContinuationCount(prior)
             ELSE OneMore(ContinuationCount(prior))
      ELSE IF incomplete = "no" THEN 0
      ELSE IF Derived(prior, h, o) = "no" THEN UnproductiveAfter(prior, h, ok, o)
      ELSE prior.continuations

Completion(d, prior, ok, o) ==
  LET h == at[d]
  IN  [prior EXCEPT
         !.head = h,
         !.status = IF ok THEN "completed" ELSE "error",
         !.productive = IF ok /\ Derived(prior, h, o) # "unset"
                        THEN Derived(prior, h, o) ELSE prior.productive,
         !.unproductive = UnproductiveAfter(prior, h, ok, o),
         !.continuations = ContinuationsAfter(prior, h, ok, o),
         !.incomplete = IncompleteAfter(prior, h, ok, o),
         !.age = IF IsReplay(prior, h) THEN prior.age ELSE 0]

MayCompleteAnyReservation(d, prior, o) ==
  /\ prior # None
  /\ prior.head = at[d] \/ o.head = "moved"

\* The run that reserved may close, for its own commit or when the branch moved.
MayComplete(d, prior, o) ==
  /\ prior # None
  /\ prior.run = RunOf[d]
  /\ prior.head = at[d] \/ o.head = "moved"

------------------------------------------------------------------------------
(* The jobs *)

Goes(d, place) == pc' = [pc EXCEPT ![d] = place]

Leaves(d) ==
  /\ Goes(d, "off")
  /\ at' = [at EXCEPT ![d] = 0]
  /\ draft' = [draft EXCEPT ![d] = None]

\* A run starts with all its jobs.  What an earlier attempt of it has left in
\* the store is no longer anybody's.
Disowned(record, r) ==
  IF record = None \/ (record # None /\ record.run # r) THEN record
  ELSE [record EXCEPT !.run = Past, !.by = Past]

StartRun(r) ==
  /\ \A d \in Dispatches : RunOf[d] = r => pc[d] = "off"
  /\ pc' = [d \in Dispatches |-> IF RunOf[d] = r THEN "queued" ELSE pc[d]]
  /\ slot' = Disowned(slot, r)
  /\ UNCHANGED <<head, at, draft, reserved, overtaken>>

\* The loop is evaluated for the current commit and wants an agent...
Evaluate(d) ==
  /\ pc[d] = "queued"
  /\ at' = [at EXCEPT ![d] = head]
  /\ Goes(d, "checking")
  /\ UNCHANGED <<head, slot, draft, reserved, overtaken>>

\* ...or it does not.
Skip(d) ==
  /\ pc[d] = "queued"
  /\ Leaves(d)
  /\ UNCHANGED <<head, slot, reserved, overtaken>>

Refuse(d) ==
  /\ pc[d] = "checking"
  /\ Refused(slot, at[d])
  /\ Leaves(d)
  /\ UNCHANGED <<head, slot, reserved, overtaken>>

Grant(d) ==
  /\ pc[d] = "checking"
  /\ ~Refused(slot, at[d])
  /\ draft' = [draft EXCEPT ![d] = Reservation(d, at[d], slot)]
  /\ overtaken' = overtaken \ {d}
  /\ Goes(d, "reserving")
  /\ UNCHANGED <<head, slot, at, reserved>>

\* Either store cannot be read: no agent.
ReadFails(d) ==
  /\ pc[d] = "checking"
  /\ Leaves(d)
  /\ UNCHANGED <<head, slot, reserved, overtaken>>

WriteReservation(d) ==
  /\ slot' = draft[d]
  /\ reserved' = [reserved EXCEPT ![at[d]] = OneMore(@)]
  /\ overtaken' = {e \in Dispatches \ {d} : pc[e] = "reserving"}

Reserve(d) ==
  /\ pc[d] = "reserving"
  /\ WriteReservation(d)
  /\ draft' = [draft EXCEPT ![d] = None]
  /\ Goes(d, "running")
  /\ UNCHANGED <<head, at>>

\* The write reports a failure.  It may have happened all the same; the job
\* reads again, and without finding its own reservation it gets no agent.
ReserveUnseen(d) ==
  /\ pc[d] = "reserving"
  /\ \/ WriteReservation(d)
     \/ UNCHANGED <<slot, reserved, overtaken>>
  /\ Leaves(d)
  /\ UNCHANGED head

\* The agent or a person pushes.
Push ==
  /\ head < MaxHead
  /\ head' = head + 1
  /\ UNCHANGED <<slot, pc, at, draft, reserved, overtaken>>

\* The agent exits, well or not, and record_completion has read the newest
\* reservation.  A receipt that is not this run's to write is dropped.  One that
\* a sibling reserved for another commit becomes a receipt for the job's own
\* commit and keeps its tallies.
Ends(d, ok, o) ==
  /\ o.head = "moved" <=> (head # at[d] /\ o.head # "unread")
  /\ IF MayComplete(d, slot, o)
     THEN /\ draft' = [draft EXCEPT ![d] = Completion(d, slot, ok, o)]
          /\ reserved' = [reserved EXCEPT ![at[d]] = Larger(@, reserved[slot.head])]
          /\ Goes(d, "closing")
          /\ UNCHANGED at
     ELSE Leaves(d) /\ UNCHANGED reserved
  /\ UNCHANGED <<head, slot, overtaken>>

EndRun(d, ok, o) ==
  /\ pc[d] = "running"
  /\ d \in Recorders
  /\ Ends(d, ok, o)

\* The completion step is repeated in the same attempt, with the same exit code.
Replay(d, o) ==
  /\ pc[d] \in {"closed", "failed"}
  /\ Ends(d, pc[d] = "closed", o)

\* A receipt names one reservation: it is found only while that is the newest.
Receives(record, receipt) == record.by = receipt.by /\ record.run = receipt.run

ReceivesAny(record, receipt) == TRUE

WriteCompletion(d) ==
  /\ pc[d] = "closing"
  /\ slot' = IF slot # None /\ Receives(slot, draft[d]) THEN draft[d] ELSE slot
  /\ draft' = [draft EXCEPT ![d] = None]
  /\ Goes(d, IF draft[d].status = "completed" THEN "closed" ELSE "failed")
  /\ UNCHANGED <<head, at, reserved, overtaken>>

\* The receipt cannot be written, the runner dies, the job is cancelled, or the
\* workflow has no completion step at all: the reservation is left to age.
Abandon(d) ==
  /\ pc[d] \in {"running", "closing", "closed", "failed"}
  /\ Leaves(d)
  /\ UNCHANGED <<head, slot, reserved, overtaken>>

Older(record) ==
  IF record = None \/ (record # None /\ record.age = OldestAge) THEN record
  ELSE [record EXCEPT !.age = @ + 1]

Tick ==
  /\ \A d \in Dispatches : pc[d] \notin {"reserving", "closing"}
  /\ slot' = Older(slot)
  /\ slot' # slot
  /\ UNCHANGED <<head, pc, at, draft, reserved, overtaken>>

------------------------------------------------------------------------------

\* An older client may have left a reservation or a completion of its own.
LeftBehind ==
  {[by |-> Past, run |-> Past, head |-> 1, status |-> s, productive |-> "unset",
    unproductive |-> 0, continuations |-> Absent, incomplete |-> "unset",
    age |-> 0] : s \in {"pending", "completed"}}

DispatchInit ==
  /\ head = 1
  /\ slot \in LeftBehind \cup {None}
  /\ pc = [d \in Dispatches |-> "off"]
  /\ at = [d \in Dispatches |-> 0]
  /\ draft = [d \in Dispatches |-> None]
  /\ reserved = [h \in Heads |-> 0]
  /\ overtaken = {}

DispatchNext ==
  \/ \E r \in Runs : StartRun(r)
  \/ \E d \in Dispatches :
       \/ Evaluate(d) \/ Skip(d) \/ Refuse(d) \/ Grant(d) \/ ReadFails(d)
       \/ Reserve(d) \/ ReserveUnseen(d)
       \/ \E ok \in BOOLEAN, o \in Observations : EndRun(d, ok, o)
       \/ \E o \in Observations : Replay(d, o)
       \/ WriteCompletion(d) \/ Abandon(d)
  \/ Push
  \/ Tick

\* The hourly sweep starts the loop again, a job ends (it has a time limit), a
\* loop that is evaluated again and again wants an agent in the end, a store that
\* is asked again and again answers in the end, and time passes.
JobMoves(d) ==
  \/ Skip(d) \/ Refuse(d) \/ ReadFails(d) \/ ReserveUnseen(d) \/ Abandon(d)

DispatchFairness ==
  /\ WF_dispatchVars(\E r \in Runs : StartRun(r))
  /\ \A d \in Dispatches : WF_dispatchVars(JobMoves(d))
  /\ SF_dispatchVars(\E d \in Dispatches : Evaluate(d))
  /\ SF_dispatchVars(\E d \in Dispatches : Grant(d))
  /\ SF_dispatchVars(\E d \in Dispatches : Reserve(d))
  /\ SF_dispatchVars(Tick)

DispatchSpec == DispatchInit /\ [][DispatchNext]_dispatchVars

LiveDispatchSpec == DispatchSpec /\ DispatchFairness

------------------------------------------------------------------------------

\* A tally never exceeds the reservations there have been for its commit, with
\* those that a sibling turned into a receipt for it: one reservation spends one
\* retry at most, however often its completion is repeated and whichever job of
\* its run records it (record_completion).  That a retry is spent at all is not said.
OneRetryEach ==
  slot # None =>
    /\ slot.unproductive <= reserved[slot.head]
    /\ slot.continuations <= reserved[slot.head]

\* The reservation of a running job is closed by a job of the same run or not
\* at all: a completion of an earlier run that comes late leaves it alone
\* (write_completion, the stale-attempt answer of record_completion).
NewerOwnerKept ==
  [][\A d \in Dispatches :
       /\ slot # None /\ slot.by = d /\ slot.status = "pending"
       /\ pc[d] = "running"
       /\ slot'.status # "pending"
       => /\ slot'.by = d
          /\ \E e \in Dispatches : RunOf[e] = RunOf[d] /\ WriteCompletion(e)]_dispatchVars

\* The reservation of a running job is not closed by another job: "a completion
\* racing a newer reservation ... cannot overwrite that newer pending owner"
\* (write_completion).
PendingOwnerKept ==
  [][\A d \in Dispatches :
       /\ slot # None /\ slot.by = d /\ slot.status = "pending"
       /\ pc[d] = "running"
       => ~(slot'.by = d /\ slot'.status # "pending")]_dispatchVars

\* A live reservation for a commit is replaced by another for the same commit
\* only by a job that had decided before it was written.
ReplacedOnlyWhenRaced ==
  [][\A d \in Dispatches :
       /\ slot # None /\ IsLive(slot)
       /\ slot'.by # slot.by /\ slot'.by = d /\ slot'.head = slot.head
       => d \in overtaken]_dispatchVars

\* Nothing latches the loop shut: again and again an agent runs, or the newest
\* record says that this commit needs none (the comment at line 49, #3433).
Settled ==
  /\ slot # None
  /\ slot.head = head
  /\ slot.status = "completed"
  /\ ~WasUnproductive(slot) /\ ~NeedsContinuation(slot)

Wakes == []<>(Settled \/ \E d \in Dispatches : pc[d] = "running")
==============================================================================
