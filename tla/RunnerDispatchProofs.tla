--------------------------- MODULE RunnerDispatchProofs ---------------------------
(***************************************************************************)
(* For any jobs, runs, retry allowance and ages: which step may replace a  *)
(* live reservation, and which may close that of a running job.            *)
(***************************************************************************)
EXTENDS RunnerDispatch, TLAPS

\* A reservation names the run of the job that made it.
Named(record) == record.by \in Dispatches => record.run = RunOf[record.by]

SlotInv == slot # None => Named(slot)

\* What a job has computed for its commit and not yet written.
DraftInv ==
  \A d \in Dispatches :
    /\ pc[d] \notin {"off", "queued"} => at[d] \in Heads
    /\ pc[d] = "reserving" =>
         /\ draft[d] \in Records
         /\ draft[d].by = d /\ draft[d].run = RunOf[d]
         /\ draft[d].head = at[d] /\ draft[d].status = "pending"
    /\ pc[d] = "closing" =>
         /\ draft[d] \in Records /\ Named(draft[d])
         /\ draft[d].run = RunOf[d] /\ draft[d].status \in Terminal

\* A job that is about to reserve next to a live reservation for its commit had decided
\* before that one was written.
RaceInv ==
  \A d \in Dispatches :
    pc[d] = "reserving" /\ slot # None /\ IsLive(slot) /\ slot.head = at[d] => d \in overtaken

DispatchInv == TypeOK /\ SlotInv /\ DraftInv /\ RaceInv

\* None is no record, and the past is no job.
LEMMA Apart == Past \notin Dispatches /\ None \notin Dispatches /\ OldestAge \in Nat
  <1>1. OldestAge \in Nat
    BY BoundsAssumption DEF OldestAge, Larger
  <1> QED
    BY <1>1, DistinctAssumption

LEMMA CountsClosed ==
  ASSUME NEW n \in Counts
  PROVE  OneMore(n) \in Counts /\ \A k \in Counts : Larger(n, k) \in Counts
  BY BoundsAssumption DEF Counts, OneMore, Larger

\* The tallies of a record stay within the allowance.
LEMMA TalliesClosed ==
  ASSUME NEW prior \in Records, NEW h \in Heads, NEW ok \in BOOLEAN, NEW o \in Observations
  PROVE  /\ ContinuationCount(prior) \in Counts
         /\ UnproductiveAfter(prior, h, ok, o) \in Counts
         /\ ContinuationsAfter(prior, h, ok, o) \in Counts \cup {Absent}
         /\ IncompleteAfter(prior, h, ok, o) \in {"yes", "no", "unset"}
         /\ Derived(prior, h, o) \in {"yes", "no", "unset"}
  <1>0. /\ prior.unproductive \in Counts /\ prior.continuations \in Counts \cup {Absent}
        /\ prior.incomplete \in {"yes", "no", "unset"}
        /\ prior.productive \in {"yes", "no", "unset"}
        /\ o.productive \in {"yes", "no", "unset"}
    BY DEF Records, Observations
  <1>1. ContinuationCount(prior) \in Counts
    BY <1>0 DEF ContinuationCount
  <1>2. 0 \in Counts /\ 1 \in Counts
    BY BoundsAssumption DEF Counts
  <1>3. UnproductiveAfter(prior, h, ok, o) \in Counts
    BY <1>0, <1>2, CountsClosed DEF UnproductiveAfter
  <1>4. IncompleteAfter(prior, h, ok, o) \in {"yes", "no", "unset"}
    BY <1>0 DEF IncompleteAfter
  <1>5. Derived(prior, h, o) \in {"yes", "no", "unset"}
    BY <1>0 DEF Derived
  <1>6. ContinuationsAfter(prior, h, ok, o) \in Counts \cup {Absent}
    BY <1>0, <1>1, <1>2, <1>3, CountsClosed DEF ContinuationsAfter
  <1> QED
    BY <1>1, <1>3, <1>4, <1>5, <1>6

\* A receipt is a record of the same reservation, for the commit of the job.
LEMMA CompletionIsReceipt ==
  ASSUME NEW d \in Dispatches, at[d] \in Heads, NEW prior \in Records, NEW ok \in BOOLEAN,
         NEW o \in Observations
  PROVE  /\ Completion(d, prior, ok, o) \in Records
         /\ Completion(d, prior, ok, o).by = prior.by
         /\ Completion(d, prior, ok, o).run = prior.run
         /\ Completion(d, prior, ok, o).status \in Terminal
  <1> DEFINE h == at[d]
             c == Completion(d, prior, ok, o)
             productive == IF ok /\ Derived(prior, h, o) # "unset"
                           THEN Derived(prior, h, o) ELSE prior.productive
             age == IF IsReplay(prior, h) THEN prior.age ELSE 0
             unproductive == UnproductiveAfter(prior, h, ok, o)
             continuations == ContinuationsAfter(prior, h, ok, o)
             incomplete == IncompleteAfter(prior, h, ok, o)
             status == IF ok THEN "completed" ELSE "error"
  <1>1. /\ unproductive \in Counts /\ continuations \in Counts \cup {Absent}
        /\ incomplete \in {"yes", "no", "unset"} /\ productive \in {"yes", "no", "unset"}
    BY TalliesClosed DEF Records
  <1>2. age \in 0..OldestAge
    BY Apart DEF Records
  <1>3. status \in Terminal
    BY DEF Terminal
  <1>4. c = [prior EXCEPT !.head = h, !.status = status, !.productive = productive,
                          !.unproductive = unproductive, !.continuations = continuations,
                          !.incomplete = incomplete, !.age = age]
    BY DEF Completion
  <1> HIDE DEF c, h, productive, age, unproductive, continuations, incomplete, status
  <1>5. h \in Heads
    BY DEF h
  <1>6. c \in Records /\ c.by = prior.by /\ c.run = prior.run /\ c.status = status
    BY <1>1, <1>2, <1>3, <1>4, <1>5 DEF Records
  <1> QED
    BY <1>3, <1>6 DEF c

\* A reservation is pending and the job's own.
LEMMA ReservationIsOwn ==
  ASSUME NEW d \in Dispatches, NEW h \in Heads, NEW prior \in Records \cup {None}
  PROVE  /\ Reservation(d, h, prior) \in Records
         /\ Reservation(d, h, prior).by = d /\ Reservation(d, h, prior).run = RunOf[d]
         /\ Reservation(d, h, prior).head = h /\ Reservation(d, h, prior).status = "pending"
  <1>0. None \notin Records
    BY NoneAssumption
  <1>1. /\ Fresh(d, h) \in Records /\ Fresh(d, h).by = d /\ Fresh(d, h).run = RunOf[d]
        /\ Fresh(d, h).head = h /\ Fresh(d, h).status = "pending"
    BY RunOfAssumption, BoundsAssumption, Apart DEF Fresh, Records, Owners, Counts
  <1>2. CASE prior = None \/ prior.head # h
    BY <1>1, <1>2 DEF Reservation
  <1>3. CASE prior \in Records /\ prior # None /\ prior.head = h
    <2> DEFINE continuations == IF ContinuationCount(prior) > 0
                                THEN ContinuationCount(prior) ELSE Absent
               incomplete == IF NeedsContinuation(prior) THEN "yes" ELSE "unset"
               productive == IF prior.unproductive > 0 /\ WasUnproductive(prior)
                             THEN "no" ELSE "unset"
    <2>1. /\ continuations \in Counts \cup {Absent} /\ incomplete \in {"yes", "no", "unset"}
          /\ productive \in {"yes", "no", "unset"} /\ prior.unproductive \in Counts
      BY <1>3 DEF ContinuationCount, Records
    <2>2. Reservation(d, h, prior) =
            [Fresh(d, h) EXCEPT !.continuations = continuations, !.incomplete = incomplete,
                                !.unproductive = prior.unproductive, !.productive = productive]
      BY <1>3 DEF Reservation
    <2> HIDE DEF continuations, incomplete, productive
    <2> QED
      BY <1>1, <2>1, <2>2 DEF Records
  <1> QED
    BY <1>2, <1>3

LEMMA DispatchInitInv == DispatchInit => DispatchInv
  <1> SUFFICES ASSUME DispatchInit PROVE DispatchInv
    OBVIOUS
  <1>1. LeftBehind \subseteq Records
    BY BoundsAssumption, Apart DEF LeftBehind, Records, Owners, Heads, Terminal, Counts
  <1>2. TypeOK
    BY <1>1, BoundsAssumption DEF DispatchInit, TypeOK, Heads, Counts
  <1>3. SlotInv
    BY Apart DEF DispatchInit, SlotInv, Named, LeftBehind
  <1>4. DraftInv /\ RaceInv
    BY DEF DispatchInit, DraftInv, RaceInv
  <1> QED
    BY <1>2, <1>3, <1>4 DEF DispatchInv

\* One job goes on and the reservation stays: what is left to ask is that job's draft.
LEMMA OneJobMoves ==
  ASSUME DispatchInv, TypeOK', NEW d \in Dispatches, UNCHANGED slot,
         \A e \in Dispatches \ {d} : pc'[e] = pc[e] /\ at'[e] = at[e] /\ draft'[e] = draft[e],
         overtaken \ {d} \subseteq overtaken',
         pc'[d] \notin {"off", "queued"} => at'[d] \in Heads,
         pc'[d] = "reserving" =>
           /\ draft'[d] \in Records
           /\ draft'[d].by = d /\ draft'[d].run = RunOf[d]
           /\ draft'[d].head = at'[d] /\ draft'[d].status = "pending"
           /\ slot # None /\ IsLive(slot) => slot.head # at'[d],
         pc'[d] = "closing" =>
           /\ draft'[d] \in Records /\ Named(draft'[d])
           /\ draft'[d].run = RunOf[d] /\ draft'[d].status \in Terminal
  PROVE  DispatchInv'
  <1>1. SlotInv'
    BY DEF DispatchInv, SlotInv, Named
  <1>2. DraftInv'
    BY DEF DispatchInv, DraftInv, Named
  <1>3. RaceInv'
    BY DEF DispatchInv, RaceInv, IsLive, IsStale
  <1> QED
    BY <1>1, <1>2, <1>3 DEF DispatchInv

\* A job that leaves moves nobody else and drops its draft.
LEMMA Leaving ==
  ASSUME TypeOK, NEW d \in Dispatches, Leaves(d)
  PROVE  /\ pc' \in [Dispatches -> {"off", "queued", "checking", "reserving", "running",
                                    "closing", "closed", "failed"}]
         /\ at' \in [Dispatches -> Heads \cup {0}]
         /\ draft' \in [Dispatches -> Records \cup {None}]
         /\ pc'[d] = "off"
         /\ \A e \in Dispatches \ {d} : pc'[e] = pc[e] /\ at'[e] = at[e] /\ draft'[e] = draft[e]
  BY DEF TypeOK, Leaves, Goes

LEMMA LeavingKeeps ==
  ASSUME DispatchInv, NEW d \in Dispatches, Leaves(d), UNCHANGED <<head, slot, reserved, overtaken>>
  PROVE  DispatchInv'
  <1>1. TypeOK'
    BY Leaving DEF DispatchInv, TypeOK
  <1> QED
    BY <1>1, Leaving, OneJobMoves DEF DispatchInv

LEMMA StartRunKeeps ==
  ASSUME DispatchInv, NEW r \in Runs, StartRun(r)
  PROVE  DispatchInv'
  <1>1. /\ slot = None => slot' = None
        /\ slot # None => /\ slot' \in Records /\ slot'.head = slot.head
                          /\ slot'.status = slot.status /\ slot'.age = slot.age
                          /\ slot' = slot \/ slot'.by = Past
    <2>1. CASE slot = None
      BY <2>1 DEF StartRun, Disowned
    <2>2. CASE slot # None /\ slot.run # r
      BY <2>2 DEF StartRun, Disowned, DispatchInv, TypeOK
    <2>3. CASE slot # None /\ slot.run = r
      <3>1. slot \in Records /\ slot' = [slot EXCEPT !.run = Past, !.by = Past]
        BY <2>3 DEF StartRun, Disowned, DispatchInv, TypeOK
      <3> QED
        BY <2>3, <3>1 DEF Records, Owners
    <2> QED
      BY <2>1, <2>2, <2>3
  <1>2. /\ pc' \in [Dispatches -> {"off", "queued", "checking", "reserving", "running",
                                   "closing", "closed", "failed"}]
        /\ \A d \in Dispatches : pc'[d] = pc[d] \/ pc'[d] = "queued"
    BY DEF StartRun, DispatchInv, TypeOK
  <1>3. UNCHANGED <<head, at, draft, reserved, overtaken>>
    BY DEF StartRun
  <1>4. TypeOK'
    BY <1>1, <1>2, <1>3 DEF DispatchInv, TypeOK
  <1>5. SlotInv'
    BY <1>1, Apart, NoneAssumption DEF DispatchInv, SlotInv, Named
  <1>6. DraftInv'
    BY <1>2, <1>3 DEF DispatchInv, DraftInv, Named
  <1>7. RaceInv'
    BY <1>1, <1>2, <1>3 DEF DispatchInv, RaceInv, IsLive, IsStale
  <1> QED
    BY <1>4, <1>5, <1>6, <1>7 DEF DispatchInv

\* The reservation is written by the job that computed it, and all others that are about
\* to reserve had decided before.
LEMMA WritingReservation ==
  ASSUME DispatchInv, NEW d \in Dispatches, pc[d] = "reserving", WriteReservation(d), TypeOK',
         pc'[d] \in {"running", "off"},
         \A e \in Dispatches \ {d} : pc'[e] = pc[e] /\ at'[e] = at[e] /\ draft'[e] = draft[e],
         pc'[d] = "running" => at'[d] = at[d]
  PROVE  DispatchInv'
  <1>1. /\ slot' = draft[d] /\ draft[d] \in Records
        /\ draft[d].by = d /\ draft[d].run = RunOf[d] /\ at[d] \in Heads
    BY DEF WriteReservation, DispatchInv, DraftInv
  <1>2. SlotInv'
    BY <1>1 DEF SlotInv, Named
  <1>3. DraftInv'
    BY <1>1 DEF DispatchInv, DraftInv, Named
  <1>4. RaceInv'
    BY DEF RaceInv, WriteReservation
  <1> QED
    BY <1>2, <1>3, <1>4 DEF DispatchInv

LEMMA WriteReservationTyped ==
  ASSUME DispatchInv, NEW d \in Dispatches, pc[d] = "reserving", WriteReservation(d)
  PROVE  /\ slot' \in Records \cup {None} /\ reserved' \in [Heads -> Counts]
         /\ overtaken' \in SUBSET Dispatches
  BY CountsClosed DEF WriteReservation, DispatchInv, DraftInv, TypeOK

\* A job whose agent has ended computes a receipt of the reservation it has read.
LEMMA EndsKeeps ==
  ASSUME DispatchInv, NEW d \in Dispatches, pc[d] \in {"running", "closed", "failed"},
         NEW ok \in BOOLEAN, NEW o \in Observations, Ends(d, ok, o)
  PROVE  DispatchInv'
  <1>1. UNCHANGED <<head, slot, overtaken>>
    BY DEF Ends
  <1>2. CASE ~MayComplete(d, slot, o)
    BY <1>1, <1>2, LeavingKeeps DEF Ends
  <1>3. CASE MayComplete(d, slot, o)
    <2> DEFINE c == Completion(d, slot, ok, o)
    <2>1. at[d] \in Heads /\ slot \in Records /\ slot.run = RunOf[d] /\ Named(slot)
      BY <1>3 DEF MayComplete, DispatchInv, DraftInv, SlotInv, TypeOK
    <2>2. c \in Records /\ c.by = slot.by /\ c.run = RunOf[d] /\ c.status \in Terminal
      BY <2>1, CompletionIsReceipt
    <2>3. draft' = [draft EXCEPT ![d] = c] /\ pc' = [pc EXCEPT ![d] = "closing"] /\ at' = at
      BY <1>3 DEF Ends, Goes
    <2> HIDE DEF c
    <2>3a. reserved' \in [Heads -> Counts]
      <3>1. reserved \in [Heads -> Counts] /\ slot.head \in Heads
        BY <2>1 DEF DispatchInv, TypeOK, Records
      <3>2. Larger(reserved[at[d]], reserved[slot.head]) \in Counts
        BY <2>1, <3>1, CountsClosed
      <3>3. reserved' = [reserved EXCEPT ![at[d]] = Larger(@, reserved[slot.head])]
        BY <1>3 DEF Ends
      <3> QED
        BY <2>1, <3>1, <3>2, <3>3
    <2>4. TypeOK'
      BY <1>1, <2>3a, <2>2, <2>3 DEF DispatchInv, TypeOK
    <2>5. Named(c)
      BY <2>1, <2>2 DEF Named
    <2>6. pc'[d] = "closing" /\ draft'[d] = c
      BY <2>3 DEF DispatchInv, TypeOK
    <2>7. \A e \in Dispatches \ {d} : pc'[e] = pc[e] /\ at'[e] = at[e] /\ draft'[e] = draft[e]
      BY <2>3 DEF DispatchInv, TypeOK
    <2> QED
      BY <1>1, <2>1, <2>2, <2>3, <2>4, <2>5, <2>6, <2>7, OneJobMoves
  <1> QED
    BY <1>2, <1>3

\* A receipt ends the reservation it names and touches no other.
LEMMA WriteCompletionKeeps ==
  ASSUME DispatchInv, NEW d \in Dispatches, WriteCompletion(d)
  PROVE  DispatchInv'
  <1>1. /\ draft[d] \in Records /\ Named(draft[d]) /\ draft[d].run = RunOf[d]
        /\ draft[d].status \in Terminal /\ at[d] \in Heads
    BY DEF WriteCompletion, DispatchInv, DraftInv
  <1>2. slot' = slot \/ slot' = draft[d]
    BY DEF WriteCompletion
  <1>3. /\ pc' \in [Dispatches -> {"off", "queued", "checking", "reserving", "running",
                                   "closing", "closed", "failed"}]
        /\ draft' \in [Dispatches -> Records \cup {None}]
        /\ pc'[d] \in {"closed", "failed"}
        /\ \A e \in Dispatches \ {d} : pc'[e] = pc[e] /\ draft'[e] = draft[e]
    BY DEF WriteCompletion, Goes, DispatchInv, TypeOK
  <1>4. UNCHANGED <<head, at, reserved, overtaken>>
    BY DEF WriteCompletion
  <1>5. TypeOK'
    BY <1>1, <1>2, <1>3, <1>4 DEF DispatchInv, TypeOK
  <1>6. SlotInv'
    BY <1>1, <1>2 DEF DispatchInv, SlotInv, Named
  <1>7. DraftInv'
    BY <1>1, <1>3, <1>4 DEF DispatchInv, DraftInv, Named
  <1>8. RaceInv'
    BY <1>1, <1>2, <1>3, <1>4 DEF DispatchInv, RaceInv, IsLive, IsStale, Terminal
  <1> QED
    BY <1>5, <1>6, <1>7, <1>8 DEF DispatchInv

LEMMA TickKeeps ==
  ASSUME DispatchInv, Tick
  PROVE  DispatchInv'
  <1>1. /\ slot # None /\ slot \in Records /\ slot' = [slot EXCEPT !.age = @ + 1]
        /\ slot.age # OldestAge
    BY DEF Tick, Older, DispatchInv, TypeOK
  <1>2. slot.age \in 0..OldestAge
    BY <1>1 DEF Records
  <1>3. slot.age + 1 \in 0..OldestAge
    BY <1>1, <1>2, Apart
  <1>4. slot' \in Records /\ slot'.by = slot.by /\ slot'.run = slot.run
    BY <1>1, <1>3 DEF Records
  <1>5. UNCHANGED <<head, pc, at, draft, reserved, overtaken>>
    BY DEF Tick
  <1>6. TypeOK'
    BY <1>4, <1>5 DEF DispatchInv, TypeOK
  <1>7. SlotInv'
    BY <1>1, <1>4 DEF DispatchInv, SlotInv, Named
  <1>8. DraftInv'
    BY <1>5 DEF DispatchInv, DraftInv, Named
  <1>9. RaceInv'
    BY <1>5 DEF Tick, RaceInv
  <1> QED
    BY <1>6, <1>7, <1>8, <1>9 DEF DispatchInv

LEMMA JobKeeps ==
  ASSUME DispatchInv, NEW d \in Dispatches,
         Evaluate(d) \/ Grant(d) \/ Reserve(d) \/ ReserveUnseen(d)
  PROVE  DispatchInv'
  <1>0. /\ TypeOK
        /\ pc \in [Dispatches -> {"off", "queued", "checking", "reserving", "running",
                                  "closing", "closed", "failed"}]
        /\ at \in [Dispatches -> Heads \cup {0}] /\ draft \in [Dispatches -> Records \cup {None}]
    BY DEF DispatchInv, TypeOK
  <1>1. CASE Evaluate(d)
    <2>1. /\ at' = [at EXCEPT ![d] = head] /\ pc' = [pc EXCEPT ![d] = "checking"]
          /\ UNCHANGED <<head, slot, draft, reserved, overtaken>> /\ head \in Heads
      BY <1>0, <1>1 DEF Evaluate, Goes, TypeOK
    <2>2. TypeOK'
      BY <1>0, <2>1 DEF TypeOK
    <2> QED
      BY <1>0, <2>1, <2>2, OneJobMoves
  <1>2. CASE Grant(d)
    <2> DEFINE r == Reservation(d, at[d], slot)
    <2>1. at[d] \in Heads /\ slot \in Records \cup {None}
      BY <1>2 DEF Grant, DispatchInv, DraftInv, TypeOK
    <2>2. /\ r \in Records /\ r.by = d /\ r.run = RunOf[d]
          /\ r.head = at[d] /\ r.status = "pending"
      BY <2>1, ReservationIsOwn
    <2>3. /\ draft' = [draft EXCEPT ![d] = r] /\ pc' = [pc EXCEPT ![d] = "reserving"]
          /\ UNCHANGED <<head, slot, at, reserved>> /\ overtaken' = overtaken \ {d}
      BY <1>2 DEF Grant, Goes
    <2>4. slot # None /\ IsLive(slot) => slot.head # at[d]
      BY <1>2 DEF Grant, Refused
    <2> HIDE DEF r
    <2>5. TypeOK'
      BY <1>0, <2>2, <2>3 DEF TypeOK
    <2> QED
      BY <1>0, <2>1, <2>2, <2>3, <2>4, <2>5, OneJobMoves
  <1>3. CASE Reserve(d)
    <2>1. /\ pc[d] = "reserving" /\ WriteReservation(d)
          /\ draft' = [draft EXCEPT ![d] = None] /\ pc' = [pc EXCEPT ![d] = "running"]
          /\ UNCHANGED <<head, at>>
      BY <1>3 DEF Reserve, Goes
    <2>2. TypeOK'
      BY <1>0, <2>1, WriteReservationTyped DEF TypeOK
    <2> QED
      BY <1>0, <2>1, <2>2, WritingReservation
  <1>4. CASE ReserveUnseen(d)
    <2>1. pc[d] = "reserving" /\ Leaves(d) /\ UNCHANGED head
      BY <1>4 DEF ReserveUnseen
    <2>2. CASE WriteReservation(d)
      <3>1. TypeOK'
        BY <1>0, <2>1, <2>2, Leaving, WriteReservationTyped DEF TypeOK
      <3> QED
        BY <1>0, <2>1, <2>2, <3>1, Leaving, WritingReservation
    <2>3. CASE UNCHANGED <<slot, reserved, overtaken>>
      BY <2>1, <2>3, LeavingKeeps
    <2> QED
      BY <1>4, <2>2, <2>3 DEF ReserveUnseen
  <1> QED
    BY <1>1, <1>2, <1>3, <1>4

LEMMA DispatchStep == DispatchInv /\ [DispatchNext]_dispatchVars => DispatchInv'
  <1> SUFFICES ASSUME DispatchInv, [DispatchNext]_dispatchVars PROVE DispatchInv'
    OBVIOUS
  <1>1. CASE \E r \in Runs : StartRun(r)
    BY <1>1, StartRunKeeps
  <1>2. CASE \E d \in Dispatches : Evaluate(d) \/ Grant(d) \/ Reserve(d) \/ ReserveUnseen(d)
    BY <1>2, JobKeeps
  <1>3. CASE \E d \in Dispatches : Skip(d) \/ Refuse(d) \/ ReadFails(d) \/ Abandon(d)
    BY <1>3, LeavingKeeps DEF Skip, Refuse, ReadFails, Abandon
  <1>4. CASE \E d \in Dispatches, ok \in BOOLEAN, o \in Observations : EndRun(d, ok, o)
    BY <1>4, EndsKeeps DEF EndRun
  <1>5. CASE \E d \in Dispatches, o \in Observations : Replay(d, o)
    <2>1. PICK d \in Dispatches, o \in Observations : Replay(d, o)
      BY <1>5
    <2>2. (pc[d] = "closed") \in BOOLEAN
      OBVIOUS
    <2> QED
      BY <2>1, <2>2, EndsKeeps DEF Replay
  <1>6. CASE \E d \in Dispatches : WriteCompletion(d)
    BY <1>6, WriteCompletionKeeps
  <1>7. CASE Push
    <2>1. /\ UNCHANGED <<slot, pc, at, draft, reserved, overtaken>> /\ head' \in Heads
      BY <1>7, BoundsAssumption DEF Push, DispatchInv, TypeOK, Heads
    <2>2. TypeOK'
      BY <2>1 DEF DispatchInv, TypeOK
    <2>3. SlotInv' /\ DraftInv' /\ RaceInv'
      BY <2>1 DEF DispatchInv, SlotInv, DraftInv, RaceInv, Named, IsLive, IsStale
    <2> QED
      BY <2>2, <2>3 DEF DispatchInv
  <1>8. CASE Tick
    BY <1>8, TickKeeps
  <1>9. CASE UNCHANGED dispatchVars
    BY <1>9 DEF dispatchVars, DispatchInv, TypeOK, SlotInv, DraftInv, RaceInv, Named, IsLive, IsStale
  <1> QED
    BY <1>1, <1>2, <1>3, <1>4, <1>5, <1>6, <1>7, <1>8, <1>9 DEF DispatchNext

LEMMA DispatchInvariant == DispatchSpec => []DispatchInv
  BY DispatchInitInv, DispatchStep, PTL DEF DispatchSpec

\* What a step does to the newest reservation: nothing, ageing or disowning it, a new
\* reservation of a job that has decided, or a receipt that names it.
LEMMA SlotSteps ==
  ASSUME DispatchInv, [DispatchNext]_dispatchVars, slot # None, slot' # slot
  PROVE  \/ slot'.status = slot.status /\ slot'.by \in {slot.by, Past}
         \/ \E d \in Dispatches : /\ pc[d] = "reserving" /\ WriteReservation(d)
                                 /\ slot'.by = d /\ slot'.head = at[d]
                                 /\ slot'.status = "pending"
         \/ \E d \in Dispatches : /\ WriteCompletion(d) /\ slot'.by = slot.by
                                 /\ slot.run = RunOf[d]
  <1>0. slot \in Records
    BY DEF DispatchInv, TypeOK
  <1>1. CASE \E r \in Runs : StartRun(r)
    <2>1. slot' = [slot EXCEPT !.run = Past, !.by = Past]
      BY <1>1 DEF StartRun, Disowned
    <2> QED
      BY <1>0, <2>1 DEF Records
  <1>2. CASE Tick
    <2>1. slot' = [slot EXCEPT !.age = @ + 1]
      BY <1>2 DEF Tick, Older
    <2> QED
      BY <1>0, <2>1 DEF Records
  <1>3. CASE \E d \in Dispatches : Reserve(d) \/ ReserveUnseen(d)
    <2>1. PICK d \in Dispatches : Reserve(d) \/ ReserveUnseen(d)
      BY <1>3
    <2>2. pc[d] = "reserving" /\ WriteReservation(d)
      BY <2>1 DEF Reserve, ReserveUnseen
    <2>3. slot'.by = d /\ slot'.head = at[d] /\ slot'.status = "pending"
      BY <2>2 DEF WriteReservation, DispatchInv, DraftInv
    <2> QED
      BY <2>2, <2>3
  <1>4. CASE \E d \in Dispatches : WriteCompletion(d)
    <2>1. PICK d \in Dispatches : WriteCompletion(d)
      BY <1>4
    <2>2. slot' = draft[d] /\ Receives(slot, draft[d]) /\ draft[d].run = RunOf[d]
      BY <2>1 DEF WriteCompletion, DispatchInv, DraftInv
    <2> QED
      BY <2>1, <2>2 DEF Receives
  <1>5. CASE \/ \E d \in Dispatches :
                  \/ Evaluate(d) \/ Skip(d) \/ Refuse(d) \/ Grant(d) \/ ReadFails(d) \/ Abandon(d)
                  \/ \E ok \in BOOLEAN, o \in Observations : EndRun(d, ok, o)
                  \/ \E o \in Observations : Replay(d, o)
             \/ Push
             \/ UNCHANGED dispatchVars
    BY <1>5 DEF Evaluate, Skip, Refuse, Grant, ReadFails, Abandon, EndRun, Replay, Ends,
                Push, dispatchVars
  <1> QED
    BY <1>1, <1>2, <1>3, <1>4, <1>5 DEF DispatchNext

\* Every state of the reservations and the jobs is well typed.
THEOREM DispatchTypeCorrect == DispatchSpec => []TypeOK
  BY DispatchInvariant, PTL DEF DispatchInv

\* The reservation of a running job is closed by a job of the same run or not at all,
\* for any jobs and runs.
THEOREM NewerOwnerStays == DispatchSpec => NewerOwnerKept
  <1>1. DispatchInv /\ [DispatchNext]_dispatchVars =>
          [\A d \in Dispatches :
             /\ slot # None /\ slot.by = d /\ slot.status = "pending"
             /\ pc[d] = "running"
             /\ slot'.status # "pending"
             => /\ slot'.by = d
                /\ \E e \in Dispatches : RunOf[e] = RunOf[d] /\ WriteCompletion(e)]_dispatchVars
    <2> SUFFICES ASSUME DispatchInv, [DispatchNext]_dispatchVars, NEW d \in Dispatches,
                        slot # None, slot.by = d, slot.status = "pending",
                        slot'.status # "pending"
                 PROVE  /\ slot'.by = d
                        /\ \E e \in Dispatches : RunOf[e] = RunOf[d] /\ WriteCompletion(e)
      OBVIOUS
    <2>1. slot' # slot
      OBVIOUS
    <2>2. PICK e \in Dispatches : WriteCompletion(e) /\ slot'.by = slot.by /\ slot.run = RunOf[e]
      BY <2>1, SlotSteps
    <2>3. slot.run = RunOf[d]
      BY DEF DispatchInv, SlotInv, Named
    <2> QED
      BY <2>2, <2>3
  <1> QED
    BY <1>1, DispatchInvariant, PTL DEF DispatchSpec, NewerOwnerKept

\* A live reservation is replaced for the same commit only by a job that had decided
\* before it was written, for any number of jobs.
THEOREM ReplacementWasRaced == DispatchSpec => ReplacedOnlyWhenRaced
  <1>1. DispatchInv /\ [DispatchNext]_dispatchVars =>
          [\A d \in Dispatches :
             /\ slot # None /\ IsLive(slot)
             /\ slot'.by # slot.by /\ slot'.by = d /\ slot'.head = slot.head
             => d \in overtaken]_dispatchVars
    <2> SUFFICES ASSUME DispatchInv, [DispatchNext]_dispatchVars, NEW d \in Dispatches,
                        slot # None, IsLive(slot),
                        slot'.by # slot.by, slot'.by = d, slot'.head = slot.head
                 PROVE  d \in overtaken
      OBVIOUS
    <2>1. slot' # slot
      OBVIOUS
    <2>2. PICK e \in Dispatches : pc[e] = "reserving" /\ slot'.by = e /\ slot'.head = at[e]
      BY <2>1, SlotSteps, Apart
    <2> QED
      BY <2>2 DEF DispatchInv, RaceInv
  <1> QED
    BY <1>1, DispatchInvariant, PTL DEF DispatchSpec, ReplacedOnlyWhenRaced
------------------------------------------------------------------------------
(* One reservation spends one retry at most *)

\* The tallies of a record are at most a number of reservations...
Within(record, n) == record.unproductive <= n /\ record.continuations <= n

\* ...and stay so when a completion adds to each of them.
Spendable(record, n) == OneMore(record.unproductive) <= n /\ OneMore(record.continuations) <= n

\* The reservation of an attempt under way has been counted and not yet spent.
Spent ==
  slot # None =>
    /\ Within(slot, reserved[slot.head])
    /\ slot.run # Past => reserved[slot.head] >= 1
    /\ slot.run # Past /\ slot.status = "pending" => Spendable(slot, reserved[slot.head])

DraftSpent ==
  \A d \in Dispatches : pc[d] \in {"reserving", "closing"} =>
    /\ draft[d].head = at[d]
    /\ Within(draft[d], reserved[at[d]])
    /\ pc[d] = "closing" => reserved[at[d]] >= 1

RetryInv == Spent /\ DraftSpent

\* Adding to a tally keeps the order of two tallies.
LEMMA OneMoreMonotone ==
  /\ \A m \in Counts \cup {Absent}, n \in Counts : m <= n => OneMore(m) <= OneMore(n) /\ m <= OneMore(n)
  /\ \A n \in Counts : OneMore(n) >= 1 /\ n <= OneMore(n) /\ OneMore(n) \in Counts
  BY BoundsAssumption DEF Counts, OneMore, Absent

\* A record's tallies are numbers, and what it counts of continuations is one of them.
LEMMA TallyTypes ==
  ASSUME NEW record \in Records
  PROVE  /\ record.unproductive \in Counts /\ record.continuations \in Counts \cup {Absent}
         /\ ContinuationCount(record) \in Counts
         /\ ContinuationCount(record) \in {record.unproductive, record.continuations}
         /\ record.head \in Heads /\ record.status \in {"pending"} \cup Terminal
  BY DEF Records, ContinuationCount

\* A reservation takes over what was tallied for its commit, and no more.
LEMMA ReservationWithin ==
  ASSUME NEW d \in Dispatches, NEW h \in Heads, NEW prior \in Records \cup {None}, NEW n \in Counts,
         prior # None /\ prior.head = h => Within(prior, n)
  PROVE  Within(Reservation(d, h, prior), n)
  <1>1. n \in Nat /\ 0 <= n /\ Absent <= n
    BY BoundsAssumption DEF Counts, Absent
  <1>2. CASE prior = None \/ prior.head # h
    <2>1. Reservation(d, h, prior) = Fresh(d, h)
      BY <1>2 DEF Reservation
    <2> QED
      BY <1>1, <2>1 DEF Fresh, Within
  <1>3. CASE prior \in Records /\ prior # None /\ prior.head = h
    <2> DEFINE continuations == IF ContinuationCount(prior) > 0
                                THEN ContinuationCount(prior) ELSE Absent
    <2>1. /\ Reservation(d, h, prior).unproductive = prior.unproductive
          /\ Reservation(d, h, prior).continuations = continuations
      BY <1>3 DEF Reservation, Fresh
    <2>2. continuations <= n
      BY <1>1, <1>3, TallyTypes DEF Within
    <2> HIDE DEF continuations
    <2> QED
      BY <1>3, <2>1, <2>2 DEF Within
  <1> QED
    BY <1>2, <1>3, NoneAssumption

\* A completion adds to a tally only when it is the first for its reservation, and to
\* none when the reservation is for another commit.
LEMMA CompletionWithin ==
  ASSUME NEW d \in Dispatches, NEW prior \in Records,
         NEW ok \in BOOLEAN, NEW o \in Observations, prior.head = at[d] \/ o.head = "moved",
         NEW n \in Counts, n >= 1,
         Within(prior, n), prior.status = "pending" => Spendable(prior, n)
  PROVE  Within(Completion(d, prior, ok, o), n)
  <1> DEFINE h == at[d]
             unproductive == UnproductiveAfter(prior, h, ok, o)
             continuations == ContinuationsAfter(prior, h, ok, o)
  <1>1. n \in Nat /\ 0 <= n
    BY BoundsAssumption DEF Counts
  <1>2. /\ prior.unproductive <= n /\ prior.continuations <= n
        /\ ContinuationCount(prior) <= n
        /\ Larger(prior.unproductive, 1) <= n
    BY <1>1, TallyTypes DEF Within, Larger
  <1>3. prior.head = h /\ ~IsReplay(prior, h) =>
          OneMore(prior.unproductive) <= n /\ OneMore(ContinuationCount(prior)) <= n
    BY TallyTypes DEF IsReplay, Spendable
  <1>3a. prior.head # h =>
          Derived(prior, h, o) = "yes" /\ (ok => IncompleteAfter(prior, h, ok, o) = "no")
    BY DEF Derived, IncompleteAfter, IsReplay
  <1>4. unproductive <= n
    BY <1>1, <1>2, <1>3, <1>3a DEF UnproductiveAfter
  <1>5. continuations <= n
    BY <1>1, <1>2, <1>3, <1>4, <1>3a DEF ContinuationsAfter
  <1>6. /\ Completion(d, prior, ok, o).unproductive = unproductive
        /\ Completion(d, prior, ok, o).continuations = continuations
    <2> HIDE DEF unproductive, continuations
    <2>1. \A hd, st, pr, inc, age :
            LET c == [prior EXCEPT !.head = hd, !.status = st, !.productive = pr,
                                   !.unproductive = unproductive,
                                   !.continuations = continuations,
                                   !.incomplete = inc, !.age = age]
            IN  c.unproductive = unproductive /\ c.continuations = continuations
      BY DEF Records
    <2> QED
      BY <2>1 DEF Completion, unproductive, continuations
  <1> HIDE DEF unproductive, continuations
  <1> QED
    BY <1>4, <1>5, <1>6 DEF Within

\* The reservations counted for a commit are never fewer.
LEMMA ReservedGrows ==
  ASSUME DispatchInv, [DispatchNext]_dispatchVars
  PROVE  \A h \in Heads : /\ reserved[h] \in Counts /\ reserved'[h] \in Counts
                          /\ reserved[h] <= reserved'[h]
  <1>1. reserved \in [Heads -> Counts] /\ \A n \in Counts : n <= n
    BY BoundsAssumption DEF DispatchInv, TypeOK, Counts
  <1>2. CASE UNCHANGED reserved
    BY <1>1, <1>2
  <1>3. CASE \E d \in Dispatches : WriteReservation(d) /\ pc[d] = "reserving"
    <2>1. PICK d \in Dispatches : WriteReservation(d) /\ pc[d] = "reserving"
      BY <1>3
    <2>2. at[d] \in Heads /\ reserved' = [reserved EXCEPT ![at[d]] = OneMore(@)]
      BY <2>1 DEF WriteReservation, DispatchInv, DraftInv
    <2> QED
      BY <1>1, <2>2, OneMoreMonotone
  <1>4. CASE \E h, k \in Heads : reserved' = [reserved EXCEPT ![h] = Larger(@, reserved[k])]
    <2>1. PICK h \in Heads, k \in Heads : reserved' = [reserved EXCEPT ![h] = Larger(@, reserved[k])]
      BY <1>4
    <2>2. \A m, n \in Counts : m <= Larger(m, n) /\ Larger(m, n) \in Counts
      BY BoundsAssumption DEF Larger, Counts
    <2> QED
      BY <1>1, <2>1, <2>2
  <1>5. ASSUME NEW d \in Dispatches, NEW ok \in BOOLEAN, NEW o \in Observations, Ends(d, ok, o),
               pc[d] \in {"running", "closed", "failed"}
        PROVE  \/ UNCHANGED reserved
               \/ \E h, k \in Heads : reserved' = [reserved EXCEPT ![h] = Larger(@, reserved[k])]
    <2>1. CASE ~MayComplete(d, slot, o)
      BY <1>5, <2>1 DEF Ends
    <2>2. CASE MayComplete(d, slot, o)
      <3>1. at[d] \in Heads /\ slot.head \in Heads
        BY <1>5, <2>2 DEF MayComplete, DispatchInv, DraftInv, TypeOK, Records
      <3> QED
        BY <1>5, <2>2, <3>1 DEF Ends
    <2> QED
      BY <2>1, <2>2
  <1>6. CASE \E d \in Dispatches, ok \in BOOLEAN, o \in Observations : EndRun(d, ok, o)
    BY <1>2, <1>4, <1>5, <1>6 DEF EndRun
  <1>7. CASE \E d \in Dispatches, o \in Observations : Replay(d, o)
    <2>1. PICK d \in Dispatches, o \in Observations : Replay(d, o)
      BY <1>7
    <2>2. (pc[d] = "closed") \in BOOLEAN
      OBVIOUS
    <2> QED
      BY <1>2, <1>4, <1>5, <2>1, <2>2 DEF Replay
  <1> QED
    BY <1>2, <1>3, <1>6, <1>7 DEF DispatchNext, dispatchVars, StartRun, Evaluate, Skip, Refuse, Grant,
       ReadFails, Reserve, ReserveUnseen, WriteCompletion, Abandon, Push, Tick

\* What is within a number of reservations is within any larger one.
LEMMA WithinMore ==
  ASSUME NEW record \in Records, NEW m \in Counts, NEW n \in Counts, m <= n
  PROVE  /\ Within(record, m) => Within(record, n)
         /\ Spendable(record, m) => Spendable(record, n)
         /\ m >= 1 => n >= 1
  <1>1. m \in Int /\ n \in Int
    BY BoundsAssumption DEF Counts
  <1>2. /\ record.unproductive \in Int /\ OneMore(record.unproductive) \in Int
        /\ record.continuations \in Int /\ OneMore(record.continuations) \in Int
    BY TallyTypes, BoundsAssumption DEF Counts, Absent, OneMore
  <1> QED
    BY <1>1, <1>2 DEF Within, Spendable

\* What a step leaves of a draft stays within what has been counted.
LEMMA DraftsStay ==
  ASSUME DispatchInv, RetryInv, [DispatchNext]_dispatchVars, NEW e \in Dispatches,
         pc'[e] = pc[e], at'[e] = at[e], draft'[e] = draft[e],
         pc[e] \in {"reserving", "closing"}
  PROVE  /\ draft'[e].head = at'[e] /\ Within(draft'[e], reserved'[at'[e]])
         /\ pc'[e] = "closing" => reserved'[at'[e]] >= 1
  <1>1. draft[e] \in Records /\ at[e] \in Heads
    BY DEF DispatchInv, DraftInv
  <1>2. /\ draft[e].head = at[e] /\ Within(draft[e], reserved[at[e]])
        /\ pc[e] = "closing" => reserved[at[e]] >= 1
    BY DEF RetryInv, DraftSpent
  <1>3. /\ reserved[at[e]] \in Counts /\ reserved'[at[e]] \in Counts
        /\ reserved[at[e]] <= reserved'[at[e]]
    BY <1>1, ReservedGrows
  <1>4. Within(draft[e], reserved'[at[e]]) /\ (pc[e] = "closing" => reserved'[at[e]] >= 1)
    BY <1>1, <1>2, <1>3, WithinMore
  <1> QED
    BY <1>2, <1>4

\* What a step leaves of the slot stays within what has been counted.
LEMMA SlotStays ==
  ASSUME DispatchInv, RetryInv, [DispatchNext]_dispatchVars, UNCHANGED slot
  PROVE  Spent'
  <1> SUFFICES ASSUME slot # None PROVE Spent'
    BY DEF Spent
  <1>1. slot \in Records /\ slot.head \in Heads
    BY TallyTypes DEF DispatchInv, TypeOK
  <1>2. /\ reserved[slot.head] \in Counts /\ reserved'[slot.head] \in Counts
        /\ reserved[slot.head] <= reserved'[slot.head]
    BY <1>1, ReservedGrows
  <1>3. /\ Within(slot, reserved'[slot.head])
        /\ slot.run # Past => reserved'[slot.head] >= 1
        /\ slot.run # Past /\ slot.status = "pending" => Spendable(slot, reserved'[slot.head])
    BY <1>1, <1>2, WithinMore DEF RetryInv, Spent
  <1> QED
    BY <1>3 DEF Spent, Within, Spendable

\* A step that leaves the slot asks only about the job that moves.
LEMMA OneJobSpends ==
  ASSUME DispatchInv, RetryInv, [DispatchNext]_dispatchVars, NEW d \in Dispatches,
         UNCHANGED slot,
         \A e \in Dispatches \ {d} : pc'[e] = pc[e] /\ at'[e] = at[e] /\ draft'[e] = draft[e],
         pc'[d] \in {"reserving", "closing"} =>
           /\ draft'[d].head = at'[d] /\ Within(draft'[d], reserved'[at'[d]])
           /\ pc'[d] = "closing" => reserved'[at'[d]] >= 1
  PROVE  RetryInv'
  <1>1. Spent'
    BY SlotStays
  <1>2. DraftSpent'
    BY DraftsStay DEF DraftSpent, Within
  <1> QED
    BY <1>1, <1>2 DEF RetryInv

\* Nothing is tallied before the first reservation.
LEMMA NothingSpentAtFirst == DispatchInit => RetryInv
  <1> SUFFICES ASSUME DispatchInit PROVE RetryInv
    OBVIOUS
  <1>1. slot # None => /\ slot.run = Past /\ slot.unproductive = 0 /\ slot.continuations = Absent
                       /\ slot.head \in Heads
    BY BoundsAssumption DEF DispatchInit, LeftBehind, Heads
  <1>2. Spent
    BY <1>1 DEF DispatchInit, Spent, Within, Absent
  <1>3. DraftSpent
    BY DEF DispatchInit, DraftSpent
  <1> QED
    BY <1>2, <1>3 DEF RetryInv

LEMMA LeavingSpends ==
  ASSUME DispatchInv, RetryInv, [DispatchNext]_dispatchVars, NEW d \in Dispatches, Leaves(d),
         UNCHANGED slot
  PROVE  RetryInv'
  BY Leaving, OneJobSpends DEF DispatchInv

\* A run that starts leaves no reservation its own.
LEMMA StartRunSpends ==
  ASSUME DispatchInv, RetryInv, NEW r \in Runs, StartRun(r)
  PROVE  RetryInv'
  <1>0. UNCHANGED <<at, draft, reserved>>
    BY DEF StartRun
  <1>1. \/ slot' = slot /\ (slot # None => slot.run # r)
        \/ /\ slot # None /\ slot' # None /\ slot'.run = Past
           /\ slot'.head = slot.head /\ slot'.unproductive = slot.unproductive
           /\ slot'.continuations = slot.continuations
    <2>1. CASE slot = None \/ slot.run # r
      BY <2>1 DEF StartRun, Disowned
    <2>2. CASE slot # None /\ slot.run = r
      <3>1. slot \in Records /\ slot' = [slot EXCEPT !.run = Past, !.by = Past]
        BY <2>2 DEF StartRun, Disowned, DispatchInv, TypeOK
      <3>2. slot'.by = Past /\ Past \notin Dispatches
        BY <3>1, Apart DEF Records
      <3>3. slot' \in Records
        BY <3>1 DEF Records, Owners
      <3>4. slot' # None
        BY <3>3, NoneAssumption
      <3> QED
        BY <2>2, <3>1, <3>4 DEF Records
    <2> QED
      BY <2>1, <2>2
  <1>2. \A d \in Dispatches : IF RunOf[d] = r THEN pc[d] = "off" /\ pc'[d] = "queued"
                              ELSE pc'[d] = pc[d]
    BY DEF StartRun
  <1>3. Spent'
    BY <1>0, <1>1 DEF RetryInv, Spent, Within, Spendable
  <1>4. DraftSpent'
    BY <1>0, <1>2 DEF RetryInv, DraftSpent, Within
  <1> QED
    BY <1>3, <1>4 DEF RetryInv

\* A reservation is counted when it is written, so that it may be spent once.
LEMMA ReservingSpends ==
  ASSUME DispatchInv, RetryInv, [DispatchNext]_dispatchVars,
         NEW d \in Dispatches, pc[d] = "reserving", WriteReservation(d),
         pc'[d] \in {"running", "off"},
         \A e \in Dispatches \ {d} : pc'[e] = pc[e] /\ at'[e] = at[e] /\ draft'[e] = draft[e],
         pc'[d] = "running" => at'[d] = at[d]
  PROVE  RetryInv'
  <1> DEFINE h == at[d]
  <1>1. /\ slot' = draft[d] /\ draft[d] \in Records /\ h \in Heads
        /\ draft[d].run = RunOf[d] /\ draft[d].head = h
        /\ Within(draft[d], reserved[h])
        /\ reserved[h] \in Counts /\ reserved'[h] = OneMore(reserved[h])
    BY DEF WriteReservation, DispatchInv, DraftInv, TypeOK, RetryInv, DraftSpent
  <1> HIDE DEF h
  <1>2. Spent'
    <2>1. /\ slot'.head = h /\ slot'.unproductive \in Counts
          /\ slot'.continuations \in Counts \cup {Absent}
      BY <1>1, TallyTypes
    <2>2. Within(slot', OneMore(reserved[h])) /\ Spendable(slot', OneMore(reserved[h]))
      BY <1>1, <2>1, OneMoreMonotone DEF Within, Spendable
    <2>3. OneMore(reserved[h]) >= 1
      BY <1>1, OneMoreMonotone
    <2> QED
      BY <1>1, <2>1, <2>2, <2>3 DEF Spent, Within, Spendable
  <1>3. DraftSpent'
    BY DraftsStay DEF DraftSpent, Within
  <1> QED
    BY <1>2, <1>3 DEF RetryInv

\* A receipt adds to the tallies of a reservation that is not spent yet, or to none.
LEMMA EndsSpends ==
  ASSUME DispatchInv, RetryInv, [DispatchNext]_dispatchVars, NEW d \in Dispatches,
         pc[d] \in {"running", "closed", "failed"},
         NEW ok \in BOOLEAN, NEW o \in Observations, Ends(d, ok, o)
  PROVE  RetryInv'
  <1>1. UNCHANGED slot
    BY DEF Ends
  <1>2. CASE ~MayComplete(d, slot, o)
    BY <1>1, <1>2, LeavingSpends DEF Ends
  <1>3. CASE MayComplete(d, slot, o)
    <2> DEFINE c == Completion(d, slot, ok, o)
               n == Larger(reserved[at[d]], reserved[slot.head])
    <2>1. /\ at[d] \in Heads /\ slot \in Records /\ slot # None /\ slot.run = RunOf[d]
          /\ (slot.head = at[d] \/ o.head = "moved")
      BY <1>3 DEF MayComplete, DispatchInv, DraftInv, TypeOK
    <2>1a. slot.head \in Heads
      BY <2>1, TallyTypes
    <2>2. slot.run # Past
      BY <2>1, RunOfAssumption, DistinctAssumption
    <2>3. reserved[at[d]] \in Counts /\ reserved[slot.head] \in Counts
      BY <2>1, <2>1a DEF DispatchInv, TypeOK
    <2>4. n \in Counts /\ reserved[slot.head] <= n
      BY <2>3, BoundsAssumption DEF Larger, Counts
    <2>5. /\ n >= 1 /\ Within(slot, n)
          /\ slot.status = "pending" => Spendable(slot, n)
      <3>1. /\ Within(slot, reserved[slot.head]) /\ reserved[slot.head] >= 1
            /\ slot.status = "pending" => Spendable(slot, reserved[slot.head])
        BY <2>1, <2>2 DEF RetryInv, Spent
      <3> HIDE DEF n
      <3> QED
        BY <2>1, <2>3, <2>4, <3>1, WithinMore
    <2>6. /\ draft' = [draft EXCEPT ![d] = c] /\ pc' = [pc EXCEPT ![d] = "closing"] /\ at' = at
          /\ reserved' = [reserved EXCEPT ![at[d]] = n]
      BY <1>3 DEF Ends, Goes
    <2> HIDE DEF n
    <2>7. Within(c, n)
      BY <2>1, <2>4, <2>5, CompletionWithin
    <2>8. c.head = at[d]
      BY <2>1 DEF Completion, Records
    <2> HIDE DEF c
    <2>9. /\ pc'[d] = "closing" /\ draft'[d] = c /\ reserved'[at'[d]] = n
          /\ \A e \in Dispatches \ {d} : pc'[e] = pc[e] /\ at'[e] = at[e] /\ draft'[e] = draft[e]
      BY <2>1, <2>6 DEF DispatchInv, TypeOK
    <2> QED
      BY <1>1, <2>5, <2>6, <2>7, <2>8, <2>9, OneJobSpends
  <1> QED
    BY <1>2, <1>3

\* A receipt that is written was within what has been counted when it was computed.
LEMMA WriteCompletionSpends ==
  ASSUME DispatchInv, RetryInv, [DispatchNext]_dispatchVars,
         NEW d \in Dispatches, WriteCompletion(d)
  PROVE  RetryInv'
  <1>1. /\ draft[d] \in Records /\ draft[d].status \in Terminal
        /\ draft[d].head = at[d] /\ Within(draft[d], reserved[at[d]]) /\ reserved[at[d]] >= 1
        /\ pc[d] = "closing"
    BY DEF WriteCompletion, DispatchInv, DraftInv, RetryInv, DraftSpent
  <1>2. /\ pc'[d] \in {"closed", "failed"}
        /\ \A e \in Dispatches \ {d} : pc'[e] = pc[e] /\ at'[e] = at[e] /\ draft'[e] = draft[e]
        /\ UNCHANGED <<at, reserved>>
    BY DEF WriteCompletion, Goes, DispatchInv, TypeOK
  <1>3. CASE slot' = slot
    BY <1>2, <1>3, OneJobSpends
  <1>4. CASE slot' # slot
    <2>1. slot' = draft[d]
      BY <1>4 DEF WriteCompletion
    <2>2. Spent'
      BY <1>1, <1>2, <2>1 DEF Spent, Within, Terminal
    <2>3. DraftSpent'
      BY <1>2, DraftsStay DEF DraftSpent, Within
    <2> QED
      BY <2>2, <2>3 DEF RetryInv
  <1> QED
    BY <1>3, <1>4

LEMMA TickSpends ==
  ASSUME DispatchInv, RetryInv, Tick
  PROVE  RetryInv'
  <1>1. /\ slot # None /\ slot \in Records /\ slot' = [slot EXCEPT !.age = @ + 1]
        /\ UNCHANGED <<pc, at, draft, reserved>>
    BY DEF Tick, Older, DispatchInv, TypeOK
  <1>2. /\ slot'.head = slot.head /\ slot'.run = slot.run /\ slot'.status = slot.status
        /\ slot'.unproductive = slot.unproductive /\ slot'.continuations = slot.continuations
    BY <1>1 DEF Records
  <1>3. Spent'
    BY <1>1, <1>2 DEF RetryInv, Spent, Within, Spendable
  <1>4. DraftSpent'
    BY <1>1 DEF RetryInv, DraftSpent, Within
  <1> QED
    BY <1>3, <1>4 DEF RetryInv

\* A job that is evaluated, and one that is granted an agent.
LEMMA DecidingSpends ==
  ASSUME DispatchInv, RetryInv, [DispatchNext]_dispatchVars, NEW d \in Dispatches,
         Evaluate(d) \/ Grant(d)
  PROVE  RetryInv'
  <1>0. /\ pc \in [Dispatches -> {"off", "queued", "checking", "reserving", "running",
                                  "closing", "closed", "failed"}]
        /\ at \in [Dispatches -> Heads \cup {0}] /\ draft \in [Dispatches -> Records \cup {None}]
        /\ pc[d] \in {"queued", "checking"}
        /\ UNCHANGED <<slot, reserved>>
    BY DEF DispatchInv, TypeOK, Evaluate, Grant
  <1>2. CASE Evaluate(d)
    <2>1. at' = [at EXCEPT ![d] = head] /\ pc' = [pc EXCEPT ![d] = "checking"] /\ draft' = draft
      BY <1>2 DEF Evaluate, Goes
    <2> QED
      BY <1>0, <2>1, OneJobSpends
  <1>3. CASE Grant(d)
    <2> DEFINE r == Reservation(d, at[d], slot)
               n == reserved[at[d]]
    <2>1. at[d] \in Heads /\ slot \in Records \cup {None} /\ n \in Counts
      BY <1>3 DEF Grant, DispatchInv, DraftInv, TypeOK
    <2>2. slot # None /\ slot.head = at[d] => Within(slot, n)
      BY DEF RetryInv, Spent
    <2>3. Within(r, n) /\ r.head = at[d]
      BY <2>1, <2>2, ReservationWithin, ReservationIsOwn
    <2>4. draft' = [draft EXCEPT ![d] = r] /\ pc' = [pc EXCEPT ![d] = "reserving"] /\ at' = at
      BY <1>3 DEF Grant, Goes
    <2> HIDE DEF r, n
    <2>5. /\ pc'[d] = "reserving" /\ draft'[d] = r
          /\ \A e \in Dispatches \ {d} : pc'[e] = pc[e] /\ at'[e] = at[e] /\ draft'[e] = draft[e]
      BY <1>0, <2>4
    <2> QED
      BY <1>0, <2>3, <2>4, <2>5, OneJobSpends DEF n
  <1> QED
    BY <1>2, <1>3

LEMMA RetryStep ==
  DispatchInv /\ RetryInv /\ [DispatchNext]_dispatchVars => RetryInv'
  <1> SUFFICES ASSUME DispatchInv, RetryInv, [DispatchNext]_dispatchVars
               PROVE  RetryInv'
    OBVIOUS
  <1>1. CASE \E r \in Runs : StartRun(r)
    BY <1>1, StartRunSpends
  <1>2. CASE \E d \in Dispatches : Evaluate(d) \/ Grant(d)
    BY <1>2, DecidingSpends
  <1>3. CASE \E d \in Dispatches : Skip(d) \/ Refuse(d) \/ ReadFails(d) \/ Abandon(d)
    BY <1>3, LeavingSpends DEF Skip, Refuse, ReadFails, Abandon
  <1>4. ASSUME NEW d \in Dispatches, Reserve(d)
        PROVE  RetryInv'
    <2>1. /\ pc[d] = "reserving" /\ WriteReservation(d)
          /\ draft' = [draft EXCEPT ![d] = None] /\ pc' = [pc EXCEPT ![d] = "running"] /\ at' = at
      BY <1>4 DEF Reserve, Goes
    <2>2. /\ pc'[d] = "running"
          /\ \A e \in Dispatches \ {d} : pc'[e] = pc[e] /\ at'[e] = at[e] /\ draft'[e] = draft[e]
      BY <2>1 DEF DispatchInv, TypeOK
    <2> QED
      BY <2>1, <2>2, ReservingSpends
  <1>5. ASSUME NEW d \in Dispatches, ReserveUnseen(d)
        PROVE  RetryInv'
    <2>1. pc[d] = "reserving" /\ Leaves(d)
      BY <1>5 DEF ReserveUnseen
    <2>2. CASE WriteReservation(d)
      BY <2>1, <2>2, Leaving, ReservingSpends DEF DispatchInv
    <2>3. CASE UNCHANGED <<slot, reserved, overtaken>>
      BY <2>1, <2>3, LeavingSpends
    <2> QED
      BY <1>5, <2>2, <2>3 DEF ReserveUnseen
  <1>6. CASE \E d \in Dispatches, ok \in BOOLEAN, o \in Observations : EndRun(d, ok, o)
    BY <1>6, EndsSpends DEF EndRun
  <1>7. CASE \E d \in Dispatches, o \in Observations : Replay(d, o)
    <2>1. PICK d \in Dispatches, o \in Observations : Replay(d, o)
      BY <1>7
    <2>2. (pc[d] = "closed") \in BOOLEAN
      OBVIOUS
    <2> QED
      BY <2>1, <2>2, EndsSpends DEF Replay
  <1>8. CASE \E d \in Dispatches : WriteCompletion(d)
    BY <1>8, WriteCompletionSpends
  <1>9. CASE Push \/ UNCHANGED dispatchVars
    BY <1>9 DEF Push, dispatchVars, RetryInv, Spent, DraftSpent, Within, Spendable
  <1>10. CASE Tick
    BY <1>10, TickSpends
  <1> QED
    BY <1>1, <1>2, <1>3, <1>4, <1>5, <1>6, <1>7, <1>8, <1>9, <1>10 DEF DispatchNext

\* A reservation spends one retry at most, however often its completion is repeated and
\* whichever job of its run records it.
THEOREM ReservationSpendsOneRetry == DispatchSpec => []OneRetryEach
  <1>1. RetryInv => OneRetryEach
    BY DEF RetryInv, Spent, Within, OneRetryEach
  <1>2. DispatchInv /\ RetryInv /\ [DispatchNext]_dispatchVars => RetryInv'
    BY RetryStep
  <1> QED
    BY <1>1, <1>2, NothingSpentAtFirst, DispatchInvariant, PTL DEF DispatchSpec

------------------------------------------------------------------------------
(* Completions and running siblings *)

\* No two jobs share a workflow run.
OneJobPerRun == \A d, e \in Dispatches : RunOf[d] = RunOf[e] => d = e

\* Where no two jobs share a workflow run, no completion closes the reservation of
\* a running job: sharing a run is the only way it happens.
THEOREM PendingOwnerStays ==
  ASSUME OneJobPerRun
  PROVE  DispatchSpec => PendingOwnerKept
  <1>1. DispatchInv /\ [DispatchNext]_dispatchVars =>
          [\A d \in Dispatches :
             /\ slot # None /\ slot.by = d /\ slot.status = "pending"
             /\ pc[d] = "running"
             => ~(slot'.by = d /\ slot'.status # "pending")]_dispatchVars
    <2> SUFFICES ASSUME DispatchInv, [DispatchNext]_dispatchVars, NEW d \in Dispatches,
                        slot # None, slot.by = d, slot.status = "pending", pc[d] = "running",
                        slot'.by = d, slot'.status # "pending"
                 PROVE  FALSE
      OBVIOUS
    <2>1. slot' # slot
      OBVIOUS
    <2>2. PICK e \in Dispatches : WriteCompletion(e) /\ slot.run = RunOf[e]
      BY <2>1, SlotSteps
    <2>3. slot.run = RunOf[d]
      BY DEF DispatchInv, SlotInv, Named
    <2>4. e = d
      BY <2>2, <2>3 DEF OneJobPerRun
    <2> QED
      BY <2>2, <2>4 DEF WriteCompletion
  <1> QED
    BY <1>1, DispatchInvariant, PTL DEF DispatchSpec, PendingOwnerKept
==============================================================================
