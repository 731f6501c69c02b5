----------------------------- MODULE Revisions -----------------------------
(***************************************************************************)
(* The revision loop around one feedback record, one revision action of it *)
(* and one work product of a transfer case, under concurrent requests:     *)
(* revision requests are created, submitted, resolved and superseded       *)
(* (feedback/repository.py, feedback/api.py, ui/feedback.py), and the work *)
(* product is scored, asked to be revised and scored again                 *)
(* (cases/repository.py).                                                  *)
(*                                                                         *)
(* A request is a transaction that reads, and later writes and commits:    *)
(* its guards are evaluated on rows as they were read.  Only scoring locks *)
(* the row it decides on, so that it is one step.  The database is         *)
(* external: reads see committed rows, and an update overwrites exactly    *)
(* the columns whose new value differs from the loaded one.                *)
(*                                                                         *)
(* What a submission or a resolution schedules is in ReviewLoop; the       *)
(* notes, times and scheduler hook kept beside a status are left out, and  *)
(* so are work products without a rubric, which are never scored.          *)
(***************************************************************************)
EXTENDS Naturals, Sequences, FiniteSets

CONSTANTS
    Txns,           \* concurrent requests
    LinkSets,       \* what a revision request may be linked to
    MaxRequests,    \* bound: revision requests stored
    MaxScores       \* bound: scores the work product is given

Links == {"record", "action", "product", "prompt"}

\* Linked to something; "prompt" alone is a prompt with an original attempt.
ASSUME LinkSetsAssumption == LinkSets \subseteq (SUBSET Links) \ {{}}

\* Finitely many requests are under way at once.
ASSUME TxnsAssumption == IsFiniteSet(Txns)

ASSUME BoundsAssumption == MaxRequests \in Nat /\ MaxScores \in Nat

VARIABLES
    requests,   \* revision requests, in commit order
    action,     \* status of the feedback action
    product,    \* the work product: its status, and its score or 0
    scores,     \* what became of each score given, and of its evidence
    txn         \* request -> what its transaction has read

vars == <<requests, action, product, scores, txn>>

Statuses == {"open", "submitted", "accepted", "closed", "superseded"}
Outcomes == {"accepted", "closed"}
ActionStatuses == {"open", "in-progress", "completed", "dismissed"}
ProductStatuses == {"draft", "submitted", "scored", "revision-requested"}

\* revised says that revised_attempt_id names an attempt.
Rows == [links : SUBSET Links, status : Statuses, revised : BOOLEAN]
Ids == 1..MaxRequests
NotRead == "not read"

\* seen holds the statuses of the rows a transaction decides on.
Seen == [Ids -> Statuses \cup {NotRead}]
Idle == [op |-> "idle"]
Creations == [op : {"create"}, links : SUBSET Links, submits : BOOLEAN, seen : Seen,
              action : ActionStatuses \cup {NotRead}, product : ProductStatuses \cup {NotRead}]
Submissions == [op : {"submit"}, request : Ids, seen : Seen]
Resolutions == [op : {"resolve"}, request : Ids, outcome : Outcomes, seen : Seen,
                action : ActionStatuses \cup {NotRead}]

\* Rows are of existing kinds, ids refer to stored rows, bounds are kept.
TypeOK ==
    /\ requests \in Seq(Rows) /\ Len(requests) <= MaxRequests
    /\ action \in ActionStatuses
    /\ product \in [status : ProductStatuses, score : Nat]
    /\ scores \in Seq({"stored", "deleted"})
    /\ txn \in [Txns -> {Idle} \cup Creations \cup Submissions \cup Resolutions]

Init ==
    /\ requests = <<>>
    /\ action = "open"
    /\ product \in [status : {"draft", "submitted"}, score : {0}]
    /\ scores = <<>>
    /\ txn = [t \in Txns |-> Idle]
-----------------------------------------------------------------------------
\* Mutant: what is open can be accepted.
TransitionsAccepting ==
    [open       |-> {"submitted", "accepted", "closed", "superseded"},
     submitted  |-> {"accepted", "closed", "superseded"},
     accepted   |-> {},
     closed     |-> {},
     superseded |-> {}]

\* _REVISION_REQUEST_TRANSITIONS
Transitions ==
    [open       |-> {"submitted", "closed", "superseded"},
     submitted  |-> {"accepted", "closed", "superseded"},
     accepted   |-> {},
     closed     |-> {},
     superseded |-> {}]

See(S) == [i \in Ids |-> IF i \in S THEN requests[i].status ELSE NotRead]
Read(value, links, link) == IF link \in links THEN value ELSE NotRead

\* The value an UPDATE leaves in a column.
Column(new, loaded, stored) == IF new = loaded THEN stored ELSE new

\* Requests of the feedback record in one of the statuses.
OfRecord(statuses) ==
    {i \in DOMAIN requests : "record" \in requests[i].links /\ requests[i].status \in statuses}

Begin(t, r) ==
    /\ txn[t] = Idle
    /\ txn' = [txn EXCEPT ![t] = r]
    /\ UNCHANGED <<requests, action, product, scores>>

\* Mutant: a creation supersedes only what was submitted.
BeginCreateOverSubmitted(t, links, submits) ==
    /\ submits => links \cap {"prompt", "product"} # {}
    /\ LET prior == IF "record" \in links THEN OfRecord({"submitted"}) ELSE {}
       IN  Begin(t, [op |-> "create", links |-> links, submits |-> submits, seen |-> See(prior),
                     action |-> Read(action, links, "action"),
                     product |-> Read(product.status, links, "product")])

\* create_revision_request reads the rows it is linked to and lists the requests
\* of the record it supersedes.  A submission needs a prompt.
BeginCreate(t, links, submits) ==
    /\ submits => links \cap {"prompt", "product"} # {}
    /\ LET prior == IF "record" \in links THEN OfRecord({"open", "submitted"}) ELSE {}
       IN  Begin(t, [op |-> "create", links |-> links, submits |-> submits, seen |-> See(prior),
                     action |-> Read(action, links, "action"),
                     product |-> Read(product.status, links, "product")])

\* Mutant: no check of the transition.
BeginSubmitAnytime(t, i) ==
    /\ requests[i].links \cap {"prompt", "product"} # {}
    /\ Begin(t, [op |-> "submit", request |-> i, seen |-> See({i})])

\* submit_revision_request
BeginSubmit(t, i) ==
    /\ "submitted" \in Transitions[requests[i].status]
    /\ requests[i].links \cap {"prompt", "product"} # {}
    /\ Begin(t, [op |-> "submit", request |-> i, seen |-> See({i})])

\* learner_revision_submit_route reuses an open request of the record; which
\* of several is newest by its clock is left open.  Else it creates one.
Revise(t, links) ==
    \/ \E i \in OfRecord({"open"}) : BeginSubmit(t, i)
    \/ /\ OfRecord({"open"}) = {}
       /\ BeginCreate(t, links, TRUE)

\* resolve_revision_request
BeginResolve(t, i, outcome) ==
    /\ outcome \in Transitions[requests[i].status]
    /\ Begin(t, [op |-> "resolve", request |-> i, outcome |-> outcome, seen |-> See({i}),
                 action |-> Read(action, requests[i].links, "action")])

\* Mutant: the creation supersedes every request of the record it finds when
\* it has inserted its own.
InsertedSupersedingAll(seen, new) ==
    LET all == Append(requests, new)
    IN  [i \in DOMAIN all |-> IF i \in OfRecord({"open", "submitted"}) \/ i > Len(requests)
                             THEN [all[i] EXCEPT !.status = "superseded"] ELSE all[i]]

\* The requests it has listed are superseded, whatever became of them.
Inserted(seen, new) ==
    Append([i \in DOMAIN requests |->
               IF seen[i] # NotRead THEN [requests[i] EXCEPT !.status = "superseded"]
               ELSE requests[i]],
           new)

\* The rest of create_revision_request, followed by the submission of the
\* route that revises.
CommitCreate(t) ==
    LET r == txn[t]
        new == [links   |-> r.links,
                status  |-> IF r.submits THEN "submitted" ELSE "open",
                revised |-> r.submits]
    IN  /\ txn[t].op = "create"
        /\ Len(requests) < MaxRequests
        /\ requests' = Inserted(r.seen, new)
        /\ action' = IF "action" \in r.links
                     THEN Column("in-progress", r.action, action) ELSE action
        /\ product' = IF "product" \in r.links
                      THEN [product EXCEPT !.status =
                               Column("revision-requested", r.product, product.status)]
                      ELSE product
        /\ txn' = [txn EXCEPT ![t] = Idle]
        /\ UNCHANGED scores

Submitted(row) == [links |-> row.links, status |-> "submitted", revised |-> TRUE]

\* The rest of submit_revision_request: a new attempt, whatever the row holds by now.
CommitSubmit(t) ==
    LET i == txn[t].request
    IN  /\ txn[t].op = "submit"
        /\ requests' = [requests EXCEPT ![i] = Submitted(@)]
        /\ txn' = [txn EXCEPT ![t] = Idle]
        /\ UNCHANGED <<action, product, scores>>

\* Mutant: the action takes the outcome for its status.
VerdictVerbatim(outcome) == outcome

\* The verdict a resolution passes on to the feedback action.
Verdict(outcome) == IF outcome = "accepted" THEN "completed" ELSE "dismissed"

\* The rest of resolve_revision_request.
CommitResolve(t) ==
    LET r == txn[t]
        i == r.request
    IN  /\ txn[t].op = "resolve"
        /\ requests' = [requests EXCEPT ![i].status = r.outcome]
        /\ action' = IF "action" \in requests[i].links
                     THEN Column(Verdict(r.outcome), r.action, action) ELSE action
        /\ txn' = [txn EXCEPT ![t] = Idle]
        /\ UNCHANGED <<product, scores>>

\* Mutant: the prior score stays.
WithPrior == scores

\* The score a revision supersedes is deleted with its evidence.
WithoutPrior ==
    [k \in DOMAIN scores |-> IF k = product.score THEN "deleted" ELSE scores[k]]

\* Mutant: any product can be scored again.
ScoreAnytime ==
    /\ Len(scores) < MaxScores
    /\ scores' = Append(WithoutPrior, "stored")
    /\ product' = [status |-> "scored", score |-> Len(scores) + 1]
    /\ UNCHANGED <<requests, action, txn>>

\* score_work_product, on the row read again under its lock.
ScoreProduct ==
    /\ product.status \in {"draft", "submitted", "revision-requested"}
    /\ Len(scores) < MaxScores
    /\ scores' = Append(WithoutPrior, "stored")
    /\ product' = [status |-> "scored", score |-> Len(scores) + 1]
    /\ UNCHANGED <<requests, action, txn>>

\* A scheduling error, a lost connection.
Rollback(t) ==
    /\ txn[t] # Idle
    /\ txn' = [txn EXCEPT ![t] = Idle]
    /\ UNCHANGED <<requests, action, product, scores>>

Request(t) ==
    \/ \E links \in LinkSets : BeginCreate(t, links, FALSE)
    \/ Revise(t, {"record", "prompt"})
    \/ \E i \in DOMAIN requests : BeginSubmit(t, i)
    \/ \E i \in DOMAIN requests, outcome \in Outcomes : BeginResolve(t, i, outcome)
    \/ CommitCreate(t)
    \/ CommitSubmit(t)
    \/ CommitResolve(t)
    \/ Rollback(t)

Next ==
    \/ \E t \in Txns : Request(t)
    \/ ScoreProduct

Spec == Init /\ [][Next]_vars
-----------------------------------------------------------------------------
\* A status changes against the table of transitions only at the hand of a
\* request whose own copy of the row another one has overtaken meanwhile: the
\* guards miss nothing but what happens between their read and their write.
Overtaken(t, i) ==
    txn[t] # Idle /\ txn[t].seen[i] \notin {NotRead, requests[i].status}

LegalUnlessOvertaken ==
    [][\A i \in DOMAIN requests :
          requests'[i].status \in {requests[i].status} \cup Transitions[requests[i].status]
          \/ \E t \in Txns : Overtaken(t, i) /\ txn'[t] = Idle]_vars

\* Overlapping creations leave several open requests of a record, but never
\* more than requests overlap: a retry after an answer does not pile them up.
OpenBounded == Cardinality(OfRecord({"open"})) <= Cardinality(Txns)

\* The newest request of a record is never superseded: there is no way to
\* supersede the whole loop and leave the learner without a request.
NewestKept ==
    \A i \in DOMAIN requests :
        "record" \in requests[i].links /\ requests[i].status = "superseded"
        => \E j \in DOMAIN requests : j > i /\ "record" \in requests[j].links

\* What is accepted was revised, even if the acceptance was overtaken.
AcceptedRevised ==
    \A i \in DOMAIN requests : requests[i].status = "accepted" => requests[i].revised

\* A revision action is completed only where a revision was recorded for one
\* of its requests, however stale the copies that verdicts are written from.
CompletedRevised ==
    action = "completed" =>
        \E i \in DOMAIN requests : "action" \in requests[i].links /\ requests[i].revised

\* A work product has one score with its evidence, the one it points to.
SoleScore == {k \in DOMAIN scores : scores[k] = "stored"} = {product.score} \ {0}

\* A score is replaced only when a revision was asked for since it was given.
RescoredOnRequest ==
    [][product.score # 0 /\ product'.score # product.score
       => product.status = "revision-requested"]_vars
=============================================================================
