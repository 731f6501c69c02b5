-------------------------- MODULE RevisionsProofs --------------------------
(***************************************************************************)
(* What holds of revision requests and scores for any number of requests,  *)
(* overlapping transactions and links.  A transaction that has yet to      *)
(* write decides on rows which others change meanwhile, so the invariant   *)
(* says what no other transaction takes from it: a row keeps its links and *)
(* its revised attempt, and no row goes away.                              *)
(***************************************************************************)
EXTENDS Revisions, FiniteSetTheorems, SequenceTheorems, TLAPS

Has(i, link) == link \in requests[i].links

\* What a creation lists are requests of the record it is linked to.
ListedOfRecord ==
    \A t \in Txns : txn[t].op = "create" =>
        \A i \in Ids : txn[t].seen[i] # NotRead =>
            i \in 1..Len(requests) /\ Has(i, "record") /\ "record" \in txn[t].links

\* A submission or a resolution is of a stored request.
TargetStored ==
    \A t \in Txns : txn[t].op \in {"submit", "resolve"} => txn[t].request \in 1..Len(requests)

\* An acceptance is of a request with a revised attempt.
AcceptsRevised ==
    \A t \in Txns : txn[t].op = "resolve" =>
        (txn[t].outcome = "accepted" => requests[txn[t].request].revised)

\* What was submitted has its attempt.
SubmittedRevised ==
    \A i \in DOMAIN requests : requests[i].status = "submitted" => requests[i].revised

\* A product that was not yet asked to be revised or scored has no score.
FreshUnscored == product.status \in {"draft", "submitted"} => product.score = 0

IInv ==
    /\ TypeOK
    /\ ListedOfRecord
    /\ TargetStored
    /\ AcceptsRevised
    /\ SubmittedRevised
    /\ NewestKept
    /\ AcceptedRevised
    /\ CompletedRevised
    /\ SoleScore
    /\ FreshUnscored
-----------------------------------------------------------------------------
\* Requests are numbered from 1, and every number is an id.
LEMMA RequestIds ==
    ASSUME TypeOK
    PROVE  /\ Len(requests) \in Nat
           /\ DOMAIN requests = 1..Len(requests)
           /\ \A i \in 1..Len(requests) : i \in Ids /\ requests[i] \in Rows
  BY LenProperties, ElementOfSeq, BoundsAssumption DEF TypeOK, Ids

\* The rows of requests outlive a step: none goes away, none loses its links
\* or its revised attempt.
Outlive ==
    /\ Len(requests) <= Len(requests')
    /\ \A i \in 1..Len(requests) :
          /\ requests'[i].links = requests[i].links
          /\ requests[i].revised => requests'[i].revised

\* Transactions that take no step keep what they have established.
LEMMA OthersKeep ==
    ASSUME IInv, TypeOK', Outlive, NEW t \in Txns,
           \A u \in Txns : u # t => txn'[u] = txn[u]
    PROVE  /\ \A u \in Txns : u # t /\ txn'[u].op = "create" =>
                 \A i \in Ids : txn'[u].seen[i] # NotRead =>
                    i \in 1..Len(requests') /\ Has(i, "record")' /\ "record" \in txn'[u].links
           /\ \A u \in Txns : u # t /\ txn'[u].op \in {"submit", "resolve"} =>
                 txn'[u].request \in 1..Len(requests')
           /\ \A u \in Txns : u # t /\ txn'[u].op = "resolve" =>
                 (txn'[u].outcome = "accepted" => requests'[txn'[u].request].revised)
  <1>1. Len(requests) \in Nat /\ Len(requests') \in Nat /\ Len(requests) <= Len(requests')
    BY LenProperties DEF TypeOK, IInv, Outlive
  <1>2. 1..Len(requests) \subseteq 1..Len(requests')
    BY <1>1
  <1>3. ASSUME NEW u \in Txns, u # t, txn'[u].op = "create",
               NEW i \in Ids, txn'[u].seen[i] # NotRead
        PROVE  i \in 1..Len(requests') /\ Has(i, "record")' /\ "record" \in txn'[u].links
    <2>1. txn'[u] = txn[u]
      BY <1>3
    <2>2. i \in 1..Len(requests) /\ Has(i, "record") /\ "record" \in txn[u].links
      BY <1>3, <2>1 DEF IInv, ListedOfRecord
    <2> QED
      BY <2>1, <2>2, <1>2 DEF Has, Outlive
  <1>4. ASSUME NEW u \in Txns, u # t, txn'[u].op \in {"submit", "resolve"}
        PROVE  txn'[u] = txn[u] /\ txn[u].request \in 1..Len(requests)
    BY <1>4 DEF IInv, TargetStored
  <1>5. ASSUME NEW u \in Txns, u # t, txn'[u].op = "resolve", txn'[u].outcome = "accepted"
        PROVE  requests'[txn'[u].request].revised
    <2>1. txn'[u] = txn[u] /\ txn[u].request \in 1..Len(requests)
      BY <1>5, <1>4
    <2>2. requests[txn[u].request].revised
      BY <2>1, <1>5 DEF IInv, AcceptsRevised
    <2> QED
      BY <2>1, <2>2 DEF Outlive
  <1> QED
    BY <1>2, <1>3, <1>4, <1>5

\* A transaction that ends has nothing left to establish.
LEMMA EndKeeps ==
    ASSUME IInv, TypeOK', Outlive, NEW t \in Txns, txn' = [txn EXCEPT ![t] = Idle]
    PROVE  ListedOfRecord' /\ TargetStored' /\ AcceptsRevised'
  <1>1. txn'[t] = Idle /\ \A u \in Txns : u # t => txn'[u] = txn[u]
    BY DEF IInv, TypeOK
  <1>2. txn'[t].op = "idle"
    BY <1>1 DEF Idle
  <1> QED
    BY <1>1, <1>2, OthersKeep DEF ListedOfRecord, TargetStored, AcceptsRevised, Has

\* What a transaction has read when it begins it has established.
LEMMA BeginKeeps ==
    ASSUME IInv, NEW t \in Txns, NEW r \in Creations \cup Submissions \cup Resolutions,
           Begin(t, r),
           r.op = "create" => \A i \in Ids : r.seen[i] # NotRead =>
               i \in 1..Len(requests) /\ Has(i, "record") /\ "record" \in r.links,
           r.op \in {"submit", "resolve"} => r.request \in 1..Len(requests),
           r.op = "resolve" => (r.outcome = "accepted" => requests[r.request].revised)
    PROVE  IInv'
  <1>1. /\ UNCHANGED <<requests, action, product, scores>>
        /\ txn'[t] = r /\ \A u \in Txns : u # t => txn'[u] = txn[u]
    BY DEF Begin, IInv, TypeOK
  <1>2. TypeOK'
    BY <1>1 DEF Begin, IInv, TypeOK
  <1>3. Outlive
    BY <1>1, LenProperties DEF Outlive, IInv, TypeOK
  <1>4. ListedOfRecord' /\ TargetStored' /\ AcceptsRevised'
    BY <1>1, <1>2, <1>3, OthersKeep DEF ListedOfRecord, TargetStored, AcceptsRevised, Has
  <1>5. SubmittedRevised' /\ NewestKept' /\ AcceptedRevised' /\ CompletedRevised' /\ SoleScore' /\ FreshUnscored'
    BY <1>1 DEF IInv, SubmittedRevised, NewestKept, AcceptedRevised, CompletedRevised, SoleScore, FreshUnscored
  <1> QED
    BY <1>2, <1>4, <1>5 DEF IInv

\* A transaction sees the statuses of stored requests.
LEMMA SeeType ==
    ASSUME TypeOK, NEW S, S \subseteq 1..Len(requests)
    PROVE  /\ See(S) \in Seen
           /\ \A i \in Ids : See(S)[i] # NotRead => i \in S
  BY RequestIds DEF See, Seen, Rows

\* A creation begins with a list of requests of its record.
LEMMA BeginCreateKeeps ==
    ASSUME IInv, NEW t \in Txns, NEW links \in SUBSET Links, NEW submits \in BOOLEAN,
           BeginCreate(t, links, submits)
    PROVE  IInv'
  <1> DEFINE prior == IF "record" \in links THEN OfRecord({"open", "submitted"}) ELSE {}
             r == [op |-> "create", links |-> links, submits |-> submits, seen |-> See(prior),
                   action |-> Read(action, links, "action"),
                   product |-> Read(product.status, links, "product")]
  <1>1. TypeOK
    BY DEF IInv
  <1>2. prior \subseteq 1..Len(requests)
    BY <1>1, RequestIds DEF OfRecord
  <1>3. \A i \in prior : Has(i, "record") /\ "record" \in links
    BY DEF OfRecord, Has
  <1>4. See(prior) \in Seen /\ \A i \in Ids : See(prior)[i] # NotRead => i \in prior
    BY <1>1, <1>2, SeeType
  <1>5. Begin(t, r)
    BY DEF BeginCreate
  <1>6. /\ Read(action, links, "action") \in ActionStatuses \cup {NotRead}
        /\ Read(product.status, links, "product") \in ProductStatuses \cup {NotRead}
    BY <1>1 DEF Read, TypeOK
  <1> HIDE DEF prior
  <1>7. r \in Creations /\ r.op = "create" /\ r.seen = See(prior) /\ r.links = links
    BY <1>4, <1>6 DEF Creations
  <1> HIDE DEF r
  <1> QED
    BY <1>2, <1>3, <1>4, <1>5, <1>7, BeginKeeps

\* A submission begins with a request it may submit.
LEMMA BeginSubmitKeeps ==
    ASSUME IInv, NEW t \in Txns, NEW i \in DOMAIN requests, BeginSubmit(t, i)
    PROVE  IInv'
  <1> DEFINE r == [op |-> "submit", request |-> i, seen |-> See({i})]
  <1>1. i \in 1..Len(requests) /\ i \in Ids
    BY RequestIds DEF IInv
  <1>2. See({i}) \in Seen
    BY <1>1, SeeType DEF IInv
  <1>3. Begin(t, r)
    BY DEF BeginSubmit
  <1>4. r \in Submissions /\ r.op = "submit" /\ r.request = i
    BY <1>1, <1>2 DEF Submissions
  <1> HIDE DEF r
  <1> QED
    BY <1>1, <1>3, <1>4, BeginKeeps

\* Only what was submitted can be accepted.
LEMMA AcceptanceAfterSubmission ==
    ASSUME NEW status \in Statuses, "accepted" \in Transitions[status]
    PROVE  status = "submitted"
  BY DEF Transitions, Statuses

\* A resolution begins with a request it may resolve, which has its revised
\* attempt if the resolution accepts it.
LEMMA BeginResolveKeeps ==
    ASSUME IInv, NEW t \in Txns, NEW i \in DOMAIN requests, NEW outcome \in Outcomes,
           BeginResolve(t, i, outcome)
    PROVE  IInv'
  <1> DEFINE r == [op |-> "resolve", request |-> i, outcome |-> outcome, seen |-> See({i}),
                   action |-> Read(action, requests[i].links, "action")]
  <1>1. i \in 1..Len(requests) /\ i \in Ids /\ requests[i].status \in Statuses
    BY RequestIds DEF IInv, Rows
  <1>2. See({i}) \in Seen
    BY <1>1, SeeType DEF IInv
  <1>3. Begin(t, r)
    BY DEF BeginResolve
  <1>4. Read(action, requests[i].links, "action") \in ActionStatuses \cup {NotRead}
    BY DEF Read, IInv, TypeOK
  <1>5. r \in Resolutions /\ r.op = "resolve" /\ r.request = i /\ r.outcome = outcome
    BY <1>1, <1>2, <1>4 DEF Resolutions
  <1>6. outcome = "accepted" => requests[i].revised
    BY <1>1, AcceptanceAfterSubmission DEF BeginResolve, IInv, SubmittedRevised
  <1> HIDE DEF r
  <1> QED
    BY <1>1, <1>3, <1>5, <1>6, BeginKeeps
-----------------------------------------------------------------------------
\* What the creation of a request leaves of the rows before it.
LEMMA InsertedRows ==
    ASSUME TypeOK, Len(requests) < MaxRequests, NEW seen \in Seen, NEW new \in Rows,
           requests' = Inserted(seen, new)
    PROVE  /\ requests' \in Seq(Rows)
           /\ Len(requests') = Len(requests) + 1
           /\ requests'[Len(requests) + 1] = new
           /\ \A i \in 1..Len(requests) :
                 /\ requests'[i].links = requests[i].links
                 /\ requests'[i].revised = requests[i].revised
                 /\ requests'[i].status =
                       IF seen[i] # NotRead THEN "superseded" ELSE requests[i].status
  <1> DEFINE Row(i) == IF seen[i] # NotRead THEN [requests[i] EXCEPT !.status = "superseded"]
                       ELSE requests[i]
             prior == [i \in 1..Len(requests) |-> Row(i)]
  <1>1. \A i \in 1..Len(requests) :
           /\ Row(i) \in Rows
           /\ Row(i).links = requests[i].links
           /\ Row(i).revised = requests[i].revised
           /\ Row(i).status = IF seen[i] # NotRead THEN "superseded" ELSE requests[i].status
    <2> TAKE i \in 1..Len(requests)
    <2>1. requests[i] \in Rows
      BY RequestIds
    <2>2. CASE seen[i] # NotRead
      <3>1. Row(i) = [requests[i] EXCEPT !.status = "superseded"]
        BY <2>2
      <3> QED
        BY <2>1, <2>2, <3>1 DEF Rows, Statuses
    <2>3. CASE seen[i] = NotRead
      BY <2>1, <2>3
    <2> QED
      BY <2>2, <2>3
  <1>2. Len(requests) \in Nat /\ DOMAIN requests = 1..Len(requests)
    BY RequestIds
  <1> HIDE DEF Row
  <1>3. prior \in Seq(Rows) /\ Len(prior) = Len(requests)
    BY <1>1, <1>2
  <1>4. requests' = Append(prior, new)
    BY <1>2 DEF Inserted, Row
  <1>5. \A i \in 1..Len(requests) : prior[i] = Row(i)
    OBVIOUS
  <1> HIDE DEF prior
  <1>6. /\ requests' \in Seq(Rows)
        /\ Len(requests') = Len(requests) + 1
        /\ requests'[Len(requests) + 1] = new
        /\ \A i \in 1..Len(requests) : requests'[i] = prior[i]
    BY <1>2, <1>3, <1>4
  <1> QED
    BY <1>1, <1>5, <1>6

\* What an update of one row leaves of the requests.
LEMMA UpdatedRow ==
    ASSUME TypeOK, NEW i \in 1..Len(requests), NEW row \in Rows,
           requests' = [requests EXCEPT ![i] = row]
    PROVE  /\ requests' \in Seq(Rows)
           /\ Len(requests') = Len(requests)
           /\ requests'[i] = row
           /\ \A j \in 1..Len(requests) : j # i => requests'[j] = requests[j]
  <1>1. requests \in Seq(Rows) /\ Len(requests) \in Nat
    BY RequestIds DEF TypeOK
  <1> QED
    BY <1>1, ExceptSeq

\* The operation tells the kind of a transaction.
LEMMA Kinds ==
    ASSUME TypeOK, NEW t \in Txns
    PROVE  /\ txn[t].op = "create" => txn[t] \in Creations
           /\ txn[t].op = "submit" => txn[t] \in Submissions
           /\ txn[t].op = "resolve" => txn[t] \in Resolutions
  BY DEF TypeOK, Idle, Creations, Submissions, Resolutions

\* An update writes the new value or leaves the stored one.
LEMMA ColumnValue ==
    \A new, loaded, stored : Column(new, loaded, stored) \in {new, stored}
  BY DEF Column

\* A creation keeps the invariant: what it supersedes has a newer request.
LEMMA CommitCreateKeeps ==
    ASSUME IInv, NEW t \in Txns, CommitCreate(t)
    PROVE  IInv'
  <1> DEFINE r == txn[t]
             new == [links   |-> r.links,
                     status  |-> IF r.submits THEN "submitted" ELSE "open",
                     revised |-> r.submits]
             n == Len(requests)
  <1>0. TypeOK
    BY DEF IInv
  <1>1. r \in Creations /\ r.op = "create"
    BY <1>0, Kinds DEF CommitCreate
  <1>2. /\ new \in Rows
        /\ new.links = r.links
        /\ new.status = IF r.submits THEN "submitted" ELSE "open"
        /\ new.revised = r.submits
    BY <1>1 DEF Creations, Rows, Statuses
  <1>3. n < MaxRequests /\ requests' = Inserted(r.seen, new) /\ r.seen \in Seen
    BY <1>1 DEF CommitCreate, Creations
  <1>4. /\ txn' = [txn EXCEPT ![t] = Idle]
        /\ UNCHANGED scores
        /\ action' \in {"in-progress", action}
        /\ product' \in [status : {"revision-requested", product.status}, score : {product.score}]
    <2>1. action' \in {"in-progress", action}
      BY ColumnValue DEF CommitCreate
    <2>2. product \in [status : ProductStatuses, score : Nat]
      BY <1>0 DEF TypeOK
    <2>3. product' \in [status : {"revision-requested", product.status}, score : {product.score}]
      <3>1. CASE "product" \in r.links
        <4>1. product' = [product EXCEPT !.status =
                             Column("revision-requested", r.product, product.status)]
          BY <3>1 DEF CommitCreate
        <4>2. Column("revision-requested", r.product, product.status)
                 \in {"revision-requested", product.status}
          BY ColumnValue
        <4> QED
          BY <4>1, <4>2, <2>2
      <3>2. CASE "product" \notin r.links
        BY <3>2, <2>2 DEF CommitCreate
      <3> QED
        BY <3>1, <3>2
    <2> QED
      BY <2>1, <2>3 DEF CommitCreate
  <1> HIDE DEF new
  <1>5. /\ requests' \in Seq(Rows)
        /\ Len(requests') = n + 1
        /\ requests'[n + 1] = new
        /\ \A i \in 1..n :
              /\ requests'[i].links = requests[i].links
              /\ requests'[i].revised = requests[i].revised
              /\ requests'[i].status =
                    IF r.seen[i] # NotRead THEN "superseded" ELSE requests[i].status
    BY <1>0, <1>2, <1>3, InsertedRows
  <1>6. /\ n \in Nat
        /\ DOMAIN requests = 1..n
        /\ DOMAIN requests' = 1..(n + 1)
        /\ \A i \in 1..n : i \in 1..(n + 1) /\ i \in Ids /\ requests[i] \in Rows
        /\ \A i \in 1..(n + 1) : i \in 1..n \/ i = n + 1
    BY <1>0, <1>5, RequestIds, LenProperties
  <1> HIDE DEF r, n
  <1>7. TypeOK'
    <2>1. Len(requests') <= MaxRequests
      BY <1>3, <1>5, <1>6, BoundsAssumption
    <2>2. action' \in ActionStatuses
      BY <1>0, <1>4 DEF TypeOK, ActionStatuses
    <2>3. product' \in [status : ProductStatuses, score : Nat]
      <3>1. product.status \in ProductStatuses /\ product.score \in Nat
        BY <1>0 DEF TypeOK
      <3> QED
        BY <3>1, <1>4 DEF ProductStatuses
    <2>4. txn' \in [Txns -> {Idle} \cup Creations \cup Submissions \cup Resolutions]
      BY <1>0, <1>4 DEF TypeOK
    <2> QED
      BY <1>0, <1>4, <1>5, <2>1, <2>2, <2>3, <2>4 DEF TypeOK
  <1>8. Outlive
    BY <1>5, <1>6 DEF Outlive, n
  <1>9. ListedOfRecord' /\ TargetStored' /\ AcceptsRevised'
    BY <1>4, <1>7, <1>8, EndKeeps
  <1>10. SubmittedRevised' /\ AcceptedRevised'
    <2> SUFFICES ASSUME NEW i \in 1..(n + 1), requests'[i].status \in {"submitted", "accepted"}
                 PROVE  requests'[i].revised
      BY <1>6 DEF SubmittedRevised, AcceptedRevised
    <2>1. CASE i \in 1..n
      BY <2>1, <1>5, <1>6 DEF IInv, SubmittedRevised, AcceptedRevised
    <2>2. CASE i = n + 1
      BY <2>2, <1>1, <1>2, <1>5 DEF Creations
    <2> QED
      BY <2>1, <2>2, <1>6
  <1>11. NewestKept'
    <2> SUFFICES ASSUME NEW i \in 1..(n + 1), "record" \in requests'[i].links,
                        requests'[i].status = "superseded"
                 PROVE  \E j \in 1..(n + 1) : j > i /\ "record" \in requests'[j].links
      BY <1>6 DEF NewestKept
    <2>1. i \in 1..n
      BY <1>2, <1>5, <1>6
    <2>2. CASE r.seen[i] # NotRead
      <3>1. "record" \in r.links
        BY <2>1, <2>2, <1>1, <1>6 DEF IInv, ListedOfRecord, r
      <3> QED
        BY <3>1, <2>1, <1>2, <1>5, <1>6
    <2>3. CASE r.seen[i] = NotRead
      <3>1. PICK j \in 1..n : j > i /\ "record" \in requests[j].links
        BY <2>1, <2>3, <1>5, <1>6 DEF IInv, NewestKept
      <3> QED
        BY <3>1, <1>5, <1>6
    <2> QED
      BY <2>2, <2>3
  <1>12. CompletedRevised'
    <2> SUFFICES ASSUME action' = "completed"
                 PROVE  \E i \in 1..(n + 1) : "action" \in requests'[i].links /\ requests'[i].revised
      BY <1>6 DEF CompletedRevised
    <2>1. PICK i \in 1..n : "action" \in requests[i].links /\ requests[i].revised
      BY <1>4, <1>6 DEF IInv, CompletedRevised
    <2> QED
      BY <2>1, <1>5, <1>6
  <1>13. SoleScore' /\ FreshUnscored'
    <2>1. /\ product'.score = product.score /\ scores' = scores
          /\ product'.status \in {"revision-requested", product.status}
      BY <1>4
    <2> QED
      BY <2>1 DEF IInv, SoleScore, FreshUnscored
  <1> QED
    BY <1>7, <1>9, <1>10, <1>11, <1>12, <1>13 DEF IInv

\* An update of one row that keeps its links and does not supersede it keeps
\* the invariant, if it leaves the row revised where it has to be.
LEMMA UpdateKeeps ==
    ASSUME IInv, NEW t \in Txns, NEW i \in 1..Len(requests), NEW row \in Rows,
           requests' = [requests EXCEPT ![i] = row],
           row.links = requests[i].links,
           requests[i].revised => row.revised,
           row.status # "superseded",
           row.status \in {"submitted", "accepted"} => row.revised,
           action' \in ActionStatuses,
           action' = "completed" =>
               action = "completed" \/ ("action" \in row.links /\ row.revised),
           txn' = [txn EXCEPT ![t] = Idle],
           UNCHANGED <<product, scores>>
    PROVE  IInv'
  <1> DEFINE n == Len(requests)
  <1>1. /\ TypeOK
        /\ requests' \in Seq(Rows)
        /\ Len(requests') = n
        /\ requests'[i] = row
        /\ \A j \in 1..n : j # i => requests'[j] = requests[j]
    BY UpdatedRow DEF IInv
  <1>2. n \in Nat /\ DOMAIN requests = 1..n /\ DOMAIN requests' = 1..n
    BY <1>1, RequestIds, LenProperties
  <1> HIDE DEF n
  <1>3. \A j \in 1..n : /\ requests'[j].links = requests[j].links
                        /\ requests[j].revised => requests'[j].revised
    BY <1>1
  <1>4. TypeOK'
    <2>1. txn' \in [Txns -> {Idle} \cup Creations \cup Submissions \cup Resolutions]
      BY <1>1 DEF TypeOK
    <2> QED
      BY <1>1, <2>1 DEF TypeOK, n
  <1>5. Outlive
    BY <1>1, <1>2, <1>3 DEF Outlive, n
  <1>6. ListedOfRecord' /\ TargetStored' /\ AcceptsRevised'
    BY <1>4, <1>5, EndKeeps
  <1>7. SubmittedRevised' /\ AcceptedRevised'
    <2> SUFFICES ASSUME NEW j \in 1..n, requests'[j].status \in {"submitted", "accepted"}
                 PROVE  requests'[j].revised
      BY <1>2 DEF SubmittedRevised, AcceptedRevised
    <2>1. CASE j = i
      BY <2>1, <1>1
    <2>2. CASE j # i
      BY <2>2, <1>1, <1>2 DEF IInv, SubmittedRevised, AcceptedRevised
    <2> QED
      BY <2>1, <2>2
  <1>8. NewestKept'
    <2> SUFFICES ASSUME NEW j \in 1..n, "record" \in requests'[j].links,
                        requests'[j].status = "superseded"
                 PROVE  \E k \in 1..n : k > j /\ "record" \in requests'[k].links
      BY <1>2 DEF NewestKept
    <2>1. j # i /\ requests'[j] = requests[j]
      BY <1>1
    <2>2. PICK k \in 1..n : k > j /\ "record" \in requests[k].links
      BY <2>1, <1>2 DEF IInv, NewestKept
    <2> QED
      BY <2>2, <1>3
  <1>9. CompletedRevised'
    <2> SUFFICES ASSUME action' = "completed"
                 PROVE  \E j \in 1..n : "action" \in requests'[j].links /\ requests'[j].revised
      BY <1>2 DEF CompletedRevised
    <2>1. CASE action = "completed"
      <3>1. PICK j \in 1..n : "action" \in requests[j].links /\ requests[j].revised
        BY <2>1, <1>2 DEF IInv, CompletedRevised
      <3> QED
        BY <3>1, <1>3
    <2>2. CASE "action" \in row.links /\ row.revised
      BY <2>2, <1>1 DEF n
    <2> QED
      BY <2>1, <2>2
  <1>10. SoleScore' /\ FreshUnscored'
    BY DEF IInv, SoleScore, FreshUnscored
  <1> QED
    BY <1>4, <1>6, <1>7, <1>8, <1>9, <1>10 DEF IInv

\* A submission writes a revised row.
LEMMA CommitSubmitKeeps ==
    ASSUME IInv, NEW t \in Txns, CommitSubmit(t)
    PROVE  IInv'
  <1> DEFINE i == txn[t].request
             row == Submitted(requests[i])
  <1>1. i \in 1..Len(requests) /\ requests[i] \in Rows
    BY RequestIds DEF CommitSubmit, IInv, TargetStored
  <1>2. requests' = [requests EXCEPT ![i] = row]
    BY Zenon DEF CommitSubmit
  <1>3. row \in Rows /\ row.links = requests[i].links /\ row.status = "submitted" /\ row.revised
    BY <1>1 DEF Submitted, Rows, Statuses
  <1>4. /\ action' = action /\ action \in ActionStatuses
        /\ UNCHANGED <<product, scores>>
        /\ txn' = [txn EXCEPT ![t] = Idle]
    BY DEF CommitSubmit, IInv, TypeOK
  <1> HIDE DEF i, row
  <1> QED
    BY <1>1, <1>2, <1>3, <1>4, UpdateKeeps

\* A resolution writes an outcome over a row that stays revised.
LEMMA CommitResolveKeeps ==
    ASSUME IInv, NEW t \in Txns, CommitResolve(t)
    PROVE  IInv'
  <1> DEFINE r == txn[t]
             i == r.request
             row == [links |-> requests[i].links, status |-> r.outcome,
                     revised |-> requests[i].revised]
  <1>1. /\ r \in Resolutions /\ r.outcome \in Outcomes
        /\ i \in 1..Len(requests) /\ requests[i] \in Rows
        /\ r.outcome = "accepted" => requests[i].revised
    <2>1. r.op = "resolve" /\ TypeOK
      BY DEF CommitResolve, IInv
    <2>2. r \in Resolutions
      BY <2>1, Kinds
    <2> QED
      BY <2>1, <2>2, RequestIds DEF IInv, TargetStored, AcceptsRevised, Resolutions
  <1>2. [requests[i] EXCEPT !.status = r.outcome] = row
    BY <1>1 DEF Rows
  <1>3. requests' = [requests EXCEPT ![i] = row]
    BY <1>1, <1>2, RequestIds DEF CommitResolve, IInv
  <1>4. /\ row \in Rows /\ row.links = requests[i].links
        /\ row.status = r.outcome /\ row.revised = requests[i].revised
        /\ row.status # "superseded" /\ row.status # "submitted"
    BY <1>1 DEF Rows, Statuses, Outcomes
  <1>5. action' \in ActionStatuses
    BY ColumnValue DEF CommitResolve, IInv, TypeOK, ActionStatuses, Verdict
  <1>6. action' = "completed" =>
            action = "completed" \/ ("action" \in requests[i].links /\ requests[i].revised)
    <2> SUFFICES ASSUME action' = "completed", action # "completed"
                 PROVE  "action" \in requests[i].links /\ requests[i].revised
      OBVIOUS
    <2>1. "action" \in requests[i].links
      BY DEF CommitResolve
    <2>2. action' \in {Verdict(r.outcome), action}
      BY <2>1, ColumnValue DEF CommitResolve
    <2>3. r.outcome = "accepted"
      BY <2>2 DEF Verdict
    <2> QED
      BY <2>1, <2>3, <1>1
  <1>7. UNCHANGED <<product, scores>> /\ txn' = [txn EXCEPT ![t] = Idle]
    BY DEF CommitResolve
  <1> HIDE DEF i, row
  <1> QED
    BY <1>1, <1>3, <1>4, <1>5, <1>6, <1>7, UpdateKeeps

\* A score takes the place of the one a revision supersedes.
LEMMA ScoreProductKeeps ==
    ASSUME IInv, ScoreProduct
    PROVE  IInv'
  <1> DEFINE n == Len(scores)
  <1>1. n \in Nat /\ DOMAIN scores = 1..n /\ scores \in Seq({"stored", "deleted"})
    BY LenProperties DEF IInv, TypeOK
  <1>2. WithoutPrior \in Seq({"stored", "deleted"}) /\ Len(WithoutPrior) = n
    <2>1. \A k \in 1..n : (IF k = product.score THEN "deleted" ELSE scores[k]) \in {"stored", "deleted"}
      BY <1>1, ElementOfSeq
    <2> QED
      BY <1>1, <2>1 DEF WithoutPrior
  <1>3. \A k \in 1..n : WithoutPrior[k] # "stored"
    <2> SUFFICES ASSUME NEW k \in 1..n, WithoutPrior[k] = "stored" PROVE FALSE
      OBVIOUS
    <2>1. k # product.score /\ scores[k] = "stored"
      BY <1>1 DEF WithoutPrior
    <2>2. k \in {product.score} \ {0}
      BY <1>1, <2>1 DEF IInv, SoleScore
    <2> QED
      BY <2>1, <2>2
  <1>4. /\ scores' = Append(WithoutPrior, "stored")
        /\ product' = [status |-> "scored", score |-> n + 1]
        /\ UNCHANGED <<requests, action, txn>>
    BY DEF ScoreProduct
  <1> HIDE DEF n
  <1>5. /\ scores' \in Seq({"stored", "deleted"})
        /\ DOMAIN scores' = 1..(n + 1)
        /\ scores'[n + 1] = "stored"
        /\ \A k \in 1..n : scores'[k] = WithoutPrior[k]
    BY <1>1, <1>2, <1>4
  <1>6. TypeOK'
    BY <1>1, <1>4, <1>5 DEF IInv, TypeOK, ProductStatuses
  <1>7. SoleScore'
    <2>1. product'.score = n + 1 /\ n + 1 # 0
      BY <1>1, <1>4
    <2>2. \A k \in 1..(n + 1) : scores'[k] = "stored" <=> k = n + 1
      BY <1>1, <1>3, <1>5
    <2>3. n + 1 \in 1..(n + 1)
      BY <1>1
    <2> QED
      BY <1>5, <2>1, <2>2, <2>3 DEF SoleScore
  <1>8. /\ ListedOfRecord' /\ TargetStored' /\ AcceptsRevised' /\ SubmittedRevised'
        /\ NewestKept' /\ AcceptedRevised' /\ CompletedRevised' /\ FreshUnscored'
    BY <1>4 DEF FreshUnscored, IInv, ListedOfRecord, TargetStored, AcceptsRevised, SubmittedRevised, Has,
                NewestKept, AcceptedRevised, CompletedRevised
  <1> QED
    BY <1>6, <1>7, <1>8 DEF IInv

\* A transaction rolled back leaves everything as it is.
LEMMA RollbackKeeps ==
    ASSUME IInv, NEW t \in Txns, Rollback(t)
    PROVE  IInv'
  <1>1. UNCHANGED <<requests, action, product, scores>> /\ txn' = [txn EXCEPT ![t] = Idle]
    BY DEF Rollback
  <1>2. TypeOK'
    BY <1>1 DEF IInv, TypeOK
  <1>3. Outlive
    BY <1>1, RequestIds DEF Outlive, IInv
  <1>4. ListedOfRecord' /\ TargetStored' /\ AcceptsRevised'
    BY <1>1, <1>2, <1>3, EndKeeps
  <1>5. SubmittedRevised' /\ NewestKept' /\ AcceptedRevised' /\ CompletedRevised' /\ SoleScore' /\ FreshUnscored'
    BY <1>1 DEF IInv, SubmittedRevised, NewestKept, AcceptedRevised, CompletedRevised, SoleScore, FreshUnscored
  <1> QED
    BY <1>2, <1>4, <1>5 DEF IInv
-----------------------------------------------------------------------------
\* Nothing is requested, scored or under way at first.
LEMMA InitEstablishes == Init => IInv
  <1> SUFFICES ASSUME Init PROVE IInv
    OBVIOUS
  <1>1. /\ requests = <<>> /\ requests \in Seq(Rows) /\ Len(requests) = 0 /\ DOMAIN requests = {}
        /\ scores = <<>> /\ scores \in Seq({"stored", "deleted"}) /\ DOMAIN scores = {}
    BY EmptySeq, LenProperties DEF Init
  <1>2. product.status \in {"draft", "submitted"} /\ product.score = 0
        /\ product \in [status : ProductStatuses, score : Nat]
    BY DEF Init, ProductStatuses
  <1>3. TypeOK
    BY <1>1, <1>2, BoundsAssumption DEF Init, TypeOK, ActionStatuses
  <1>4. \A t \in Txns : txn[t].op = "idle"
    BY DEF Init, Idle
  <1>5. ListedOfRecord /\ TargetStored /\ AcceptsRevised
    BY <1>4 DEF ListedOfRecord, TargetStored, AcceptsRevised
  <1>6. SubmittedRevised /\ NewestKept /\ AcceptedRevised /\ SoleScore /\ FreshUnscored
    BY <1>1, <1>2 DEF FreshUnscored, SubmittedRevised, NewestKept, AcceptedRevised, SoleScore
  <1>7. CompletedRevised
    BY DEF Init, CompletedRevised
  <1> QED
    BY <1>3, <1>5, <1>6, <1>7 DEF IInv

\* Every step keeps the invariant.
LEMMA StepKeeps == IInv /\ [Next]_vars => IInv'
  <1> SUFFICES ASSUME IInv, [Next]_vars PROVE IInv'
    OBVIOUS
  <1>1. CASE UNCHANGED vars
    BY <1>1 DEF vars, IInv, TypeOK, ListedOfRecord, TargetStored, AcceptsRevised, SubmittedRevised,
                Has, NewestKept, AcceptedRevised, CompletedRevised, SoleScore, FreshUnscored
  <1>2. CASE ScoreProduct
    BY <1>2, ScoreProductKeeps
  <1>3. ASSUME NEW t \in Txns, Request(t)
        PROVE  IInv'
    <2>1. ASSUME NEW links \in LinkSets, BeginCreate(t, links, FALSE)
          PROVE  IInv'
      BY <2>1, BeginCreateKeeps, LinkSetsAssumption
    <2>2. CASE Revise(t, {"record", "prompt"})
      <3>1. ASSUME NEW i \in OfRecord({"open"}), BeginSubmit(t, i)
            PROVE  IInv'
        BY <3>1, BeginSubmitKeeps DEF OfRecord
      <3>2. ASSUME BeginCreate(t, {"record", "prompt"}, TRUE)
            PROVE  IInv'
        BY <3>2, BeginCreateKeeps DEF Links
      <3> QED
        BY <2>2, <3>1, <3>2 DEF Revise
    <2>3. ASSUME NEW i \in DOMAIN requests, BeginSubmit(t, i)
          PROVE  IInv'
      BY <2>3, BeginSubmitKeeps
    <2>4. ASSUME NEW i \in DOMAIN requests, NEW outcome \in Outcomes, BeginResolve(t, i, outcome)
          PROVE  IInv'
      BY <2>4, BeginResolveKeeps
    <2>5. CASE CommitCreate(t)
      BY <2>5, CommitCreateKeeps
    <2>6. CASE CommitSubmit(t)
      BY <2>6, CommitSubmitKeeps
    <2>7. CASE CommitResolve(t)
      BY <2>7, CommitResolveKeeps
    <2>8. CASE Rollback(t)
      BY <2>8, RollbackKeeps
    <2> QED
      BY <1>3, <2>1, <2>2, <2>3, <2>4, <2>5, <2>6, <2>7, <2>8 DEF Request
  <1> QED
    BY <1>1, <1>2, <1>3 DEF Next

\* The invariant holds in every reachable state, for any number of requests,
\* overlapping transactions and scores.
THEOREM RevisionInvariant == Spec => []IInv
  BY InitEstablishes, StepKeeps, PTL DEF Spec

\* Rows, statuses and what transactions hold are of existing kinds, and ids
\* refer to stored requests.
THEOREM RevisionTypeCorrect == Spec => []TypeOK
  <1>1. IInv => TypeOK
    BY DEF IInv
  <1> QED
    BY <1>1, RevisionInvariant, PTL

\* The newest request of a record is never superseded, whatever overlaps.
THEOREM NewestIsKept == Spec => []NewestKept
  <1>1. IInv => NewestKept
    BY DEF IInv
  <1> QED
    BY <1>1, RevisionInvariant, PTL

\* What is accepted was revised, and an action is completed only where a
\* revision was recorded, whatever overlaps.
THEOREM VerdictsFollowRevisions == Spec => [](AcceptedRevised /\ CompletedRevised)
  <1>1. IInv => AcceptedRevised /\ CompletedRevised
    BY DEF IInv
  <1> QED
    BY <1>1, RevisionInvariant, PTL

\* A work product has one score with its evidence, the one it points to.
THEOREM ScoreIsSole == Spec => []SoleScore
  <1>1. IInv => SoleScore
    BY DEF IInv
  <1> QED
    BY <1>1, RevisionInvariant, PTL

\* A score is replaced only when a revision was asked for since it was given.
THEOREM RescoreIsOnRequest == Spec => RescoredOnRequest
  <1>1. ASSUME IInv, [Next]_vars, product.score # 0, product'.score # product.score
        PROVE  product.status = "revision-requested"
    <2>1. CASE UNCHANGED vars
      BY <1>1, <2>1 DEF vars
    <2>2. CASE ScoreProduct
      BY <1>1, <2>2 DEF ScoreProduct, IInv, FreshUnscored
    <2>3. ASSUME NEW t \in Txns, Request(t)
          PROVE  product'.score = product.score
      <3>1. CASE CommitCreate(t)
        BY <1>1, <3>1 DEF CommitCreate, IInv, TypeOK
      <3>2. CASE ~CommitCreate(t)
        BY <2>3, <3>2 DEF Request, Revise, Begin, BeginCreate, BeginSubmit, BeginResolve,
                          CommitSubmit, CommitResolve, Rollback
      <3> QED
        BY <3>1, <3>2
    <2> QED
      BY <1>1, <2>1, <2>2, <2>3 DEF Next
  <1>2. IInv /\ [Next]_vars =>
            [product.score # 0 /\ product'.score # product.score
             => product.status = "revision-requested"]_vars
    BY <1>1
  <1> QED
    BY <1>2, RevisionInvariant, PTL DEF Spec, RescoredOnRequest
-----------------------------------------------------------------------------
\* A transaction was allowed to do what it does by the copies it decided on.
Checked(r) ==
    /\ r.op = "create" =>
          \A i \in Ids : r.seen[i] # NotRead => "superseded" \in Transitions[r.seen[i]]
    /\ r.op = "submit" => "submitted" \in Transitions[r.seen[r.request]]
    /\ r.op = "resolve" => r.outcome \in Transitions[r.seen[r.request]]
    /\ r.op \in {"submit", "resolve"} => r.seen[r.request] # NotRead

AllChecked == \A t \in Txns : Checked(txn[t])

\* The guards of a transaction establish it for what the transaction has read.
LEMMA BeginIsChecked ==
    ASSUME IInv, AllChecked, NEW t \in Txns, NEW r, Begin(t, r), Checked(r)
    PROVE  AllChecked'
  <1>1. \A u \in Txns : txn'[u] = IF u = t THEN r ELSE txn[u]
    BY DEF Begin, IInv, TypeOK
  <1> QED
    BY <1>1 DEF AllChecked

\* A transaction that ends no longer decides on anything.
LEMMA EndIsChecked ==
    ASSUME IInv, AllChecked, NEW t \in Txns, txn' = [txn EXCEPT ![t] = Idle]
    PROVE  AllChecked'
  <1>1. \A u \in Txns : txn'[u] = IF u = t THEN Idle ELSE txn[u]
    BY DEF IInv, TypeOK
  <1>2. Checked(Idle)
    BY DEF Checked, Idle
  <1> QED
    BY <1>1, <1>2 DEF AllChecked

LEMMA BeginCreateIsChecked ==
    ASSUME IInv, AllChecked, NEW t \in Txns, NEW links, NEW submits, BeginCreate(t, links, submits)
    PROVE  AllChecked'
  <1> DEFINE prior == IF "record" \in links THEN OfRecord({"open", "submitted"}) ELSE {}
             r == [op |-> "create", links |-> links, submits |-> submits, seen |-> See(prior),
                   action |-> Read(action, links, "action"),
                   product |-> Read(product.status, links, "product")]
  <1>1. Begin(t, r)
    BY DEF BeginCreate
  <1>2. \A i \in Ids : See(prior)[i] # NotRead => "superseded" \in Transitions[See(prior)[i]]
    BY DEF See, OfRecord, Transitions
  <1> HIDE DEF prior
  <1>3. r.op = "create" /\ r.seen = See(prior)
    OBVIOUS
  <1> HIDE DEF r
  <1>4. Checked(r)
    BY <1>2, <1>3 DEF Checked
  <1> QED
    BY <1>1, <1>4, BeginIsChecked

\* What a transaction sees of one stored row.
LEMMA SeenRow ==
    ASSUME TypeOK, NEW i \in DOMAIN requests
    PROVE  See({i})[i] = requests[i].status /\ See({i})[i] # NotRead
  BY RequestIds DEF See, Rows, Statuses, NotRead

LEMMA BeginSubmitIsChecked ==
    ASSUME IInv, AllChecked, NEW t \in Txns, NEW i \in DOMAIN requests, BeginSubmit(t, i)
    PROVE  AllChecked'
  <1> DEFINE r == [op |-> "submit", request |-> i, seen |-> See({i})]
  <1>1. Begin(t, r) /\ "submitted" \in Transitions[requests[i].status]
    BY DEF BeginSubmit
  <1>2. r.op = "submit" /\ r.seen = See({i}) /\ r.request = i
    OBVIOUS
  <1>3. r.seen[r.request] = requests[i].status /\ r.seen[r.request] # NotRead
    BY <1>2, SeenRow DEF IInv
  <1> HIDE DEF r
  <1>4. Checked(r)
    BY <1>1, <1>2, <1>3 DEF Checked
  <1> QED
    BY <1>1, <1>4, BeginIsChecked

LEMMA BeginResolveIsChecked ==
    ASSUME IInv, AllChecked, NEW t \in Txns, NEW i \in DOMAIN requests, NEW outcome,
           BeginResolve(t, i, outcome)
    PROVE  AllChecked'
  <1> DEFINE r == [op |-> "resolve", request |-> i, outcome |-> outcome, seen |-> See({i}),
                   action |-> Read(action, requests[i].links, "action")]
  <1>1. Begin(t, r) /\ outcome \in Transitions[requests[i].status]
    BY DEF BeginResolve
  <1>2. r.op = "resolve" /\ r.seen = See({i}) /\ r.request = i /\ r.outcome = outcome
    OBVIOUS
  <1>3. r.seen[r.request] = requests[i].status /\ r.seen[r.request] # NotRead
    BY <1>2, SeenRow DEF IInv
  <1> HIDE DEF r
  <1>4. Checked(r)
    BY <1>1, <1>2, <1>3 DEF Checked
  <1> QED
    BY <1>1, <1>4, BeginIsChecked

\* Every request is allowed by what it has read, at every step.
LEMMA StepIsChecked == IInv /\ AllChecked /\ [Next]_vars => AllChecked'
  <1> SUFFICES ASSUME IInv, AllChecked, [Next]_vars PROVE AllChecked'
    OBVIOUS
  <1>1. CASE UNCHANGED txn
    BY <1>1 DEF AllChecked
  <1>2. ASSUME NEW t \in Txns, Request(t)
        PROVE  AllChecked'
    <2>1. ASSUME NEW links \in LinkSets, BeginCreate(t, links, FALSE)
          PROVE  AllChecked'
      BY <2>1, BeginCreateIsChecked
    <2>2. CASE Revise(t, {"record", "prompt"})
      <3>1. ASSUME NEW i \in OfRecord({"open"}), BeginSubmit(t, i)
            PROVE  AllChecked'
        BY <3>1, BeginSubmitIsChecked DEF OfRecord
      <3>2. ASSUME BeginCreate(t, {"record", "prompt"}, TRUE)
            PROVE  AllChecked'
        BY <3>2, BeginCreateIsChecked
      <3> QED
        BY <2>2, <3>1, <3>2 DEF Revise
    <2>3. ASSUME NEW i \in DOMAIN requests, BeginSubmit(t, i)
          PROVE  AllChecked'
      BY <2>3, BeginSubmitIsChecked
    <2>4. ASSUME NEW i \in DOMAIN requests, NEW outcome \in Outcomes, BeginResolve(t, i, outcome)
          PROVE  AllChecked'
      BY <2>4, BeginResolveIsChecked
    <2>5. CASE CommitCreate(t) \/ CommitSubmit(t) \/ CommitResolve(t) \/ Rollback(t)
      BY <2>5, EndIsChecked DEF CommitCreate, CommitSubmit, CommitResolve, Rollback
    <2> QED
      BY <1>2, <2>1, <2>2, <2>3, <2>4, <2>5 DEF Request
  <1> QED
    BY <1>1, <1>2 DEF Next, ScoreProduct, vars

\* A status written against the table was decided on a copy that was overtaken.
LEMMA StepIsLegal ==
    ASSUME IInv, IInv', AllChecked, [Next]_vars, NEW i \in DOMAIN requests
    PROVE  \/ requests'[i].status \in {requests[i].status} \cup Transitions[requests[i].status]
           \/ \E t \in Txns : Overtaken(t, i) /\ txn'[t] = Idle
  <1>1. CASE UNCHANGED requests
    BY <1>1
  <1>2. i \in 1..Len(requests) /\ i \in Ids /\ TypeOK
    BY RequestIds DEF IInv
  <1>3. ASSUME NEW t \in Txns, requests'[i].status # requests[i].status,
               txn[t] # Idle, txn' = [txn EXCEPT ![t] = Idle], txn[t].seen[i] # NotRead,
               requests'[i].status \in Transitions[txn[t].seen[i]]
        PROVE  \/ requests'[i].status \in Transitions[requests[i].status]
               \/ Overtaken(t, i) /\ txn'[t] = Idle
    <2>1. txn'[t] = Idle
      BY <1>3 DEF IInv, TypeOK
    <2> QED
      BY <1>3, <2>1 DEF Overtaken
  <1>4. ASSUME NEW t \in Txns, CommitCreate(t), requests'[i].status # requests[i].status
        PROVE  /\ txn[t] # Idle /\ txn' = [txn EXCEPT ![t] = Idle] /\ txn[t].seen[i] # NotRead
               /\ requests'[i].status \in Transitions[txn[t].seen[i]]
    <2> DEFINE r == txn[t]
               new == [links   |-> r.links,
                       status  |-> IF r.submits THEN "submitted" ELSE "open",
                       revised |-> r.submits]
    <2>1. r \in Creations /\ r.op = "create"
      BY <1>2, <1>4, Kinds DEF CommitCreate
    <2>2. /\ requests' = Inserted(r.seen, new)
          /\ Len(requests) < MaxRequests
          /\ txn' = [txn EXCEPT ![t] = Idle]
      BY <1>4 DEF CommitCreate
    <2>3. r.seen \in Seen /\ new \in Rows
      BY <2>1 DEF Creations, Rows, Statuses
    <2>4. r # Idle
      BY <2>1 DEF Idle
    <2> HIDE DEF r, new
    <2>5. requests'[i].status = IF r.seen[i] # NotRead THEN "superseded" ELSE requests[i].status
      BY <1>2, <2>2, <2>3, InsertedRows
    <2>6. r.seen[i] # NotRead /\ requests'[i].status = "superseded"
      BY <1>4, <2>5
    <2>7. Checked(r)
      BY DEF AllChecked, r
    <2>8. "superseded" \in Transitions[r.seen[i]]
      BY <1>2, <2>1, <2>6, <2>7 DEF Checked
    <2> QED
      BY <2>2, <2>4, <2>6, <2>8 DEF r
  <1>5. ASSUME NEW t \in Txns, CommitSubmit(t), requests'[i].status # requests[i].status
        PROVE  /\ txn[t] # Idle /\ txn' = [txn EXCEPT ![t] = Idle] /\ txn[t].seen[i] # NotRead
               /\ requests'[i].status \in Transitions[txn[t].seen[i]]
    <2>1. txn[t].op = "submit" /\ txn[t] # Idle /\ txn' = [txn EXCEPT ![t] = Idle]
      BY <1>5 DEF CommitSubmit, Idle
    <2>2. requests' = [requests EXCEPT ![txn[t].request] = Submitted(requests[txn[t].request])]
      BY <1>5 DEF CommitSubmit
    <2>3. requests \in Seq(Rows)
      BY <1>2 DEF TypeOK
    <2>4. txn[t].request = i
      BY <1>2, <1>5, <2>2, <2>3
    <2>5. requests'[i].status = "submitted"
      BY <1>2, <2>2, <2>3, <2>4 DEF Submitted
    <2>6. Checked(txn[t])
      BY DEF AllChecked
    <2> QED
      BY <2>1, <2>4, <2>5, <2>6 DEF Checked
  <1>6. ASSUME NEW t \in Txns, CommitResolve(t), requests'[i].status # requests[i].status
        PROVE  /\ txn[t] # Idle /\ txn' = [txn EXCEPT ![t] = Idle] /\ txn[t].seen[i] # NotRead
               /\ requests'[i].status \in Transitions[txn[t].seen[i]]
    <2>1. txn[t].op = "resolve" /\ txn[t] # Idle /\ txn' = [txn EXCEPT ![t] = Idle]
      BY <1>6 DEF CommitResolve, Idle
    <2>2. requests' = [requests EXCEPT ![txn[t].request].status = txn[t].outcome]
      BY <1>6 DEF CommitResolve
    <2>3. requests \in Seq(Rows) /\ requests[i] \in Rows
      BY <1>2, RequestIds DEF TypeOK
    <2>4. txn[t].request = i
      BY <1>2, <1>6, <2>2, <2>3
    <2>5. requests'[i].status = txn[t].outcome
      BY <1>2, <2>2, <2>3, <2>4 DEF Rows
    <2>6. Checked(txn[t])
      BY DEF AllChecked
    <2> QED
      BY <2>1, <2>4, <2>5, <2>6 DEF Checked
  <1>7. ASSUME NEW t \in Txns, Request(t)
        PROVE  \/ UNCHANGED requests
               \/ CommitCreate(t) \/ CommitSubmit(t) \/ CommitResolve(t)
    BY <1>7 DEF Request, Revise, Begin, BeginCreate, BeginSubmit, BeginResolve, Rollback
  <1> QED
    BY <1>1, <1>3, <1>4, <1>5, <1>6, <1>7 DEF Next, ScoreProduct, vars

\* A status changes against the table of transitions only at the hand of a
\* request whose copy of the row was overtaken, however many requests overlap.
THEOREM IllegalNeedsOvertaking == Spec => LegalUnlessOvertaken
  <1>1. Init => AllChecked
    BY DEF Init, AllChecked, Checked, Idle
  <1>2. IInv /\ IInv' /\ AllChecked /\ [Next]_vars =>
           [\A i \in DOMAIN requests :
               requests'[i].status \in {requests[i].status} \cup Transitions[requests[i].status]
               \/ \E t \in Txns : Overtaken(t, i) /\ txn'[t] = Idle]_vars
    BY StepIsLegal
  <1> QED
    BY <1>1, <1>2, StepIsChecked, RevisionInvariant, PTL DEF Spec, LegalUnlessOvertaken

\* One request at a time.
InTurn == \A t, u \in Txns : t = u

\* Every copy a request decides on is what the row holds.
CopiesCurrent == \A t \in Txns : \A i \in DOMAIN requests : ~Overtaken(t, i)

\* A status changes by the table of transitions, without exception.
Legal ==
    [][\A i \in DOMAIN requests :
          requests'[i].status \in {requests[i].status} \cup Transitions[requests[i].status]]_vars

\* What a request loads is current when it is loaded.
LEMMA BeginIsCurrent ==
    ASSUME IInv, InTurn, NEW t \in Txns, NEW S, NEW r, r.seen = See(S), Begin(t, r)
    PROVE  CopiesCurrent'
  <1>1. \A u \in Txns : txn'[u] = r
    BY DEF Begin, InTurn, IInv, TypeOK
  <1>2. \A i \in DOMAIN requests : See(S)[i] \in {NotRead, requests[i].status}
    BY RequestIds DEF See, IInv
  <1>3. UNCHANGED requests
    BY DEF Begin
  <1> QED
    BY <1>1, <1>2, <1>3 DEF CopiesCurrent, Overtaken

\* Requests that do not overlap act on current copies.
LEMMA StepIsCurrent ==
    ASSUME IInv, InTurn, CopiesCurrent, [Next]_vars
    PROVE  CopiesCurrent'
  <1>1. CASE UNCHANGED <<requests, txn>>
    BY <1>1 DEF CopiesCurrent, Overtaken
  <1>2. ASSUME NEW t \in Txns, txn' = [txn EXCEPT ![t] = Idle]
        PROVE  CopiesCurrent'
    <2>1. \A u \in Txns : txn'[u] = Idle
      BY <1>2 DEF InTurn, IInv, TypeOK
    <2> QED
      BY <2>1 DEF CopiesCurrent, Overtaken
  <1>3. ASSUME NEW t \in Txns, NEW links, NEW submits, BeginCreate(t, links, submits)
        PROVE  CopiesCurrent'
    <2> DEFINE prior == IF "record" \in links THEN OfRecord({"open", "submitted"}) ELSE {}
               r == [op |-> "create", links |-> links, submits |-> submits, seen |-> See(prior),
                     action |-> Read(action, links, "action"),
                     product |-> Read(product.status, links, "product")]
    <2>1. r.seen = See(prior) /\ Begin(t, r)
      BY <1>3 DEF BeginCreate
    <2> QED
      BY <2>1, BeginIsCurrent
  <1>4. ASSUME NEW t \in Txns, NEW i \in DOMAIN requests, BeginSubmit(t, i)
        PROVE  CopiesCurrent'
    <2>1. Begin(t, [op |-> "submit", request |-> i, seen |-> See({i})])
      BY <1>4 DEF BeginSubmit
    <2> QED
      BY <2>1, BeginIsCurrent
  <1>5. ASSUME NEW t \in Txns, NEW i \in DOMAIN requests, NEW outcome, BeginResolve(t, i, outcome)
        PROVE  CopiesCurrent'
    <2>1. Begin(t, [op |-> "resolve", request |-> i, outcome |-> outcome, seen |-> See({i}),
                    action |-> Read(action, requests[i].links, "action")])
      BY <1>5 DEF BeginResolve
    <2> QED
      BY <2>1, BeginIsCurrent
  <1>6. ASSUME NEW t \in Txns, NEW links, Revise(t, links)
        PROVE  CopiesCurrent'
    BY <1>3, <1>4, <1>6 DEF Revise, OfRecord
  <1>7. ASSUME NEW t \in Txns, Request(t)
        PROVE  CopiesCurrent'
    BY <1>2, <1>3, <1>4, <1>5, <1>6, <1>7 DEF Request, CommitCreate, CommitSubmit, CommitResolve,
                                              Rollback
  <1> QED
    BY <1>1, <1>7 DEF Next, ScoreProduct, vars

\* Requests that do not overlap change every status by the table of transitions,
\* whatever their order and however many revision requests there are.
THEOREM LegalInTurn ==
  ASSUME InTurn
  PROVE  Spec => Legal
  <1>1. Init => AllChecked /\ CopiesCurrent
    BY DEF Init, AllChecked, Checked, Idle, CopiesCurrent, Overtaken
  <1>2. IInv /\ CopiesCurrent /\ [Next]_vars => CopiesCurrent'
    BY StepIsCurrent
  <1>3. IInv /\ IInv' /\ AllChecked /\ CopiesCurrent /\ [Next]_vars =>
           [\A i \in DOMAIN requests :
               requests'[i].status \in {requests[i].status} \cup Transitions[requests[i].status]]_vars
    BY StepIsLegal DEF CopiesCurrent
  <1> QED
    BY <1>1, <1>2, <1>3, StepIsChecked, RevisionInvariant, PTL DEF Spec, Legal
-----------------------------------------------------------------------------
\* Requests that are creating a revision request of the record.
Creating == {t \in Txns : txn[t].op = "create" /\ "record" \in txn[t].links}

\* Open requests of the record that none of some creations has listed: when all
\* of them have written, these are still open.
Unlisted(A) == {i \in OfRecord({"open"}) : \A t \in A : txn[t].seen[i] = NotRead}

\* However the creations under way are ordered, and whichever of them write,
\* there is a transaction for each open request they leave and each they add.
OpenInv ==
    \A A \in SUBSET Creating : Cardinality(Unlisted(A)) + Cardinality(A) <= Cardinality(Txns)

\* Subsets of a finite set are counted, and count no more than the set.
LEMMA Counted ==
    ASSUME NEW S, IsFiniteSet(S), NEW T, T \subseteq S
    PROVE  IsFiniteSet(T) /\ Cardinality(T) \in Nat /\ Cardinality(T) <= Cardinality(S)
  <1>1. IsFiniteSet(T) /\ Cardinality(T) <= Cardinality(S)
    BY FS_Subset
  <1> QED
    BY <1>1, FS_CardinalityType

\* What the invariant counts is finite.
LEMMA CountedSets ==
    ASSUME IInv
    PROVE  /\ IsFiniteSet(OfRecord({"open"}))
           /\ Creating \subseteq Txns
           /\ Cardinality(Txns) \in Nat
           /\ \A A \in SUBSET Txns : IsFiniteSet(A) /\ Cardinality(A) \in Nat
           /\ \A A : Unlisted(A) \subseteq OfRecord({"open"})
           /\ \A A : IsFiniteSet(Unlisted(A)) /\ Cardinality(Unlisted(A)) \in Nat
  <1>1. Len(requests) \in Nat /\ OfRecord({"open"}) \subseteq 1..Len(requests)
    BY RequestIds DEF IInv, OfRecord
  <1>2. IsFiniteSet(1..Len(requests))
    BY <1>1, FS_Interval
  <1>3. IsFiniteSet(OfRecord({"open"}))
    BY <1>1, <1>2, FS_Subset
  <1>4. \A A : Unlisted(A) \subseteq OfRecord({"open"})
    BY DEF Unlisted
  <1>5. \A A : IsFiniteSet(Unlisted(A)) /\ Cardinality(Unlisted(A)) \in Nat
    BY <1>3, <1>4, FS_Subset, FS_CardinalityType
  <1>6. Cardinality(Txns) \in Nat /\ \A A \in SUBSET Txns : IsFiniteSet(A) /\ Cardinality(A) \in Nat
    BY TxnsAssumption, FS_Subset, FS_CardinalityType
  <1> QED
    BY <1>3, <1>4, <1>5, <1>6 DEF Creating

\* What is left of the requests some creations have not listed stays counted.
LEMMA FewerUnlisted ==
    ASSUME IInv, OpenInv, NEW A \in SUBSET Creating, NEW U, U \subseteq Unlisted(A)
    PROVE  Cardinality(U) + Cardinality(A) <= Cardinality(Txns)
  <1>1. Cardinality(U) \in Nat /\ Cardinality(U) <= Cardinality(Unlisted(A))
    BY CountedSets, Counted
  <1>2. Cardinality(A) \in Nat /\ Cardinality(Txns) \in Nat /\ Cardinality(Unlisted(A)) \in Nat
    BY CountedSets
  <1>3. Cardinality(Unlisted(A)) + Cardinality(A) <= Cardinality(Txns)
    BY DEF OpenInv
  <1> QED
    BY <1>1, <1>2, <1>3

\* A step that opens no request and begins no creation leaves the count.
LEMMA NothingOpened ==
    ASSUME IInv, OpenInv, OfRecord({"open"})' \subseteq OfRecord({"open"}),
           \A u \in Creating' : u \in Creating /\ txn'[u] = txn[u]
    PROVE  OpenInv'
  <1> SUFFICES ASSUME NEW A \in SUBSET Creating'
               PROVE  Cardinality(Unlisted(A)') + Cardinality(A) <= Cardinality(Txns)
    BY DEF OpenInv
  <1>1. A \in SUBSET Creating
    OBVIOUS
  <1>2. Unlisted(A)' \subseteq Unlisted(A)
    BY DEF Unlisted
  <1> QED
    BY <1>1, <1>2, FewerUnlisted

\* A creation that begins has listed every open request.
LEMMA BeginCreateCounts ==
    ASSUME IInv, OpenInv, NEW t \in Txns, NEW links, NEW submits, BeginCreate(t, links, submits)
    PROVE  OpenInv'
  <1> DEFINE prior == IF "record" \in links THEN OfRecord({"open", "submitted"}) ELSE {}
             r == [op |-> "create", links |-> links, submits |-> submits, seen |-> See(prior),
                   action |-> Read(action, links, "action"),
                   product |-> Read(product.status, links, "product")]
  <1>1. Begin(t, r)
    BY DEF BeginCreate
  <1>2. /\ txn'[t] = r /\ \A u \in Txns : u # t => txn'[u] = txn[u]
        /\ requests' = requests
    BY <1>1 DEF Begin, IInv, TypeOK
  <1>3. "record" \in links => \A i \in OfRecord({"open"}) : See(prior)[i] # NotRead
    <2> SUFFICES ASSUME "record" \in links, NEW i \in OfRecord({"open"})
                 PROVE  See(prior)[i] # NotRead
      OBVIOUS
    <2>1. i \in prior /\ requests[i].status = "open"
      BY DEF OfRecord
    <2>2. i \in Ids
      BY RequestIds DEF IInv, OfRecord
    <2> QED
      BY <2>1, <2>2 DEF See, NotRead
  <1> HIDE DEF prior
  <1>4. r.op = "create" /\ r.links = links /\ r.seen = See(prior)
    OBVIOUS
  <1> HIDE DEF r
  <1>5. OfRecord({"open"})' = OfRecord({"open"})
    BY <1>2 DEF OfRecord
  <1> SUFFICES ASSUME NEW A \in SUBSET Creating'
               PROVE  Cardinality(Unlisted(A)') + Cardinality(A) <= Cardinality(Txns)
    BY DEF OpenInv
  <1>6. CASE t \in A
    <2>1. "record" \in links
      BY <1>2, <1>4, <1>6 DEF Creating
    <2>2. Unlisted(A)' = {}
      BY <2>1, <1>2, <1>3, <1>4, <1>5, <1>6 DEF Unlisted
    <2>3. Cardinality(Unlisted(A)') = 0
      BY <2>2, FS_EmptySet
    <2>4. A \subseteq Txns
      BY DEF Creating
    <2>5. Cardinality(A) \in Nat /\ Cardinality(A) <= Cardinality(Txns)
      BY <2>4, TxnsAssumption, Counted
    <2> QED
      BY <2>3, <2>5
  <1>7. CASE t \notin A
    <2>1. A \in SUBSET Creating /\ \A u \in A : txn'[u] = txn[u]
      BY <1>2, <1>7 DEF Creating
    <2>2. Unlisted(A)' \subseteq Unlisted(A)
      BY <2>1, <1>5 DEF Unlisted
    <2> QED
      BY <2>1, <2>2, FewerUnlisted
  <1> QED
    BY <1>6, <1>7

\* Only a creation is counted: any other request begins and ends unnoticed.
LEMMA OtherBeginCounts ==
    ASSUME IInv, OpenInv, NEW t \in Txns, NEW r, Begin(t, r), r.op # "create"
    PROVE  OpenInv'
  <1>1. /\ txn'[t] = r /\ \A u \in Txns : u # t => txn'[u] = txn[u]
        /\ requests' = requests
    BY DEF Begin, IInv, TypeOK
  <1>2. OfRecord({"open"})' = OfRecord({"open"})
    BY <1>1 DEF OfRecord
  <1>3. \A u \in Creating' : u \in Creating /\ txn'[u] = txn[u]
    BY <1>1 DEF Creating
  <1> QED
    BY <1>2, <1>3, NothingOpened

LEMMA EndCounts ==
    ASSUME IInv, OpenInv, NEW t \in Txns, txn' = [txn EXCEPT ![t] = Idle],
           OfRecord({"open"})' \subseteq OfRecord({"open"})
    PROVE  OpenInv'
  <1>1. txn'[t].op = "idle" /\ \A u \in Txns : u # t => txn'[u] = txn[u]
    BY DEF IInv, TypeOK, Idle
  <1>2. \A u \in Creating' : u \in Creating /\ txn'[u] = txn[u]
    BY <1>1 DEF Creating
  <1> QED
    BY <1>2, NothingOpened

\* An update that opens no row opens no request of the record.
LEMMA UpdateOpensNone ==
    ASSUME TypeOK, NEW i \in 1..Len(requests), NEW row \in Rows, row.status # "open",
           requests' = [requests EXCEPT ![i] = row]
    PROVE  OfRecord({"open"})' \subseteq OfRecord({"open"})
  <1>1. /\ Len(requests') = Len(requests) /\ requests' \in Seq(Rows) /\ requests'[i] = row
        /\ \A j \in 1..Len(requests) : j # i => requests'[j] = requests[j]
    BY UpdatedRow
  <1>2. DOMAIN requests = 1..Len(requests) /\ DOMAIN requests' = 1..Len(requests)
    BY <1>1, RequestIds, LenProperties
  <1> QED
    BY <1>1, <1>2 DEF OfRecord

\* A creation that writes trades its own place in the count for the request it
\* opens, and closes those it has listed.
LEMMA CommitCreateCounts ==
    ASSUME IInv, OpenInv, NEW t \in Txns, CommitCreate(t)
    PROVE  OpenInv'
  <1> DEFINE r == txn[t]
             new == [links   |-> r.links,
                     status  |-> IF r.submits THEN "submitted" ELSE "open",
                     revised |-> r.submits]
             n == Len(requests)
  <1>0. TypeOK
    BY DEF IInv
  <1>1. r \in Creations /\ r.op = "create"
    BY <1>0, Kinds DEF CommitCreate
  <1>2. new \in Rows /\ new.links = r.links
    BY <1>1 DEF Creations, Rows, Statuses
  <1>3. /\ n < MaxRequests /\ requests' = Inserted(r.seen, new) /\ r.seen \in Seen
        /\ txn' = [txn EXCEPT ![t] = Idle]
    BY <1>1 DEF CommitCreate, Creations
  <1>4. txn'[t].op = "idle" /\ \A u \in Txns : u # t => txn'[u] = txn[u]
    BY <1>0, <1>3 DEF TypeOK, Idle
  <1> HIDE DEF new
  <1>5. /\ requests' \in Seq(Rows) /\ Len(requests') = n + 1 /\ requests'[n + 1] = new
        /\ \A i \in 1..n :
              /\ requests'[i].links = requests[i].links
              /\ requests'[i].status =
                    IF r.seen[i] # NotRead THEN "superseded" ELSE requests[i].status
    BY <1>0, <1>2, <1>3, InsertedRows
  <1>6. /\ n \in Nat /\ DOMAIN requests = 1..n /\ DOMAIN requests' = 1..(n + 1)
        /\ \A i \in 1..(n + 1) : i \in 1..n \/ i = n + 1
    BY <1>0, <1>5, RequestIds, LenProperties
  <1> HIDE DEF r, n
  <1>7. \A i \in OfRecord({"open"})' :
           \/ i \in OfRecord({"open"}) /\ r.seen[i] = NotRead
           \/ i = n + 1 /\ "record" \in r.links
    <2> SUFFICES ASSUME NEW i \in 1..(n + 1), "record" \in requests'[i].links,
                        requests'[i].status = "open"
                 PROVE  \/ i \in OfRecord({"open"}) /\ r.seen[i] = NotRead
                        \/ i = n + 1 /\ "record" \in r.links
      BY <1>6 DEF OfRecord
    <2>1. CASE i \in 1..n
      BY <2>1, <1>5, <1>6 DEF OfRecord
    <2>2. CASE i = n + 1
      BY <2>2, <1>2, <1>5
    <2> QED
      BY <2>1, <2>2, <1>6
  <1> SUFFICES ASSUME NEW A \in SUBSET Creating'
               PROVE  Cardinality(Unlisted(A)') + Cardinality(A) <= Cardinality(Txns)
    BY DEF OpenInv
  <1>8. A \in SUBSET Creating /\ t \notin A /\ \A u \in A : txn'[u] = txn[u]
    BY <1>4 DEF Creating
  <1>9. CASE "record" \notin r.links
    <2>1. Unlisted(A)' \subseteq Unlisted(A)
      BY <1>7, <1>8, <1>9 DEF Unlisted
    <2> QED
      BY <2>1, <1>8, FewerUnlisted
  <1>10. CASE "record" \in r.links
    <2> DEFINE B == A \cup {t}
               U == Unlisted(A)' \ {n + 1}
    <2>1. B \in SUBSET Creating
      BY <1>1, <1>8, <1>10 DEF Creating, r
    <2>2. U \subseteq Unlisted(B)
      BY <1>7, <1>8 DEF Unlisted, r
    <2>3. Cardinality(U) + Cardinality(B) <= Cardinality(Txns)
      BY <2>1, <2>2, FewerUnlisted
    <2>4. IsFiniteSet(A) /\ Cardinality(A) \in Nat /\ Cardinality(Txns) \in Nat
      BY <1>8, CountedSets
    <2>5. Cardinality(B) = Cardinality(A) + 1
      BY <2>4, <1>8, FS_AddElement
    <2>6. IsFiniteSet(U) /\ Cardinality(U) \in Nat
      <3>1. IsFiniteSet(Unlisted(B))
        BY CountedSets
      <3> QED
        BY <3>1, <2>2, Counted
    <2>7. IsFiniteSet(U \cup {n + 1}) /\ Cardinality(U \cup {n + 1}) = Cardinality(U) + 1
      BY <2>6, FS_AddElement
    <2>8. Unlisted(A)' \subseteq U \cup {n + 1}
      OBVIOUS
    <2>9. Cardinality(Unlisted(A)') \in Nat /\ Cardinality(Unlisted(A)') <= Cardinality(U) + 1
      <3> HIDE DEF U
      <3> QED
        BY <2>7, <2>8, Counted
    <2> HIDE DEF B, U
    <2> QED
      BY <2>3, <2>4, <2>5, <2>6, <2>9
  <1> QED
    BY <1>9, <1>10

LEMMA CommitSubmitCounts ==
    ASSUME IInv, OpenInv, NEW t \in Txns, CommitSubmit(t)
    PROVE  OpenInv'
  <1> DEFINE i == txn[t].request
             row == Submitted(requests[i])
  <1>1. i \in 1..Len(requests) /\ requests[i] \in Rows
    BY RequestIds DEF CommitSubmit, IInv, TargetStored
  <1>2. requests' = [requests EXCEPT ![i] = row] /\ txn' = [txn EXCEPT ![t] = Idle]
    BY Zenon DEF CommitSubmit
  <1>3. row \in Rows /\ row.status # "open"
    BY <1>1 DEF Submitted, Rows, Statuses
  <1>4. TypeOK
    BY DEF IInv
  <1> HIDE DEF i, row
  <1>5. OfRecord({"open"})' \subseteq OfRecord({"open"})
    BY <1>1, <1>2, <1>3, <1>4, UpdateOpensNone
  <1> QED
    BY <1>2, <1>5, EndCounts

LEMMA CommitResolveCounts ==
    ASSUME IInv, OpenInv, NEW t \in Txns, CommitResolve(t)
    PROVE  OpenInv'
  <1> DEFINE r == txn[t]
             i == r.request
             row == [requests[i] EXCEPT !.status = r.outcome]
  <1>1. TypeOK /\ r.op = "resolve"
    BY DEF CommitResolve, IInv
  <1>2. r.outcome \in Outcomes /\ i \in 1..Len(requests) /\ requests[i] \in Rows
    <2>1. r \in Resolutions
      BY <1>1, Kinds
    <2> QED
      BY <1>1, <2>1, RequestIds DEF IInv, TargetStored, Resolutions
  <1>3. requests' = [requests EXCEPT ![i] = row] /\ txn' = [txn EXCEPT ![t] = Idle]
    BY DEF CommitResolve
  <1>4. row \in Rows /\ row.status # "open"
    BY <1>2 DEF Rows, Statuses, Outcomes
  <1> HIDE DEF i, row
  <1>5. OfRecord({"open"})' \subseteq OfRecord({"open"})
    BY <1>1, <1>2, <1>3, <1>4, UpdateOpensNone
  <1> QED
    BY <1>3, <1>5, EndCounts

\* Every step keeps the count.
LEMMA StepCounts == IInv /\ OpenInv /\ [Next]_vars => OpenInv'
  <1> SUFFICES ASSUME IInv, OpenInv, [Next]_vars PROVE OpenInv'
    OBVIOUS
  <1>1. CASE UNCHANGED <<requests, txn>>
    <2>1. OfRecord({"open"})' = OfRecord({"open"}) /\ Creating' = Creating /\ txn' = txn
      BY <1>1 DEF OfRecord, Creating
    <2> QED
      BY <2>1, NothingOpened
  <1>2. ASSUME NEW t \in Txns, Request(t)
        PROVE  OpenInv'
    <2>1. ASSUME NEW links, NEW submits, BeginCreate(t, links, submits)
          PROVE  OpenInv'
      BY <2>1, BeginCreateCounts
    <2>2. ASSUME NEW i, BeginSubmit(t, i)
          PROVE  OpenInv'
      BY <2>2, OtherBeginCounts DEF BeginSubmit
    <2>3. ASSUME NEW i, NEW outcome, BeginResolve(t, i, outcome)
          PROVE  OpenInv'
      BY <2>3, OtherBeginCounts DEF BeginResolve
    <2>4. CASE Rollback(t)
      <3>1. OfRecord({"open"})' = OfRecord({"open"})
        BY <2>4 DEF Rollback, OfRecord
      <3> QED
        BY <2>4, <3>1, EndCounts DEF Rollback
    <2> QED
      BY <1>2, <2>1, <2>2, <2>3, <2>4, CommitCreateCounts, CommitSubmitCounts, CommitResolveCounts
         DEF Request, Revise
  <1> QED
    BY <1>1, <1>2 DEF Next, ScoreProduct, vars

\* Nothing is open at first, and nothing is being created.
LEMMA NothingOpenAtFirst == Init => OpenInv
  <1> SUFFICES ASSUME Init, NEW A \in SUBSET Creating
               PROVE  Cardinality(Unlisted(A)) + Cardinality(A) <= Cardinality(Txns)
    BY DEF OpenInv
  <1>1. A = {}
    BY DEF Init, Creating, Idle
  <1>2. Unlisted(A) = {}
    <2>1. DOMAIN requests = {}
      BY EmptySeq, LenProperties DEF Init
    <2> QED
      BY <2>1 DEF Unlisted, OfRecord
  <1>3. Cardinality(Txns) \in Nat /\ Cardinality({}) = 0
    BY TxnsAssumption, FS_CardinalityType, FS_EmptySet
  <1> QED
    BY <1>1, <1>2, <1>3

\* Overlapping creations leave no more open requests of a record than requests
\* overlap: a retry after an answer does not pile them up.
THEOREM OpenIsBounded == Spec => []OpenBounded
  <1>1. IInv /\ OpenInv => OpenBounded
    <2> SUFFICES ASSUME IInv, OpenInv PROVE OpenBounded
      OBVIOUS
    <2>1. Unlisted({}) = OfRecord({"open"}) /\ {} \in SUBSET Creating
      BY DEF Unlisted
    <2>2. Cardinality({}) = 0 /\ Cardinality(Unlisted({})) \in Nat
      BY FS_EmptySet, CountedSets
    <2>3. Cardinality(Unlisted({})) + Cardinality({}) <= Cardinality(Txns)
      BY <2>1 DEF OpenInv
    <2> QED
      BY <2>1, <2>2, <2>3 DEF OpenBounded
  <1> QED
    BY <1>1, NothingOpenAtFirst, StepCounts, RevisionInvariant, PTL DEF Spec
=============================================================================
