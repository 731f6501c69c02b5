----------------------------- MODULE PublicationProofs -----------------------------
(***************************************************************************)
(* For any number of prompts, sources and overlapping requests: a wording  *)
(* that was added after the review of a published prompt needs an overlap, *)
(* and citations resolve.                                                  *)
(***************************************************************************)
EXTENDS Publication, TLAPS

\* A prompt is created once, and only then read.
LifeInv ==
  \A t \in Requests :
    /\ request[t].kind = "create" =>
         /\ status[request[t].prompt] = "absent"
         /\ \A u \in Requests \ {t} :
              request[u].kind = "create" => request[u].prompt # request[t].prompt
    /\ request[t].kind \in {"version", "publish"} => status[request[t].prompt] # "absent"

\* The number a version request has read continues the stored ones.
NumberInv ==
  \A t \in Requests :
    request[t].kind = "version" /\ request[t].number # 0 =>
      1..(request[t].number - 1) \subseteq versions[request[t].prompt]

\* A request nobody has overtaken has read what is stored: a publication knows every
\* wording, and a version request does not leave a published prompt published.
FreshInv ==
  \A t \in Requests \ overtaken :
    /\ request[t].kind = "publish" => versions[request[t].prompt] \subseteq request[t].seen
    /\ request[t].kind = "version" /\ status[request[t].prompt] = "published" =>
         request[t].status \in Unpublished

PublicationInv ==
  TypeOK /\ LifeInv /\ NumberInv /\ FreshInv /\ ReviewedUnlessOvertaken /\ CitationsResolve

\* What a request of a kind carries.
LEMMA Carried ==
  ASSUME TypeOK, NEW t \in Requests
  PROVE  /\ request[t].kind = "create" => request[t] \in Creations
         /\ request[t].kind = "version" => request[t] \in VersionRequests
         /\ request[t].kind = "publish" => request[t] \in Publications
         /\ request[t].kind = "delete" => request[t] \in Deletions
  BY DEF TypeOK, Creations, VersionRequests, Publications, Deletions, None

\* A request that begins knows what is stored now.
LEMMA BeginStep ==
  ASSUME PublicationInv, NEW t \in Requests, NEW r, Begin(t, r),
         r \in Creations \cup VersionRequests \cup Publications \cup Deletions,
         r.kind = "create" =>
           /\ status[r.prompt] = "absent"
           /\ \A u \in Requests : request[u].kind = "create" => request[u].prompt # r.prompt,
         r.kind \in {"version", "publish"} => status[r.prompt] # "absent",
         r.kind = "version" =>
           r.number = 0 /\ (status[r.prompt] = "published" => r.status \in Unpublished),
         r.kind = "publish" => r.seen = versions[r.prompt]
  PROVE  PublicationInv'
  <1>1. /\ request' \in [Requests -> Creations \cup VersionRequests \cup Publications
                                       \cup Deletions \cup {None}]
        /\ request'[t] = r
        /\ \A u \in Requests \ {t} : request'[u] = request[u]
    BY DEF Begin, PublicationInv, TypeOK
  <1>2. UNCHANGED <<status, reviewer, approved, versions, cites, sources, overtaken,
                    reviewed, crossed>>
    BY DEF Begin, promptVars, history
  <1> HIDE DEF Begin
  <1>3. TypeOK'
    BY <1>1, <1>2 DEF PublicationInv, TypeOK, ReviewNamed
  <1>4. LifeInv'
    BY <1>1, <1>2 DEF PublicationInv, LifeInv
  <1>5. NumberInv'
    BY <1>1, <1>2 DEF PublicationInv, NumberInv
  <1>6. FreshInv'
    BY <1>1, <1>2 DEF PublicationInv, FreshInv
  <1>7. ReviewedUnlessOvertaken' /\ CitationsResolve'
    BY <1>2 DEF PublicationInv, ReviewedUnlessOvertaken, CitationsResolve
  <1> QED
    BY <1>3, <1>4, <1>5, <1>6, <1>7 DEF PublicationInv

\* What is left of the invariant of the requests when one ends and the rows of prompts it
\* may have written are those of p, whose other readers are then overtaken.
LEMMA EndStep ==
  ASSUME PublicationInv, NEW t \in Requests, End(t), TypeOK',
         NEW p \in Prompts,
         \A q \in Prompts \ {p} : status'[q] = status[q] /\ versions'[q] = versions[q],
         status[p] # "absent" <=> status'[p] # "absent",
         versions[p] \subseteq versions'[p],
         Overtake(t, p) \/ (UNCHANGED <<status, versions>> /\ overtaken' = overtaken \ {t})
  PROVE  LifeInv' /\ NumberInv' /\ FreshInv'
  <1>1. request'[t] = None /\ \A u \in Requests \ {t} : request'[u] = request[u]
    BY DEF End, PublicationInv, TypeOK
  <1>2. \A u \in Requests : /\ request[u].kind = "create" => request[u].prompt \in Prompts
                            /\ request[u].kind \in {"version", "publish"} =>
                                 request[u].prompt \in Prompts
    BY Carried DEF PublicationInv, Creations, VersionRequests, Publications
  <1>3. None.kind = "none"
    BY DEF None
  <1>4. \A q \in Prompts : /\ status[q] # "absent" <=> status'[q] # "absent"
                           /\ versions[q] \subseteq versions'[q]
    OBVIOUS
  <1>5. LifeInv'
    BY <1>1, <1>2, <1>3, <1>4 DEF PublicationInv, LifeInv
  <1>6. NumberInv'
    BY <1>1, <1>2, <1>3, <1>4 DEF PublicationInv, NumberInv
  <1>7. FreshInv'
    <2> SUFFICES ASSUME NEW u \in Requests, u \notin overtaken'
                 PROVE  /\ request'[u].kind = "publish" =>
                             versions'[request'[u].prompt] \subseteq request'[u].seen
                        /\ request'[u].kind = "version" /\ status'[request'[u].prompt] = "published"
                             => request'[u].status \in Unpublished
      BY DEF FreshInv
    <2>1. CASE u = t
      BY <1>1, <1>3, <2>1
    <2>2. CASE u # t /\ request[u].kind \in {"version", "publish"}
      <3>1. request'[u] = request[u] /\ request[u].prompt \in Prompts
        BY <1>1, <1>2, <2>2
      <3>2. u \notin overtaken
        BY <2>2 DEF Overtake
      <3>3. status'[request[u].prompt] = status[request[u].prompt]
            /\ versions'[request[u].prompt] = versions[request[u].prompt]
        BY <2>2, <3>1 DEF Overtake, OnPrompt
      <3> QED
        BY <3>1, <3>2, <3>3 DEF PublicationInv, FreshInv
    <2>3. CASE u # t /\ request[u].kind \notin {"version", "publish"}
      BY <1>1, <2>3
    <2> QED
      BY <2>1, <2>2, <2>3
  <1> QED
    BY <1>5, <1>6, <1>7

LEMMA InitPublication == Init => PublicationInv
  <1> SUFFICES ASSUME Init PROVE PublicationInv
    OBVIOUS
  <1>1. TypeOK
    BY DEF Init, TypeOK, ReviewNamed, Statuses
  <1>2. LifeInv /\ NumberInv /\ FreshInv
    BY DEF Init, LifeInv, NumberInv, FreshInv, None
  <1>3. ReviewedUnlessOvertaken /\ CitationsResolve
    BY DEF Init, ReviewedUnlessOvertaken, CitationsResolve
  <1> QED
    BY <1>1, <1>2, <1>3 DEF PublicationInv

\* A request that ends without writing leaves everything else in place.
LEMMA NothingWritten ==
  ASSUME PublicationInv, NEW t \in Requests, End(t), overtaken' = overtaken \ {t},
         UNCHANGED <<promptVars, cites, sources, reviewed, crossed>>
  PROVE  PublicationInv'
  <1>1. request'[t] = None /\ \A u \in Requests \ {t} : request'[u] = request[u]
    BY DEF End, PublicationInv, TypeOK
  <1>2. TypeOK'
    BY DEF PublicationInv, TypeOK, End, promptVars, ReviewNamed
  <1>3. LifeInv' /\ NumberInv' /\ FreshInv'
    BY <1>1 DEF PublicationInv, LifeInv, NumberInv, FreshInv, None, promptVars
  <1>4. ReviewedUnlessOvertaken' /\ CitationsResolve'
    BY DEF PublicationInv, ReviewedUnlessOvertaken, CitationsResolve, promptVars
  <1> QED
    BY <1>2, <1>3, <1>4 DEF PublicationInv

LEMMA CreatePromptStep ==
  ASSUME PublicationInv, NEW t \in Requests, NEW p \in Prompts, NEW first \in Unpublished,
         NEW cited \in SUBSET Sources, CreatePrompt(t, p, first, cited)
  PROVE  PublicationInv'
  <1> DEFINE r == [kind |-> "create", prompt |-> p, status |-> first, cites |-> cited]
  <1>1. r \in Creations /\ r.kind = "create" /\ r.prompt = p
    BY DEF CreatePrompt, Creations
  <1>2. Begin(t, r)
    BY DEF CreatePrompt
  <1>3. \A u \in Requests : request[u].kind = "create" => request[u].prompt # p
    BY DEF CreatePrompt, None
  <1>4. status[p] = "absent"
    BY DEF CreatePrompt
  <1> HIDE DEF r
  <1> QED
    BY <1>1, <1>2, <1>3, <1>4, BeginStep

LEMMA VersionPromptStep ==
  ASSUME PublicationInv, NEW t \in Requests, NEW p \in Prompts,
         NEW change \in Unpublished \cup {Keep}, VersionPrompt(t, p, change)
  PROVE  PublicationInv'
  <1> DEFINE sentBack == change = Keep /\ status[p] = "published"
             wanted == IF sentBack THEN "in-review" ELSE IF change = Keep THEN status[p] ELSE change
             r == [kind |-> "version", prompt |-> p, clears |-> sentBack, number |-> 0,
                   status |-> Changed(wanted, status[p])]
  <1>0. status[p] \in Statuses
    BY DEF PublicationInv, TypeOK, VersionPrompt
  <1>1. wanted \in Unpublished
    BY <1>0 DEF Unpublished, Statuses, Keep
  <1>2. Changed(wanted, status[p]) \in Unpublished \cup {Keep}
        /\ (status[p] = "published" => Changed(wanted, status[p]) \in Unpublished)
    BY <1>1 DEF Changed, Unpublished
  <1>3. sentBack \in BOOLEAN /\ 0 \in 0..MaxVersion
    BY PublicationAssumption
  <1>4. Begin(t, r)
    BY DEF VersionPrompt
  <1>5. r \in VersionRequests /\ r.kind = "version" /\ r.prompt = p /\ r.number = 0
        /\ r.status = Changed(wanted, status[p])
    BY <1>2, <1>3 DEF VersionRequests
  <1>6. status[p] # "absent"
    BY DEF VersionPrompt
  <1> HIDE DEF r, wanted, sentBack
  <1> QED
    BY <1>2, <1>4, <1>5, <1>6, BeginStep

LEMMA PublishPromptStep ==
  ASSUME PublicationInv, NEW t \in Requests, NEW p \in Prompts, NEW by \in Reviewers,
         PublishPrompt(t, p, by)
  PROVE  PublicationInv'
  <1> DEFINE r == [kind |-> "publish", prompt |-> p, seen |-> versions[p],
                   status |-> Changed("published", status[p]),
                   reviewer |-> Changed(by, reviewer[p])]
  <1>1. r \in Publications /\ r.kind = "publish" /\ r.prompt = p /\ r.seen = versions[p]
    BY DEF Publications, Changed, PublicationInv, TypeOK
  <1>2. Begin(t, r) /\ status[p] # "absent"
    BY DEF PublishPrompt
  <1> HIDE DEF r
  <1> QED
    BY <1>1, <1>2, BeginStep

LEMMA DeleteSourceStep ==
  ASSUME PublicationInv, NEW t \in Requests, NEW s \in Sources, DeleteSource(t, s)
  PROVE  PublicationInv'
  <1> DEFINE r == [kind |-> "delete", source |-> s]
  <1>1. r \in Deletions /\ r.kind = "delete"
    BY DEF Deletions
  <1>2. Begin(t, r)
    BY DEF DeleteSource
  <1> HIDE DEF r
  <1> QED
    BY <1>1, <1>2, BeginStep

\* The number that is read is the next one.
LEMMA NextVersionStep ==
  ASSUME PublicationInv, NEW t \in Requests, NextVersion(t)
  PROVE  PublicationInv'
  <1>1. request[t] \in VersionRequests /\ request[t].kind = "version"
    BY Carried DEF NextVersion, PublicationInv
  <1>2. PICK n \in Numbers : /\ IsNext(n, versions[request[t].prompt])
                             /\ request' = [request EXCEPT ![t].number = n]
    BY DEF NextVersion
  <1>3. request[t].prompt \in Prompts
    BY <1>1 DEF VersionRequests
  <1>4. n \in 1..MaxVersion /\ 1..(n - 1) \subseteq versions[request[t].prompt]
    BY <1>2, <1>3, PublicationAssumption DEF IsNext, Numbers, PublicationInv, TypeOK
  <1>5. /\ request'[t] \in VersionRequests
        /\ request'[t].kind = "version" /\ request'[t].prompt = request[t].prompt
        /\ request'[t].status = request[t].status /\ request'[t].number = n
    BY <1>1, <1>2, <1>4 DEF VersionRequests, PublicationInv, TypeOK, Numbers
  <1>6. \A u \in Requests \ {t} : request'[u] = request[u]
    BY <1>2 DEF PublicationInv, TypeOK
  <1>7. UNCHANGED <<status, reviewer, approved, versions, cites, sources, overtaken,
                    reviewed, crossed>>
    BY DEF NextVersion, promptVars, history
  <1>8. request' \in [Requests -> Creations \cup VersionRequests \cup Publications
                                     \cup Deletions \cup {None}]
    BY <1>2, <1>5, <1>6 DEF PublicationInv, TypeOK
  <1>9. TypeOK'
    BY <1>7, <1>8 DEF PublicationInv, TypeOK, ReviewNamed
  <1>10. LifeInv'
    BY <1>1, <1>5, <1>6, <1>7 DEF PublicationInv, LifeInv
  <1>11. NumberInv'
    BY <1>4, <1>5, <1>6, <1>7 DEF PublicationInv, NumberInv
  <1>12. FreshInv'
    BY <1>1, <1>5, <1>6, <1>7 DEF PublicationInv, FreshInv
  <1>13. ReviewedUnlessOvertaken' /\ CitationsResolve'
    BY <1>7 DEF PublicationInv, ReviewedUnlessOvertaken, CitationsResolve
  <1> QED
    BY <1>9, <1>10, <1>11, <1>12, <1>13 DEF PublicationInv

\* A prompt that is inserted is not published, and its sources are there.
LEMMA InsertPromptStep ==
  ASSUME PublicationInv, NEW t \in Requests, InsertPrompt(t)
  PROVE  PublicationInv'
  <1> DEFINE r == request[t]
             p == r.prompt
  <1>1. r \in Creations /\ r.kind = "create" /\ r.cites \subseteq sources
    BY Carried DEF InsertPrompt, InsertRows, PublicationInv
  <1>2. /\ p \in Prompts /\ r.status \in Unpublished
        /\ r.cites \in SUBSET Sources /\ r.cites # {}
    BY <1>1 DEF Creations
  <1>3. status[p] = "absent"
    BY <1>1 DEF PublicationInv, LifeInv
  <1>4. /\ status' = [status EXCEPT ![p] = r.status]
        /\ versions' = [versions EXCEPT ![p] = {1}]
        /\ cites' = [cites EXCEPT ![p] = r.cites]
        /\ UNCHANGED <<reviewer, approved, sources, overtaken, reviewed, crossed>>
    BY DEF InsertPrompt, InsertRows, history
  <1>5. request'[t] = None /\ \A u \in Requests \ {t} : request'[u] = request[u]
    BY DEF InsertPrompt, InsertRows, End, PublicationInv, TypeOK
  <1>6. \A u \in Requests : /\ request[u].kind = "create" => request[u].prompt \in Prompts
                            /\ request[u].kind \in {"version", "publish"} =>
                                 request[u].prompt \in Prompts /\ request[u].prompt # p
    BY <1>3, Carried DEF PublicationInv, Creations, VersionRequests, Publications, LifeInv
  <1>7. \A u \in Requests \ {t} : request[u].kind = "create" => request[u].prompt # p
    BY <1>1 DEF PublicationInv, LifeInv
  <1>8. None.kind = "none" /\ "absent" \notin Unpublished /\ "published" \notin Unpublished
    BY DEF None, Unpublished
  <1> HIDE DEF r, p
  <1>9. TypeOK'
    <2>1. request' \in [Requests -> Creations \cup VersionRequests \cup Publications
                                       \cup Deletions \cup {None}]
      BY DEF InsertPrompt, InsertRows, End, PublicationInv, TypeOK
    <2>2. \A q \in Prompts : ReviewNamed(status[q], reviewer[q], approved[q])'
      BY <1>2, <1>4, <1>8 DEF PublicationInv, TypeOK, ReviewNamed
    <2>3. versions' \in [Prompts -> SUBSET Numbers]
          /\ \A q \in Prompts : \A n \in versions'[q] : 1..n \subseteq versions'[q]
      BY <1>2, <1>4, PublicationAssumption DEF PublicationInv, TypeOK, Numbers
    <2>4. status' \in [Prompts -> Statuses \cup {"absent"}] /\ cites' \in [Prompts -> SUBSET Sources]
      BY <1>2, <1>4 DEF PublicationInv, TypeOK, Statuses
    <2> QED
      BY <1>4, <2>1, <2>2, <2>3, <2>4 DEF PublicationInv, TypeOK
  <1>10. LifeInv'
    BY <1>2, <1>4, <1>5, <1>6, <1>7, <1>8 DEF PublicationInv, LifeInv, TypeOK
  <1>11. NumberInv'
    BY <1>4, <1>5, <1>6, <1>8 DEF PublicationInv, NumberInv, TypeOK
  <1>12. FreshInv'
    BY <1>4, <1>5, <1>6, <1>8 DEF PublicationInv, FreshInv, TypeOK
  <1>13. ReviewedUnlessOvertaken'
    BY <1>2, <1>4, <1>8 DEF PublicationInv, ReviewedUnlessOvertaken, TypeOK
  <1>14. CitationsResolve'
    BY <1>1, <1>2, <1>4 DEF PublicationInv, CitationsResolve, TypeOK
  <1> QED
    BY <1>9, <1>10, <1>11, <1>12, <1>13, <1>14 DEF PublicationInv

\* A version request nobody has overtaken leaves no prompt published.
LEMMA AppendVersionStep ==
  ASSUME PublicationInv, NEW t \in Requests, AppendVersion(t)
  PROVE  PublicationInv'
  <1> DEFINE r == request[t]
             p == r.prompt
  <1>1. r \in VersionRequests /\ r.kind = "version" /\ r.number # 0
    BY Carried DEF AppendVersion, PublicationInv
  <1>2. /\ p \in Prompts /\ r.status \in Unpublished \cup {Keep}
        /\ r.number \in Numbers
    BY <1>1, PublicationAssumption DEF VersionRequests, Numbers
  <1>3. /\ versions' = [versions EXCEPT ![p] = @ \cup {r.number}]
        /\ status' = Written(status, p, r.status)
        /\ reviewer' = IF r.clears THEN [reviewer EXCEPT ![p] = NoReviewer] ELSE reviewer
        /\ approved' = IF r.clears THEN [approved EXCEPT ![p] = FALSE] ELSE approved
        /\ crossed' = IF t \in overtaken THEN crossed \cup {p} ELSE crossed
        /\ Overtake(t, p) /\ End(t)
        /\ ReviewNamed(status'[p], reviewer'[p], approved'[p])
        /\ UNCHANGED <<cites, sources, reviewed>>
    BY DEF AppendVersion
  <1>4. status[p] # "absent" /\ 1..(r.number - 1) \subseteq versions[p]
    BY <1>1 DEF PublicationInv, LifeInv, NumberInv
  <1>5. t \notin overtaken /\ status[p] = "published" => r.status \in Unpublished
    BY <1>1 DEF PublicationInv, FreshInv
  <1>6. "absent" \notin Unpublished /\ "published" \notin Unpublished /\ Keep \notin Unpublished
    BY DEF Unpublished, Keep
  <1> HIDE DEF r, p
  <1>7. /\ status' \in [Prompts -> Statuses \cup {"absent"}]
        /\ status'[p] = (IF r.status = Keep THEN status[p] ELSE r.status)
        /\ \A q \in Prompts \ {p} : status'[q] = status[q]
    BY <1>2, <1>3 DEF Written, PublicationInv, TypeOK, Statuses
  <1>8. /\ reviewer' \in [Prompts -> Reviewers \cup {NoReviewer}]
        /\ approved' \in [Prompts -> BOOLEAN]
        /\ \A q \in Prompts \ {p} : reviewer'[q] = reviewer[q] /\ approved'[q] = approved[q]
    BY <1>2, <1>3 DEF PublicationInv, TypeOK
  <1>9. /\ versions' \in [Prompts -> SUBSET Numbers]
        /\ versions'[p] = versions[p] \cup {r.number}
        /\ \A q \in Prompts \ {p} : versions'[q] = versions[q]
    BY <1>2, <1>3 DEF PublicationInv, TypeOK
  <1>10. TypeOK'
    <2>1. \A q \in Prompts : ReviewNamed(status[q], reviewer[q], approved[q])'
      BY <1>3, <1>7, <1>8 DEF PublicationInv, TypeOK, ReviewNamed
    <2>2. \A q \in Prompts : \A n \in versions'[q] : 1..n \subseteq versions'[q]
      <3> SUFFICES ASSUME NEW q \in Prompts, NEW n \in versions'[q]
                   PROVE  1..n \subseteq versions'[q]
        OBVIOUS
      <3>1. CASE n \in versions[q]
        BY <1>9, <3>1 DEF PublicationInv, TypeOK
      <3>2. CASE q = p /\ n = r.number
        BY <1>2, <1>4, <1>9, <3>2, PublicationAssumption DEF Numbers
      <3> QED
        BY <1>9, <3>1, <3>2
    <2>3. request' \in [Requests -> Creations \cup VersionRequests \cup Publications
                                       \cup Deletions \cup {None}]
      BY <1>3 DEF End, PublicationInv, TypeOK
    <2>4. overtaken' \in SUBSET Requests /\ crossed' \in SUBSET Prompts
      BY <1>2, <1>3 DEF Overtake, OnPrompt, PublicationInv, TypeOK
    <2> QED
      BY <1>3, <1>7, <1>8, <1>9, <2>1, <2>2, <2>3, <2>4 DEF PublicationInv, TypeOK
  <1>11. LifeInv' /\ NumberInv' /\ FreshInv'
    BY <1>2, <1>3, <1>4, <1>6, <1>7, <1>9, <1>10, EndStep
  <1>12. ReviewedUnlessOvertaken'
    <2>1. CASE t \in overtaken
      BY <1>2, <1>3, <1>7, <1>9, <2>1 DEF PublicationInv, ReviewedUnlessOvertaken
    <2>2. CASE t \notin overtaken
      <3>1. status'[p] # "published"
        BY <1>2, <1>5, <1>6, <1>7, <2>2
      <3> QED
        BY <1>3, <1>7, <1>9, <2>2, <3>1 DEF PublicationInv, ReviewedUnlessOvertaken
    <2> QED
      BY <2>1, <2>2
  <1>13. CitationsResolve'
    BY <1>3, <1>4, <1>7 DEF PublicationInv, CitationsResolve
  <1> QED
    BY <1>10, <1>11, <1>12, <1>13 DEF PublicationInv

\* A publication nobody has overtaken knows every wording.
LEMMA WritePublicationStep ==
  ASSUME PublicationInv, NEW t \in Requests, WritePublication(t)
  PROVE  PublicationInv'
  <1> DEFINE r == request[t]
             p == r.prompt
  <1>1. r \in Publications /\ r.kind = "publish"
    BY Carried DEF WritePublication, WriteRow, PublicationInv
  <1>2. /\ p \in Prompts /\ r.status \in {"published", Keep}
        /\ r.reviewer \in Reviewers \cup {Keep} /\ r.seen \in SUBSET Numbers
    BY <1>1 DEF Publications
  <1>3. /\ status' = Written(status, p, r.status)
        /\ reviewer' = Written(reviewer, p, r.reviewer)
        /\ approved' = [approved EXCEPT ![p] = TRUE]
        /\ reviewed' = [reviewed EXCEPT ![p] = @ \cup r.seen]
        /\ crossed' = IF t \in overtaken THEN crossed \cup {p} ELSE crossed \ {p}
        /\ Overtake(t, p) /\ End(t)
        /\ ReviewNamed(status'[p], reviewer'[p], approved'[p])
        /\ UNCHANGED <<versions, cites, sources>>
    BY DEF WritePublication, WriteRow
  <1>4. status[p] # "absent" /\ (t \notin overtaken => versions[p] \subseteq r.seen)
    BY <1>1 DEF PublicationInv, LifeInv, FreshInv
  <1> HIDE DEF r, p
  <1>5. /\ status' \in [Prompts -> Statuses \cup {"absent"}]
        /\ status'[p] # "absent"
        /\ \A q \in Prompts \ {p} : status'[q] = status[q]
    BY <1>2, <1>3, <1>4 DEF Written, PublicationInv, TypeOK, Statuses
  <1>6. /\ reviewer' \in [Prompts -> Reviewers \cup {NoReviewer}]
        /\ approved' \in [Prompts -> BOOLEAN]
        /\ \A q \in Prompts \ {p} : reviewer'[q] = reviewer[q] /\ approved'[q] = approved[q]
    BY <1>2, <1>3 DEF Written, PublicationInv, TypeOK
  <1>7. /\ reviewed' \in [Prompts -> SUBSET Numbers]
        /\ reviewed'[p] = reviewed[p] \cup r.seen
        /\ \A q \in Prompts \ {p} : reviewed'[q] = reviewed[q]
    BY <1>2, <1>3 DEF PublicationInv, TypeOK
  <1>8. TypeOK'
    <2>1. \A q \in Prompts : ReviewNamed(status[q], reviewer[q], approved[q])'
      BY <1>3, <1>5, <1>6 DEF PublicationInv, TypeOK, ReviewNamed
    <2>2. request' \in [Requests -> Creations \cup VersionRequests \cup Publications
                                       \cup Deletions \cup {None}]
      BY <1>3 DEF End, PublicationInv, TypeOK
    <2>3. overtaken' \in SUBSET Requests /\ crossed' \in SUBSET Prompts
      BY <1>2, <1>3 DEF Overtake, OnPrompt, PublicationInv, TypeOK
    <2> QED
      BY <1>3, <1>5, <1>6, <1>7, <2>1, <2>2, <2>3 DEF PublicationInv, TypeOK
  <1>9. LifeInv' /\ NumberInv' /\ FreshInv'
    BY <1>2, <1>3, <1>4, <1>5, <1>8, EndStep
  <1>10. ReviewedUnlessOvertaken'
    BY <1>2, <1>3, <1>4, <1>5, <1>7 DEF PublicationInv, ReviewedUnlessOvertaken
  <1>11. CitationsResolve'
    BY <1>3, <1>4, <1>5 DEF PublicationInv, CitationsResolve
  <1> QED
    BY <1>8, <1>9, <1>10, <1>11 DEF PublicationInv

\* Only a source that nobody cites is removed.
LEMMA RemoveSourceStep ==
  ASSUME PublicationInv, NEW t \in Requests, RemoveSource(t)
  PROVE  PublicationInv'
  <1>1. request'[t] = None /\ \A u \in Requests \ {t} : request'[u] = request[u]
    BY DEF RemoveSource, End, PublicationInv, TypeOK
  <1>2. /\ UNCHANGED <<status, reviewer, approved, versions, cites, overtaken, reviewed, crossed>>
        /\ sources' = sources \ {request[t].source}
        /\ \A p \in Prompts : request[t].source \notin cites[p]
    BY DEF RemoveSource, promptVars, history
  <1>3. TypeOK'
    BY <1>2 DEF PublicationInv, TypeOK, RemoveSource, End, ReviewNamed
  <1>4. LifeInv' /\ NumberInv' /\ FreshInv'
    BY <1>1, <1>2 DEF PublicationInv, LifeInv, NumberInv, FreshInv, None
  <1>5. ReviewedUnlessOvertaken' /\ CitationsResolve'
    BY <1>2 DEF PublicationInv, ReviewedUnlessOvertaken, CitationsResolve
  <1> QED
    BY <1>3, <1>4, <1>5 DEF PublicationInv

LEMMA PublicationStep == PublicationInv /\ [Next]_vars => PublicationInv'
  <1> SUFFICES ASSUME PublicationInv, [Next]_vars PROVE PublicationInv'
    OBVIOUS
  <1>1. ASSUME NEW t \in Requests, RequestNext(t) PROVE PublicationInv'
    <2>1. CASE \E p \in Prompts, first \in Unpublished, cited \in SUBSET Sources :
                 CreatePrompt(t, p, first, cited)
      BY <2>1, CreatePromptStep
    <2>2. CASE \E p \in Prompts, change \in Unpublished \cup {Keep} : VersionPrompt(t, p, change)
      BY <2>2, VersionPromptStep
    <2>3. CASE \E p \in Prompts, by \in Reviewers : PublishPrompt(t, p, by)
      BY <2>3, PublishPromptStep
    <2>4. CASE \E s \in Sources : DeleteSource(t, s)
      BY <2>4, DeleteSourceStep
    <2>5. CASE NextVersion(t)
      BY <2>5, NextVersionStep
    <2>6. CASE Commit(t)
      BY <2>6, InsertPromptStep, AppendVersionStep, WritePublicationStep, RemoveSourceStep
         DEF Commit
    <2>7. CASE Rollback(t)
      BY <2>7, NothingWritten DEF Rollback
    <2> QED
      BY <1>1, <2>1, <2>2, <2>3, <2>4, <2>5, <2>6, <2>7 DEF RequestNext
  <1>2. ASSUME NEW s \in Sources, CreateSource(s) PROVE PublicationInv'
    <2>1. /\ UNCHANGED <<status, reviewer, approved, versions, cites, request, overtaken,
                         reviewed, crossed>>
          /\ sources' = sources \cup {s}
      BY <1>2 DEF CreateSource, promptVars, history
    <2>2. TypeOK'
      BY <2>1 DEF PublicationInv, TypeOK, ReviewNamed
    <2>3. LifeInv' /\ NumberInv' /\ FreshInv'
      BY <2>1 DEF PublicationInv, LifeInv, NumberInv, FreshInv
    <2>4. ReviewedUnlessOvertaken' /\ CitationsResolve'
      BY <2>1 DEF PublicationInv, ReviewedUnlessOvertaken, CitationsResolve
    <2> QED
      BY <2>2, <2>3, <2>4 DEF PublicationInv
  <1>3. CASE UNCHANGED vars
    <2>1. UNCHANGED <<status, reviewer, approved, versions, cites, sources, request, overtaken,
                      reviewed, crossed>>
      BY <1>3 DEF vars, promptVars, history
    <2>2. TypeOK'
      BY <2>1 DEF PublicationInv, TypeOK, ReviewNamed
    <2>3. LifeInv' /\ NumberInv' /\ FreshInv'
      BY <2>1 DEF PublicationInv, LifeInv, NumberInv, FreshInv
    <2>4. ReviewedUnlessOvertaken' /\ CitationsResolve'
      BY <2>1 DEF PublicationInv, ReviewedUnlessOvertaken, CitationsResolve
    <2> QED
      BY <2>2, <2>3, <2>4 DEF PublicationInv
  <1> QED
    BY <1>1, <1>2, <1>3 DEF Next

LEMMA PublicationInvariant == Spec => []PublicationInv
  BY InitPublication, PublicationStep, PTL DEF Spec

\* The numbers of the wordings have no gap, and a published prompt names its reviewer,
\* whatever requests overlap.
THEOREM PublicationTypeCorrect == Spec => []TypeOK
  <1>1. PublicationInv => TypeOK
    BY DEF PublicationInv
  <1> QED
    BY <1>1, PublicationInvariant, PTL

\* A published prompt shows a wording its publication had not read only when requests on
\* it overlapped.
THEOREM WordingsReviewed == Spec => []ReviewedUnlessOvertaken
  <1>1. PublicationInv => ReviewedUnlessOvertaken
    BY DEF PublicationInv
  <1> QED
    BY <1>1, PublicationInvariant, PTL

\* Every prompt cites sources, and those exist.
THEOREM CitationsStay == Spec => []CitationsResolve
  <1>1. PublicationInv => CitationsResolve
    BY DEF PublicationInv
  <1> QED
    BY <1>1, PublicationInvariant, PTL

\* One request at a time.
InTurn == \A t, u \in Requests : t = u

\* Whoever published a prompt has read every wording it shows.
AllReviewed == \A p \in Prompts : status[p] = "published" => versions[p] \subseteq reviewed[p]

\* Requests that do not overlap never publish a wording their reviewer has not read:
\* the reset of a published prompt by a new version is all that takes.
THEOREM ReviewedInTurn ==
  ASSUME InTurn
  PROVE  Spec => []AllReviewed
  <1> DEFINE NeverCrossed == overtaken = {} /\ crossed = {}
  <1>1. Init => NeverCrossed
    BY DEF Init
  <1>2. NeverCrossed /\ [Next]_vars => NeverCrossed'
    <2> SUFFICES ASSUME NeverCrossed, [Next]_vars
                 PROVE  NeverCrossed'
      OBVIOUS
    <2>1. ASSUME NEW t \in Requests, Commit(t) \/ Rollback(t)
          PROVE  NeverCrossed'
      BY <2>1 DEF Commit, InsertPrompt, InsertRows, AppendVersion, WritePublication, WriteRow,
                  RemoveSource, Rollback, Overtake, OnPrompt, InTurn, history
    <2>2. ASSUME NEW t \in Requests, RequestNext(t)
          PROVE  NeverCrossed'
      BY <2>1, <2>2 DEF RequestNext, CreatePrompt, VersionPrompt, PublishPrompt, DeleteSource,
                        NextVersion, Begin, history
    <2> QED
      BY <2>2 DEF Next, CreateSource, vars, history
  <1>3. PublicationInv /\ NeverCrossed => AllReviewed
    BY DEF PublicationInv, ReviewedUnlessOvertaken, AllReviewed
  <1> QED
    BY <1>1, <1>2, <1>3, PublicationInvariant, PTL DEF Spec
==============================================================================
