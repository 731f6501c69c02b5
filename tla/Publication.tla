------------------------------- MODULE Publication -------------------------------
(***************************************************************************)
(* Prompts and the sources they cite (prompts/repository.py,               *)
(* sources/repository.py).  A prompt gets a new wording by a version       *)
(* request, which sends a published prompt back to review, and reaches     *)
(* learners by a publication, which names a reviewer and no wording.       *)
(*                                                                         *)
(* Each request is a transaction that reads rows as they are committed,    *)
(* decides on what it has read, and writes only the columns its decision   *)
(* changes.  The constraints of the tables are checked when it writes.     *)
(***************************************************************************)
EXTENDS Integers

CONSTANTS
  Prompts, Sources, Reviewers,
  Requests,    \* requests that may be under way at the same time
  NoReviewer,
  MaxVersion   \* bound on the wordings of a prompt

ASSUME PublicationAssumption == NoReviewer \notin Reviewers /\ MaxVersion \in Nat \ {0}

VARIABLES
  status, reviewer, approved,  \* columns of the prompts
  versions,   \* the numbers of the stored wordings of each prompt
  cites,      \* the sources each prompt cites
  sources,    \* the stored sources
  request,    \* what each request has decided to write
  overtaken,  \* history: requests that another one on their prompt has committed under
  reviewed,   \* history: the wordings a publication of the prompt had read
  crossed     \* history: prompts written by an overtaken request since their last
              \* publication that was not

promptVars == <<status, reviewer, approved, versions>>
history == <<overtaken, reviewed, crossed>>
vars == <<promptVars, cites, sources, request, history>>

Unpublished == {"draft", "in-review", "archived"}
Statuses == Unpublished \cup {"published"}

Keep == "keep"
Numbers == 1..MaxVersion

None == [kind |-> "none"]

Creations == [kind : {"create"}, prompt : Prompts, status : Unpublished, cites : (SUBSET Sources) \ {{}}]
VersionRequests ==
  [kind : {"version"}, prompt : Prompts, status : Unpublished \cup {Keep}, clears : BOOLEAN,
   number : 0..MaxVersion]
Publications ==
  [kind : {"publish"}, prompt : Prompts, status : {"published", Keep},
   reviewer : Reviewers \cup {Keep}, seen : SUBSET Numbers]
Deletions == [kind : {"delete"}, source : Sources]

\* published_prompt_requires_review
ReviewNamed(s, r, a) == s = "published" => r # NoReviewer /\ a

\* The numbers of the wordings have no gap, and a published prompt names who reviewed
\* it and when.
TypeOK ==
  /\ status \in [Prompts -> Statuses \cup {"absent"}]
  /\ reviewer \in [Prompts -> Reviewers \cup {NoReviewer}]
  /\ approved \in [Prompts -> BOOLEAN]
  /\ \A p \in Prompts : ReviewNamed(status[p], reviewer[p], approved[p])
  /\ versions \in [Prompts -> SUBSET Numbers]
  /\ \A p \in Prompts : \A n \in versions[p] : 1..n \subseteq versions[p]
  /\ cites \in [Prompts -> SUBSET Sources]
  /\ sources \in SUBSET Sources
  /\ request \in [Requests -> Creations \cup VersionRequests \cup Publications
                                \cup Deletions \cup {None}]
  /\ overtaken \in SUBSET Requests
  /\ reviewed \in [Prompts -> SUBSET Numbers]
  /\ crossed \in SUBSET Prompts

Init ==
  /\ status = [p \in Prompts |-> "absent"]
  /\ reviewer = [p \in Prompts |-> NoReviewer]
  /\ approved = [p \in Prompts |-> FALSE]
  /\ versions = [p \in Prompts |-> {}]
  /\ cites = [p \in Prompts |-> {}]
  /\ sources = {}
  /\ request = [t \in Requests |-> None]
  /\ overtaken = {} /\ crossed = {}
  /\ reviewed = [p \in Prompts |-> {}]

------------------------------------------------------------------------------
(* Requests read and decide *)

Begin(t, r) ==
  /\ request[t] = None
  /\ request' = [request EXCEPT ![t] = r]
  /\ UNCHANGED <<promptVars, cites, sources, history>>

Changed(new, loaded) == IF new = loaded THEN Keep ELSE new

\* create_prompt has found the sources, at least one.
CreatePrompt(t, p, first, cited) ==
  /\ status[p] = "absent"
  /\ \A u \in Requests : request[u] # None /\ request[u].kind = "create" => request[u].prompt # p
  /\ cited # {} /\ cited \subseteq sources
  /\ Begin(t, [kind |-> "create", prompt |-> p, status |-> first, cites |-> cited])

\* Mutant: a new wording leaves a published prompt published.
VersionInPlace(t, p, change) ==
  /\ status[p] # "absent"
  /\ Begin(t, [kind |-> "version", prompt |-> p, clears |-> FALSE, number |-> 0,
               status |-> IF change = Keep THEN Keep ELSE Changed(change, status[p])])

\* version_prompt: the status may be changed along with the wording, and what is then
\* still published goes back to review.
VersionPrompt(t, p, change) ==
  /\ status[p] # "absent"
  /\ LET sentBack == change = Keep /\ status[p] = "published"
         wanted == IF sentBack THEN "in-review" ELSE IF change = Keep THEN status[p] ELSE change
     IN Begin(t, [kind |-> "version", prompt |-> p, clears |-> sentBack, number |-> 0,
                  status |-> Changed(wanted, status[p])])

\* One more than the largest number.
IsNext(n, numbers) == numbers \subseteq 1..(n - 1) /\ (n = 1 \/ n - 1 \in numbers)

\* The number of the new wording is read after the prompt.
NextVersion(t) ==
  LET r == request[t] IN
  /\ r.kind = "version" /\ r.number = 0
  /\ \E n \in Numbers :
        /\ IsNext(n, versions[r.prompt])
        /\ request' = [request EXCEPT ![t].number = n]
  /\ UNCHANGED <<promptVars, cites, sources, history>>

\* publish_prompt: of a prompt in whatever status, for the wordings there are.
PublishPrompt(t, p, by) ==
  /\ status[p] # "absent" /\ cites[p] # {}
  /\ Begin(t, [kind |-> "publish", prompt |-> p, seen |-> versions[p],
               status |-> Changed("published", status[p]),
               reviewer |-> Changed(by, reviewer[p])])

\* delete_source_reference has found no prompt that cites the source.
DeleteSource(t, s) ==
  /\ s \in sources
  /\ \A p \in Prompts : s \notin cites[p]
  /\ Begin(t, [kind |-> "delete", source |-> s])

------------------------------------------------------------------------------
(* Requests write and commit *)

End(t) == request' = [request EXCEPT ![t] = None]

OnPrompt(p) == {u \in Requests : request[u].kind \in {"version", "publish"} /\ request[u].prompt = p}

\* All others that have read the prompt are overtaken.
Overtake(t, p) == overtaken' = (overtaken \cup OnPrompt(p)) \ {t}

Written(column, p, new) ==
  IF new = Keep THEN column ELSE [column EXCEPT ![p] = new]

\* The prompt, its first wording and its citations.
InsertRows(t) ==
  LET r == request[t] IN
  /\ r.kind = "create"
  /\ status' = [status EXCEPT ![r.prompt] = r.status]
  /\ versions' = [versions EXCEPT ![r.prompt] = {1}]
  /\ cites' = [cites EXCEPT ![r.prompt] = r.cites]
  /\ End(t)
  /\ UNCHANGED <<reviewer, approved, sources, history>>

\* Each cited source must be there.
InsertPrompt(t) == InsertRows(t) /\ request[t].cites \subseteq sources

\* prompt_version_number_unique
AppendVersion(t) ==
  LET r == request[t]
      p == r.prompt
  IN
  /\ r.kind = "version" /\ r.number # 0
  /\ r.number \notin versions[p]
  /\ versions' = [versions EXCEPT ![p] = @ \cup {r.number}]
  /\ status' = Written(status, p, r.status)
  /\ reviewer' = IF r.clears THEN [reviewer EXCEPT ![p] = NoReviewer] ELSE reviewer
  /\ approved' = IF r.clears THEN [approved EXCEPT ![p] = FALSE] ELSE approved
  /\ crossed' = IF t \in overtaken THEN crossed \cup {p} ELSE crossed
  /\ Overtake(t, p)
  /\ End(t)
  /\ ReviewNamed(status'[p], reviewer'[p], approved'[p])
  /\ UNCHANGED <<cites, sources, reviewed>>

\* What publish_prompt changes, whatever the row has become.
WriteRow(t) ==
  LET r == request[t]
      p == r.prompt
  IN
  /\ r.kind = "publish"
  /\ status' = Written(status, p, r.status)
  /\ reviewer' = Written(reviewer, p, r.reviewer)
  /\ approved' = [approved EXCEPT ![p] = TRUE]
  /\ reviewed' = [reviewed EXCEPT ![p] = @ \cup r.seen]
  /\ crossed' = IF t \in overtaken THEN crossed \cup {p} ELSE crossed \ {p}
  /\ Overtake(t, p)
  /\ End(t)
  /\ UNCHANGED <<versions, cites, sources>>

\* The reviewer is written only if the prompt had another one when it was read.
WritePublication(t) ==
  /\ WriteRow(t)
  /\ LET p == request[t].prompt IN ReviewNamed(status'[p], reviewer'[p], approved'[p])

\* A source that has been cited in the meantime stays.
RemoveSource(t) ==
  LET r == request[t] IN
  /\ r.kind = "delete"
  /\ r.source \in sources
  /\ \A p \in Prompts : r.source \notin cites[p]
  /\ sources' = sources \ {r.source}
  /\ End(t)
  /\ UNCHANGED <<promptVars, cites, history>>

\* A request that is refused, by a constraint or otherwise.
Rollback(t) ==
  /\ request[t] # None
  /\ End(t)
  /\ overtaken' = overtaken \ {t}
  /\ UNCHANGED <<promptVars, cites, sources, reviewed, crossed>>

CreateSource(s) ==
  /\ s \notin sources
  /\ sources' = sources \cup {s}
  /\ UNCHANGED <<promptVars, cites, request, history>>

------------------------------------------------------------------------------
Commit(t) == InsertPrompt(t) \/ AppendVersion(t) \/ WritePublication(t) \/ RemoveSource(t)

RequestNext(t) ==
  \/ \E p \in Prompts :
       \/ \E first \in Unpublished, cited \in SUBSET Sources : CreatePrompt(t, p, first, cited)
       \/ \E change \in Unpublished \cup {Keep} : VersionPrompt(t, p, change)
       \/ \E by \in Reviewers : PublishPrompt(t, p, by)
  \/ \E s \in Sources : DeleteSource(t, s)
  \/ NextVersion(t) \/ Commit(t) \/ Rollback(t)

Next ==
  \/ \E t \in Requests : RequestNext(t)
  \/ \E s \in Sources : CreateSource(s)

Spec == Init /\ [][Next]_vars

------------------------------------------------------------------------------
(* What is checked *)

\* A published prompt shows a wording that was added after its reviewer asked for the
\* publication only when a version request and another on the prompt overlapped: the
\* reset of version_prompt is enough as long as each acts on what it has read.
ReviewedUnlessOvertaken ==
  \A p \in Prompts \ crossed : status[p] = "published" => versions[p] \subseteq reviewed[p]

\* A prompt that exists cites at least one source, and every source it cites exists,
\* however creations and deletions that checked before overlap.
CitationsResolve ==
  \A p \in Prompts :
    /\ cites[p] \subseteq sources
    /\ status[p] # "absent" => cites[p] # {}
==============================================================================
