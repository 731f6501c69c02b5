# Verification of the learning-management system

TLA+ models of the Python package `src/src/lms` and of the dispatch of coding
agents that the repository keeps beside it, the TLC runs that check them, and
theorems about them that TLAPS proves. `PROJECT.json` lists the components,
the runs, the source lines behind every definition, the hazards and the
theorems.

The program is a web application over a relational database. A request handler
opens one session, one transaction, and either commits or rolls back
(`db/session.py`); FastAPI runs handlers in threads, so requests of the same
learner overlap (a double click, a retry, two tabs, a command-line job). There
is no background worker: every rule that must hold between requests holds
because of a lock, a unique index, a foreign key, or the order in which one
transaction reads and writes. That is where the models look.

The dispatch of agents (`src/scripts/runner_lib/core.py`,
`src/.github/scripts/keepalive_*.js`) is a distributed program: jobs of workflow
runs on separate machines decide by two stores, the comments of a pull request,
which offer no conditional write, and a ledger file, which does. Runs are
cancelled, answers get lost, and a sweep starts again what got stuck.

## 1. Inventory

| Part | State | Operations | What is hard | What makes it correct |
|---|---|---|---|---|
| Knowledge graph (`graphs/`) | nodes, edges, one lock row per ownership scope | create, update, delete nodes and edges; import from CSV | check-then-insert of the cycle check; deletions take no lock | each scope keeps a learning order; no edge loses an endpoint |
| Cycle search (`graphs/repository.py`) | stack, visited set of one request | depth-first search | cycles, diamonds, parallel rows in any order | it ends and answers reachability |
| Evidence (`evidence/`) | attempts, evidence records | record, self-grade, score | check-then-insert; several entry points into the scheduler | one follow-up for each record |
| Rating (`scheduling/fsrs_adapter.py`, `service.py`) | none | ordered rules, a second classifier, a blend, a decision | rules that shadow each other; two opinions about one record | the two outputs, grade and queue item, follow one policy |
| Memory cards (`scheduling/card_state.py`, `fsrs_engine.py`) | one row for each learner and subject: a serialized card and copies in columns | create or seed, advance, re-tier | insertion race; lost updates of absolute values | the card counts no review that no evidence stands for |
| Review queue (`scheduling/repository.py`) | items | queue, complete, clear, pause, mark stale, resume | counts read before they are used | seeded history is completed history |
| Feedback (`feedback/`) | rubric scores, revision requests, hints, model answers | score, request, submit, resolve, reveal | retries and double submits; state machine of a revision | scheduled once; legal transitions, verdicts that rest on a revision |
| Maintenance items (`maintenance/`, their pages) | items, drafts, rejections | admit, approve, reject, expire, review, dispute, re-tier, retire | stale requests against deleted or changed rows; the cap | the queue of drafts is bounded; a discard is final; a retired item stays away |
| LLM client (`llm/budgets.py`, `client.py`) | spend by day, total and by mode, in one process | reserve, commit, release, roll of the day | calls in flight over midnight; failures; construction of the shared client | the spend of a tracker is what its calls cost; its caps hold |
| LLM proposals, traces (`llm/`) | proposals, traces | propose, review, keep, forget | review of what changed | planned |
| Cases (`cases/`) | cases, work products | submit, score, request revision | a row lock around scoring, none around a request for revision | one score with its evidence; scored again only on request |
| Capability (`capability/`) | estimates, gap analyses, plans | estimate, review, plan | a plan against a changed estimate | planned |
| Prompts (`prompts/`) | prompts, versions, citations | create, version, publish | numbering; publication of an unreviewed wording | gapless numbers; published wordings were read by whoever published |
| Sources (`sources/`) | references | create, update, delete, scan for drift | deletion against a prompt that is being created | citations resolve |
| Learners, competencies | records | create, revise, link | creation on first need | not modelled |
| Runner dispatch (`scripts/runner_lib`) | the newest reservation of a pull request, or its receipt | decide, reserve, record a completion | read-then-write without a condition; repeated and late completions; a lost job | no more retries than reservations; a newer reservation is not closed by an older run; the loop never latches shut |
| Authority ledger (`.github/scripts/keepalive_authority_state.js`) | one challenge with its revision | open, prepare, finalize, release, confirm, reconcile | a commit over two stores; writes whose answers are lost or come late; cancelled runs | a challenge starts at most one worker, and is given back only unused and unreserved |
| Authentication, audit, mastery, analytics, export | sessions, log rows | log in, append, summarise | order of an import | export planned, the others are plain |
| Pages (`ui/`) | none | render; the ones that write call the parts above | | listed with the part they write |

How they meet: an attempt (`evidence`) is rated (`scheduling`), advances the
card of its node and queues a review; a rubric score and a resolved revision
(`feedback`) enter the same path through `schedule_for_evidence`; a maintenance
review uses a card of its own subject type but the same `card_state` functions;
capability plans and triggers add items to the same queue; importers and
authoring write the same graph under the same locks; every model call passes
through one budget. A challenge of the ledger is spent only with a reservation of
the runner dispatch, and the ordinary dispatches of the same pull request know
nothing of the ledger.

## 2. The modules

| Module | What it is | Composes |
|---|---|---|
| `OrderingGraph` | edges, the ordering edges of a scope, reachability, acyclicity | |
| `AuthoredGraph` | abstract: the graph as its readers are promised it, changed by whole valid authoring steps | `OrderingGraph` |
| `KnowledgeGraph` | detailed: transactions, scope locks, checks, commits; implements `AuthoredGraph` | `OrderingGraph`, `AuthoredGraph` |
| `CycleSearch` | the search whose result `KnowledgeGraph` uses as `ClosesCycle` | `OrderingGraph` |
| `EvidenceRating` | from one evidence record to grade, reason and due date | |
| `ReviewLoop` | attempts, evidence, card and queue under overlapping requests | grades summarise `EvidenceRating` (`LoopQueuesOutcome`) |
| `Revisions` | revision requests of a record, its action and a work product, under overlapping requests | what a revision schedules is in `ReviewLoop` |
| `Maintenance` | items, drafts, their cap and their cards under overlapping requests | |
| `LlmBudget` | reservation and settlement of cost by concurrent calls | |
| `Publication` | prompts, wordings, sources and citations under overlapping requests | |
| `RunnerDispatch` | reservations, receipts and retries of the jobs of overlapping workflow runs | |
| `SingleUseGrant` | abstract: one challenge that is free, held or spent, and who used it | |
| `AuthorityLedger` | detailed: revisions, delayed writes, the reservation beside the ledger, cancellations, repair; implements `SingleUseGrant` | `SingleUseGrant`; its slot summarises `RunnerDispatch` |
| `KnowledgeGraphProofs` | theorems about the graph, the search, and the two together | `KnowledgeGraph`, `CycleSearch` |
| `SchedulingProofs` | theorems about the rating, the loop, and the two together | `EvidenceRating`, `ReviewLoop` |
| other `*Proofs` | theorems about the module of that name | |
| `MCSmallParts` | one run of four parts that share no state | `CycleSearch`, `EvidenceRating`, `LlmBudget`, `AuthorityLedger` |
| other `MC*` | values for the runs of the module of that name | |

**KnowledgeGraph.** `stage`, `drafted`, `added`, `removed` are what a
transaction has flushed but not committed; `lock` is the row of
`knowledge_graph_scope_locks` it holds. `AcquireEdgeScopeLock`, `CreateEdge`,
`UpdateEdge` are the parts of the functions of that name before and after the
lock is granted, with each refusal as a guard; `CreateEdge` may be repeated
before `Commit`, as the CSV importer does. The lock row is created with an
upsert before it is locked, so it always exists here. `DeleteEdge` and
`DeleteNode` are one step with their commit, and they take no scope lock, as in
the code. The database is external: READ COMMITTED visibility, blocking on a row
another transaction wrote, and the foreign keys of the edge table. An edge
update that leaves the type alone changes no structure and is not an action.

**CycleSearch.** One step per iteration of the loop. `Adjacency(n)` is any order
of the rows of `n`, since the query has no ORDER BY.

**EvidenceRating.** `AdapterRating` is the rule table in order, `ClassifySignal`
the second classifier with its early returns in order, `BlendedSignal` and
`CardGrade` the blend, `Reason` and `Due` the decision. `PolicyGrade` is the
reference: five cases that mention no order and no classifier.

**ReviewLoop.** A request is up to three steps, which is how long it holds what
it has read: `Begin` (its guard and the count of completed reviews), `LoadCard`
(the card row, or an insertion that makes others wait on the unique index),
`Commit`. `Advance` writes what SQLAlchemy writes: each changed attribute, with
the absolute value computed from the loaded row. `card.seeded` is ghost state:
the history a card was created from. Triggers are a free choice: whether one
matches depends on a policy the model does not hold.

**Revisions.** One feedback record, one revision action of it, one work product.
`txn[t].seen` holds the copies a request has loaded of the rows it decides on;
`Begin...` is the part of a function up to its guards, `Commit...` the writes and
the commit, which go by row id whatever the row holds by then. All rows of one
request are read in one step: reading them apart was tried with smaller bounds
and only multiplies interleavings that two requests show already. `ScoreProduct`
is one step because it reads the row again under `FOR UPDATE` and holds it to
its commit. `Column` is the elision of the unit of work: an attribute set to the
value it was loaded with is not written, so that a status that someone else
changed meanwhile stays. Three consequences are in the model and not excluded by
any property, since no line of the code promises otherwise: a closed request
that goes back to submitted, an action that is dismissed although its request
ends accepted, and a product that stays scored although its revision was asked
for during the scoring. Left out: notes, times and the scheduler hook kept
beside a status; work products without a rubric, which scoring refuses; the
statuses `accepted` and `withdrawn` of a product, which no code sets.

**Maintenance.** `txn[t]` is what a request has decided from the rows it loaded
and not yet written. `Write` needs its rows to exist (an update of a deleted row
raises), `Discard` does not (a deletion of a deleted row is only a warning).
The learner row locked by `reserve_draft_capacity` is `lock`. `overtaken` is a
history variable: the requests whose items another request has changed since.

**LlmBudget.** Each tracker operation holds the lock of the tracker throughout
and is one step. `functools.lru_cache` is external: a miss runs the function
outside its lock, so each call may build a client, and the first result is kept.
`CapsHeld` is about one tracker, `DailyCapHeld` about the process (see Findings).
A restart of the process forgets the day's spend by design, and replay bypasses
the budget by design; neither is modelled.

**Publication.** `request[t]` is what a request has decided from the rows it read;
`VersionPrompt` reads the prompt and `NextVersion` the largest number, in that
order, as `version_prompt` does. At its commit a request writes the columns whose
new value differs from the one it loaded (`Changed`, `Written`), under the
constraints of the tables: the number of a wording is unique in its prompt, a
published prompt names its reviewer and the time, a cited source cannot be
deleted. A request that breaks one has only `Rollback` left. `reviewed`,
`overtaken` and `crossed` are history: the wordings that were there when a
publication read the prompt, the requests another one has committed under, and
the prompts such a request has written. Left out: goals and target nodes, which
are only checked to exist; updates of a source and the drift scan; citations by
knowledge nodes, whose refusal of a deletion is a `Rollback`. Three steps are in
the model and not excluded by a property: overlapping requests can publish a
wording nobody read; a second publication by the same reviewer that overlaps a
new wording is lost, since it changes no column but the time; and the learner
page reads a prompt and its wordings in two statements.

**RunnerDispatch.** `slot` is what a reader finds on the pull request: the newest
reservation, or the receipt attached to it. A job goes through `Evaluate`,
`Grant` or `Refuse` (`should_dispatch`), `Reserve` (`_reserve_dispatch`), `EndRun`
(the agent exits and `record_completion` has read the newest reservation),
`WriteCompletion`. Between each read and the write that follows other jobs run.
`Refused`, `Reservation`, `Derived`, `UnproductiveAfter`, `ContinuationsAfter`
and `IncompleteAfter` are the decision and the tallies of the code; wordings,
provider names and the backoff of a rate-limited provider are left out. A tally
past the allowance stops (`OneMore`), and an age past both limits does too
(`OldestAge`): nothing tells larger values apart. A write of a reservation may
fail visibly and happen all the same (`ReserveUnseen`); a job may die anywhere
after its agent started (`Abandon`); a completion step may be repeated
(`Replay`); a run may be started again (`StartRun`), whereupon what its earlier
attempt left belongs to nobody. Time does not pass between a computation and its
write, which only fixes the age a record is written with.

**AuthorityLedger.** One challenge of one pull request at one commit. `ledger` is
the newest revision, `sent` the writes computed from it: any new revision makes
the conditional write of all others fail (`Revise`). A write takes effect at any
later time, and its sender hears of it or has given up (`Answered`, `GiveUp`).
The reservation (`slot`) lies in the other store; its write may fail or its
answer be lost, but it is assumed not to take effect after the job has read the
store again. An attempt is one run of the keepalive workflow; `Stop` is its
cancellation or the loss of its machine at any point. `Reconcile` is
`reconcileFailedAuthorityAttempt`, as the reporter of a finished attempt runs it.
Nothing makes that happen: a reporter runs once for each attempt that ended
without success (`agents-keepalive-loop-reporter.yml`, 22-27), may fail, and may
come before a write that lands late. The replay by the hourly sweep does not
make up for it. It refuses an attempt whose run is not at the commit of the
receipt (`keepalive_reporter_applicability.js`, 224-228), and the attempts of a
challenge are dispatched by the sweep on the default branch
(`agents-keepalive-sweep.yml`, 236-240), while the receipt names the head of the
pull request. So the model allows `Reconcile` and assumes no fairness of it.
Each of the three commands of an attempt first
requires that the pull request still routes to the challenge (`attention`). The
index of attempts and its presence checkpoints are taken as complete.

## 3. The runs

| Run | Bounds | Properties | Shows |
|---|---|---|---|
| `knowledge_graph` | 3 personal nodes, 1 institutional, 2 edge types of which one orders, 2 transactions, 3 edges | `TypeOK`, `ScopeAcyclic`, `NoDanglingEdge`, `RefinesAuthoredGraph` | the lock is held around every check that matters; unlocked deletions only shrink the graph; each commit is a valid authoring step |
| `review_loop` | 1 attempt, 2 requests, 3 evidence records, 4 queue items | `TypeOK`, `FollowedUpOnce`, `CardWithinEvidence`, `SeedWithinHistory` | what survives the races that the code does not exclude |
| `maintenance` | 2 items, 2 requests, 2 tiers, room for 1 draft | `TypeOK`, `PendingCapped`, `DiscardIsFinal` | batches cannot exceed the cap together; stale requests do not revive a discarded item |
| `revisions` | 2 overlapping requests, 3 revision requests, 2 scores; links to record, action and prompt, to record and prompt, to the product | `TypeOK`, `OpenBounded`, `NewestKept`, `AcceptedRevised`, `SoleScore`, `LegalUnlessOvertaken`, `RescoredOnRequest` | what the unlocked guards of revisions still guarantee; what the lock of the scoring does |
| `publication` | 1 prompt, 2 sources, 2 reviewers, 3 overlapping requests, 3 wordings | `TypeOK`, `ReviewedUnlessOvertaken`, `CitationsResolve` | which races the constraints decide, and that an unreviewed wording is published only by overlapping requests |
| `dispatch` | 2 jobs that ask, of 2 runs or siblings in one, 2 commits, 1 retry, an age limit and a cooldown of half an hour | `TypeOK`, `OneRetryEach`, `NewerOwnerKept`, `ReplacedOnlyWhenRaced`, `Wakes` | no completion spends a retry that was not reserved, a sibling's included; late completions are harmless between runs, and the loop wakes up again |
| `small_parts`, the search | 3 nodes, 2 ordering types, up to 4 rows, all row orders | `AnswerIsReachability`, `SearchEnds` | the search is right and ends, on cyclic graphs too |
| `small_parts`, the rating | scores on both sides of both thresholds, 0 and 100, all confidences, all combinations of the other fields | `RatingTypeOK`, `FollowsPolicy`, `QueueAgreesWithCard` | the rule order, the second classifier and the blend amount to one policy |
| `small_parts`, the budget | 3 calls, a capped and an uncapped mode, costs 1 and 2, global cap 3, mode cap 2, one change of day | `TypeOK`, `SpendIsLedger`, `CapsHeld` | nothing leaks through refunds, overruns and midnight |
| `small_parts`, the ledger | 2 attempts, 1 challenge | `LedgerTypeOK`, `RefundLeavesNoReservation`, `SingleUse` | a challenge starts one worker at most, whatever is lost, late or cancelled |
| `cross_scope_cycle` | as `knowledge_graph` | `GraphAcyclic`, violated | see findings |
| `sibling_completion` | as `dispatch` | `PendingOwnerKept`, violated | see findings |
| `double_submit` | as `review_loop` | `OneScorePerRubric`, violated | see findings |
| `retired_returns` | as `maintenance` | `RetiredForGood`, violated | see findings |
| `first_calls` | as the budget in `small_parts` | `DailyCapHeld`, violated | see findings |

`small_parts` runs four modules that share no state: a behaviour is one of a
single part, chosen at the start, and the others rest. `TypeOK` is the budget's
there. In `dispatch` there are three jobs: the keepalive and the autofix job of
one run and the keepalive job of another; one of the last two, chosen at the
start, declines whenever it is asked, so that the two that ask are siblings or
strangers. As in `agents-81-gate-followups.yml`, only the keepalive jobs have a
step that records a completion.

`RefinesAuthoredGraph` and `SingleUse` are refinements: `KnowledgeGraph` is
checked against `AuthoredGraph`, and `AuthorityLedger` against `SingleUseGrant`
with `stage`, `holder` and `users` read off the ledger, its receipt and the
workers that have started.

Why the bounds are enough. A cycle needs two edges, or three to go through a
node neither writer touches, hence three edges and three nodes of one scope; the
fourth node is in the other scope so that an edge can cross. Two transactions
are enough for each race in the code, all of which are between a check and a
write of one request and a write of another. In the search, four rows over three
nodes include a diamond, parallel rows and a cycle next to a path. Two requests
on one attempt leave two evidence records, and the third is what a later retry
would add; attempts share only the card and the queue of their node. Of three revision
requests, two are created or decided by requests that overlap and the third is
what supersedes them or is superseded; the second score is the one that
replaces. Three
requests on one prompt are a new wording, a publication and a third that
overtakes either; three wordings leave room for two new ones that overlap. Two
jobs are enough for a reservation and what is computed from an older one; two
commits, one that the tallies belong to and one that they do not. Two attempts
are one that holds the challenge and one whose write is late; three attempts
were tried (835,168 states) and change nothing. In the
budget, two cheap calls fit a cap and the third does not; one midnight separates
any two steps. Every bound of a model is a named constant: `MaxEdges`, `MaxRows`,
`MaxEvidence`, `MaxItems`, `MaxDay`, `MaxRequests`, `MaxScores`, `MaxVersion`, `MaxHead`; they limit what is stored, and no property
mentions them. Deadlock is checked for `knowledge_graph`, `publication` and `dispatch`; the
other systems stop in the runs because a bound is reached or, in `small_parts`,
because the search, the rating or each call ends.

Fairness.

* `CycleSearch`: weak fairness of its own step, because the loop runs without
  interruption inside one request (`SearchEnds`).
* `RunnerDispatch` (`Wakes`: again and again an agent runs, or the newest record
  says this commit needs none). Weak fairness that some run starts (the hourly
  sweep) and that a job moves on (every job has a time limit); strong fairness
  of the steps that take a store which answers in the end, a loop that wants an
  agent in the end, and of time.

The requests of the web application may always be lost, and nothing makes an
attempt or its reporter finish (see `AuthorityLedger` above), so nothing is
promised there that needs one to.

### Findings

* **A cycle through both scopes** (`cross_scope_cycle`). The search loads the
  ordering edges of one scope only, so an edge from a personal to an
  institutional node and one back are each accepted. The comment over
  `ORDERING_EDGE_TYPES` (`graphs/repository.py:34-36`) speaks of every edge that
  would close a cycle. `ScopeAcyclic` is what does hold, and it is proved;
  `CycleNeedsBothWays` proves that nothing else goes wrong: as long as ordering
  edges cross in one direction only, the whole graph is acyclic.
* **A sibling's reservation is closed** (`sibling_completion`). The completion
  takes a reservation for its own when workflow run and attempt agree, but two
  jobs of one run of `agents-81-gate-followups.yml` reserve. The first one's
  completion then reads, accepts and closes the reservation of the second, whose
  agent is running. The comment in `write_completion` (`core.py:1144-1145`)
  excludes that. `NewerOwnerKept` is what does hold, between runs, and it is
  proved. With one job in a run the comment is right (`PendingOwnerStays`).
  The tallies survive it: a sibling's completion writes its own commit over that
  of the reservation and keeps the tallies, and `OneRetryEach`, which counts the
  reservation for that commit too, is checked and proved with siblings.
* **A rubric score is saved twice** (`double_submit`). The guard of
  `score_attempt_with_rubric` reads the committed scores, without a lock, and no
  constraint backs it: two submissions that overlap both find none and both save
  one. The comment over the guard (`feedback/scoring.py:119-121`) names
  double-submits and promises "One rubric score per attempt+rubric". A retry
  after an answer is refused; how far that reaches is proved: no more scores than
  requests overlap (`ScoresBounded`).
* **A retired item comes back** (`retired_returns`). `approve_draft` writes
  `active` whatever the row holds by then (`maintenance/drafts.py:272`), so that
  an approval which had loaded the item as a draft undoes a retirement. The page
  says "it will not come back" (`ui/maintenance.py:406-407`). There is no other
  way back: `LifeCycleFollowed` proves that an item leaves its life cycle only by
  a request that another overtook, and `LifeCycleInTurn` that requests which do
  not overlap never do.
* **The daily cap is overshot by the first calls** (`first_calls`). Calls that
  overlap before the client is cached each build one, with a tracker of its own
  (`llm/api.py:180`), and together reserve more than the cap. The docstring of
  `DailyBudgetTracker` (`llm/budgets.py:43-47`) says that the routes share a
  single cached tracker and do not overshoot. What does hold is the cap of each
  tracker (`CapsHeld`, `CapsAlwaysHeld`).

### Other behaviour worth knowing

The models contain these steps; no line of the code promises that they do not
happen, so no property excludes them.

* Two overlapping requests self-grade one attempt twice (`ui/attempts.py`), as
  often as requests overlap (`ScoresBounded`).
* Two advances from one loaded card: the last serialized card wins, but the
  column of lapses keeps what the other wrote (`scheduling/card_state.py:141`).
* An approval changes the tier of a draft that was reviewed before and has a
  card with the old one (`maintenance/drafts.py:272`).
* An approved item is deleted by a rejection that had loaded it as a draft
  (`maintenance/drafts.py:302`); `LifeCycleFollowed` covers it.
* A challenge that was held or consumed without a worker stays so when the one
  report of its attempt fails or comes before a late write: the replay by the
  sweep refuses the attempts that the sweep dispatched (see `AuthorityLedger`).
  A held one comes back when it expires and the loop opens the challenge again;
  a consumed one does not, until the pull request has a new commit.

## 4. The proofs

Every invariant and every action property that a passing run checks is also a
theorem, and so are both refinements. All theorems are for every value of the
constants. The assumptions are the named `ASSUME`s of the modules, which the
runs evaluate: each node has a scope, the ordering types are edge types, no
transaction is the owner of a free lock, the items, the calls of a process and
the requests that overlap (in `ReviewLoop` and `Revisions`, which count them) are
finitely many, caps, costs and the last day are natural numbers, there is a mode
and a cost, scores lie in 0..100 and confidences in 1..5, each job belongs to one
run, the limits of retries and ages are natural numbers, and the values that
stand for nobody are not among those that stand for somebody.

A few theorems have a hypothesis of their own. `OneJobPerRun`
(`PendingOwnerStays`) says that no two jobs share a
workflow run, which `autofix.yml` keeps to and `agents-81-gate-followups.yml` does
not (see Findings). `InTurn` (`LifeCycleInTurn`, `LegalInTurn`, `ReviewedInTurn`) says that
requests do not overlap; it is the sequential use the tests exercise, and the
theorems say that the anomalies the overlapping theorems allow for need an
overlap. `OneWay` (`CycleNeedsBothWays`) is a condition on the edges of a state.

* `KnowledgeGraphProofs`: `TypeCorrect`, `NoCycleCommitted` (`ScopeAcyclic`),
  `EdgesAnchored` (`NoDanglingEdge`), `ImplementsAuthoredGraph`
  (`RefinesAuthoredGraph`). Acyclicity of what is committed is not inductive: a
  commit publishes edges checked earlier. `GraphInv` adds that uncommitted edges
  belong to the holder of their scope's lock (`AddedUnderLock`), that what the
  holder sees is acyclic (`SeenAcyclic`), and how a retyped edge relates to the
  one it replaces (`RetypeHeld`, `RemovedApart`). Acyclicity and reachability are
  stated with sets of nodes rather than paths, so that the key lemma, adding an
  edge whose target does not reach its source keeps a learning order, needs no
  induction.
  The search: `SearchCorrect` (`AnswerIsReachability`), by `SearchInv`: the visited
  nodes are closed up to the stack and never contain the source, so that an empty
  stack leaves a closed set that refutes reachability. `KnowledgeGraph` uses
  reachability itself as the answer; `SearchDecidesCycles` and `LetInKeepsOrder`
  are the link: what the search answers is what a transaction asks, and an edge it
  lets in keeps a learning order. `SearchProgresses` is the safety half of
  `SearchEnds`: each iteration ends the search, reduces the finite number of nodes
  not visited, or shortens the stack.
* `SchedulingProofs`, the rating: the properties of the rating for all
  scores and confidences, and what follows from the policy (`ExclusionIsAGate`,
  `SupportedNeverPromoted`, `GradesMonotoneInScore`).
  The loop: `LoopTypeCorrect`, `EvidenceFollowedUpOnce` (`FollowedUpOnce`),
  `CardNeverOvercounts` (`CardWithinEvidence`), `SeedCountsHistory`
  (`SeedWithinHistory`), `ScoresBounded` (no more scores than requests overlap), by
  `LoopInv`. The
  card is written with values computed from a copy that others may have
  overtaken; what holds anyway is that evidence and completed reviews only grow, so
  a copy counts no more than they do when it is written (`LoadInv`, `HistoryInv`).
  Who has read a card, inserted one or waits for the unique index is kept apart
  there too. Requests about to add a score count as scores (`ScoringInv`), which
  makes the bound on duplicates inductive. `LoopQueuesOutcome` proves that what the
  loop queues for a grade is what the rating decides for each record that the
  grade summarises.
* `LlmBudgetProofs`: `BudgetTypeCorrect`, `SpendAlwaysLedger` (`SpendIsLedger`),
  `CapsAlwaysHeld` (`CapsHeld`), by `BudgetInv`: no call is ahead of the generation
  of its tracker, so that a tracker which rolls over the day accounts for nothing
  yet, and a tracker is built before a call uses it. A sum over calls is defined as
  the cardinality of a set of units, one for each unit of cost a call weighs, which needs
  no recursion and hence no induction.
* `MaintenanceProofs`: `TypeCorrect`, `DraftsCapped`, `DiscardsFinal`, by `IInv`:
  a reservation counts for the drafts its transaction has yet to insert
  (`Reserved`), batches are disjoint and new (`Fresh`), other requests are about
  stored or discarded items (`Known`). `LifeCycleFollowed`
  (`LifeCycleUnlessOvertaken`) adds `LoadedFits`: what a request decided fits its
  items as long as no other request has changed their status.
* `PublicationProofs`: `PublicationTypeCorrect` (`TypeOK`: gapless numbers and
  the review of what is published), `WordingsReviewed`
  (`ReviewedUnlessOvertaken`), `CitationsStay` (`CitationsResolve`). The invariant
  adds that a prompt is created once and only then read (`LifeInv`), that the
  number a request has read continues the stored ones (`NumberInv`), and what a
  request nobody has overtaken still knows (`FreshInv`): a publication knows every
  wording, and a version request does not leave a published prompt published.
* `RunnerDispatchProofs`: `DispatchTypeCorrect`, `NewerOwnerStays`
  (`NewerOwnerKept`), `ReplacementWasRaced` (`ReplacedOnlyWhenRaced`), by
  `DispatchInv`: a reservation names the run of the job that made it (`SlotInv`),
  a draft is a reservation of its job or a receipt for its run (`DraftInv`), and
  a job about to reserve next to a live reservation of its commit had decided
  before that was written (`RaceInv`). `ReservationSpendsOneRetry`
  (`OneRetryEach`) needs `RetryInv`: a reservation that is not completed has been
  counted and not yet spent (`Spent`), and a draft that waits to be written spends
  no more than was reserved for its commit (`DraftSpent`), whichever job of the run
  made the reservation it was computed from.
* `AuthorityLedgerProofs`: `TypeCorrect` (`LedgerTypeOK`), `ChallengeIsSingleUse` (`SingleUse`, the
  step simulation of `SingleUseGrant`), `RefundsLeaveNoReservation`. The
  refinement needs `GrantInv`: an attempt whose worker has started is at no place
  before its start again (`StartedInv`), only the owner of a consumed challenge is
  about to start (`ReadyInv`), a held challenge belongs to an attempt that has not
  started (`HeldInv`), and every write under way comes from such an attempt and
  fits the revision it was computed from (`SentInv`), so that one that lands late
  changes nothing it was not allowed to. The refund theorem rests on `SlotInv`: an
  attempt that has not reserved yet, or has given up, has no reservation.
* `RevisionsProofs`: `RevisionTypeCorrect`, `IllegalNeedsOvertaking`
  (`LegalUnlessOvertaken`), `OpenIsBounded` (`OpenBounded`), `NewestIsKept`, `VerdictsFollowRevisions` (`AcceptedRevised` and
  `CompletedRevised`), `ScoreIsSole`, `RescoreIsOnRequest` (`RescoredOnRequest`).
  What a request decides on may be overtaken, so `IInv` says what no other
  request takes from it: rows stay, with their links and their revised attempt
  (`Outlive`); listed requests are of the record (`ListedOfRecord`), the target
  is stored (`TargetStored`), an acceptance is of a revised request
  (`AcceptsRevised`), and a product that is not scored yet has no score
  (`FreshUnscored`). `AllChecked` adds that every pending write is legal for the
  copy it was decided on, which makes a written status legal or overtaken.
  `OpenInv` quantifies over the creations under way: for any set of them, the open
  requests none of them has listed, with the creations themselves, are no more
  than the requests that overlap. The quantifier is what makes it inductive:
  any of them may fail and any of them may write.

Only model-checked: `SearchEnds` and `Wakes`. They are liveness
properties, which the provers cannot treat (no ENABLED); for `SearchEnds` the
decreasing measure is proved (`SearchProgresses`).

## 5. What is not modelled, and the plan

Not modelled for good: rendering, wording, parsing of files and of provider
answers, redaction, password hashing, statistics over floats (mastery,
calibration, capacity), the numbers of the FSRS library (stability, difficulty,
intervals). Of the automation kept in the repository, the verification of pull
requests, the rewriting of issues, the collection of metrics and the formatting
of comments (`scripts/langchain`, `tools`, most of `.github/scripts`) run once,
read text and write text: they keep no state that two of them share, and what
could be wrong with them is in the text, which a model would leave out. That is
most of the lines of the repository, and the reason the map covers a small share
of them.

Written so far, in this order: the graph and its abstract specification, the
search, the rating, the loop, maintenance, the budget, revisions, the runner
dispatch, the authority ledger, publication. What could follow:

1. **Hints and model answers** (`feedback/repository.py` 671-906): a reveal marks
   the attempt and its evidence; overlapping reveals, and reveals after the
   evidence was scheduled.
2. **Queue upkeep** (`scheduling/service.py` 310-428): pause, stale marking and
   the resume ramp in any order while items are completed. Only tests call these
   functions today.
3. **Capability plans**: gap analysis and the plan derived from it, which then
   replaces the free `PlanReview` of `ReviewLoop`.
4. **The drift scan** (`sources/repository.py` 284-399) against updates of a
   source, and the index of attempts of the authority ledger.
5. **Records created on first need** (learners, review policies, cards): one
   module of the insert race, of which `LoadCard` is an instance.
6. LLM proposals and traces; the order of an import.
7. More proofs: the measure behind `Wakes`, in the manner of `SearchProgresses`; what is proved of the new modules above.
