----------------------------- MODULE MCSmallParts -----------------------------
(***************************************************************************)
(* Four parts that share no state and are small enough for one run: the    *)
(* cycle search, the rating of evidence, the budget of model calls and the *)
(* ledger of authority challenges.  A behaviour is one of a single part;   *)
(* the other three rest: the search has ended on the empty graph, and      *)
(* nothing has happened yet in the others.                                 *)
(***************************************************************************)
EXTENDS CycleSearch, EvidenceRating, LlmBudget, AuthorityLedger

CONSTANTS n1, n2, n3, personal, c1, c2, c3, early, late

MCScopeOf == [n \in Nodes |-> personal]
MCModeCaps == [m \in {"practice"} |-> 2]
MCAttempts == {early, late}

VARIABLE part   \* the part the behaviour is of

SearchAtRest ==
    /\ rows = {} /\ source = n1 /\ target = n2
    /\ stack = <<>> /\ visited = {n2} /\ answer = "no cycle"

RatingAtRest ==
    /\ rated = [transfer |-> FALSE, correctness |-> "correct", score |-> None,
                confidence |-> None, assisted |-> FALSE, supported |-> FALSE,
                binary |-> FALSE, firstInContext |-> FALSE]
    /\ timing = [first |-> FALSE, withinMedian |-> FALSE]
    /\ outcome = Unscheduled

PartsInit ==
    /\ \/ part = "search" /\ SearchInit /\ RatingAtRest
       \/ part = "rating" /\ SearchAtRest /\ RatingInit
       \/ part \in {"budget", "ledger"} /\ SearchAtRest /\ RatingAtRest
    /\ Init
    /\ LedgerInit

PartsNext ==
    /\ \/ part = "search" /\ SearchNext /\ UNCHANGED <<ratingVars, vars, ledgerVars>>
       \/ part = "rating" /\ RatingNext /\ UNCHANGED <<searchVars, vars, ledgerVars>>
       \/ part = "budget" /\ Next /\ UNCHANGED <<searchVars, ratingVars, ledgerVars>>
       \/ part = "ledger" /\ LedgerNext /\ UNCHANGED <<searchVars, ratingVars, vars>>
    /\ UNCHANGED part

\* The behaviours of SearchSpec, RatingSpec, Spec and LedgerSpec.
PartsSpec ==
    /\ PartsInit
    /\ [][PartsNext]_<<searchVars, ratingVars, vars, ledgerVars, part>>
    /\ WF_searchVars(SearchNext)
=============================================================================
