----------------------------- MODULE MCLlmBudget -----------------------------
(***************************************************************************)
(* Three calls in a capped and an uncapped mode, whose costs are such that *)
(* two cheap ones fit both caps, and a day that may pass between any two   *)
(* steps.                                                                  *)
(***************************************************************************)
EXTENDS LlmBudget, TLC

CONSTANTS c1, c2, c3

MCModeCaps == [m \in {"practice"} |-> 2]

\* Calls are alike.
Symmetry == Permutations({c1, c2, c3})
=============================================================================
