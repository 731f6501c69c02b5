--------------------------- MODULE MCMaintenance ---------------------------
(***************************************************************************)
(* Two items that two overlapping requests admit one by one or as a batch  *)
(* into a queue with room for one draft.                                   *)
(***************************************************************************)
EXTENDS Maintenance, TLC

CONSTANTS i1, i2, t1, t2, hot, cold

\* Items, requests and tiers are alike.
Symmetry ==
    Permutations({i1, i2}) \cup Permutations({t1, t2}) \cup Permutations({hot, cold})
=============================================================================
