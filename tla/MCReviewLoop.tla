---------------------------- MODULE MCReviewLoop ----------------------------
(***************************************************************************)
(* One attempt that may be recorded, self-graded, scored by the rubric and *)
(* resolved, by two overlapping requests.  The third evidence record is    *)
(* the one a request would add after the race of the first two.            *)
(***************************************************************************)
EXTENDS ReviewLoop, TLC

CONSTANTS a1, t1, t2

\* Requests are alike.
Symmetry == Permutations({t1, t2})
=============================================================================
