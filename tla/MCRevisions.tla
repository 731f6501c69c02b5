---------------------------- MODULE MCRevisions ----------------------------
(***************************************************************************)
(* Two overlapping requests around one record, action and work product.    *)
(***************************************************************************)
EXTENDS Revisions, TLC

CONSTANTS t1, t2

\* A request on the record and its action, and one on the work product; the
\* learner's page adds those on the record alone.
MCLinkSets == {{"record", "action", "prompt"}, {"product"}}

Symmetry == Permutations({t1, t2})
=============================================================================
