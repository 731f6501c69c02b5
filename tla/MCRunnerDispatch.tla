--------------------------- MODULE MCRunnerDispatch ---------------------------
(***************************************************************************)
(* Two jobs that ask for an agent: two workflow runs of one job each, or   *)
(* the keepalive and the autofix job of one run.  A third job is part of   *)
(* its run and declines at once whenever it is queued.  Only the keepalive *)
(* jobs have a step that records a completion, as in                       *)
(* agents-81-gate-followups.yml.                                           *)
(***************************************************************************)
EXTENDS RunnerDispatch, TLC
CONSTANTS keepalive, later, autofix, first, second

VARIABLE absent     \* the job that declines

MCDispatches == {keepalive, autofix, later}
MCRuns == {first, second}
MCRunOf == keepalive :> first @@ autofix :> first @@ later :> second
MCRecorders == {keepalive, later}

TwoAskInit == DispatchInit /\ absent \in {autofix, later}

TwoAskNext ==
  /\ DispatchNext
  /\ pc[absent] = "queued" => pc'[absent] = "off"
  /\ pc'[absent] \in {"off", "queued"}
  /\ UNCHANGED absent

\* Behaviours of LiveDispatchSpec in which one of the jobs never asks.
TwoAskSpec == TwoAskInit /\ [][TwoAskNext]_<<dispatchVars, absent>> /\ DispatchFairness
==============================================================================
