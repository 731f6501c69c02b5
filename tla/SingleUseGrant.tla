---------------------------- MODULE SingleUseGrant ----------------------------
(***************************************************************************)
(* What the ledger of authority challenges promises: one challenge is free,*)
(* held by one attempt, or spent by it.  At most one worker runs on it, the*)
(* one of the attempt that spent it, and once a worker has, the challenge  *)
(* is never free again.                                                    *)
(***************************************************************************)
CONSTANTS Attempts, NoAttempt

VARIABLES stage, holder, users

grantVars == <<stage, holder, users>>

GrantInit == stage = "free" /\ holder = NoAttempt /\ users = {}

Hold(a) ==
  /\ stage = "free"
  /\ stage' = "held" /\ holder' = a
  /\ UNCHANGED users

Return ==
  /\ stage = "held"
  /\ stage' = "free" /\ holder' = NoAttempt
  /\ UNCHANGED users

Spend ==
  /\ stage = "held"
  /\ stage' = "spent"
  /\ UNCHANGED <<holder, users>>

\* The worker of the attempt starts.
Use(a) ==
  /\ stage = "spent" /\ holder = a /\ users = {}
  /\ users' = {a}
  /\ UNCHANGED <<stage, holder>>

\* No worker has started and none will: the challenge may be given again.
Reopen ==
  /\ stage = "spent" /\ users = {}
  /\ stage' = "free" /\ holder' = NoAttempt
  /\ UNCHANGED users

GrantNext ==
  \/ \E a \in Attempts : Hold(a) \/ Use(a)
  \/ Return \/ Spend \/ Reopen

GrantSpec == GrantInit /\ [][GrantNext]_grantVars
==============================================================================
