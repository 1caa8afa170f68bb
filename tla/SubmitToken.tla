---------------------------- MODULE SubmitToken ----------------------------
(***************************************************************************)
(* What controlled submission promises about one approval, and nothing     *)
(* about how: an approval is a token that is taken at most once, spent (by *)
(* a click on the real submit control) at most once and only after it was  *)
(* taken, and that has at most one audited outcome, which is positive only *)
(* for a spent token.                                                      *)
(***************************************************************************)

CONSTANTS
  Token,      \* the approvals
  Positive,   \* outcomes that tell of a delivered click
  Neutral     \* the other outcomes

VARIABLES
  stage,      \* free, then held, then spent
  outcome     \* "none" or the audited outcome

tokenVars == <<stage, outcome>>

TokenInit ==
  /\ stage = [t \in Token |-> "free"]
  /\ outcome = [t \in Token |-> "none"]

Take(t) ==
  /\ stage[t] = "free"
  /\ stage' = [stage EXCEPT ![t] = "held"]
  /\ UNCHANGED outcome

Spend(t) ==
  /\ stage[t] = "held"
  /\ stage' = [stage EXCEPT ![t] = "spent"]
  /\ UNCHANGED outcome

Audit(t, s) ==
  /\ outcome[t] = "none"
  /\ s \in Positive => stage[t] = "spent"
  /\ outcome' = [outcome EXCEPT ![t] = s]
  /\ UNCHANGED stage

TokenNext ==
  \E t \in Token :
    \/ Take(t)
    \/ Spend(t)
    \/ \E s \in Positive \cup Neutral : Audit(t, s)

TokenSpec == TokenInit /\ [][TokenNext]_tokenVars
=============================================================================
