-------------------------- MODULE MCCampaignBudget ---------------------------
(* Instances of TrialEvidence, and of the CampaignBudget in it, for TLC.   *)
EXTENDS TrialEvidence, TLC

CONSTANTS t1, t2, t3, t4, r1, r2, r3

(* The trials after the first share a run identity.                        *)
Reused == [t \in Trials |-> IF t = t1 THEN r1 ELSE r2]

(* Every trial has its own run identity.                                   *)
Distinct == [t \in Trials |-> IF t = t1 THEN r1 ELSE IF t = t2 THEN r2 ELSE r3]

(* Two instances in one run: three trials that compete for the budget, or  *)
(* two of them and an unpaid one that compete for an identity as well.     *)
VARIABLE publishing

MCInit == publishing \in BOOLEAN /\ TrialInit /\ (publishing \/ claimed = {})
MCNext ==
  /\ TrialNext
  /\ IF publishing THEN stage'[t1] = "idle" /\ step'[t1] = "agent"
                   ELSE \A t \in Trials : step'[t] = "agent"
  /\ UNCHANGED publishing
MCSpec == MCInit /\ [][MCNext]_<<trialVars, publishing>>
=============================================================================
