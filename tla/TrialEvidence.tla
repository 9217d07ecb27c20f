---------------------------- MODULE TrialEvidence ----------------------------
(***************************************************************************)
(* A trial from its agent to its evidence: tooling/dx-evals, runTrial of   *)
(* TrialRunner.ts and persist of Evidence.ts, around the paid part that    *)
(* CampaignBudget has.                                                     *)
(*                                                                         *)
(* Trials that the budget knows nothing of publish under the same          *)
(* identities: those of the adapters that cost nothing, and those of       *)
(* another process with the same BETTER_NATIVE_EVAL_RUN_ID, at the same    *)
(* time or before a restart.                                               *)
(***************************************************************************)
EXTENDS CampaignBudget

CONSTANTS
  Unpaid,  (* the trials that never reserve anything in this budget        *)
  NoTrial

ASSUME UnpaidType == Unpaid \subseteq Trials /\ NoTrial \notin Trials

VARIABLES
  step,     (* of the trial's runner                                       *)
  claimed,  (* the identities whose directory there is                     *)
  evidence  (* whose manifest the evidence.json in it is                   *)

publication == <<step, claimed, evidence>>
trialVars == <<vars, publication>>

Steps == {"agent", "verify", "exists", "claim", "write", "rename",
          "valid", "refused", "stopped"}
Over == {"valid", "refused", "stopped"}

TrialInit ==
  /\ Init
  /\ step = [t \in Trials |-> "agent"]
  /\ claimed \in SUBSET RunIds  (* of earlier processes                     *)
  /\ evidence = [r \in RunIds |-> NoTrial]

StepTo(t, from, to) == step[t] = from /\ step' = [step EXCEPT ![t] = to]

-----------------------------------------------------------------------------
(* The adapter: reserved and settled or kept, or nothing of the kind.      *)
RunAgent(t) ==
  /\ t \notin Unpaid /\ step[t] = "agent"
  /\ \/ ReadKey(t) \/ Validate(t) \/ Reserve(t)
     \/ Ask(t) \/ Answer(t) \/ Limit(t) \/ TimeOut(t) \/ Settle(t) \/ Fail(t)
  /\ UNCHANGED publication

Submit(t) ==
  /\ t \in Unpaid \/ stage[t] \in {"settled", "kept"}
  /\ StepTo(t, "agent", "verify")
  /\ UNCHANGED <<vars, claimed, evidence>>

(* task.verify, the digests and the seal.                                  *)
Verify(t) ==
  /\ StepTo(t, "verify", "exists")
  /\ UNCHANGED <<vars, claimed, evidence>>

-----------------------------------------------------------------------------
(* persist                                                                 *)

LookForDirectory(t) ==
  /\ StepTo(t, "exists", IF RunOf[t] \in claimed THEN "refused" ELSE "claim")
  /\ UNCHANGED <<vars, claimed, evidence>>

(* Broken: the directory is made recursively, which never fails for one    *)
(* that is there.                                                          *)
ClaimRecursively(t) ==
  /\ StepTo(t, "claim", "write")
  /\ claimed' = claimed \cup {RunOf[t]}
  /\ UNCHANGED <<vars, evidence>>

(* makeDirectory fails for a directory that is there: whoever looked at    *)
(* the same time and made it has the identity.                             *)
Claim(t) ==
  /\ StepTo(t, "claim", IF RunOf[t] \in claimed THEN "refused" ELSE "write")
  /\ claimed' = claimed \cup {RunOf[t]}
  /\ UNCHANGED <<vars, evidence>>

(* A temporary file with a name of its own.                                *)
WriteTemporary(t) ==
  /\ StepTo(t, "write", "rename")
  /\ UNCHANGED <<vars, claimed, evidence>>

(* The rename that publishes, and the outcome that refers to it.           *)
PublishEvidence(t) ==
  /\ StepTo(t, "rename", "valid")
  /\ evidence' = [evidence EXCEPT ![RunOf[t]] = t]
  /\ UNCHANGED <<vars, claimed>>

(* A sandbox or file-system failure, an interruption or the death of the   *)
(* process: what is on the disk stays.                                     *)
Abandon(t) ==
  /\ step[t] \notin {"agent"} \cup Over
  /\ step' = [step EXCEPT ![t] = "stopped"]
  /\ UNCHANGED <<vars, claimed, evidence>>

-----------------------------------------------------------------------------
Persist(t) == LookForDirectory(t) \/ Claim(t) \/ WriteTemporary(t) \/ PublishEvidence(t)

TrialNext ==
  \E t \in Trials : RunAgent(t) \/ Submit(t) \/ Verify(t) \/ Persist(t) \/ Abandon(t)

TrialSpec == TrialInit /\ [][TrialNext]_trialVars

-----------------------------------------------------------------------------
(* Properties                                                              *)

TrialTypeOK ==
  /\ TypeOK
  /\ step \in [Trials -> Steps]
  /\ claimed \subseteq RunIds
  /\ evidence \in [RunIds -> Trials \cup {NoTrial}]

(* README.md:50 of dx-evals, single-use evidence: an outcome that says     *)
(* process-authenticated has its own manifest on the disk, for ever,       *)
(* whoever publishes or has died under the same identity.                  *)
OutcomeStands ==
  \A t \in Trials : step[t] = "valid" => evidence[RunOf[t]] = t
=============================================================================
