--------------------------- MODULE CampaignBudget ----------------------------
(***************************************************************************)
(* The paid trials of one controller process and the budget they share:    *)
(* tooling/dx-evals, CampaignBudget.ts and OpenRouterAgent.runScoped.      *)
(*                                                                         *)
(* A trial reads what the provider's key has left, compares it with a      *)
(* snapshot of the budget, reserves its worst case and runs the agent      *)
(* loop.  A loop that returns with a known cost settles the reservation to *)
(* the cost recorded; a trial that fails keeps it.  Of the loop only its   *)
(* requests matter here: what the provider charges and what the loop       *)
(* records.  They differ for a request that never returned.                *)
(***************************************************************************)
EXTENDS Integers, FiniteSetsExt

CONSTANTS
  Trials,
  RunIds,
  RunOf,       (* the run identity of a trial                              *)
  Maximum,     (* the campaign's allocation, in units of cost              *)
  Stop,        (* the profile's observedCostStopUsd                        *)
  Costs,       (* what one response may cost                               *)
  KeyLimit,    (* what the provider's key has left when the campaign starts*)
  MaxRequests, (* profile.maxTurns, each with its compaction               *)
  Absent       (* no reservation                                           *)

ASSUME RunType == RunOf \in [Trials -> RunIds]
ASSUME CostType ==
  /\ Maximum \in Nat /\ KeyLimit \in Nat /\ MaxRequests \in Nat
  /\ Stop \in Nat \ {0}
  /\ Costs \subseteq Nat /\ 0 \in Costs
  /\ Absent \notin Nat
ASSUME CampaignFinite == IsFiniteSet(Trials) /\ IsFiniteSet(RunIds)

VARIABLES
  stage,        (* where each trial is                                     *)
  reservations, (* the Ref of the budget: an amount for each run identity  *)
  remaining,    (* the key's limit_remaining as the trial read it          *)
  asked,        (* the requests a trial has sent                           *)
  recorded,     (* usage.costUsd                                           *)
  known,        (* usage.costAvailable                                     *)
  spent,        (* what the provider has charged for the trial             *)
  charged,      (* what it has charged to the key since the campaign began *)
  cut           (* trials whose duration limit cut off a request           *)

vars == <<stage, reservations, remaining, asked, recorded, known, spent, charged, cut>>

Stages == {"idle", "keyed", "checked", "working", "asking", "returned",
           "settled", "kept", "failed", "rejected"}

Working == {"working", "asking", "returned"}

Reserved == {r \in RunIds : reservations[r] # Absent}
ReservedCost == MapThenSumSet(LAMBDA r : reservations[r], Reserved)

Init ==
  /\ stage = [t \in Trials |-> "idle"]
  /\ reservations = [r \in RunIds |-> Absent]
  /\ remaining = [t \in Trials |-> 0]
  /\ asked = [t \in Trials |-> 0]
  /\ recorded = [t \in Trials |-> 0]
  /\ known = [t \in Trials |-> TRUE]
  /\ spent = [t \in Trials |-> 0]
  /\ charged = 0
  /\ cut = {}

loop == <<asked, recorded, known, spent, charged, cut>>

Go(t, to) == stage' = [stage EXCEPT ![t] = to]

-----------------------------------------------------------------------------
(* Before the first request                                                *)

(* getCurrentKey: what the provider has charged is gone from the key.      *)
ReadKey(t) ==
  /\ stage[t] = "idle"
  /\ remaining' = [remaining EXCEPT ![t] = KeyLimit - charged]
  /\ Go(t, "keyed")
  /\ UNCHANGED <<reservations, loop>>

(* validateSpendingLimit on a snapshot: the key must cover this trial, and *)
(* every trial the campaign has not reserved for yet.                      *)
Validate(t) ==
  /\ stage[t] = "keyed"
  /\ Go(t, IF remaining[t] >= Stop /\ remaining[t] >= Maximum - ReservedCost
             THEN "checked" ELSE "rejected")
  /\ UNCHANGED <<reservations, remaining, loop>>

(* Broken: a run identity may be reserved for again.                       *)
ReserveAgain(t) ==
  /\ stage[t] = "checked"
  /\ IF Stop <= Maximum - ReservedCost
       THEN /\ reservations' = [reservations EXCEPT ![RunOf[t]] = Stop]
            /\ Go(t, "working")
       ELSE UNCHANGED reservations /\ Go(t, "rejected")
  /\ UNCHANGED <<remaining, loop>>

(* Broken: the sum leaves out the reservation that is asked for.           *)
ReserveOver(t) ==
  /\ stage[t] = "checked"
  /\ IF reservations[RunOf[t]] = Absent /\ ReservedCost < Maximum
       THEN /\ reservations' = [reservations EXCEPT ![RunOf[t]] = Stop]
            /\ Go(t, "working")
       ELSE UNCHANGED reservations /\ Go(t, "rejected")
  /\ UNCHANGED <<remaining, loop>>

(* reserve: one Ref.modify.  A run identity is reserved for once.          *)
Reserve(t) ==
  /\ stage[t] = "checked"
  /\ IF reservations[RunOf[t]] = Absent /\ Stop <= Maximum - ReservedCost
       THEN /\ reservations' = [reservations EXCEPT ![RunOf[t]] = Stop]
            /\ Go(t, "working")
       ELSE UNCHANGED reservations /\ Go(t, "rejected")
  /\ UNCHANGED <<remaining, loop>>

-----------------------------------------------------------------------------
(* The agent loop                                                          *)

(* A request of the agent or of a compaction is sent.                      *)
Ask(t) ==
  /\ stage[t] = "working" /\ asked[t] < MaxRequests
  /\ asked' = [asked EXCEPT ![t] = @ + 1]
  /\ Go(t, "asking")
  /\ UNCHANGED <<reservations, remaining, recorded, known, spent, charged, cut>>

Charge(t, cost) ==
  /\ spent' = [spent EXCEPT ![t] = @ + cost]
  /\ charged' = charged + cost

(* The response, with or without its cost.  After an agent's response the  *)
(* loop stops on a missing cost and at the observed stop, and may stop for *)
(* other reasons; a compaction's is only added up.                         *)
Answer(t) ==
  /\ stage[t] = "asking"
  /\ \E cost \in Costs, told \in BOOLEAN, compaction \in BOOLEAN :
       /\ Charge(t, cost)
       /\ recorded' = [recorded EXCEPT ![t] = @ + (IF told THEN cost ELSE 0)]
       /\ known' = [known EXCEPT ![t] = @ /\ told]
       /\ \/ Go(t, "working") /\ (compaction \/ (known'[t] /\ recorded'[t] < Stop))
          \/ Go(t, "returned") /\ ~compaction
  /\ UNCHANGED <<reservations, remaining, asked, cut>>

(* The turn or token limit before the next request.                        *)
Limit(t) ==
  /\ stage[t] = "working"
  /\ Go(t, "returned")
  /\ UNCHANGED <<reservations, remaining, loop>>

(* duration-limit interrupts the loop; the provider may charge for the     *)
(* request it was waiting for.                                             *)
TimeOut(t) ==
  /\ stage[t] \in {"working", "asking"}
  /\ IF stage[t] = "asking"
       THEN (\E cost \in Costs : Charge(t, cost)) /\ cut' = cut \cup {t}
       ELSE UNCHANGED <<spent, charged, cut>>
  /\ Go(t, "returned")
  /\ UNCHANGED <<reservations, remaining, asked, recorded, known>>

(* Broken: a missing cost is settled like a known one.                     *)
SettleUnknown(t) ==
  /\ stage[t] = "returned"
  /\ reservations' = [reservations EXCEPT ![RunOf[t]] = recorded[t]]
  /\ Go(t, "settled")
  /\ UNCHANGED <<remaining, loop>>

(* settle, when result.usage has a cost.                                   *)
Settle(t) ==
  /\ stage[t] = "returned"
  /\ IF known[t]
       THEN /\ reservations' = [reservations EXCEPT ![RunOf[t]] =
                                  IF @ = Absent THEN @ ELSE recorded[t]]
            /\ Go(t, "settled")
       ELSE UNCHANGED reservations /\ Go(t, "kept")
  /\ UNCHANGED <<remaining, loop>>

(* The task does not load, a provider call fails, or the trial is aborted. *)
Fail(t) ==
  /\ stage[t] \in {"idle", "keyed", "checked"} \cup Working
  /\ IF stage[t] = "asking"
       THEN \E cost \in Costs : Charge(t, cost)
       ELSE UNCHANGED <<spent, charged>>
  /\ Go(t, "failed")
  /\ UNCHANGED <<reservations, remaining, asked, recorded, known, cut>>

-----------------------------------------------------------------------------
Next ==
  \E t \in Trials :
    \/ ReadKey(t) \/ Validate(t) \/ Reserve(t)
    \/ Ask(t) \/ Answer(t) \/ Limit(t) \/ TimeOut(t)
    \/ Settle(t) \/ Fail(t)

Spec == Init /\ [][Next]_vars

-----------------------------------------------------------------------------
(* Properties                                                              *)

(* The single type invariant.                                              *)
TypeOK ==
  /\ stage \in [Trials -> Stages]
  /\ reservations \in [RunIds -> Nat \cup {Absent}]
  /\ remaining \in [Trials -> Int]
  /\ asked \in [Trials -> Nat]
  /\ recorded \in [Trials -> Nat]
  /\ known \in [Trials -> BOOLEAN]
  /\ spent \in [Trials -> Nat] /\ charged \in Nat
  /\ cut \subseteq Trials

Paid(t) == asked[t] > 0 \/ stage[t] \in Working \cup {"settled", "kept"}

(* docs/evals.md: duplicate paid run IDs are rejected.  No two trials with *)
(* the same run identity send requests.                                    *)
OnePaidTrialPerRun ==
  \A t, u \in Trials : Paid(t) /\ Paid(u) /\ RunOf[t] = RunOf[u] => t = u

(* A trial whose responses have not crossed its stop and whose requests    *)
(* were not cut off by the duration limit never costs more than the budget *)
(* has set aside for it, whether it runs, failed or was settled.           *)
ReservationCovers ==
  \A t \in Trials :
    Paid(t) /\ t \notin cut /\ (stage[t] = "settled" \/ spent[t] <= Stop) =>
      reservations[RunOf[t]] # Absent /\ spent[t] <= reservations[RunOf[t]]

(* Hence the campaign stays within its allocation, as long as no single    *)
(* trial crosses its stop and none is cut off.                             *)
AllocationHolds ==
  cut = {} /\ (\A t \in Trials : spent[t] <= Stop) => charged <= Maximum

(* docs/evals.md:791 has no such exception for trials that are cut off:    *)
(* the campaign fails before its allocation can be exceeded.               *)
AllocationNeverExceeded ==
  (\A t \in Trials : spent[t] <= Stop) => charged <= Maximum
=============================================================================
