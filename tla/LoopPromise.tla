----------------------------- MODULE LoopPromise -----------------------------
(***************************************************************************)
(* What CampaignBudget takes the agent loop of one trial to do: it sends   *)
(* requests one at a time, adds up what their responses say they cost, and *)
(* returns at the latest after a response whose cost is missing or takes   *)
(* the sum to the observed stop, unless it is a compaction's.  These are   *)
(* the actions Ask, Answer, Limit, TimeOut and Fail of CampaignBudget for  *)
(* a single trial.                                                         *)
(***************************************************************************)
EXTENDS Naturals

CONSTANTS Stop, Costs

VARIABLES
  stage,    (* working, asking, returned or failed                         *)
  recorded, (* the cost added up so far                                    *)
  known,    (* have all responses had a cost?                              *)
  spent,    (* what the provider has charged                               *)
  cut       (* was a request cut off?                                      *)

vars == <<stage, recorded, known, spent, cut>>

Init == stage = "working" /\ recorded = 0 /\ known = TRUE /\ spent = 0 /\ cut = FALSE

Ask ==
  /\ stage = "working" /\ stage' = "asking"
  /\ UNCHANGED <<recorded, known, spent, cut>>

Answer ==
  /\ stage = "asking"
  /\ \E cost \in Costs, told \in BOOLEAN, compaction \in BOOLEAN :
       /\ spent' = spent + cost
       /\ recorded' = recorded + (IF told THEN cost ELSE 0)
       /\ known' = (known /\ told)
       /\ \/ stage' = "working" /\ (compaction \/ (known' /\ recorded' < Stop))
          \/ stage' = "returned" /\ ~compaction
  /\ UNCHANGED cut

Limit ==
  /\ stage = "working" /\ stage' = "returned"
  /\ UNCHANGED <<recorded, known, spent, cut>>

(* The provider may charge for a request that is given up.                 *)
GiveUp(to) ==
  /\ stage \in {"working", "asking"} /\ stage' = to
  /\ IF stage = "asking" THEN \E cost \in Costs : spent' = spent + cost ELSE UNCHANGED spent
  /\ UNCHANGED <<recorded, known>>

TimeOut == GiveUp("returned") /\ cut' = (cut \/ stage = "asking")

Fail == GiveUp("failed") /\ UNCHANGED cut

Next == Ask \/ Answer \/ Limit \/ TimeOut \/ Fail

Spec == Init /\ [][Next]_vars
=============================================================================
