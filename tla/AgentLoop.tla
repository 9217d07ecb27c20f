------------------------------ MODULE AgentLoop ------------------------------
(***************************************************************************)
(* The bounded coding loop of one trial: tooling/dx-evals, AgentLoop.ts    *)
(* with the workspace of agent/tools/Handlers.ts and the guidance of       *)
(* CompletionGuidance.ts.                                                  *)
(*                                                                         *)
(* Of the candidate only its content as a whole is kept, of a response its *)
(* tool calls, tokens and cost, of the transcript the results guidance     *)
(* looks at: successful edits and compile checks.  Whether a prompt needs  *)
(* compaction is left open; ContextCompaction has the prompt itself.       *)
(***************************************************************************)
EXTENDS Integers, Sequences, FiniteSetsExt

CONSTANTS
  Contents,        (* the candidates the agent may write                   *)
  Original,        (* the seed's content, one of them                      *)
  Statuses,        (* the outcomes of a compile check                      *)
  CallLists,       (* the tool calls a response may hold                   *)
  MaxTurns,        (* profile.maxTurns                                     *)
  MaxPerTurn,      (* profile.maxOutputTokensPerTurn                       *)
  MaxOutput,       (* profile.maxTotalOutputTokens                         *)
  MaxTotal,        (* profile.maxObservedTotalTokens                       *)
  MaxSummary,      (* profile.compaction.maximumSummaryOutputTokens        *)
  CostStop,        (* profile.observedCostStopUsd                          *)
  Inputs,          (* the input tokens of a response                       *)
  ResponseCosts,   (* what a response may cost                             *)
  Estimates        (* the estimated tokens of the next request             *)

ASSUME LimitsPositive == {MaxTurns, MaxPerTurn, MaxOutput, MaxTotal, MaxSummary, CostStop} \subseteq Nat \ {0}
ASSUME DataTypes ==
  /\ Original \in Contents
  /\ Statuses \subseteq {"passed", "failed", "timeout", "unavailable"}
  /\ CallLists \subseteq Seq({"read", "edit", "check", "submit"})
  /\ Inputs \cup ResponseCosts \subseteq Nat /\ Estimates \subseteq Nat \ {0}

VARIABLES
  phase, turn,
  out, total, cost,        (* UsageState: tokens and cost                  *)
  costAvailable,           (* do all responses have a cost so far?         *)
  content, submitted,      (* WorkspaceState                               *)
  transcript,              (* the edits and check results it holds         *)
  guidance,                (* what was added to the request                *)
  reply,                   (* the response whose tool calls are executed   *)
  results,                 (* what they returned so far                    *)
  exit,                    (* why the loop returned                        *)
  billed,                  (* history: what the provider charged           *)
  interrupted,             (* history: was a request cut off?              *)
  checked                  (* history: the content last compiled           *)

usage == <<out, total, cost, costAvailable, billed>>
workspace == <<content, submitted, checked>>
loopVars == <<phase, turn, usage, workspace, transcript, guidance, reply, results, exit, interrupted>>

Phases == {"check", "compacting", "ready", "requesting", "tools", "done"}

Exits == {"none", "submitted", "model-finished", "turn-limit", "token-limit",
          "cost-limit", "cost-unavailable", "duration-limit", "error"}

NoReply == [out |-> 0, total |-> 0, cost |-> 0, told |-> TRUE, calls |-> <<>>, idle |-> TRUE]

LoopInit ==
  /\ phase = "check" /\ turn = 0
  /\ out = 0 /\ total = 0 /\ cost = 0 /\ costAvailable = TRUE /\ billed = 0
  /\ content = Original /\ submitted = FALSE /\ checked = Original
  /\ transcript = <<>> /\ guidance = "none"
  /\ reply = NoReply /\ results = <<>>
  /\ exit = "none" /\ interrupted = FALSE

TokensUsedUp == out >= MaxOutput \/ total >= MaxTotal

Return(why) == phase' = "done" /\ exit' = why

-----------------------------------------------------------------------------
(* Guidance: CompletionGuidance.forRequest                                 *)

Changed == content # Original

Mutations == {i \in DOMAIN transcript : transcript[i] = "edit"}
Checks == DOMAIN transcript \ Mutations
LatestMutation == Max(Mutations \cup {0})
LatestCheck == Max(Checks \cup {0})

Stale == Changed /\ (LatestCheck = 0 \/ LatestMutation > LatestCheck)

Status == IF LatestCheck = 0 THEN "none" ELSE transcript[LatestCheck]

(* remainingRequests, with what the next request is estimated to use.      *)
Remaining(estimate) == Min({MaxTurns - turn, Max({1, (MaxTotal - total) \div estimate})})

(* Broken: any passing check will do, however old.                         *)
GuidanceUnordered(estimate) ==
  CASE Changed /\ Status = "passed" -> "submit now"
    [] OTHER -> IF Remaining(estimate) = 1 THEN "final" ELSE "none"

(* Broken: the turn is counted as if it were over.                         *)
GuidanceLate(estimate) ==
  CASE Changed /\ ~Stale /\ Status = "passed" -> "submit now"
    [] OTHER -> IF Remaining(estimate) = 0 THEN "final" ELSE "none"

Guidance(estimate) ==
  LET left == Remaining(estimate) IN
  CASE Changed /\ ~Stale /\ Status = "passed" -> "submit now"
    [] OTHER ->
       CASE left = 1 -> IF Stale THEN "final check" ELSE "final"
         [] left # 1 /\ Stale -> "check next"
         [] left # 1 /\ ~Stale /\ Changed /\ Status = "failed" -> "fix"
         [] left # 1 /\ ~Stale /\ Changed /\ Status \in {"timeout", "unavailable"} -> "review"
         [] OTHER -> IF left \in {2, 3} THEN "implement now" ELSE "none"

-----------------------------------------------------------------------------
(* The loop                                                                *)

(* The limits at the head of the loop, then Compaction.prepare.  There is  *)
(* nothing to compact before the first response.                           *)
Begin ==
  /\ phase = "check"
  /\ \/ turn >= MaxTurns /\ Return("turn-limit")
     \/ turn < MaxTurns /\ TokensUsedUp /\ Return("token-limit")
     \/ /\ turn < MaxTurns /\ ~TokensUsedUp
        /\ phase' \in IF turn = 0 THEN {"ready"} ELSE {"ready", "compacting"}
        /\ UNCHANGED exit
  /\ UNCHANGED <<turn, usage, workspace, transcript, guidance, reply, results, interrupted>>

(* addUsage.                                                               *)
AddUsage(r) ==
  /\ out' = out + r.out
  /\ total' = total + r.total
  /\ cost' = cost + (IF r.told THEN r.cost ELSE 0)
  /\ costAvailable' = (costAvailable /\ r.told)
  /\ billed' = billed + r.cost

Replies(limit, calls) ==
  {[out |-> o, total |-> i + o, cost |-> c, told |-> told, calls |-> list,
    idle |-> list = <<>>] :
     o \in 0..limit, i \in Inputs, c \in ResponseCosts, told \in BOOLEAN, list \in calls}

(* Broken: a summary's tokens and cost are not part of the trial's.        *)
SummarizedFree ==
  /\ phase = "compacting"
  /\ \E r \in Replies(MaxSummary, {<<>>}) : billed' = billed + r.cost
  /\ phase' = "ready"
  /\ UNCHANGED <<turn, out, total, cost, costAvailable, workspace, transcript, guidance, reply,
                 results, exit, interrupted>>

(* The summary of a compaction: its own output limit, no tools.            *)
Summarized ==
  /\ phase = "compacting"
  /\ \E r \in Replies(MaxSummary, {<<>>}) : AddUsage(r)
  /\ phase' = "ready"
  /\ UNCHANGED <<turn, workspace, transcript, guidance, reply, results, exit, interrupted>>

(* Broken: after a compaction the limits are not looked at again.          *)
RequestUnchecked ==
  /\ phase = "ready"
  /\ \E estimate \in Estimates : guidance' = Guidance(estimate)
  /\ phase' = "requesting"
  /\ UNCHANGED <<turn, usage, workspace, transcript, reply, results, exit, interrupted>>

(* The guidance, the token limits once more, and the request.              *)
Request ==
  /\ phase = "ready"
  /\ \E estimate \in Estimates : guidance' = Guidance(estimate)
  /\ IF TokensUsedUp THEN Return("token-limit") ELSE phase' = "requesting" /\ UNCHANGED exit
  /\ UNCHANGED <<turn, usage, workspace, transcript, reply, results, interrupted>>

(* The output of a request is clamped to what is left of the trial's.      *)
Clamp == Min({MaxPerTurn, MaxOutput - out})

Respond ==
  /\ phase = "requesting"
  /\ reply' \in Replies(Clamp, CallLists)
  /\ phase' = "tools"
  /\ UNCHANGED <<turn, usage, workspace, transcript, guidance, results, exit, interrupted>>

(* One tool call after the other (concurrency: 1).  An edit or a write     *)
(* that is refused is like a read.                                         *)
RunTool ==
  /\ phase = "tools" /\ reply.calls # <<>>
  /\ reply' = [reply EXCEPT !.calls = Tail(@)]
  /\ CASE Head(reply.calls) = "read" ->
            UNCHANGED <<workspace, results>>
       [] Head(reply.calls) = "edit" ->
            /\ content' \in Contents
            /\ results' = Append(results, "edit")
            /\ UNCHANGED <<submitted, checked>>
       [] Head(reply.calls) = "check" ->
            /\ \E status \in Statuses : results' = Append(results, status)
            /\ checked' = content
            /\ UNCHANGED <<content, submitted>>
       [] Head(reply.calls) = "submit" ->
            /\ submitted' = TRUE
            /\ UNCHANGED <<content, checked, results>>
  /\ UNCHANGED <<phase, turn, usage, transcript, guidance, exit, interrupted>>

(* afterResponseExit, in this order: a response without tool calls is the  *)
(* last reason.                                                            *)
Exit ==
  IF out' >= MaxOutput \/ total' >= MaxTotal THEN "token-limit"
  ELSE IF ~costAvailable' THEN "cost-unavailable"
  ELSE IF cost' >= CostStop THEN "cost-limit"
  ELSE IF submitted THEN "submitted"
  ELSE IF reply.idle THEN "model-finished"
  ELSE "none"

(* All tool calls are done: usage, transcript, and on or back.             *)
Decide ==
  /\ phase = "tools" /\ reply.calls = <<>>
  /\ AddUsage(reply)
  /\ transcript' = transcript \o results
  /\ exit' = Exit
  /\ IF exit' = "none" THEN phase' = "check" /\ turn' = turn + 1
                       ELSE phase' = "done" /\ UNCHANGED turn
  /\ reply' = NoReply /\ results' = <<>>
  /\ UNCHANGED <<workspace, guidance, interrupted>>

(* What the provider charges for a request that is given up.               *)
ChargeLost ==
  CASE phase = "tools" -> billed' = billed + reply.cost
    [] phase \in {"compacting", "requesting"} -> \E c \in ResponseCosts : billed' = billed + c
    [] OTHER -> UNCHANGED billed

Lost == phase \in {"compacting", "requesting", "tools"}

(* Broken: only waiting for the provider is timed.                         *)
RequestTimesOut ==
  /\ phase \in {"compacting", "requesting"}
  /\ Return("duration-limit") /\ ChargeLost /\ interrupted' = TRUE
  /\ UNCHANGED <<turn, out, total, cost, costAvailable, workspace, transcript, guidance, reply, results>>

(* timeoutOrElse around the whole loop.                                    *)
LoopTimesOut ==
  /\ phase # "done"
  /\ Return("duration-limit") /\ ChargeLost /\ interrupted' = Lost
  /\ UNCHANGED <<turn, out, total, cost, costAvailable, workspace, transcript, guidance, reply, results>>

(* The provider fails, or its response cannot be decoded.                  *)
LoopFails ==
  /\ Lost
  /\ Return("error") /\ ChargeLost
  /\ UNCHANGED <<turn, out, total, cost, costAvailable, workspace, transcript, guidance, reply, results,
                 interrupted>>

-----------------------------------------------------------------------------
LoopNext ==
  \/ Begin \/ Summarized \/ Request \/ Respond \/ RunTool \/ Decide
  \/ LoopTimesOut \/ LoopFails

LoopSpec == LoopInit /\ [][LoopNext]_loopVars

(* The loop's own steps and the timer go on; the provider and the compiler *)
(* need not answer.                                                        *)
FairLoop == LoopSpec /\ WF_loopVars(LoopTimesOut)

-----------------------------------------------------------------------------
(* Properties                                                              *)

(* The single type invariant.                                              *)
LoopTypeOK ==
  /\ phase \in Phases /\ turn \in 0..MaxTurns
  /\ out \in Nat /\ total \in Nat /\ cost \in Nat /\ billed \in Nat
  /\ costAvailable \in BOOLEAN /\ submitted \in BOOLEAN /\ interrupted \in BOOLEAN
  /\ content \in Contents /\ checked \in Contents
  /\ transcript \in Seq({"edit"} \cup Statuses)
  /\ exit \in Exits /\ (exit # "none" <=> phase = "done")

(* docs/evals.md:542, guidance from evidence: the agent is told to submit  *)
(* only if the candidate it has now is the one that passed the last check. *)
SubmitsWhatPassed ==
  phase = "requesting" /\ guidance = "submit now" => content = checked /\ Status = "passed"

(* The last request a trial can make says so, whatever it is estimated to  *)
(* cost: there is no turn after it to check or submit in.                  *)
LastRequestAnnounced ==
  phase = "requesting" /\ turn = MaxTurns - 1 =>
    guidance \in {"submit now", "final", "final check"}

(* Requests go out only below the token limits, also behind a compaction,  *)
(* so that with the clamp of each request the output of a trial exceeds    *)
(* its limit by less than one summary.                                     *)
LimitsHold ==
  [][/\ phase' \in {"compacting", "requesting"} /\ phase' # phase => ~TokensUsedUp
     /\ out' < MaxOutput + MaxSummary]_loopVars

(* The trial ends, even if provider and compiler never answer.             *)
Ends == <>(phase = "done")

(* What the campaign's budget relies on.                                   *)
Promise == INSTANCE LoopPromise WITH
  stage <- IF phase = "done" THEN IF exit = "error" THEN "failed" ELSE "returned"
           ELSE IF Lost THEN "asking" ELSE "working",
  recorded <- cost, known <- costAvailable, spent <- billed, cut <- interrupted,
  Stop <- CostStop, Costs <- ResponseCosts

ImplementsPromise == Promise!Spec
=============================================================================
