-------------------------- MODULE ContextCompaction --------------------------
(***************************************************************************)
(* The provider's context of one trial: tooling/dx-evals, AgentLoop.ts     *)
(* adds a turn's messages to the prompt, Compaction.ts replaces old ones   *)
(* by a checkpoint.  A message is its role, its turn and its estimated     *)
(* tokens; that estimates are rounded up per message in one place and per  *)
(* prompt in another is abstracted from.                                   *)
(***************************************************************************)
EXTENDS Naturals, Sequences, FiniteSets, SequencesExt, FiniteSetsExt

CONSTANTS
  Trigger,         (* policy.maximumTokens - policy.reserveTokens          *)
  Keep,            (* policy.keepRecentTokens                              *)
  Target,          (* targetTokensAfterCompaction(policy)                  *)
  CallSizes, ResultSizes, CheckpointSizes,
  TurnLimit

ASSUME PolicyIsSound ==
  /\ Trigger \in Nat \ {0} /\ Keep \in 1..Trigger /\ Target \in 1..Trigger
  /\ CallSizes \cup ResultSizes \cup CheckpointSizes \subseteq Nat \ {0}
ASSUME TurnsBounded == TurnLimit \in Nat

VARIABLES
  half,       (* prepare, request: the two halves of an iteration          *)
  turns,      (* how many there have been                                  *)
  prompt,     (* a sequence of messages                                    *)
  summarized  (* history: the turns a checkpoint has been made from        *)

contextVars == <<half, turns, prompt, summarized>>

Message(role, of, size) == [role |-> role, turn |-> of, size |-> size]

Fixed == <<Message("system", 0, 1), Message("user", 0, 1)>>

ContextInit ==
  /\ half = "prepare" /\ turns = 0 /\ prompt = Fixed
  /\ summarized = {}

Size(messages) == FoldLeft(LAMBDA sum, m : sum + m.size, 0, messages)
From(messages, i) == SubSeq(messages, i, Len(messages))
Assistants(messages) == {i \in DOMAIN messages : messages[i].role = "assistant"}
TurnsOf(messages) == {messages[i].turn : i \in Assistants(messages)}

(* recentStart: back to where the messages reach the tokens to keep and    *)
(* hold a whole turn, then forward to the first whole turn.                *)
RecentStart(messages) ==
  LET enough == {i \in DOMAIN messages :
                   /\ Size(From(messages, i)) >= Keep
                   /\ \E a \in Assistants(messages) : a >= i}
      back == Max(enough \cup {1})
  IN  Min({a \in Assistants(messages) : a >= back} \cup {Len(messages) + 1})

(* Broken: one turn is always kept.                                        *)
FitKeepsOne(checkpoint, recent) ==
  LET fits(i) == Size(Fixed) + checkpoint.size + Size(From(recent, i)) <= Target
  IN  From(recent, Min({i \in Assistants(recent) : fits(i)} \cup {Max(Assistants(recent) \cup {1})}))

(* Broken: the newest turns are dropped first.                             *)
FitFromTheEnd(checkpoint, recent) ==
  LET fits(i) == Size(Fixed) + checkpoint.size + Size(SubSeq(recent, 1, i - 1)) <= Target
  IN  SubSeq(recent, 1, Max({i \in Assistants(recent) \cup {Len(recent) + 1} : fits(i)} \cup {1}) - 1)

(* fitRecentMessages: the oldest complete turns are dropped until the rest *)
(* fits, or nothing is left.                                               *)
Fit(checkpoint, recent) ==
  LET fits(i) == Size(Fixed) + checkpoint.size + Size(From(recent, i)) <= Target
  IN  From(recent, Min({i \in Assistants(recent) \cup {1} : fits(i)} \cup {Len(recent) + 1}))

FixedPart == SubSeq(prompt, 1, 2)
History == From(prompt, 3)

(* prepare and complete: above the trigger, and with something to          *)
(* summarize, everything before the recent messages goes into a checkpoint.*)
Prepare ==
  /\ half = "prepare" /\ turns < TurnLimit /\ half' = "request"
  /\ LET start == RecentStart(History)
         recent == From(History, start)
         old == SubSeq(History, 1, start - 1) IN
       IF Size(prompt) <= Trigger \/ old = <<>>
         THEN UNCHANGED <<prompt, summarized>>
         ELSE \E size \in CheckpointSizes :
                LET checkpoint == Message("user", 0, size) IN
                  /\ prompt' = FixedPart \o <<checkpoint>> \o Fit(checkpoint, recent)
                  /\ summarized' = summarized \cup TurnsOf(old)
  /\ UNCHANGED turns

(* The request, perhaps with guidance, and the response's messages: the    *)
(* calls and their results.                                                *)
AddTurn ==
  /\ half = "request" /\ half' = "prepare"
  /\ turns' = turns + 1
  /\ \E guidance \in {<<>>, <<Message("user", turns + 1, 1)>>},
        calls \in CallSizes, results \in ResultSizes :
       prompt' = prompt \o guidance
                   \o <<Message("assistant", turns + 1, calls), Message("tool", turns + 1, results)>>
  /\ UNCHANGED summarized

ContextNext == Prepare \/ AddTurn

ContextSpec == ContextInit /\ [][ContextNext]_contextVars

-----------------------------------------------------------------------------
(* Properties                                                              *)

(* The single type invariant.                                              *)
ContextTypeOK ==
  /\ half \in {"prepare", "request"} /\ turns \in 0..TurnLimit
  /\ \A i \in DOMAIN prompt :
       prompt[i] \in [role : {"system", "user", "assistant", "tool"}, turn : 0..turns, size : Nat]
  /\ SubSeq(prompt, 1, 2) = Fixed /\ summarized \subseteq 1..turns

(* What the agent still sees is what it did last, as README.md:160 has it  *)
(* never cut between a call and its result: through any number of          *)
(* compactions results follow their calls at once, calls are never left    *)
(* without, there is no gap up to the latest turn, and a turn that has     *)
(* gone into a checkpoint is not seen once more.                           *)
RecentWholeTurns ==
  LET seen == TurnsOf(prompt) IN
    /\ \A i \in DOMAIN prompt : prompt[i].role = "tool" =>
         prompt[i - 1].role = "assistant" /\ prompt[i - 1].turn = prompt[i].turn
    /\ \A i \in Assistants(prompt) : i < Len(prompt) /\ prompt[i + 1].role = "tool"
    /\ seen = {} \/ seen = Min(seen)..turns
    /\ seen \cap summarized = {}

(* docs/evals.md:571: behind a compaction the context is at or below the   *)
(* target, unless there is nothing in it but the task and the checkpoint.  *)
CompactedFits ==
  [][half = "prepare" /\ prompt' # prompt =>
       Size(prompt') <= Target \/ Len(prompt') = 3]_contextVars
=============================================================================
