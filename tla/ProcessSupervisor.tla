--------------------------- MODULE ProcessSupervisor --------------------------
(***************************************************************************)
(* A supervised child process: makeService of                              *)
(* tooling/compatibility-harness/src/supervision/ProcessSupervisor.ts and  *)
(* its three kinds of caller.                                              *)
(*                                                                         *)
(* Two fibers drain the output pipes into one bounded buffer, a third      *)
(* waits for the drains and for the exit code, with a timeout.  The child  *)
(* leads a process group of its own, may leave a descendant in it, and a   *)
(* pipe is open as long as any of them holds it.  The spawner that signals *)
(* the group is a library, modelled from how the supervisor uses it.       *)
(***************************************************************************)
EXTENDS Naturals, Sequences, FiniteSets, SequencesExt

CONSTANTS
  Callers,    (* which callers there may be: "run", "maestro", "serve"     *)
  Sizes,      (* the numbers of bytes a process writes at a time           *)
  MaxChunks,  (* bound: how often anybody writes                           *)
  MaxHelpers, (* bound: the descendants there are at a time                *)
  ByteLimit,  (* retainedOutputBytes                                       *)
  LineLimit,  (* retainedOutputLines                                       *)
  NoticeSize  (* the size of the message the supervisor records itself     *)

ASSUME SizesPositive == Sizes \subseteq Nat \ {0}
ASSUME RetentionPositive == ByteLimit \in Nat \ {0} /\ LineLimit \in Nat \ {0}
ASSUME NoticeFits == NoticeSize \in 0..ByteLimit
ASSUME ChunksBounded == MaxChunks \in Nat
ASSUME CallersKnown == Callers \subseteq {"run", "maestro", "serve"}

VARIABLES
  caller,   (* who called start or run                                     *)
  pc,       (* where that caller is                                        *)
  outcome,  (* what it returns                                             *)
  child,    (* the process itself                                          *)
  helpers,  (* the descendants in its process group                        *)
  stop,     (* terminateOnce: not called, "asked" or "over"                *)
  pipe,     (* what each pipe holds: chunks of [bytes, ends (a line)]      *)
  drain,    (* the fiber that drains each pipe                             *)
  pending,  (* its unfinished line: the bytes kept and the bytes omitted   *)
  buffer,   (* ObservationBuffer: entries, as their bytes, and omittedBytes *)
  chunks,   (* how often anybody wrote                                     *)
  written,  (* history, not code: all bytes written or recorded            *)
  unkilled  (* history, not code: signalling the group failed              *)

output == <<pipe, drain, pending, buffer, chunks, written>>
processes == <<child, helpers>>
killing == <<stop, unkilled>>
supervisorVars == <<caller, pc, outcome, child, helpers, stop, unkilled, output>>

Streams == {"stdout", "stderr"}

(* A helper may write (and so holds the pipes), and may ignore SIGTERM.    *)
Helpers == [writes : BOOLEAN, stubborn : BOOLEAN]

Total(entries) == FoldLeft(LAMBDA a, b : a + b, 0, entries)

AtMost(limit, n) == IF n < limit THEN n ELSE limit

SupervisorInit ==
  /\ caller \in Callers
  /\ pc = "spawn" /\ outcome = "none"
  /\ child = "none" /\ helpers = {} /\ stop = "no" /\ unkilled = FALSE
  /\ pipe = [s \in Streams |-> <<>>]
  /\ drain = [s \in Streams |-> "off"]
  /\ pending = [s \in Streams |-> [kept |-> 0, omitted |-> 0]]
  /\ buffer = [entries |-> <<>>, omitted |-> 0]
  /\ chunks = 0 /\ written = 0

-----------------------------------------------------------------------------
(* The buffer                                                              *)

(* Broken: a line cut short by its drain does not count what was cut.      *)
RetainForgetful(b, bytes, omitted) ==
  LET all == Append(b.entries, bytes)
      fits(k) == \/ k = Len(all)
                 \/ /\ Total(SubSeq(all, k, Len(all))) <= ByteLimit
                    /\ Len(all) - k + 1 <= LineLimit
      first == CHOOSE k \in DOMAIN all : fits(k) /\ \A j \in 1..(k - 1) : ~fits(j)
  IN [entries |-> SubSeq(all, first, Len(all)),
      omitted |-> b.omitted + Total(SubSeq(all, 1, first - 1))]

(* retain: the oldest entries make room, the newest one always stays.      *)
retain(b, bytes, omitted) ==
  LET all == Append(b.entries, bytes)
      fits(k) == \/ k = Len(all)
                 \/ /\ Total(SubSeq(all, k, Len(all))) <= ByteLimit
                    /\ Len(all) - k + 1 <= LineLimit
      first == CHOOSE k \in DOMAIN all : fits(k) /\ \A j \in 1..(k - 1) : ~fits(j)
  IN [entries |-> SubSeq(all, first, Len(all)),
      omitted |-> b.omitted + omitted + Total(SubSeq(all, 1, first - 1))]

(* utf8Suffix: of an unfinished line only the end is kept.                 *)
append(line, bytes) ==
  LET kept == AtMost(ByteLimit, line.kept + bytes) IN
  [kept |-> kept, omitted |-> line.omitted + (line.kept + bytes - kept)]

NoLine == [kept |-> 0, omitted |-> 0]

(* The ensuring of drainDecodedChunks: the last line needs no newline.     *)
Flushed(b, line) == IF line = NoLine THEN b ELSE retain(b, line.kept, line.omitted)

-----------------------------------------------------------------------------
(* The processes                                                           *)

HoldsPipes == child = "running" \/ \E h \in helpers : h.writes

Write(s) ==
  /\ HoldsPipes /\ chunks < MaxChunks
  /\ \E n \in Sizes, ends \in BOOLEAN :
       /\ pipe' = [pipe EXCEPT ![s] = Append(@, [bytes |-> n, ends |-> ends])]
       /\ written' = written + n
  /\ chunks' = chunks + 1
  /\ UNCHANGED <<caller, pc, outcome, processes, killing, drain, pending, buffer>>

(* A process that was told to stop starts no other.                        *)
Fork ==
  /\ child = "running" /\ stop = "no" /\ Cardinality(helpers) < MaxHelpers
  /\ \E h \in Helpers : helpers' = helpers \cup {h}
  /\ UNCHANGED <<caller, pc, outcome, child, killing, output>>

HelperEnds ==
  /\ \E h \in helpers : helpers' = helpers \ {h}
  /\ UNCHANGED <<caller, pc, outcome, child, killing, output>>

(* With an exit code of its own, or killed by a signal: exitCode fails.    *)
ChildEnds ==
  /\ child = "running"
  /\ child' \in {"exited", "killed"}
  /\ UNCHANGED <<caller, pc, outcome, helpers, killing, output>>

(* SIGTERM to the group; a child that ignores it is killed after the       *)
(* grace, with all that is left of the group.                              *)
AfterTerm == {h \in helpers : h.stubborn}

GraceEnds ==
  /\ stop = "asked" /\ ~unkilled /\ child = "running"
  /\ child' = "killed" /\ helpers' = {}
  /\ UNCHANGED <<caller, pc, outcome, killing, output>>

KillFails ==
  /\ stop = "asked" /\ ~unkilled
  /\ unkilled' = TRUE
  /\ UNCHANGED <<caller, pc, outcome, processes, stop, output>>

-----------------------------------------------------------------------------
(* The drains                                                              *)

(* Broken: the drains are not waited for.                                  *)
DrainsAssumed == TRUE

DrainsOver == \A s \in Streams : drain[s] \in {"done", "failed", "interrupted"}
DrainsFailed == \E s \in Streams : drain[s] = "failed"

Read(s) ==
  /\ drain[s] = "reading" /\ pipe[s] # <<>>
  /\ LET chunk == Head(pipe[s])
         line == append(pending[s], chunk.bytes)
     IN IF chunk.ends
        THEN /\ buffer' = retain(buffer, line.kept, line.omitted)
             /\ pending' = [pending EXCEPT ![s] = NoLine]
        ELSE /\ pending' = [pending EXCEPT ![s] = line]
             /\ UNCHANGED buffer
  /\ pipe' = [pipe EXCEPT ![s] = Tail(@)]
  /\ UNCHANGED <<caller, pc, outcome, processes, killing, drain, chunks, written>>

DrainEnds(s) ==
  /\ drain[s] = "reading"
  /\ pipe[s] = <<>> /\ ~HoldsPipes
  /\ drain' = [drain EXCEPT ![s] = "done"]
  /\ buffer' = Flushed(buffer, pending[s])
  /\ pending' = [pending EXCEPT ![s] = NoLine]
  /\ UNCHANGED <<caller, pc, outcome, processes, killing, pipe, chunks, written>>

DrainFails(s) ==
  /\ drain[s] = "reading"
  /\ drain' = [drain EXCEPT ![s] = "failed"]
  /\ buffer' = Flushed(buffer, pending[s])
  /\ pending' = [pending EXCEPT ![s] = NoLine]
  /\ UNCHANGED <<caller, pc, outcome, processes, killing, pipe, chunks, written>>

-----------------------------------------------------------------------------
(* The caller                                                              *)

Spawn ==
  /\ pc = "spawn"
  /\ \/ /\ child' = "running"
        /\ drain' = [s \in Streams |-> "reading"]
        /\ pc' = IF caller = "serve" THEN "use" ELSE "wait"
        /\ UNCHANGED outcome
     \/ /\ pc' = "ended" /\ outcome' = "spawn"
        /\ UNCHANGED <<child, drain>>
  /\ UNCHANGED <<caller, helpers, killing, pipe, pending, buffer, chunks, written>>

(* Broken: only the child is signalled, not its group.                     *)
TerminateChild ==
  IF stop = "no"
  THEN /\ stop' = "asked"
       /\ buffer' = retain(buffer, NoticeSize, 0)
       /\ written' = written + NoticeSize
       /\ UNCHANGED <<processes, pipe, drain, pending, chunks, unkilled>>
  ELSE UNCHANGED <<processes, killing, output>>

(* terminateOnce: the first call records its message and signals the       *)
(* group, a later one joins the first.                                     *)
Terminate ==
  IF stop = "no"
  THEN /\ stop' = "asked"
       /\ buffer' = retain(buffer, NoticeSize, 0)
       /\ written' = written + NoticeSize
       /\ helpers' = AfterTerm
       /\ UNCHANGED <<child, pipe, drain, pending, chunks, unkilled>>
  ELSE UNCHANGED <<processes, killing, output>>

(* It ends when the child is gone, or cannot be signalled, and both drains *)
(* are over; that one of them failed changes only what is reported.        *)
TerminateEnds ==
  /\ stop = "asked" /\ DrainsOver
  /\ child # "running" \/ unkilled
  /\ stop' = "over"
  /\ UNCHANGED <<caller, pc, outcome, processes, unkilled, output>>

(* exitCode: a failed drain is told before a failed exit.                  *)
Answered ==
  /\ pc = "wait" /\ child \in {"exited", "killed"} /\ DrainsOver
  /\ \/ /\ DrainsFailed
        /\ outcome' = "stream" /\ pc' = "finalize"
     \/ /\ ~DrainsFailed /\ child = "killed"
        /\ outcome' = "exit" /\ pc' = "finalize"
     \/ /\ ~DrainsFailed /\ child = "exited"
        /\ outcome' = "exited"
        /\ pc' = IF caller = "run" THEN "cleanup" ELSE "finalize"
  /\ UNCHANGED <<caller, processes, killing, output>>

TimesOut ==
  /\ pc = "wait"
  /\ pc' = "stopping" /\ outcome' = "timeout"
  /\ Terminate
  /\ UNCHANGED caller

(* Of Maestro: its report has been there for a minute.                     *)
Watchdog ==
  /\ pc = "wait" /\ caller = "maestro" /\ stop = "no"
  /\ Terminate
  /\ UNCHANGED <<caller, pc, outcome>>

(* Of the web server: the browser is done with it, well or badly.          *)
Finish ==
  /\ pc = "use"
  /\ pc' = "stopping" /\ outcome' = "stopped"
  /\ Terminate
  /\ UNCHANGED caller

Stopped ==
  /\ pc = "stopping" /\ stop = "over"
  /\ pc' = "finalize"
  /\ UNCHANGED <<caller, outcome, processes, killing, output>>

(* Broken: a successful command is not cleaned up after.                   *)
NoCleanup ==
  /\ pc = "cleanup" /\ pc' = "finalize"
  /\ UNCHANGED <<caller, outcome, processes, killing, output>>

(* cleanupDescendants: the group is signalled; failing to is ignored.      *)
Cleanup ==
  /\ pc = "cleanup" /\ pc' = "finalize"
  /\ \/ helpers' = AfterTerm /\ UNCHANGED unkilled
     \/ unkilled' = TRUE /\ UNCHANGED helpers
  /\ UNCHANGED <<caller, outcome, child, stop, output>>

Interrupt ==
  /\ pc \in {"wait", "use", "stopping", "cleanup"}
  /\ pc' = "finalize" /\ outcome' = "interrupted"
  /\ UNCHANGED <<caller, processes, killing, output>>

(* The scope closes: Maestro terminates, then the drains are interrupted,  *)
(* then the spawner kills what still runs.                                 *)
Finalize ==
  /\ pc = "finalize" /\ caller = "maestro" /\ stop = "no"
  /\ Terminate
  /\ UNCHANGED <<caller, pc, outcome>>

Close ==
  /\ pc = "finalize"
  /\ caller = "maestro" => stop = "over"
  /\ pc' = "ended"
  /\ child' = IF child = "running" THEN "killed" ELSE child
  /\ helpers' = IF child = "running" THEN AfterTerm ELSE helpers
  /\ drain' = [s \in Streams |-> IF drain[s] = "reading" THEN "interrupted" ELSE drain[s]]
  /\ LET out == Flushed(buffer, pending["stderr"]) IN buffer' = Flushed(out, pending["stdout"])
  /\ pending' = [s \in Streams |-> NoLine]
  /\ UNCHANGED <<caller, outcome, killing, pipe, chunks, written>>

Ended ==
  /\ pc = "ended"
  /\ UNCHANGED supervisorVars

SupervisorNext ==
  \/ \E s \in Streams : Write(s) \/ Read(s) \/ DrainEnds(s) \/ DrainFails(s)
  \/ Fork \/ HelperEnds \/ ChildEnds \/ GraceEnds \/ KillFails
  \/ Spawn \/ Answered \/ TimesOut \/ Watchdog \/ Finish \/ TerminateEnds \/ Stopped
  \/ Cleanup \/ Interrupt \/ Finalize \/ Close \/ Ended

(* The fibers run, the timer fires, the signalled group is killed after    *)
(* its grace.  Nothing makes a process, or a helper, end by itself.        *)
Fairness ==
  /\ \A s \in Streams : WF_supervisorVars(Read(s)) /\ WF_supervisorVars(DrainEnds(s))
  /\ WF_supervisorVars(GraceEnds) /\ WF_supervisorVars(TerminateEnds)
  /\ WF_supervisorVars(Spawn) /\ WF_supervisorVars(Answered) /\ WF_supervisorVars(TimesOut)
  /\ WF_supervisorVars(Finish) /\ WF_supervisorVars(Stopped) /\ WF_supervisorVars(Cleanup)
  /\ WF_supervisorVars(Finalize) /\ WF_supervisorVars(Close)

SupervisorSpec == SupervisorInit /\ [][SupervisorNext]_supervisorVars /\ Fairness

-----------------------------------------------------------------------------
(* Properties                                                              *)

SupervisorTypeOK ==
  /\ caller \in Callers
  /\ pc \in {"spawn", "wait", "use", "stopping", "cleanup", "finalize", "ended"}
  /\ outcome \in {"none", "spawn", "stream", "exit", "exited", "timeout", "stopped", "interrupted"}
  /\ child \in {"none", "running", "exited", "killed"}
  /\ helpers \subseteq Helpers
  /\ stop \in {"no", "asked", "over"} /\ unkilled \in BOOLEAN
  /\ pipe \in [Streams -> Seq([bytes : Sizes, ends : BOOLEAN])]
  /\ drain \in [Streams -> {"off", "reading", "done", "failed", "interrupted"}]
  /\ pending \in [Streams -> [kept : 0..ByteLimit, omitted : Nat]]
  /\ buffer \in [entries : Seq(Nat), omitted : Nat]
  /\ chunks \in 0..MaxChunks /\ written \in Nat

(* The outcomes that are told only after both drains are over.             *)
Complete == {"exited", "exit", "timeout", "stopped"}

(* A result accounts for every byte: what the process and its descendants  *)
(* wrote until the pipes closed, and the message of the supervisor, is in  *)
(* the observations or counted as omitted there, and the observations      *)
(* never outgrow their two limits.                                         *)
OutputAccounted ==
  /\ Total(buffer.entries) <= ByteLimit /\ Len(buffer.entries) <= LineLimit
  /\ pc = "ended" /\ outcome \in Complete /\ ~DrainsFailed
       => written = Total(buffer.entries) + buffer.omitted

(* A command that ended or was stopped leaves no process behind: not the   *)
(* child, nor, if the group could be signalled, a descendant that obeys.   *)
NothingLeftRunning ==
  pc = "ended" /\ outcome \in {"exited", "timeout", "stopped"} /\ ~unkilled
    => child # "running" /\ \A h \in helpers : h.stubborn

(* Whatever the child does, start and run return; only a descendant that   *)
(* ignores SIGTERM and holds a pipe, or a group that cannot be signalled,  *)
(* keeps them waiting, past the timeout too.                               *)
HeldOpen == \E h \in helpers : h.stubborn /\ h.writes
CallEnds == <>(pc = "ended") \/ <>[]HeldOpen \/ <>unkilled
=============================================================================
