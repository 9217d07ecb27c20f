-------------------------- MODULE SqliteConnection ---------------------------
(***************************************************************************)
(* One Expo SQLite connection shared by fibers: packages/sqlite,           *)
(* SqliteClient.make and SqliteMigrator.make.                              *)
(*                                                                         *)
(* A statement is a chain of native calls, prepare and then step, which    *)
(* the native module runs in the order they arrive.  A plain statement     *)
(* passes the semaphore and gives it back before its first call; a         *)
(* transaction keeps the permit until its scope closes.  An interrupted    *)
(* fiber abandons its statement, whose calls go on nevertheless.  BEGIN to *)
(* ROLLBACK, and when they are sent, are Effect's SqlClient: external.     *)
(***************************************************************************)
EXTENDS Naturals, Sequences, FiniteSets

CONSTANTS
  Plain,       (* fibers that run one INSERT outside any transaction       *)
  Transactors, (* fibers that run a transaction with one nested in it      *)
  Migrators,   (* fibers that run the migrator                             *)
  Known,       (* the migration ids the loader of each migrator returns    *)
  Nobody

Fibers == Plain \cup Transactors \cup Migrators

Ids == UNION {Known[m] : m \in Migrators}

ASSUME FiberKinds ==
  /\ Plain \cap (Transactors \cup Migrators) = {}
  /\ Transactors \cap Migrators = {}
  /\ Nobody \notin Fibers
ASSUME MarksFresh == {"table", "row", "ran"} \cap Fibers = {}
ASSUME KnownType == Known \in [Migrators -> SUBSET (Nat \ {0})]

VARIABLES
  pc,      (* the statement a fiber waits for, or where it stands          *)
  permit,  (* who holds the semaphore's only permit                        *)
  calls,   (* the native calls under way, in the order they arrived        *)
  open,    (* is the native connection inside BEGIN ... COMMIT?            *)
  outer,   (* what was written since BEGIN                                 *)
  inner,   (* what was written since SAVEPOINT                             *)
  disk,    (* what is committed                                            *)
  required (* the migrations a migrator found to run                       *)

vars == <<pc, permit, calls, open, outer, inner, disk, required>>

(* Sent by Effect's withTransaction, in an uninterruptible region; "abort" *)
(* is the ROLLBACK TO of an interrupted nested transaction.                *)
Controls == {"begin", "savepoint", "undo", "abort", "commit", "rollback"}

(* What runs inside a transaction.                                         *)
Body == {"first", "second", "select", "insert", "migrate"}

Statements == Controls \cup Body \cup {"plain", "create"}

Stages == Statements \cup {"idle", "ensured", "done", "failed", "interrupted"}

(* A statement under way: who sent it, and how many calls it still takes.  *)
Calls == [by : Fibers, sql : Statements, left : 1..3]

(* What a fiber's statement writes: a row each, the migrations table, the  *)
(* rows that record migrations, or what the migrations do.                 *)
Writes(f, sql) ==
  CASE sql \in {"plain", "first", "second"} -> {<<f, sql>>}
    [] sql = "create" -> {<<"table", 0>>}
    [] sql = "insert" -> {<<"row", i>> : i \in required[f]}
    [] sql = "migrate" -> {<<"ran", i>> : i \in required[f]}
    [] OTHER -> {}

Visible == disk \cup outer \cup inner

Recorded(on) == {i \in Ids : <<"row", i>> \in on}
Ran(on) == {i \in Ids : <<"ran", i>> \in on}

(* A raw statement reads the column names between prepare and step.        *)
Chain(sql) == IF sql = "plain" THEN {2, 3} ELSE {2}

Init ==
  /\ pc = [f \in Fibers |-> "idle"]
  /\ permit = Nobody
  /\ calls = <<>>
  /\ open = FALSE /\ outer = {} /\ inner = {} /\ disk = {}
  /\ required = [m \in Migrators |-> {}]

-----------------------------------------------------------------------------
(* Getting at the connection                                               *)

(* The fiber's statement sends its first call.                             *)
Send(f, sql, queue) ==
  /\ \E n \in Chain(sql) : calls' = Append(queue, [by |-> f, sql |-> sql, left |-> n])
  /\ pc' = [pc EXCEPT ![f] = sql]

(* acquirer: withPermits(1)(Effect.succeed(connection)) needs the permit   *)
(* for an instant and gives it back; then the statement begins.            *)
StartPlain(f) ==
  /\ pc[f] = "idle" /\ f \in Plain \cup Migrators
  /\ permit = Nobody
  /\ Send(f, IF f \in Plain THEN "plain" ELSE "create", calls)
  /\ UNCHANGED <<permit, open, outer, inner, disk, required>>

(* Broken: an interruption between take and addFinalizer loses the permit. *)
TakeLeaking(f) ==
  /\ \/ pc[f] = "idle" /\ f \in Transactors
     \/ pc[f] = "ensured"
  /\ permit = Nobody
  /\ permit' = f
  /\ \/ Send(f, "begin", calls)
     \/ pc' = [pc EXCEPT ![f] = "interrupted"] /\ UNCHANGED calls
  /\ UNCHANGED <<open, outer, inner, disk, required>>

(* Broken: the transaction gives the permit back at once, like a statement.*)
TakeUnheld(f) ==
  /\ \/ pc[f] = "idle" /\ f \in Transactors
     \/ pc[f] = "ensured"
  /\ permit = Nobody
  /\ Send(f, "begin", calls)
  /\ UNCHANGED <<permit, open, outer, inner, disk, required>>

(* transactionAcquirer: take(1) and addFinalizer are one uninterruptible   *)
(* region, only the waiting is restored; then BEGIN.                       *)
TakePermit(f) ==
  /\ \/ pc[f] = "idle" /\ f \in Transactors
     \/ pc[f] = "ensured"
  /\ permit = Nobody
  /\ permit' = f
  /\ Send(f, "begin", calls)
  /\ UNCHANGED <<open, outer, inner, disk, required>>

-----------------------------------------------------------------------------
(* The native connection                                                   *)

First == calls[1]

(* Does a fiber still wait for the statement at the head of the queue?     *)
Awaited == pc[First.by] = First.sql

(* prepare, or the column names: the statement's next call is sent, unless *)
(* it is a raw statement that was abandoned before it was prepared.        *)
Prepare ==
  /\ calls # <<>> /\ First.left > 1
  /\ calls' = IF First.left = 3 /\ ~Awaited
                THEN Tail(calls)
                ELSE Append(Tail(calls), [First EXCEPT !.left = @ - 1])
  /\ UNCHANGED <<pc, permit, open, outer, inner, disk, required>>

(* What the step of a statement does to the database.                      *)
Perform(f, sql) ==
  CASE sql = "begin" ->
         open' = TRUE /\ UNCHANGED <<outer, inner, disk>>
    [] sql = "savepoint" ->
         outer' = outer \cup inner /\ inner' = {} /\ UNCHANGED <<open, disk>>
    [] sql \in {"undo", "abort"} ->
         inner' = {} /\ UNCHANGED <<open, outer, disk>>
    [] sql = "commit" ->
         open' = FALSE /\ disk' = Visible /\ outer' = {} /\ inner' = {}
    [] sql = "rollback" ->
         open' = FALSE /\ outer' = {} /\ inner' = {} /\ UNCHANGED disk
    [] OTHER ->
         /\ IF open THEN inner' = inner \cup Writes(f, sql) /\ UNCHANGED disk
                    ELSE disk' = disk \cup Writes(f, sql) /\ UNCHANGED inner
         /\ UNCHANGED <<open, outer>>

(* Where a fiber goes when its statement succeeds.                         *)
Proceed(f, sql) ==
  LET rest == Tail(calls)
      Finish(stage) == pc' = [pc EXCEPT ![f] = stage] /\ calls' = rest
  IN
  CASE sql = "plain" -> Finish("done") /\ UNCHANGED permit
    [] sql = "create" -> Finish("ensured") /\ UNCHANGED permit
    [] sql = "begin" ->
         Send(f, IF f \in Migrators THEN "select" ELSE "first", rest) /\ UNCHANGED permit
    [] sql = "first" ->
         (\E next \in {"savepoint", "commit"} : Send(f, next, rest)) /\ UNCHANGED permit
    [] sql = "savepoint" -> Send(f, "second", rest) /\ UNCHANGED permit
    [] sql = "second" -> Send(f, "commit", rest) /\ UNCHANGED permit
    [] sql = "undo" ->
         (\E next \in {"commit", "rollback"} : Send(f, next, rest)) /\ UNCHANGED permit
    [] sql = "abort" -> Send(f, "rollback", rest) /\ UNCHANGED permit
    [] sql = "select" ->
         Send(f, IF required'[f] = {} THEN "commit" ELSE "insert", rest) /\ UNCHANGED permit
    [] sql = "insert" -> Send(f, "migrate", rest) /\ UNCHANGED permit
    [] sql = "migrate" -> Send(f, "commit", rest) /\ UNCHANGED permit
    [] sql = "commit" -> Finish("done") /\ permit' = Nobody
    [] sql = "rollback" -> Finish("failed") /\ permit' = Nobody

(* Broken: every migration that is not on record is run.                   *)
RequireMissing(f, sql) ==
  IF sql = "select"
    THEN required' = [required EXCEPT ![f] = Known[f] \ Recorded(Visible)]
    ELSE UNCHANGED required

(* The migrator: ids up to the latest recorded one are skipped.            *)
Require(f, sql) ==
  IF sql = "select"
    THEN required' = [required EXCEPT ![f] =
           {i \in Known[f] : \A j \in Recorded(Visible) : j < i}]
    ELSE UNCHANGED required

(* The step of an awaited statement succeeds.                              *)
Step ==
  /\ calls # <<>> /\ First.left = 1 /\ Awaited
  /\ First.sql = "select" => <<"table", 0>> \in Visible
  /\ Perform(First.by, First.sql)
  /\ Require(First.by, First.sql)
  /\ Proceed(First.by, First.sql)

(* The step of a statement its fiber has abandoned still happens.          *)
StepAbandoned ==
  /\ calls # <<>> /\ First.left = 1 /\ ~Awaited
  /\ Perform(First.by, First.sql)
  /\ calls' = Tail(calls)
  /\ UNCHANGED <<pc, permit, required>>

(* Broken: the migrator takes a failed migration for a finished one.       *)
CommitFailure(f, queue) ==
  Send(f, IF pc[f] = "migrate" THEN "commit" ELSE "rollback", queue)

(* A failed body is rolled back; from a nested one the outer may recover.  *)
RollBack(f, queue) ==
  Send(f, IF pc[f] = "second" THEN "undo" ELSE "rollback", queue)

(* An awaited statement fails: a transaction is rolled back; the migrator  *)
(* turns the failure of a migration into a defect, which does the same,    *)
(* and fails there when the loader does, when ids are duplicates, or when  *)
(* the table is missing or already has the rows.                           *)
StepFails ==
  LET f == First.by IN
  /\ calls # <<>> /\ First.left = 1 /\ Awaited
  /\ \/ /\ First.sql \in {"plain", "create"}
        /\ pc' = [pc EXCEPT ![f] = "failed"] /\ calls' = Tail(calls)
     \/ /\ First.sql \in Body
        /\ RollBack(f, Tail(calls))
  /\ UNCHANGED <<permit, open, outer, inner, disk, required>>

-----------------------------------------------------------------------------
(* Interruption                                                            *)

(* While it waits for the semaphore, or for a plain statement.             *)
InterruptOutside(f) ==
  /\ pc[f] \in {"idle", "ensured", "plain", "create"}
  /\ pc' = [pc EXCEPT ![f] = "interrupted"]
  /\ UNCHANGED <<permit, calls, open, outer, inner, disk, required>>

(* Inside a transaction: its statement is abandoned and ROLLBACK sent; an  *)
(* interruption does not stop at the nested transaction.                   *)
InterruptBody(f) ==
  /\ pc[f] \in Body
  /\ Send(f, IF pc[f] = "second" THEN "abort" ELSE "rollback", calls)
  /\ UNCHANGED <<permit, open, outer, inner, disk, required>>

-----------------------------------------------------------------------------
Next ==
  \/ \E f \in Fibers :
       \/ StartPlain(f) \/ TakePermit(f)
       \/ InterruptOutside(f) \/ InterruptBody(f)
  \/ Prepare \/ Step \/ StepAbandoned \/ StepFails

Spec == Init /\ [][Next]_vars

(* The native queue is worked off, and a fiber that can go on does.        *)
Fairness ==
  /\ WF_vars(Prepare \/ Step \/ StepAbandoned \/ StepFails)
  /\ \A f \in Fibers :
       WF_vars(StartPlain(f) \/ TakePermit(f))

FairSpec == Spec /\ Fairness

-----------------------------------------------------------------------------
(* Properties                                                              *)

InTransaction(f) == pc[f] \in Statements \ {"plain", "create"}

(* The single type invariant.                                              *)
TypeOK ==
  /\ pc \in [Fibers -> Stages]
  /\ permit \in Fibers \cup {Nobody}
  /\ calls \in Seq(Calls)
  /\ open \in BOOLEAN
  /\ ~open => outer \cup inner = {}
  /\ required \in [Migrators -> SUBSET Ids]

(* The connection is inside a transaction only for a fiber that holds the  *)
(* permit, and whoever holds the permit is in a transaction.               *)
PermitGuardsTransaction ==
  /\ open => permit # Nobody
  /\ \A f \in Fibers : permit = f <=> InTransaction(f)

(* README.md:67, interruption-safe transactions: what a transaction wrote  *)
(* is on disk only if it committed; an abandoned statement cannot slip out *)
(* behind the ROLLBACK.                                                    *)
RolledBackLeavesNothing ==
  \A f \in Transactors :
    <<f, "first">> \in disk \/ <<f, "second">> \in disk =>
      pc[f] = "done" /\ <<f, "first">> \in disk

(* The migrations on record are those whose effects are on disk.           *)
RecordedIffRan == Recorded(disk) = Ran(disk)

(* No migration is applied once a later one has been.                      *)
NeverBackwards ==
  [][\A i \in Ran(disk') \ Ran(disk), j \in Ran(disk) : j < i]_vars

(* No fiber waits for the permit, or for its statement, for ever.          *)
FibersEnd ==
  \A f \in Fibers : <>(pc[f] \in {"done", "failed", "interrupted"})
=============================================================================
