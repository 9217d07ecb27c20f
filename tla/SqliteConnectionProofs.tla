----------------------- MODULE SqliteConnectionProofs ------------------------
(***************************************************************************)
(* The connection is inside a transaction only for the fiber that holds    *)
(* the permit, for any number of fibers, interruptions and failures, and   *)
(* although the calls of abandoned statements go on.  The argument: what   *)
(* opens or closes a transaction is never abandoned, so while such a       *)
(* statement is in the native queue its fiber waits for it and for nothing *)
(* else.                                                                   *)
(***************************************************************************)
EXTENDS SqliteConnection, TLAPS

USE DEF Controls, Body, Statements, Stages, Calls, First, Fibers

(* Of a fiber there is at most one control statement in a queue, and it is *)
(* the one the fiber waits for.                                            *)
Tidy(q, at) ==
  \A i \in DOMAIN q : q[i].sql \in Controls =>
    /\ at[q[i].by] = q[i].sql
    /\ \A j \in DOMAIN q : q[j].by = q[i].by /\ q[j].sql \in Controls => j = i

NoControl(q, f) == \A i \in DOMAIN q : q[i].by = f => q[i].sql \notin Controls

(* Taking the head of a tidy queue leaves it tidy, without a control of    *)
(* the fiber whose control was the head.                                   *)
LEMMA TailTidy ==
  ASSUME NEW q \in Seq(Calls), NEW at, q # <<>>, Tidy(q, at)
  PROVE  /\ Tail(q) \in Seq(Calls)
         /\ Tidy(Tail(q), at)
         /\ q[1].sql \in Controls => NoControl(Tail(q), q[1].by)
<1>1. /\ Tail(q) \in Seq(Calls) /\ 1 \in DOMAIN q
      /\ \A i \in DOMAIN Tail(q) : i + 1 \in DOMAIN q /\ Tail(q)[i] = q[i + 1]
      /\ \A i \in DOMAIN Tail(q) : i \in Nat /\ i > 0
  OBVIOUS
<1>2. Tidy(Tail(q), at)
  <2> SUFFICES ASSUME NEW i \in DOMAIN Tail(q), Tail(q)[i].sql \in Controls
               PROVE  /\ at[Tail(q)[i].by] = Tail(q)[i].sql
                      /\ \A j \in DOMAIN Tail(q) :
                           Tail(q)[j].by = Tail(q)[i].by /\ Tail(q)[j].sql \in Controls
                             => j = i
    BY DEF Tidy
  <2>1. q[i + 1].sql \in Controls /\ i + 1 \in DOMAIN q
    BY <1>1
  <2>2. at[q[i + 1].by] = q[i + 1].sql
    BY <2>1 DEF Tidy
  <2>3. ASSUME NEW j \in DOMAIN Tail(q), Tail(q)[j].by = Tail(q)[i].by,
               Tail(q)[j].sql \in Controls
        PROVE  j = i
    <3>1. j + 1 \in DOMAIN q /\ q[j + 1].by = q[i + 1].by /\ q[j + 1].sql \in Controls
      BY <1>1, <2>3
    <3>2. j + 1 = i + 1
      BY <2>1, <3>1 DEF Tidy
    <3> QED
      BY <1>1, <3>2
  <2> QED
    BY <1>1, <2>2, <2>3
<1>3. ASSUME q[1].sql \in Controls PROVE NoControl(Tail(q), q[1].by)
  <2> SUFFICES ASSUME NEW i \in DOMAIN Tail(q), Tail(q)[i].by = q[1].by,
                      Tail(q)[i].sql \in Controls
               PROVE  FALSE
    BY DEF NoControl
  <2>1. i + 1 \in DOMAIN q /\ q[i + 1].by = q[1].by /\ q[i + 1].sql \in Controls
    BY <1>1
  <2>2. i + 1 = 1
    BY <1>1, <1>3, <2>1 DEF Tidy
  <2> QED
    BY <1>1, <2>2
<1> QED
  BY <1>1, <1>2, <1>3

(* A fiber without a control in the queue may move on, and send one.       *)
LEMMA MoveTidy ==
  ASSUME NEW q \in Seq(Calls), NEW at \in [Fibers -> Stages], Tidy(q, at),
         NEW f \in Fibers, NoControl(q, f), NEW stage \in Stages
  PROVE  Tidy(q, [at EXCEPT ![f] = stage])
<1> HIDE DEF Calls, Controls, Stages, Fibers
<1>1. \A i \in DOMAIN q : q[i] \in Calls
  OBVIOUS
<1>2. \A c \in Calls : c.by \in Fibers
  BY DEF Calls
<1> QED
  BY <1>1, <1>2 DEF Tidy, NoControl

(* Putting a call of a fiber that has no control in the queue at its end   *)
(* keeps the queue tidy when the fiber waits for that call, or when the    *)
(* call is not a control.                                                  *)
LEMMA AppendTidy ==
  ASSUME NEW q \in Seq(Calls), NEW at \in [Fibers -> Stages], Tidy(q, at),
         NEW c \in Calls,
         c.sql \in Controls => NoControl(q, c.by) /\ at[c.by] = c.sql
  PROVE  Append(q, c) \in Seq(Calls) /\ Tidy(Append(q, c), at)
<1> HIDE DEF Calls, Controls, Stages, Fibers
<1> DEFINE more == Append(q, c)
<1>1. /\ more \in Seq(Calls)
      /\ DOMAIN more = DOMAIN q \cup {Len(q) + 1} /\ Len(q) + 1 \notin DOMAIN q
      /\ \A i \in DOMAIN q : more[i] = q[i]
      /\ more[Len(q) + 1] = c
  OBVIOUS
<1> HIDE DEF more
<1>2. Tidy(more, at)
  <2> SUFFICES ASSUME NEW i \in DOMAIN more, more[i].sql \in Controls
               PROVE  /\ at[more[i].by] = more[i].sql
                      /\ \A j \in DOMAIN more :
                           more[j].by = more[i].by /\ more[j].sql \in Controls => j = i
    BY DEF Tidy
  <2>1. CASE i \in DOMAIN q
    BY <1>1, <2>1 DEF Tidy, NoControl
  <2>2. CASE i = Len(q) + 1
    BY <1>1, <2>2 DEF NoControl
  <2> QED
    BY <1>1, <2>1, <2>2
<1> QED
  BY <1>1, <1>2 DEF more

(* A fiber without a control in the queue may send its next statement.     *)
LEMMA SendTidy ==
  ASSUME NEW q \in Seq(Calls), NEW at \in [Fibers -> Stages], Tidy(q, at),
         NEW f \in Fibers, NoControl(q, f), NEW sql \in Statements, NEW n \in 1..3
  PROVE  LET more == Append(q, [by |-> f, sql |-> sql, left |-> n])
         IN  more \in Seq(Calls) /\ Tidy(more, [at EXCEPT ![f] = sql])
<1> DEFINE new == [by |-> f, sql |-> sql, left |-> n]
<1> DEFINE to == [at EXCEPT ![f] = sql]
<1>1. new \in Calls /\ new.by = f /\ new.sql = sql
  OBVIOUS
<1>2. sql \in Stages /\ to \in [Fibers -> Stages] /\ to[f] = sql
  OBVIOUS
<1>3. Tidy(q, to)
  BY <1>2, MoveTidy
<1> HIDE DEF new, to
<1>4. Append(q, new) \in Seq(Calls) /\ Tidy(Append(q, new), to)
  BY <1>1, <1>2, <1>3, AppendTidy
<1> QED
  BY <1>4 DEF new, to

-----------------------------------------------------------------------------
(* What every step keeps.                                                  *)
Inv == TypeOK /\ PermitGuardsTransaction /\ Tidy(calls, pc)

(* A fiber that does not wait for a control has none in the queue.         *)
LEMMA Quiet ==
  ASSUME Tidy(calls, pc), NEW f \in Fibers, pc[f] \notin Controls
  PROVE  NoControl(calls, f)
BY DEF Tidy, NoControl

(* The head of the queue and what is behind it.                            *)
LEMMA QueueHead ==
  ASSUME Inv, calls # <<>>
  PROVE  /\ First \in Calls
         /\ Tail(calls) \in Seq(Calls) /\ Tidy(Tail(calls), pc)
         /\ First.sql \in Controls => NoControl(Tail(calls), First.by) /\ Awaited
         /\ Awaited => NoControl(Tail(calls), First.by)
<1> HIDE DEF Calls, Controls, Fibers
<1>1. First \in Calls /\ 1 \in DOMAIN calls /\ First.by \in Fibers
  <2>1. First \in Calls /\ 1 \in DOMAIN calls
    BY DEF Inv, TypeOK
  <2> QED
    BY <2>1 DEF Calls
<1>2. /\ Tail(calls) \in Seq(Calls) /\ Tidy(Tail(calls), pc)
      /\ First.sql \in Controls => NoControl(Tail(calls), First.by)
  BY TailTidy DEF Inv, TypeOK
<1>3. First.sql \in Controls => Awaited
  BY <1>1 DEF Inv, Tidy, Awaited
<1>4. ASSUME Awaited, First.sql \notin Controls
      PROVE  NoControl(Tail(calls), First.by)
  <2>1. NoControl(calls, First.by)
    BY <1>1, <1>4, Quiet DEF Inv, Awaited
  <2>2. \A i \in DOMAIN Tail(calls) : i + 1 \in DOMAIN calls /\ Tail(calls)[i] = calls[i + 1]
    BY DEF Inv, TypeOK
  <2> QED
    BY <2>1, <2>2 DEF NoControl
<1> QED
  BY <1>1, <1>2, <1>3, <1>4

(* Sending a statement from a tidy queue keeps it tidy.                    *)
LEMMA SendKeeps ==
  ASSUME NEW q \in Seq(Calls), Tidy(q, pc), pc \in [Fibers -> Stages],
         NEW f \in Fibers, NoControl(q, f), NEW sql \in Statements, Send(f, sql, q)
  PROVE  /\ calls' \in Seq(Calls) /\ Tidy(calls', pc')
         /\ pc' = [pc EXCEPT ![f] = sql] /\ pc' \in [Fibers -> Stages]
<1> HIDE DEF Calls, Controls, Fibers
<1>1. PICK n \in Chain(sql) : calls' = Append(q, [by |-> f, sql |-> sql, left |-> n])
  BY DEF Send
<1>2. n \in 1..3
  BY DEF Chain
<1>3. pc' = [pc EXCEPT ![f] = sql] /\ sql \in Stages
  BY DEF Send
<1> QED
  BY <1>1, <1>2, <1>3, SendTidy

(* The kinds of change a step of an awaited statement makes to its fiber.  *)
LEMMA Outcome ==
  ASSUME NEW f, NEW sql \in Statements, Proceed(f, sql)
  PROVE  \/ /\ sql \in Statements \ {"plain", "create", "commit", "rollback"}
            /\ permit' = permit
            /\ \E next \in Statements \ {"plain", "create"} : Send(f, next, Tail(calls))
         \/ /\ sql \in {"plain", "create"}
            /\ permit' = permit /\ calls' = Tail(calls)
            /\ \E stage \in {"done", "ensured"} : pc' = [pc EXCEPT ![f] = stage]
         \/ /\ sql \in {"commit", "rollback"}
            /\ permit' = Nobody /\ calls' = Tail(calls)
            /\ \E stage \in {"done", "failed"} : pc' = [pc EXCEPT ![f] = stage]
<1>1. CASE sql \in {"plain", "create", "commit", "rollback"}
  BY <1>1 DEF Proceed
<1>2. CASE sql \in {"begin", "select", "first", "undo"}
  BY <1>2 DEF Proceed
<1>3. CASE sql \in {"savepoint", "second", "abort", "insert", "migrate"}
  BY <1>3 DEF Proceed
<1> QED
  BY <1>1, <1>2, <1>3

(* What the step of a statement does to the native transaction.            *)
LEMMA Performed ==
  ASSUME NEW f, NEW sql, Perform(f, sql), open \in BOOLEAN, ~open => outer \cup inner = {}
  PROVE  /\ open' \in BOOLEAN /\ (~open' => outer' \cup inner' = {})
         /\ open' => open \/ sql = "begin"
         /\ sql \in {"commit", "rollback"} => ~open'
BY DEF Perform

(* The ids a migrator finds to run are ids of migrations.                  *)
LEMMA RequiredIds ==
  ASSUME required \in [Migrators -> SUBSET Ids], NEW f, NEW sql, Require(f, sql)
  PROVE  required' \in [Migrators -> SUBSET Ids]
<1>1. \A m \in Migrators : Known[m] \subseteq Ids
  BY KnownType DEF Ids
<1> QED
  BY <1>1 DEF Require

-----------------------------------------------------------------------------
LEMMA InitInv == ASSUME Init PROVE Inv
<1>1. TypeOK
  <2>1. calls \in Seq(Calls) /\ pc \in [Fibers -> Stages]
    BY DEF Init
  <2>2. required \in [Migrators -> SUBSET Ids]
    BY DEF Init
  <2> HIDE DEF Calls, Fibers, Stages
  <2> QED
    BY <2>1, <2>2 DEF Init, TypeOK
<1>2. PermitGuardsTransaction
  BY FiberKinds DEF Init, PermitGuardsTransaction, InTransaction
<1>3. Tidy(calls, pc)
  BY DEF Init, Tidy
<1> QED
  BY <1>1, <1>2, <1>3 DEF Inv

(* A fiber that stays where permit and transaction agree.                  *)
LEMMA StartKeeps ==
  ASSUME Inv, NEW f \in Fibers, StartPlain(f)
  PROVE  Inv'
<1>1. PICK sql \in {"plain", "create"} : Send(f, sql, calls)
  BY DEF StartPlain
<1>2. pc[f] = "idle" /\ NoControl(calls, f)
  BY Quiet DEF StartPlain, Inv
<1>3. /\ calls' \in Seq(Calls) /\ Tidy(calls', pc')
      /\ pc' = [pc EXCEPT ![f] = sql] /\ pc' \in [Fibers -> Stages]
  <2> HIDE DEF Calls, Fibers
  <2> QED
    BY <1>1, <1>2, SendKeeps DEF Inv, TypeOK
<1> HIDE DEF Calls, Fibers
<1>4. TypeOK'
  BY <1>3 DEF StartPlain, Inv, TypeOK
<1>5. PermitGuardsTransaction'
  BY <1>2, <1>3 DEF StartPlain, Inv, TypeOK, PermitGuardsTransaction, InTransaction
<1> QED
  BY <1>3, <1>4, <1>5 DEF Inv

LEMMA TakeKeeps ==
  ASSUME Inv, NEW f \in Fibers, TakePermit(f)
  PROVE  Inv'
<1>1. pc[f] \in {"idle", "ensured"} /\ NoControl(calls, f) /\ Send(f, "begin", calls)
  BY Quiet DEF TakePermit, Inv
<1> HIDE DEF Calls, Fibers
<1>2. /\ calls' \in Seq(Calls) /\ Tidy(calls', pc')
      /\ pc' = [pc EXCEPT ![f] = "begin"] /\ pc' \in [Fibers -> Stages]
  BY <1>1, SendKeeps DEF Inv, TypeOK
<1>3. TypeOK'
  BY <1>2 DEF TakePermit, Inv, TypeOK
<1>4. \A g \in Fibers : g # Nobody
  BY FiberKinds DEF Fibers
<1>5. PermitGuardsTransaction'
  BY <1>2, <1>4 DEF TakePermit, Inv, TypeOK, PermitGuardsTransaction, InTransaction
<1> QED
  BY <1>2, <1>3, <1>5 DEF Inv

LEMMA PrepareKeeps ==
  ASSUME Inv, Prepare
  PROVE  Inv'
<1> DEFINE next == [First EXCEPT !.left = @ - 1]
<1>1. next \in Calls /\ next.sql = First.sql /\ next.by = First.by
  BY QueueHead DEF Prepare
<1>2. calls' \in Seq(Calls) /\ Tidy(calls', pc)
  <2> HIDE DEF next, First, Calls, Controls, Fibers
  <2>1. calls # <<>> /\ pc \in [Fibers -> Stages]
    BY DEF Prepare, Inv, TypeOK
  <2>2. calls' = Tail(calls) \/ calls' = Append(Tail(calls), next)
    BY DEF Prepare, next
  <2>3. next.sql \in Controls => NoControl(Tail(calls), next.by) /\ pc[next.by] = next.sql
    BY <1>1, <2>1, QueueHead DEF Awaited
  <2>4. Append(Tail(calls), next) \in Seq(Calls) /\ Tidy(Append(Tail(calls), next), pc)
    BY <1>1, <2>1, <2>3, QueueHead, AppendTidy
  <2> QED
    BY <2>1, <2>2, <2>4, QueueHead
<1> HIDE DEF Calls, Fibers, First
<1> QED
  BY <1>2 DEF Prepare, Inv, TypeOK, PermitGuardsTransaction, InTransaction

LEMMA StepKeeps ==
  ASSUME Inv, Step
  PROVE  Inv'
<1> DEFINE f == First.by
<1> DEFINE sql == First.sql
<1>1. calls # <<>> /\ Awaited /\ Perform(f, sql) /\ Require(f, sql) /\ Proceed(f, sql)
  BY DEF Step
<1>2. /\ f \in Fibers /\ sql \in Statements /\ pc[f] = sql
      /\ Tail(calls) \in Seq(Calls) /\ Tidy(Tail(calls), pc) /\ NoControl(Tail(calls), f)
  BY <1>1, QueueHead DEF Awaited
<1> HIDE DEF f, sql, First, Calls, Fibers
<1>3. /\ open' \in BOOLEAN /\ (~open' => outer' \cup inner' = {})
      /\ open' => open \/ sql = "begin"
      /\ sql \in {"commit", "rollback"} => ~open'
  BY <1>1, Performed DEF Inv, TypeOK
<1>4. required' \in [Migrators -> SUBSET Ids]
  BY <1>1, RequiredIds DEF Inv, TypeOK
<1>5. \A g \in Fibers : g # Nobody
  BY FiberKinds DEF Fibers
<1>6. pc \in [Fibers -> Stages] /\ permit \in Fibers \cup {Nobody}
  BY DEF Inv, TypeOK
<1>7. CASE /\ sql \in Statements \ {"plain", "create", "commit", "rollback"}
           /\ permit' = permit
           /\ \E next \in Statements \ {"plain", "create"} : Send(f, next, Tail(calls))
  <2>1. PICK next \in Statements \ {"plain", "create"} : Send(f, next, Tail(calls))
    BY <1>7
  <2>2. /\ calls' \in Seq(Calls) /\ Tidy(calls', pc')
        /\ pc' = [pc EXCEPT ![f] = next] /\ pc' \in [Fibers -> Stages]
    BY <1>2, <1>6, <2>1, SendKeeps
  <2>3. PermitGuardsTransaction'
    BY <1>2, <1>3, <1>5, <1>6, <1>7, <2>2 DEF Inv, PermitGuardsTransaction, InTransaction
  <2> QED
    BY <1>3, <1>4, <1>6, <1>7, <2>2, <2>3 DEF Inv, TypeOK
<1>8. CASE /\ sql \in {"plain", "create"}
           /\ permit' = permit /\ calls' = Tail(calls)
           /\ \E stage \in {"done", "ensured"} : pc' = [pc EXCEPT ![f] = stage]
  <2>1. PICK stage \in {"done", "ensured"} : pc' = [pc EXCEPT ![f] = stage]
    BY <1>8
  <2>2. pc' \in [Fibers -> Stages] /\ Tidy(calls', pc')
    BY <1>2, <1>6, <1>8, <2>1, MoveTidy
  <2>3. PermitGuardsTransaction'
    BY <1>2, <1>3, <1>5, <1>6, <1>8, <2>1 DEF Inv, PermitGuardsTransaction, InTransaction
  <2> QED
    BY <1>2, <1>3, <1>4, <1>6, <1>8, <2>2, <2>3 DEF Inv, TypeOK
<1>9. CASE /\ sql \in {"commit", "rollback"}
           /\ permit' = Nobody /\ calls' = Tail(calls)
           /\ \E stage \in {"done", "failed"} : pc' = [pc EXCEPT ![f] = stage]
  <2>1. PICK stage \in {"done", "failed"} : pc' = [pc EXCEPT ![f] = stage]
    BY <1>9
  <2>2. pc' \in [Fibers -> Stages] /\ Tidy(calls', pc')
    BY <1>2, <1>6, <1>9, <2>1, MoveTidy
  <2>3. PermitGuardsTransaction'
    BY <1>2, <1>3, <1>5, <1>6, <1>9, <2>1 DEF Inv, PermitGuardsTransaction, InTransaction
  <2> QED
    BY <1>2, <1>3, <1>4, <1>6, <1>9, <2>2, <2>3 DEF Inv, TypeOK
<1> QED
  BY <1>1, <1>2, <1>7, <1>8, <1>9, Outcome

LEMMA AbandonedKeeps ==
  ASSUME Inv, StepAbandoned
  PROVE  Inv'
<1>1. /\ calls # <<>> /\ ~Awaited /\ Perform(First.by, First.sql) /\ calls' = Tail(calls)
      /\ UNCHANGED <<pc, permit, required>>
  BY DEF StepAbandoned
<1> HIDE DEF First, Calls, Fibers
<1>2. First.sql \notin Controls /\ Tail(calls) \in Seq(Calls) /\ Tidy(Tail(calls), pc)
  BY <1>1, QueueHead
<1>3. open' \in BOOLEAN /\ (~open' => outer' \cup inner' = {}) /\ (open' => open)
  BY <1>1, <1>2, Performed DEF Inv, TypeOK
<1> QED
  BY <1>1, <1>2, <1>3 DEF Inv, TypeOK, PermitGuardsTransaction, InTransaction

LEMMA FailsKeeps ==
  ASSUME Inv, StepFails
  PROVE  Inv'
<1> DEFINE f == First.by
<1>1. /\ f \in Fibers /\ First.sql = pc[f]
      /\ Tail(calls) \in Seq(Calls) /\ Tidy(Tail(calls), pc) /\ NoControl(Tail(calls), f)
  BY QueueHead DEF StepFails, Awaited
<1>2. UNCHANGED <<permit, open, outer, inner, disk, required>>
  BY DEF StepFails
<1>3. pc \in [Fibers -> Stages]
  BY DEF Inv, TypeOK
<1>4. CASE /\ pc[f] \in {"plain", "create"}
           /\ pc' = [pc EXCEPT ![f] = "failed"] /\ calls' = Tail(calls)
  <2> HIDE DEF f, First, Calls, Fibers
  <2>1. pc' \in [Fibers -> Stages] /\ Tidy(calls', pc')
    BY <1>1, <1>3, <1>4, MoveTidy
  <2> QED
    BY <1>1, <1>2, <1>3, <1>4, <2>1 DEF Inv, TypeOK, PermitGuardsTransaction, InTransaction
<1>5. CASE pc[f] \in Body /\ RollBack(f, Tail(calls))
  <2> HIDE DEF f, First, Calls, Fibers
  <2>1. PICK sql \in {"undo", "rollback"} : Send(f, sql, Tail(calls))
    BY <1>5 DEF RollBack
  <2>2. /\ calls' \in Seq(Calls) /\ Tidy(calls', pc')
        /\ pc' = [pc EXCEPT ![f] = sql] /\ pc' \in [Fibers -> Stages]
    BY <1>1, <1>3, <2>1, SendKeeps
  <2> QED
    BY <1>1, <1>2, <1>3, <1>5, <2>2 DEF Inv, TypeOK, PermitGuardsTransaction, InTransaction
<1> QED
  BY <1>1, <1>4, <1>5 DEF StepFails

LEMMA OutsideKeeps ==
  ASSUME Inv, NEW f \in Fibers, InterruptOutside(f)
  PROVE  Inv'
<1>1. NoControl(calls, f)
  BY Quiet DEF InterruptOutside, Inv
<1> HIDE DEF Calls, Fibers
<1>2. pc' = [pc EXCEPT ![f] = "interrupted"] /\ pc \in [Fibers -> Stages]
  BY DEF InterruptOutside, Inv, TypeOK
<1>3. pc' \in [Fibers -> Stages] /\ Tidy(calls', pc')
  <2>1. Tidy(calls, pc') /\ calls' = calls
    <3>1. calls \in Seq(Calls) /\ Tidy(calls, pc) /\ calls' = calls
      BY DEF InterruptOutside, Inv, TypeOK
    <3>2. "interrupted" \in Stages
      OBVIOUS
    <3>3. Tidy(calls, [pc EXCEPT ![f] = "interrupted"])
      BY <1>1, <1>2, <3>1, <3>2, MoveTidy
    <3> QED
      BY <1>2, <3>1, <3>3
  <2> QED
    BY <1>2, <2>1
<1> QED
  BY <1>2, <1>3 DEF InterruptOutside, Inv, TypeOK, PermitGuardsTransaction, InTransaction

LEMMA BodyKeeps ==
  ASSUME Inv, NEW f \in Fibers, InterruptBody(f)
  PROVE  Inv'
<1>1. pc[f] \in Body /\ NoControl(calls, f)
  BY Quiet DEF InterruptBody, Inv
<1>2. PICK sql \in {"abort", "rollback"} : Send(f, sql, calls)
  BY DEF InterruptBody
<1> HIDE DEF Calls, Fibers
<1>3. /\ calls' \in Seq(Calls) /\ Tidy(calls', pc')
      /\ pc' = [pc EXCEPT ![f] = sql] /\ pc' \in [Fibers -> Stages]
  BY <1>1, <1>2, SendKeeps DEF Inv, TypeOK
<1> QED
  BY <1>1, <1>3 DEF InterruptBody, Inv, TypeOK, PermitGuardsTransaction, InTransaction

(* Every action keeps the invariant.                                       *)
LEMMA NextInv == ASSUME Inv, [Next]_vars PROVE Inv'
<1>1. CASE UNCHANGED vars
  BY <1>1 DEF vars, Inv, TypeOK, PermitGuardsTransaction, InTransaction
<1>2. CASE Next
  BY <1>2, StartKeeps, TakeKeeps, PrepareKeeps, StepKeeps, AbandonedKeeps, FailsKeeps,
     OutsideKeeps, BodyKeeps DEF Next
<1> QED
  BY <1>1, <1>2

LEMMA Invariant == Spec => []Inv
<1>1. Init => Inv
  BY InitInv
<1>2. Inv /\ [Next]_vars => Inv'
  BY NextInv
<1> QED
  BY <1>1, <1>2, PTL DEF Spec

(* The native calls under way are well-formed, what is uncommitted exists  *)
(* only inside a transaction: SqliteClient.make, for any number of fibers. *)
THEOREM TypeCorrect == Spec => []TypeOK
<1>1. Inv => TypeOK
  BY DEF Inv
<1> QED
  BY <1>1, Invariant, PTL

(* The semaphore of SqliteClient.make and its transactionAcquirer: the     *)
(* connection is inside a transaction only for the fiber that holds the    *)
(* permit, whatever is interrupted or fails.                               *)
THEOREM PermitGuards == Spec => []PermitGuardsTransaction
<1>1. Inv => PermitGuardsTransaction
  BY DEF Inv
<1> QED
  BY <1>1, Invariant, PTL

-----------------------------------------------------------------------------
(* What an abandoned statement may still do.  It is ahead of the ROLLBACK  *)
(* of its fiber, and stays so although every call goes to the end of the   *)
(* queue: it has fewer calls left, or is nearer to the head.               *)
Earlier(q, i, j) == q[i].left < q[j].left \/ (q[i].left = q[j].left /\ i < j)

(* Of a fiber there is at most one statement of a transaction's body in a  *)
(* queue; the fiber waits for it, or abandoned it and sent what undoes it. *)
Orderly(q, at) ==
  \A i \in DOMAIN q : q[i].sql \in Body =>
    /\ at[q[i].by] \in {q[i].sql, "abort", "rollback"} /\ q[i].left \in {1, 2}
    /\ \A j \in DOMAIN q : q[j].by = q[i].by =>
         /\ q[j].sql \in Body => j = i
         /\ q[j].sql \in Controls => Earlier(q, i, j)

NoBody(q, f) == \A i \in DOMAIN q : q[i].by = f => q[i].sql \notin Body

(* A statement is sent by a fiber that has such statements.                *)
OfKind(f, sql) ==
  /\ sql \in {"first", "savepoint", "second", "undo", "abort"} => f \in Transactors
  /\ sql \in {"create", "ensured", "select", "insert", "migrate"} => f \in Migrators
  /\ sql \in Statements \ {"plain", "create"} => f \notin Plain

KindsMatch(q, at) ==
  /\ \A f \in Fibers : OfKind(f, at[f])
  /\ \A i \in DOMAIN q : OfKind(q[i].by, q[i].sql)

LEMMA TailOrderly ==
  ASSUME NEW q \in Seq(Calls), NEW at, q # <<>>, Orderly(q, at)
  PROVE  /\ Orderly(Tail(q), at)
         /\ q[1].sql \in Body \/ (q[1].sql \in Controls /\ q[1].left = 1)
              => NoBody(Tail(q), q[1].by)
<1>1. /\ Tail(q) \in Seq(Calls) /\ 1 \in DOMAIN q
      /\ \A i \in DOMAIN Tail(q) : i + 1 \in DOMAIN q /\ Tail(q)[i] = q[i + 1]
      /\ \A i \in DOMAIN Tail(q) : i \in Nat /\ i > 0
  OBVIOUS
<1> HIDE DEF Calls, Controls, Body
<1>0. \A i \in DOMAIN q : q[i].left \in 1..3
  <2>1. \A i \in DOMAIN q : q[i] \in Calls
    OBVIOUS
  <2> QED
    BY <2>1 DEF Calls
<1>2. Orderly(Tail(q), at)
  <2> SUFFICES ASSUME NEW i \in DOMAIN Tail(q), Tail(q)[i].sql \in Body
               PROVE  /\ at[Tail(q)[i].by] \in {Tail(q)[i].sql, "abort", "rollback"}
                      /\ Tail(q)[i].left \in {1, 2}
                      /\ \A j \in DOMAIN Tail(q) : Tail(q)[j].by = Tail(q)[i].by =>
                           /\ Tail(q)[j].sql \in Body => j = i
                           /\ Tail(q)[j].sql \in Controls => Earlier(Tail(q), i, j)
    BY DEF Orderly
  <2>1. i + 1 \in DOMAIN q /\ q[i + 1].sql \in Body /\ Tail(q)[i] = q[i + 1]
    BY <1>1
  <2>2. at[q[i + 1].by] \in {q[i + 1].sql, "abort", "rollback"} /\ q[i + 1].left \in {1, 2}
    BY <2>1 DEF Orderly
  <2>3. ASSUME NEW j \in DOMAIN Tail(q), Tail(q)[j].by = Tail(q)[i].by
        PROVE  /\ Tail(q)[j].sql \in Body => j = i
               /\ Tail(q)[j].sql \in Controls => Earlier(Tail(q), i, j)
    <3>1. j + 1 \in DOMAIN q /\ q[j + 1].by = q[i + 1].by /\ Tail(q)[j] = q[j + 1]
      BY <1>1, <2>3
    <3>2. /\ q[j + 1].sql \in Body => j + 1 = i + 1
          /\ q[j + 1].sql \in Controls => Earlier(q, i + 1, j + 1)
      BY <2>1, <3>1 DEF Orderly
    <3> QED
      BY <1>1, <2>1, <3>1, <3>2, <1>0 DEF Earlier
  <2> QED
    BY <2>1, <2>2, <2>3
<1>3. ASSUME q[1].sql \in Body \/ (q[1].sql \in Controls /\ q[1].left = 1)
      PROVE  NoBody(Tail(q), q[1].by)
  <2> SUFFICES ASSUME NEW i \in DOMAIN Tail(q), Tail(q)[i].by = q[1].by, Tail(q)[i].sql \in Body
               PROVE  FALSE
    BY DEF NoBody
  <2>1. i + 1 \in DOMAIN q /\ q[i + 1].by = q[1].by /\ q[i + 1].sql \in Body /\ i + 1 > 1
    BY <1>1
  <2>2. /\ q[1].sql \in Body => 1 = i + 1
        /\ q[1].sql \in Controls => Earlier(q, i + 1, 1)
    BY <1>1, <2>1 DEF Orderly
  <2> QED
    BY <1>1, <1>0, <1>3, <2>1, <2>2 DEF Earlier
<1> QED
  BY <1>2, <1>3

(* A fiber without such a statement in the queue may move on.              *)
LEMMA MoveOrderly ==
  ASSUME NEW q \in Seq(Calls), NEW at \in [Fibers -> Stages], Orderly(q, at),
         NEW f \in Fibers, NEW stage \in Stages,
         NoBody(q, f) \/ stage \in {"abort", "rollback"}
  PROVE  Orderly(q, [at EXCEPT ![f] = stage])
<1> HIDE DEF Calls, Controls, Stages, Fibers, Body
<1>1. \A i \in DOMAIN q : q[i] \in Calls
  OBVIOUS
<1>2. \A c \in Calls : c.by \in Fibers
  BY DEF Calls
<1> QED
  BY <1>1, <1>2 DEF Orderly, NoBody

(* A call may be put at the end: one of a body before the controls of its  *)
(* fiber, a control behind what is left of the body.                       *)
LEMMA AppendOrderly ==
  ASSUME NEW q \in Seq(Calls), NEW at, Orderly(q, at), NEW c \in Calls,
         c.sql \in Body =>
           /\ NoBody(q, c.by) /\ at[c.by] \in {c.sql, "abort", "rollback"}
           /\ c.left \in {1, 2},
         c.sql \in Body => \A j \in DOMAIN q :
           q[j].by = c.by /\ q[j].sql \in Controls => c.left < q[j].left,
         c.sql \in Controls => \A i \in DOMAIN q :
           q[i].by = c.by /\ q[i].sql \in Body => q[i].left <= c.left
  PROVE  Orderly(Append(q, c), at)
<1> DEFINE more == Append(q, c)
<1>1. /\ DOMAIN more = DOMAIN q \cup {Len(q) + 1} /\ Len(q) + 1 \notin DOMAIN q
      /\ \A i \in DOMAIN q : more[i] = q[i] /\ i \in Nat /\ i < Len(q) + 1
      /\ more[Len(q) + 1] = c
  OBVIOUS
<1> HIDE DEF more, Calls, Controls, Body
<1> SUFFICES ASSUME NEW i \in DOMAIN more, more[i].sql \in Body
             PROVE  /\ at[more[i].by] \in {more[i].sql, "abort", "rollback"}
                    /\ more[i].left \in {1, 2}
                    /\ \A j \in DOMAIN more : more[j].by = more[i].by =>
                         /\ more[j].sql \in Body => j = i
                         /\ more[j].sql \in Controls => Earlier(more, i, j)
  BY DEF Orderly, more
<1>2. CASE i \in DOMAIN q
  <2>1. /\ at[q[i].by] \in {q[i].sql, "abort", "rollback"} /\ q[i].left \in {1, 2}
        /\ \A j \in DOMAIN q : q[j].by = q[i].by =>
             /\ q[j].sql \in Body => j = i
             /\ q[j].sql \in Controls => Earlier(q, i, j)
    BY <1>1, <1>2 DEF Orderly
  <2>2. ASSUME c.by = q[i].by PROVE c.sql \notin Body
    BY <1>1, <1>2, <2>2 DEF NoBody
  <2>3. c.by = q[i].by /\ c.sql \in Controls => Earlier(more, i, Len(q) + 1)
    <3>1. c.by = q[i].by /\ c.sql \in Controls => q[i].left <= c.left
      BY <1>1, <1>2
    <3>2. c.left \in 1..3
      BY DEF Calls
    <3> QED
      BY <1>1, <1>2, <2>1, <3>1, <3>2 DEF Earlier
  <2>4. \A j \in DOMAIN q : Earlier(q, i, j) => Earlier(more, i, j)
    BY <1>1, <1>2 DEF Earlier
  <2> QED
    BY <1>1, <1>2, <2>1, <2>2, <2>3, <2>4
<1>3. CASE i = Len(q) + 1
  <2>1. Body \cap Controls = {}
    BY DEF Body, Controls
  <2>2. \A j \in DOMAIN q : more[j].by = more[i].by =>
          more[j].sql \notin Body /\ (more[j].sql \in Controls => Earlier(more, i, j))
    BY <1>1, <1>3 DEF NoBody, Earlier
  <2> QED
    BY <1>1, <1>3, <2>1, <2>2
<1> QED
  BY <1>1, <1>2, <1>3

(* A fiber sends a statement from a queue that has none of its controls,   *)
(* and of its body only what the statement undoes.                         *)
LEMMA SendOrderly ==
  ASSUME NEW q \in Seq(Calls), Orderly(q, pc), KindsMatch(q, pc), pc \in [Fibers -> Stages],
         NEW f \in Fibers, NoControl(q, f), NEW sql \in Statements, Send(f, sql, q),
         NoBody(q, f) \/ sql \in {"abort", "rollback"}, OfKind(f, sql)
  PROVE  Orderly(calls', pc') /\ KindsMatch(calls', pc')
<1>1. PICK n \in Chain(sql) : calls' = Append(q, [by |-> f, sql |-> sql, left |-> n])
  BY DEF Send
<1> DEFINE c == [by |-> f, sql |-> sql, left |-> n]
<1>2. /\ c \in Calls /\ c.by = f /\ c.sql = sql /\ c.left = n
      /\ sql \in Controls \cup Body => n = 2
      /\ sql \in {"abort", "rollback"} => sql \notin Body
  BY DEF Chain
<1>3. pc' = [pc EXCEPT ![f] = sql] /\ sql \in Stages /\ pc'[f] = sql
  BY DEF Send
<1> HIDE DEF c, Calls, Controls, Body, Statements, Stages, Fibers
<1>4. Orderly(q, pc')
  BY <1>3, MoveOrderly
<1>5. \A i \in DOMAIN q : q[i] \in Calls
  OBVIOUS
<1>6. Orderly(Append(q, c), pc')
  <2>1. c.sql \in Body => /\ NoBody(q, c.by) /\ pc'[c.by] \in {c.sql, "abort", "rollback"}
                          /\ c.left \in {1, 2}
    BY <1>2, <1>3
  <2>2. \A j \in DOMAIN q : ~(q[j].by = c.by /\ q[j].sql \in Controls)
    BY <1>2 DEF NoControl
  <2>3. ASSUME c.sql \in Controls, NEW i \in DOMAIN q, q[i].by = c.by, q[i].sql \in Body
        PROVE  q[i].left <= c.left
    BY <1>2, <1>4, <2>3 DEF Orderly
  <2> QED
    BY <1>2, <1>4, <2>1, <2>2, <2>3, AppendOrderly
<1>7. KindsMatch(Append(q, c), pc')
  <2> DEFINE more == Append(q, c)
  <2>1. /\ DOMAIN more = DOMAIN q \cup {Len(q) + 1}
        /\ \A i \in DOMAIN q : more[i] = q[i]
        /\ more[Len(q) + 1] = c
    BY <1>2
  <2> HIDE DEF more
  <2>2. \A i \in DOMAIN more : OfKind(more[i].by, more[i].sql)
    BY <1>2, <2>1 DEF KindsMatch
  <2>3. \A g \in Fibers : OfKind(g, pc'[g])
    BY <1>3 DEF KindsMatch
  <2> QED
    BY <2>2, <2>3 DEF KindsMatch, more
<1> QED
  BY <1>1, <1>6, <1>7 DEF c

(* The queue of the connection, in order.                                  *)
Ordered == Orderly(calls, pc) /\ KindsMatch(calls, pc)

(* The head of the queue, and what its fiber has behind it.                *)
LEMMA OrderedHead ==
  ASSUME Inv, Ordered, calls # <<>>
  PROVE  /\ Orderly(Tail(calls), pc) /\ KindsMatch(Tail(calls), pc)
         /\ OfKind(First.by, First.sql)
         /\ First.left = 1 /\ Awaited => NoBody(Tail(calls), First.by)
<1> HIDE DEF Calls, Fibers
<1>1. calls \in Seq(Calls) /\ 1 \in DOMAIN calls
  BY DEF Inv, TypeOK
<1>2. /\ Orderly(Tail(calls), pc)
      /\ First.sql \in Body \/ (First.sql \in Controls /\ First.left = 1)
           => NoBody(Tail(calls), First.by)
  BY <1>1, TailOrderly DEF Ordered
<1>3. \A i \in DOMAIN Tail(calls) : i + 1 \in DOMAIN calls /\ Tail(calls)[i] = calls[i + 1]
  BY <1>1
<1>4. KindsMatch(Tail(calls), pc) /\ OfKind(First.by, First.sql)
  BY <1>1, <1>3 DEF Ordered, KindsMatch
<1>5. ASSUME Awaited, First.sql \notin Body \cup Controls
      PROVE  NoBody(Tail(calls), First.by)
  <2>1. \A i \in DOMAIN calls : calls[i].by = First.by => calls[i].sql \notin Body
    BY <1>5 DEF Ordered, Orderly, Awaited
  <2> QED
    BY <1>3, <2>1 DEF NoBody
<1> QED
  BY <1>2, <1>4, <1>5

(* A fiber that waits for no body, and undoes none, has none in the queue. *)
LEMMA NoneLeft ==
  ASSUME Ordered, NEW f \in Fibers, pc[f] \notin Body \cup {"abort", "rollback"}
  PROVE  NoBody(calls, f)
BY DEF Ordered, Orderly, NoBody

(* Where a statement that succeeded leads, the fiber has such statements.  *)
LEMMA KindProceeds ==
  ASSUME NEW f \in Fibers, NEW sql \in Statements, Proceed(f, sql), OfKind(f, sql)
  PROVE  \/ \E next \in Statements : Send(f, next, Tail(calls)) /\ OfKind(f, next)
         \/ \E stage \in Stages : /\ calls' = Tail(calls) /\ pc' = [pc EXCEPT ![f] = stage]
                                  /\ stage \notin Statements /\ OfKind(f, stage)
<1>1. CASE sql \in {"plain", "create"}
  BY <1>1 DEF Proceed, OfKind
<1>2. CASE sql \in {"commit", "rollback"}
  BY <1>2 DEF Proceed, OfKind
<1>3. CASE sql \in {"begin", "select"}
  BY <1>3 DEF Proceed, OfKind
<1>4. CASE sql \in {"first", "undo"}
  BY <1>4 DEF Proceed, OfKind
<1>5. CASE sql \in {"savepoint", "second", "abort"}
  BY <1>5, FiberKinds DEF Proceed, OfKind
<1>6. CASE sql \in {"insert", "migrate"}
  BY <1>6, FiberKinds DEF Proceed, OfKind
<1> QED
  BY <1>1, <1>2, <1>3, <1>4, <1>5, <1>6

(* A fiber that waits for nothing of a transaction moves on.               *)
LEMMA MoveOrdered ==
  ASSUME NEW q \in Seq(Calls), Orderly(q, pc), KindsMatch(q, pc), pc \in [Fibers -> Stages],
         NEW f \in Fibers, NoBody(q, f), NEW stage \in Stages, OfKind(f, stage),
         pc' = [pc EXCEPT ![f] = stage], calls' = q
  PROVE  Ordered'
<1> HIDE DEF Calls, Fibers, Stages
<1>1. Orderly(q, pc')
  BY MoveOrderly
<1>2. KindsMatch(q, pc')
  BY DEF KindsMatch
<1> QED
  BY <1>1, <1>2 DEF Ordered

LEMMA PrepareOrdered ==
  ASSUME Inv, Ordered, Prepare
  PROVE  Ordered'
<1> DEFINE next == [First EXCEPT !.left = @ - 1]
<1>1. calls # <<>> /\ First.left > 1 /\ pc' = pc
  BY DEF Prepare
<1>2. calls' = Tail(calls) \/ calls' = Append(Tail(calls), next)
  BY DEF Prepare
<1>3. /\ next \in Calls /\ next.sql = First.sql /\ next.by = First.by
      /\ next.left = First.left - 1 /\ First.left \in 2..3
  BY <1>1, QueueHead
<1> HIDE DEF next, Calls, Controls, Body, Fibers
<1>4. calls \in Seq(Calls) /\ 1 \in DOMAIN calls /\ Tail(calls) \in Seq(Calls)
  BY <1>1 DEF Inv, TypeOK
<1>5. \A i \in DOMAIN Tail(calls) : /\ i + 1 \in DOMAIN calls /\ i + 1 > 1
                                    /\ Tail(calls)[i] = calls[i + 1]
  BY <1>4
<1>6. \A i \in DOMAIN calls : calls[i].left \in 1..3
  <2>1. \A i \in DOMAIN calls : calls[i] \in Calls
    BY <1>4
  <2> QED
    BY <2>1 DEF Calls
<1>7. Orderly(Tail(calls), pc) /\ KindsMatch(Tail(calls), pc) /\ OfKind(First.by, First.sql)
  BY <1>1, OrderedHead
<1>8. next.sql \in Body =>
        /\ NoBody(Tail(calls), next.by) /\ pc[next.by] \in {next.sql, "abort", "rollback"}
        /\ next.left \in {1, 2}
  <2>1. First.sql \in Body => NoBody(Tail(calls), First.by)
    BY <1>1, <1>4, TailOrderly DEF Ordered
  <2>2. First.sql \in Body =>
          pc[First.by] \in {First.sql, "abort", "rollback"} /\ First.left \in {1, 2}
    BY <1>4 DEF Ordered, Orderly
  <2> QED
    BY <1>3, <2>1, <2>2
<1>9. ASSUME next.sql \in Body, NEW j \in DOMAIN Tail(calls),
             Tail(calls)[j].by = next.by, Tail(calls)[j].sql \in Controls
      PROVE  next.left < Tail(calls)[j].left
  <2>1. Earlier(calls, 1, j + 1)
    BY <1>3, <1>4, <1>5, <1>9 DEF Ordered, Orderly
  <2> QED
    BY <1>3, <1>5, <1>6, <2>1 DEF Earlier
<1>10. ASSUME next.sql \in Controls, NEW i \in DOMAIN Tail(calls),
              Tail(calls)[i].by = next.by, Tail(calls)[i].sql \in Body
       PROVE  Tail(calls)[i].left <= next.left
  <2>1. Earlier(calls, i + 1, 1)
    BY <1>3, <1>4, <1>5, <1>10 DEF Ordered, Orderly
  <2> QED
    BY <1>3, <1>5, <1>6, <2>1 DEF Earlier
<1>11. Orderly(Append(Tail(calls), next), pc)
  BY <1>3, <1>4, <1>7, <1>8, <1>9, <1>10, AppendOrderly
<1>12. KindsMatch(Append(Tail(calls), next), pc)
  <2> DEFINE more == Append(Tail(calls), next)
  <2>1. /\ DOMAIN more = DOMAIN Tail(calls) \cup {Len(Tail(calls)) + 1}
        /\ \A i \in DOMAIN Tail(calls) : more[i] = Tail(calls)[i]
        /\ more[Len(Tail(calls)) + 1] = next
    BY <1>3, <1>4
  <2> HIDE DEF more
  <2>2. \A i \in DOMAIN more : OfKind(more[i].by, more[i].sql)
    BY <1>3, <1>7, <2>1 DEF KindsMatch
  <2> QED
    BY <1>7, <2>2 DEF KindsMatch, more
<1> QED
  BY <1>1, <1>2, <1>7, <1>11, <1>12 DEF Ordered

LEMMA StepOrdered ==
  ASSUME Inv, Ordered, Step
  PROVE  Ordered'
<1> DEFINE f == First.by
<1> DEFINE sql == First.sql
<1>1. calls # <<>> /\ First.left = 1 /\ Awaited /\ Proceed(f, sql)
  BY DEF Step
<1>2. /\ f \in Fibers /\ sql \in Statements
      /\ Tail(calls) \in Seq(Calls) /\ NoControl(Tail(calls), f)
  BY <1>1, QueueHead
<1>3. /\ Orderly(Tail(calls), pc) /\ KindsMatch(Tail(calls), pc) /\ OfKind(f, sql)
      /\ NoBody(Tail(calls), f)
  BY <1>1, OrderedHead
<1>4. pc \in [Fibers -> Stages]
  BY DEF Inv, TypeOK
<1> HIDE DEF f, sql, First, Calls, Fibers, Stages, Statements
<1>5. CASE \E next \in Statements : Send(f, next, Tail(calls)) /\ OfKind(f, next)
  BY <1>2, <1>3, <1>4, <1>5, SendOrderly DEF Ordered
<1>6. CASE \E stage \in Stages : /\ calls' = Tail(calls) /\ pc' = [pc EXCEPT ![f] = stage]
                                 /\ stage \notin Statements /\ OfKind(f, stage)
  BY <1>2, <1>3, <1>4, <1>6, MoveOrdered
<1> QED
  BY <1>1, <1>2, <1>3, <1>5, <1>6, KindProceeds

LEMMA FailsOrdered ==
  ASSUME Inv, Ordered, StepFails
  PROVE  Ordered'
<1> DEFINE f == First.by
<1>1. calls # <<>> /\ First.left = 1 /\ Awaited /\ First.sql = pc[f]
  BY DEF StepFails, Awaited
<1>2. /\ f \in Fibers /\ Tail(calls) \in Seq(Calls) /\ NoControl(Tail(calls), f)
  BY <1>1, QueueHead
<1>3. /\ Orderly(Tail(calls), pc) /\ KindsMatch(Tail(calls), pc) /\ OfKind(f, pc[f])
      /\ NoBody(Tail(calls), f)
  BY <1>1, OrderedHead
<1>4. pc \in [Fibers -> Stages]
  BY DEF Inv, TypeOK
<1>5. CASE pc' = [pc EXCEPT ![f] = "failed"] /\ calls' = Tail(calls)
  <2>1. "failed" \in Stages /\ OfKind(f, "failed")
    BY DEF OfKind
  <2> HIDE DEF f, Calls, Fibers, Stages
  <2> QED
    BY <1>2, <1>3, <1>4, <1>5, <2>1, MoveOrdered
<1>6. CASE First.sql \in Body /\ RollBack(f, Tail(calls))
  <2>1. PICK sql \in {"undo", "rollback"} : Send(f, sql, Tail(calls)) /\ OfKind(f, sql)
    BY <1>1, <1>2, <1>3, <1>6, FiberKinds DEF RollBack, OfKind
  <2>2. sql \in Statements
    OBVIOUS
  <2> HIDE DEF f, Calls, Fibers, Stages, Statements
  <2> QED
    BY <1>2, <1>3, <1>4, <2>1, <2>2, SendOrderly DEF Ordered
<1> QED
  BY <1>5, <1>6 DEF StepFails

(* Every action leaves the queue in order.                                 *)
LEMMA NextOrdered == ASSUME Inv, Ordered, [Next]_vars PROVE Ordered'
<1>0. pc \in [Fibers -> Stages] /\ calls \in Seq(Calls)
  BY DEF Inv, TypeOK
<1>1. ASSUME NEW f \in Fibers, StartPlain(f) PROVE Ordered'
  <2>1. PICK sql \in {"plain", "create"} : Send(f, sql, calls) /\ OfKind(f, sql)
    BY <1>1 DEF StartPlain, OfKind
  <2>2. NoControl(calls, f) /\ NoBody(calls, f) /\ sql \in Statements
    BY <1>1, Quiet, NoneLeft DEF StartPlain, Inv
  <2> HIDE DEF Calls, Fibers, Stages, Statements
  <2> QED
    BY <1>0, <2>1, <2>2, SendOrderly DEF Ordered
<1>2. ASSUME NEW f \in Fibers, TakePermit(f) PROVE Ordered'
  <2>1. Send(f, "begin", calls) /\ pc[f] \in {"idle", "ensured"}
    BY <1>2 DEF TakePermit
  <2>2. NoControl(calls, f) /\ NoBody(calls, f) /\ "begin" \in Statements
    BY <2>1, Quiet, NoneLeft DEF Inv
  <2>3. OfKind(f, "begin")
    <3>1. f \in Transactors \/ f \in Migrators
      BY <1>2 DEF TakePermit, Ordered, KindsMatch, OfKind
    <3> QED
      BY <3>1, FiberKinds DEF OfKind
  <2> HIDE DEF Calls, Fibers, Stages, Statements
  <2> QED
    BY <1>0, <2>1, <2>2, <2>3, SendOrderly DEF Ordered
<1>3. ASSUME NEW f \in Fibers, InterruptOutside(f) PROVE Ordered'
  <2>1. pc' = [pc EXCEPT ![f] = "interrupted"] /\ calls' = calls
    BY <1>3 DEF InterruptOutside
  <2>2. NoBody(calls, f) /\ "interrupted" \in Stages /\ OfKind(f, "interrupted")
    BY <1>3, NoneLeft DEF InterruptOutside, OfKind
  <2> HIDE DEF Calls, Fibers, Stages
  <2> QED
    BY <1>0, <2>1, <2>2, MoveOrdered DEF Ordered
<1>4. ASSUME NEW f \in Fibers, InterruptBody(f) PROVE Ordered'
  <2>1. /\ pc[f] \in Body /\ NoControl(calls, f)
    BY <1>4, Quiet DEF InterruptBody, Inv
  <2>2. PICK sql \in {"abort", "rollback"} : Send(f, sql, calls) /\ OfKind(f, sql)
    BY <1>4, FiberKinds DEF InterruptBody, Ordered, KindsMatch, OfKind
  <2>3. sql \in Statements
    OBVIOUS
  <2> HIDE DEF Calls, Fibers, Stages, Statements
  <2> QED
    BY <1>0, <2>1, <2>2, <2>3, SendOrderly DEF Ordered
<1>5. ASSUME StepAbandoned PROVE Ordered'
  <2>1. calls # <<>> /\ calls' = Tail(calls) /\ pc' = pc
    BY <1>5 DEF StepAbandoned
  <2> QED
    BY <2>1, OrderedHead DEF Ordered
<1>6. CASE UNCHANGED vars
  BY <1>6 DEF vars, Ordered
<1> QED
  BY <1>1, <1>2, <1>3, <1>4, <1>5, <1>6, PrepareOrdered, StepOrdered, FailsOrdered DEF Next

-----------------------------------------------------------------------------
(* What is written, at which stage of the fiber that writes it.            *)
Begun == \A f \in Fibers : InTransaction(f) /\ pc[f] # "begin" => open

Uncommitted == outer \cup inner

(* A transaction's rows are uncommitted only while it is under way, and    *)
(* its first one is there, before the savepoint, when it commits.          *)
Kept ==
  \A f \in Transactors :
    /\ ~InTransaction(f) \/ pc[f] = "begin" =>
         <<f, "first">> \notin Uncommitted /\ <<f, "second">> \notin Uncommitted
    /\ pc[f] \in {"savepoint", "commit"} => <<f, "first">> \in Uncommitted
    /\ pc[f] \in {"second", "undo"} => <<f, "first">> \in outer

Clean == Recorded(Uncommitted) = {} /\ Ran(Uncommitted) = {}

(* A migrator commits what it recorded and ran, which is later than what   *)
(* is on disk; nothing of migrations is uncommitted but for it.            *)
Migrating ==
  /\ Clean \/ \E m \in Migrators : pc[m] \in {"migrate", "commit", "rollback"}
  /\ \A m \in Migrators :
       /\ pc[m] = "migrate" => Recorded(Uncommitted) = required[m] /\ Ran(Uncommitted) = {}
       /\ pc[m] = "commit" =>
            Recorded(Uncommitted) = Ran(Uncommitted) /\ Ran(Uncommitted) \subseteq required[m]
       /\ pc[m] \in {"insert", "migrate", "commit"} =>
            \A i \in required[m], j \in Ran(disk) : j < i

Contents == Begun /\ RolledBackLeavesNothing /\ RecordedIffRan /\ Kept /\ Migrating

(* What a statement adds to what is recorded and run.                      *)
Rows(f, sql) == IF sql = "insert" THEN required[f] ELSE {}
Runs(f, sql) == IF sql = "migrate" THEN required[f] ELSE {}

LEMMA Marks ==
  ASSUME Inv, NEW f \in Fibers, NEW sql \in Body \cup {"plain", "create"}, OfKind(f, sql), NEW on
  PROVE  /\ \A g \in Transactors, x \in {"first", "second"} :
              <<g, x>> \in Writes(f, sql) <=> g = f /\ x = sql
         /\ Recorded(on \cup Writes(f, sql)) = Recorded(on) \cup Rows(f, sql)
         /\ Ran(on \cup Writes(f, sql)) = Ran(on) \cup Runs(f, sql)
<1>1. \A g \in Fibers : g # "table" /\ g # "row" /\ g # "ran"
  BY MarksFresh
<1>2. CASE sql \in {"plain", "first", "second"}
  <2>1. Writes(f, sql) = {<<f, sql>>} /\ Rows(f, sql) = {} /\ Runs(f, sql) = {}
    BY <1>2 DEF Writes, Rows, Runs
  <2> QED
    BY <1>1, <1>2, <2>1 DEF Recorded, Ran
<1>3. CASE sql = "create"
  <2>1. Writes(f, sql) = {<<"table", 0>>} /\ Rows(f, sql) = {} /\ Runs(f, sql) = {}
    BY <1>3 DEF Writes, Rows, Runs
  <2> QED
    BY <1>1, <1>3, <2>1 DEF Recorded, Ran
<1>4. CASE sql = "select"
  <2>1. Writes(f, sql) = {} /\ Rows(f, sql) = {} /\ Runs(f, sql) = {}
    BY <1>4 DEF Writes, Rows, Runs
  <2> QED
    BY <1>4, <2>1 DEF Recorded, Ran
<1>5. sql \in {"insert", "migrate"} => required[f] \subseteq Ids
  BY DEF OfKind, Inv, TypeOK
<1>6. CASE sql = "insert"
  <2>1. /\ Writes(f, sql) = {<<"row", i>> : i \in required[f]}
        /\ Rows(f, sql) = required[f] /\ Runs(f, sql) = {}
    BY <1>6 DEF Writes, Rows, Runs
  <2> QED
    BY <1>1, <1>5, <1>6, <2>1 DEF Recorded, Ran
<1>7. CASE sql = "migrate"
  <2>1. /\ Writes(f, sql) = {<<"ran", i>> : i \in required[f]}
        /\ Rows(f, sql) = {} /\ Runs(f, sql) = required[f]
    BY <1>7 DEF Writes, Rows, Runs
  <2> QED
    BY <1>1, <1>5, <1>7, <2>1 DEF Recorded, Ran
<1> QED
  BY <1>2, <1>3, <1>4, <1>6, <1>7

(* While a fiber is in its transaction no other is.                        *)
LEMMA Alone ==
  ASSUME Inv, NEW f \in Fibers, InTransaction(f), NEW g \in Fibers, InTransaction(g)
  PROVE  g = f
BY DEF Inv, PermitGuardsTransaction

LEMMA InitContents == ASSUME Init PROVE Ordered /\ Contents
<1>1. Ordered
  BY DEF Init, Ordered, Orderly, KindsMatch, OfKind
<1>2. Contents
  BY DEF Init, Contents, Begun, RolledBackLeavesNothing, RecordedIffRan, Kept, Migrating, Clean,
         Uncommitted, Recorded, Ran, InTransaction
<1> QED
  BY <1>1, <1>2

(* A fiber that only sends: it goes to its transaction or away from a      *)
(* plain statement, or undoes what it has begun.                           *)
LEMMA SendContents ==
  ASSUME Inv, Ordered, Contents, NEW f \in Fibers, NEW stage \in Stages,
         pc' = [pc EXCEPT ![f] = stage], UNCHANGED <<open, outer, inner, disk, required>>,
         \/ /\ ~InTransaction(f) /\ pc[f] # "done"
            /\ stage \in {"plain", "create", "begin", "failed", "interrupted"}
         \/ pc[f] \in Body /\ stage = "rollback"
         \/ pc[f] = "second" /\ stage \in {"undo", "abort"}
  PROVE  Contents'
<1>1. /\ pc \in [Fibers -> Stages] /\ \A g \in Fibers : g # f => pc'[g] = pc[g]
      /\ Transactors \subseteq Fibers /\ Migrators \subseteq Fibers
  BY DEF Inv, TypeOK
<1>2. pc'[f] = stage
  BY <1>1
<1> HIDE DEF Fibers, Stages
<1>3. Begun'
  BY <1>1, <1>2 DEF Contents, Begun, InTransaction
<1>4. RolledBackLeavesNothing'
  BY <1>1, <1>2 DEF Contents, RolledBackLeavesNothing, InTransaction
<1>5. RecordedIffRan'
  BY DEF Contents, RecordedIffRan, Recorded, Ran
<1>6. Kept'
  BY <1>1, <1>2 DEF Contents, Kept, InTransaction, Uncommitted
<1>7. /\ Recorded(Uncommitted)' = Recorded(Uncommitted) /\ Ran(Uncommitted)' = Ran(Uncommitted)
      /\ Ran(disk)' = Ran(disk)
  BY DEF Recorded, Ran, Uncommitted
<1>8. Migrating'
  BY <1>1, <1>2, <1>7 DEF Contents, Migrating, Clean, InTransaction
<1> QED
  BY <1>3, <1>4, <1>5, <1>6, <1>8 DEF Contents

(* What a write leaves alone, and what it adds to the uncommitted.         *)
LEMMA WriteAdds ==
  ASSUME Inv, NEW f \in Fibers, NEW sql \in Body \cup {"plain", "create"}, OfKind(f, sql),
         Perform(f, sql), sql \in Body => open
  PROVE  /\ open' = open /\ outer' = outer
         /\ \A g \in Transactors, x \in {"first", "second"} :
              /\ <<g, x>> \in Uncommitted' <=> <<g, x>> \in Uncommitted \/ (g = f /\ x = sql)
              /\ <<g, x>> \in disk' <=> <<g, x>> \in disk
         /\ Recorded(disk') = Recorded(disk) /\ Ran(disk') = Ran(disk)
         /\ Recorded(Uncommitted') = Recorded(Uncommitted) \cup Rows(f, sql)
         /\ Ran(Uncommitted') = Ran(Uncommitted) \cup Runs(f, sql)
<1>1. /\ open' = open /\ outer' = outer
      /\ open => inner' = inner \cup Writes(f, sql) /\ disk' = disk
      /\ ~open => disk' = disk \cup Writes(f, sql) /\ inner' = inner
  BY DEF Perform
<1>2. CASE open
  <2>1. Uncommitted' = Uncommitted \cup Writes(f, sql) /\ disk' = disk
    BY <1>1, <1>2 DEF Uncommitted
  <2> HIDE DEF Uncommitted, Body, Fibers
  <2>2. /\ \A g \in Transactors, x \in {"first", "second"} :
             <<g, x>> \in Writes(f, sql) <=> g = f /\ x = sql
        /\ Recorded(Uncommitted \cup Writes(f, sql)) = Recorded(Uncommitted) \cup Rows(f, sql)
        /\ Ran(Uncommitted \cup Writes(f, sql)) = Ran(Uncommitted) \cup Runs(f, sql)
    <3> DEFINE on == Uncommitted
    <3> HIDE DEF on
    <3>1. /\ \A g \in Transactors, x \in {"first", "second"} :
               <<g, x>> \in Writes(f, sql) <=> g = f /\ x = sql
          /\ Recorded(on \cup Writes(f, sql)) = Recorded(on) \cup Rows(f, sql)
          /\ Ran(on \cup Writes(f, sql)) = Ran(on) \cup Runs(f, sql)
      BY Marks
    <3> QED
      BY <3>1 DEF on
  <2>3. Recorded(disk') = Recorded(disk) /\ Ran(disk') = Ran(disk)
    BY <2>1
  <2>4. /\ Recorded(Uncommitted') = Recorded(Uncommitted) \cup Rows(f, sql)
        /\ Ran(Uncommitted') = Ran(Uncommitted) \cup Runs(f, sql)
    BY <2>1, <2>2
  <2>5. \A g \in Transactors, x \in {"first", "second"} :
          /\ <<g, x>> \in Uncommitted' <=> <<g, x>> \in Uncommitted \/ (g = f /\ x = sql)
          /\ <<g, x>> \in disk' <=> <<g, x>> \in disk
    BY <2>1, <2>2
  <2> QED
    BY <1>1, <2>3, <2>4, <2>5
<1>3. CASE ~open
  <2>1. Uncommitted' = Uncommitted /\ disk' = disk \cup Writes(f, sql)
    BY <1>1, <1>3 DEF Uncommitted
  <2>2. sql \notin Body /\ Rows(f, sql) = {} /\ Runs(f, sql) = {}
    BY <1>3 DEF Rows, Runs
  <2>3. sql \notin {"first", "second"}
    BY <2>2
  <2> HIDE DEF Uncommitted, Body, Fibers
  <2>4. /\ \A g \in Transactors, x \in {"first", "second"} : <<g, x>> \notin Writes(f, sql)
        /\ Recorded(disk') = Recorded(disk) \cup {} /\ Ran(disk') = Ran(disk) \cup {}
    <3>1. /\ \A g \in Transactors, x \in {"first", "second"} :
               <<g, x>> \in Writes(f, sql) <=> g = f /\ x = sql
          /\ Recorded(disk \cup Writes(f, sql)) = Recorded(disk) \cup Rows(f, sql)
          /\ Ran(disk \cup Writes(f, sql)) = Ran(disk) \cup Runs(f, sql)
      BY Marks
    <3> QED
      BY <2>1, <2>2, <2>3, <3>1
  <2>5. \A g \in Transactors, x \in {"first", "second"} :
          /\ <<g, x>> \in disk' <=> <<g, x>> \in disk
          /\ x # sql
    BY <2>1, <2>3, <2>4
  <2> QED
    BY <1>1, <2>1, <2>2, <2>4, <2>5
<1> QED
  BY <1>2, <1>3

(* What an abandoned statement writes is rolled back with the rest.        *)
LEMMA AbandonedContents ==
  ASSUME Inv, Ordered, Contents, StepAbandoned
  PROVE  Contents' /\ Ran(disk') = Ran(disk)
<1> DEFINE f == First.by
<1> DEFINE sql == First.sql
<1>1. calls # <<>> /\ ~Awaited /\ Perform(f, sql) /\ pc' = pc /\ required' = required
  BY DEF StepAbandoned
<1>2. f \in Fibers /\ sql \in Body \cup {"plain", "create"} /\ OfKind(f, sql)
  BY <1>1, QueueHead, OrderedHead
<1>3. sql \in Body => pc[f] \in {"abort", "rollback"}
  <2>1. 1 \in DOMAIN calls
    BY <1>1 DEF Inv, TypeOK
  <2> QED
    BY <1>1, <2>1 DEF Ordered, Orderly, Awaited
<1>4. sql \in Body => open /\ InTransaction(f)
  BY <1>2, <1>3 DEF Contents, Begun, InTransaction
<1> HIDE DEF f, sql
<1>5. /\ open' = open /\ outer' = outer
      /\ \A g \in Transactors, x \in {"first", "second"} :
           /\ <<g, x>> \in Uncommitted' <=> <<g, x>> \in Uncommitted \/ (g = f /\ x = sql)
           /\ <<g, x>> \in disk' <=> <<g, x>> \in disk
      /\ Recorded(disk') = Recorded(disk) /\ Ran(disk') = Ran(disk)
      /\ Recorded(Uncommitted') = Recorded(Uncommitted) \cup Rows(f, sql)
      /\ Ran(Uncommitted') = Ran(Uncommitted) \cup Runs(f, sql)
  BY <1>1, <1>2, <1>4, WriteAdds
<1>6. Begun' /\ RolledBackLeavesNothing' /\ RecordedIffRan'
  BY <1>1, <1>5 DEF Contents, Begun, InTransaction, RolledBackLeavesNothing, RecordedIffRan
<1>7. Kept'
  <2>1. \A g \in Transactors : InTransaction(g)' <=> InTransaction(g)
    BY <1>1 DEF InTransaction
  <2> QED
    BY <1>1, <1>3, <1>4, <1>5, <2>1 DEF Contents, Kept, InTransaction
<1>8. Migrating'
  <2>1. CASE sql \in {"insert", "migrate"}
    <3>1. f \in Migrators /\ pc[f] = "rollback"
      BY <1>2, <1>3, <2>1, FiberKinds DEF OfKind, Ordered, KindsMatch
    <3>2. \A m \in Migrators : pc[m] \notin {"insert", "migrate", "commit"}
      BY <1>2, <1>4, <2>1, <3>1, Alone DEF InTransaction
    <3> QED
      BY <1>1, <3>1, <3>2 DEF Migrating
  <2>2. CASE sql \notin {"insert", "migrate"}
    <3>1. Rows(f, sql) = {} /\ Runs(f, sql) = {}
      BY <2>2 DEF Rows, Runs
    <3>2. /\ Recorded(Uncommitted') = Recorded(Uncommitted)
          /\ Ran(Uncommitted') = Ran(Uncommitted) /\ Ran(disk') = Ran(disk)
      BY <1>5, <3>1
    <3>3. /\ Recorded(Uncommitted)' = Recorded(Uncommitted)
          /\ Ran(Uncommitted)' = Ran(Uncommitted) /\ Ran(disk)' = Ran(disk)
      BY <3>2 DEF Recorded, Ran
    <3> QED
      BY <1>1, <3>3 DEF Contents, Migrating, Clean
  <2> QED
    BY <2>1, <2>2
<1> QED
  BY <1>5, <1>6, <1>7, <1>8 DEF Contents

(* Where a fiber is after a statement that succeeded.                      *)
LEMMA Goes ==
  ASSUME Inv, NEW f \in Fibers, NEW sql \in Statements, Proceed(f, sql)
  PROVE  /\ \A g \in Fibers \ {f} : pc'[g] = pc[g]
         /\ sql = "plain" => pc'[f] = "done"
         /\ sql = "create" => pc'[f] = "ensured"
         /\ sql = "begin" => pc'[f] \in {"select", "first"}
         /\ sql = "first" => pc'[f] \in {"savepoint", "commit"}
         /\ sql = "savepoint" => pc'[f] = "second"
         /\ sql \in {"second", "migrate"} => pc'[f] = "commit"
         /\ sql = "undo" => pc'[f] \in {"commit", "rollback"}
         /\ sql = "abort" => pc'[f] = "rollback"
         /\ sql = "select" => pc'[f] = IF required'[f] = {} THEN "commit" ELSE "insert"
         /\ sql = "insert" => pc'[f] = "migrate"
         /\ sql = "commit" => pc'[f] = "done"
         /\ sql = "rollback" => pc'[f] = "failed"
<1>0. pc \in [Fibers -> Stages]
  BY DEF Inv, TypeOK
<1> HIDE DEF Fibers
<1>1. CASE sql \in {"plain", "create", "commit", "rollback"}
  BY <1>0, <1>1 DEF Proceed
<1>2. CASE sql \in {"begin", "first", "undo", "select"}
  BY <1>0, <1>2 DEF Proceed, Send
<1>3. CASE sql \in {"savepoint", "second", "abort", "insert", "migrate"}
  BY <1>0, <1>3 DEF Proceed, Send
<1> QED
  BY <1>1, <1>2, <1>3

(* A step of an awaited statement, for what all of them have in common.    *)
Steps(f, sql) ==
  /\ Inv /\ Ordered /\ Contents /\ f \in Fibers /\ sql \in Statements
  /\ pc[f] = sql /\ OfKind(f, sql)
  /\ Perform(f, sql) /\ Require(f, sql) /\ Proceed(f, sql)

LEMMA Others ==
  ASSUME NEW f, NEW sql, Steps(f, sql), sql \notin {"plain", "create"}
  PROVE  \A g \in Fibers \ {f} : ~InTransaction(g) /\ ~InTransaction(g)' /\ pc'[g] = pc[g]
<1>1. InTransaction(f) /\ \A g \in Fibers \ {f} : pc'[g] = pc[g]
  BY Goes DEF Steps, InTransaction
<1>2. \A g \in Fibers \ {f} : ~InTransaction(g)
  BY <1>1, Alone DEF Steps
<1> QED
  BY <1>1, <1>2 DEF InTransaction

(* A plain statement, or the one that creates the table.                   *)
LEMMA PlainContents ==
  ASSUME NEW f, NEW sql \in {"plain", "create"}, Steps(f, sql)
  PROVE  Contents'
<1>1. /\ open' = open /\ outer' = outer
      /\ \A g \in Transactors, x \in {"first", "second"} :
           /\ <<g, x>> \in Uncommitted' <=> <<g, x>> \in Uncommitted \/ (g = f /\ x = sql)
           /\ <<g, x>> \in disk' <=> <<g, x>> \in disk
      /\ Recorded(disk') = Recorded(disk) /\ Ran(disk') = Ran(disk)
      /\ Recorded(Uncommitted') = Recorded(Uncommitted) \cup Rows(f, sql)
      /\ Ran(Uncommitted') = Ran(Uncommitted) \cup Runs(f, sql)
  BY WriteAdds DEF Steps
<1>2. /\ \A g \in Fibers \ {f} : pc'[g] = pc[g]
      /\ pc[f] = sql /\ pc'[f] \in {"done", "ensured"} /\ required' = required
  BY Goes DEF Steps, Require
<1>3. Transactors \subseteq Fibers /\ Migrators \subseteq Fibers
  OBVIOUS
<1> HIDE DEF Fibers
<1>4. Begun' /\ RolledBackLeavesNothing' /\ RecordedIffRan'
  BY <1>1, <1>2, <1>3 DEF Steps, Contents, Begun, InTransaction, RolledBackLeavesNothing, RecordedIffRan
<1>5. Kept'
  BY <1>1, <1>2, <1>3 DEF Steps, Contents, Kept, InTransaction
<1>6. Migrating'
  <2>1. /\ Recorded(Uncommitted') = Recorded(Uncommitted)
        /\ Ran(Uncommitted') = Ran(Uncommitted) /\ Ran(disk') = Ran(disk)
    BY <1>1 DEF Rows, Runs
  <2>2. /\ Recorded(Uncommitted)' = Recorded(Uncommitted)
        /\ Ran(Uncommitted)' = Ran(Uncommitted) /\ Ran(disk)' = Ran(disk)
    BY <2>1 DEF Recorded, Ran
  <2> QED
    BY <1>2, <1>3, <2>2 DEF Steps, Contents, Migrating, Clean
<1> QED
  BY <1>4, <1>5, <1>6 DEF Contents

(* A statement of a transaction's body.                                    *)
LEMMA BodyContents ==
  ASSUME NEW f, NEW sql \in Body, Steps(f, sql)
  PROVE  Contents'
<1>0. open /\ InTransaction(f)
  BY DEF Steps, Contents, Begun, InTransaction
<1>1. /\ open' = open /\ outer' = outer
      /\ \A g \in Transactors, x \in {"first", "second"} :
           /\ <<g, x>> \in Uncommitted' <=> <<g, x>> \in Uncommitted \/ (g = f /\ x = sql)
           /\ <<g, x>> \in disk' <=> <<g, x>> \in disk
      /\ Recorded(disk') = Recorded(disk) /\ Ran(disk') = Ran(disk)
      /\ Recorded(Uncommitted') = Recorded(Uncommitted) \cup Rows(f, sql)
      /\ Ran(Uncommitted') = Ran(Uncommitted) \cup Runs(f, sql)
  BY <1>0, WriteAdds DEF Steps
<1>2. \A g \in Fibers \ {f} : ~InTransaction(g) /\ ~InTransaction(g)' /\ pc'[g] = pc[g]
  BY Others
<1>3. /\ sql = "first" => pc'[f] \in {"savepoint", "commit"}
      /\ sql \in {"second", "migrate"} => pc'[f] = "commit"
      /\ sql = "select" => pc'[f] = IF required'[f] = {} THEN "commit" ELSE "insert"
      /\ sql = "insert" => pc'[f] = "migrate"
      /\ pc[f] = sql /\ pc'[f] \in Statements \ {"plain", "create"}
  BY Goes DEF Steps
<1>4. /\ sql \in {"first", "second"} => f \in Transactors
      /\ sql \in {"select", "insert", "migrate"} => f \in Migrators
      /\ Transactors \cap Migrators = {}
  BY FiberKinds DEF Steps, OfKind
<1>5. Transactors \subseteq Fibers /\ Migrators \subseteq Fibers
  OBVIOUS
<1> HIDE DEF Fibers
<1>6. Begun' /\ RolledBackLeavesNothing' /\ RecordedIffRan'
  <2>1. Begun'
    BY <1>0, <1>1 DEF Begun
  <2>2. RolledBackLeavesNothing'
    BY <1>1, <1>2, <1>3, <1>5 DEF Steps, Contents, RolledBackLeavesNothing
  <2>3. RecordedIffRan'
    BY <1>1 DEF Steps, Contents, RecordedIffRan
  <2> QED
    BY <2>1, <2>2, <2>3
<1>7. Kept'
  <2> SUFFICES ASSUME NEW g \in Transactors
               PROVE  /\ ~InTransaction(g)' \/ pc'[g] = "begin" =>
                           <<g, "first">> \notin Uncommitted' /\ <<g, "second">> \notin Uncommitted'
                      /\ pc'[g] \in {"savepoint", "commit"} => <<g, "first">> \in Uncommitted'
                      /\ pc'[g] \in {"second", "undo"} => <<g, "first">> \in outer'
    BY DEF Kept
  <2>1. CASE g # f
    BY <1>1, <1>2, <1>5, <2>1 DEF Steps, Contents, Kept, InTransaction
  <2>2. CASE g = f
    <3>1. InTransaction(f)'
      BY <1>3 DEF InTransaction
    <3>2. sql \in {"first", "second"}
      BY <1>4, <2>2
    <3>3. sql = "second" => <<f, "first">> \in Uncommitted
      BY <1>3, <2>2 DEF Steps, Contents, Kept, Uncommitted
    <3> QED
      BY <1>1, <1>3, <2>2, <3>1, <3>2, <3>3
  <2> QED
    BY <2>1, <2>2
<1>8. Migrating'
  <2>0. /\ \A m \in Migrators \ {f} : pc'[m] \notin {"insert", "migrate", "commit", "rollback"}
        /\ sql \in Body /\ \A m \in Migrators \ {f} : pc[m] \notin {"migrate", "commit", "rollback"}
    BY <1>2, <1>5 DEF InTransaction
  <2>1. CASE sql \in {"first", "second"}
    <3>1. Rows(f, sql) = {} /\ Runs(f, sql) = {} /\ f \notin Migrators
      BY <1>4, <2>1 DEF Rows, Runs
    <3>2. Clean
      BY <2>0, <3>1 DEF Steps, Contents, Migrating
    <3> QED
      BY <1>1, <2>0, <3>1, <3>2 DEF Clean, Migrating
  <2>2. CASE sql = "select"
    <3>1. Rows(f, sql) = {} /\ Runs(f, sql) = {}
      BY <2>2 DEF Rows, Runs
    <3>2. Clean
      BY <1>3, <2>0, <2>2 DEF Steps, Contents, Migrating
    <3>3. /\ Recorded(Uncommitted') = {} /\ Ran(Uncommitted') = {}
          /\ Ran(disk') = Recorded(disk)
      BY <1>1, <3>1, <3>2 DEF Clean, Steps, Contents, RecordedIffRan
    <3>4. \A i \in required'[f], j \in Recorded(disk) : j < i
      <4>1. required'[f] = {i \in Known[f] : \A j \in Recorded(Visible) : j < i}
        BY <1>4, <2>2 DEF Steps, Require, Inv, TypeOK
      <4>2. Recorded(disk) \subseteq Recorded(Visible)
        BY DEF Recorded, Visible
      <4> QED
        BY <4>1, <4>2
    <3>5. pc'[f] \in {"commit", "insert"}
      BY <1>3, <2>2
    <3> QED
      BY <2>0, <3>3, <3>4, <3>5 DEF Clean, Migrating
  <2>3. CASE sql \in {"insert", "migrate"}
    <3>1. required' = required /\ pc'[f] \in {"migrate", "commit"}
      BY <1>3, <2>3 DEF Steps, Require
    <3>2. \A i \in required[f], j \in Ran(disk) : j < i
      BY <1>3, <1>4, <2>3 DEF Steps, Contents, Migrating
    <3>3. CASE sql = "insert"
      <4>1. Clean
        BY <1>3, <2>0, <3>3 DEF Steps, Contents, Migrating
      <4>2. Rows(f, sql) = required[f] /\ Runs(f, sql) = {}
        BY <3>3 DEF Rows, Runs
      <4>3. Recorded(Uncommitted') = required'[f] /\ Ran(Uncommitted') = {}
        BY <1>1, <3>1, <4>1, <4>2 DEF Clean
      <4> QED
        BY <1>1, <1>3, <1>4, <2>0, <3>1, <3>2, <3>3, <4>3 DEF Migrating
    <3>4. CASE sql = "migrate"
      <4>1. Recorded(Uncommitted) = required[f] /\ Ran(Uncommitted) = {}
        BY <1>3, <1>4, <3>4 DEF Steps, Contents, Migrating
      <4>2. Rows(f, sql) = {} /\ Runs(f, sql) = required[f]
        BY <3>4 DEF Rows, Runs
      <4>3. Recorded(Uncommitted') = required'[f] /\ Ran(Uncommitted') = required'[f]
        BY <1>1, <3>1, <4>1, <4>2
      <4> QED
        BY <1>1, <1>3, <1>4, <2>0, <3>1, <3>2, <3>4, <4>3 DEF Migrating
    <3> QED
      BY <2>3, <3>3, <3>4
  <2> QED
    BY <2>1, <2>2, <2>3
<1> QED
  BY <1>6, <1>7, <1>8 DEF Contents

(* BEGIN to ROLLBACK, but for COMMIT: nothing reaches the disk.            *)
LEMMA ControlContents ==
  ASSUME NEW f, NEW sql \in Controls \ {"commit"}, Steps(f, sql)
  PROVE  Contents'
<1>1. \A g \in Fibers \ {f} : ~InTransaction(g) /\ ~InTransaction(g)' /\ pc'[g] = pc[g]
  BY Others
<1>2. /\ sql = "begin" => pc'[f] \in {"select", "first"}
      /\ sql = "savepoint" => pc'[f] = "second"
      /\ sql = "undo" => pc'[f] \in {"commit", "rollback"}
      /\ sql = "abort" => pc'[f] = "rollback"
      /\ sql = "rollback" => pc'[f] = "failed"
      /\ pc[f] = sql
  BY Goes DEF Steps
<1>3. /\ sql \in {"savepoint", "undo", "abort"} => f \in Transactors
      /\ f \in Fibers /\ (f \in Transactors => f \notin Migrators)
      /\ Transactors \subseteq Fibers /\ Migrators \subseteq Fibers
  BY FiberKinds DEF Steps, OfKind
<1>4. /\ disk' = disk /\ required' = required
      /\ sql \in {"begin", "savepoint"} => Uncommitted' = Uncommitted
      /\ sql = "begin" => open' = TRUE
      /\ sql \in {"savepoint", "undo", "abort"} => open' = open
      /\ sql = "savepoint" => outer' = Uncommitted
      /\ sql \in {"undo", "abort"} => outer' = outer /\ Uncommitted' = outer
      /\ sql = "rollback" => Uncommitted' = {}
  BY DEF Steps, Perform, Require, Uncommitted
<1>5. Uncommitted' \subseteq Uncommitted
  BY <1>4 DEF Uncommitted
<1> HIDE DEF Fibers
<1>6. Begun'
  BY <1>1, <1>2, <1>3, <1>4 DEF Steps, Contents, Begun, InTransaction
<1>7. RolledBackLeavesNothing'
  BY <1>1, <1>2, <1>3, <1>4 DEF Steps, Contents, RolledBackLeavesNothing
<1>8. RecordedIffRan'
  BY <1>4 DEF Steps, Contents, RecordedIffRan, Recorded, Ran
<1>9. Kept'
  <2> SUFFICES ASSUME NEW g \in Transactors
               PROVE  /\ ~InTransaction(g)' \/ pc'[g] = "begin" =>
                           <<g, "first">> \notin Uncommitted' /\ <<g, "second">> \notin Uncommitted'
                      /\ pc'[g] \in {"savepoint", "commit"} => <<g, "first">> \in Uncommitted'
                      /\ pc'[g] \in {"second", "undo"} => <<g, "first">> \in outer'
    BY DEF Kept
  <2>1. CASE g # f
    BY <1>1, <1>3, <1>5, <2>1 DEF Steps, Contents, Kept, InTransaction
  <2>2. CASE g = f
    <3>1. CASE sql \in {"begin", "abort", "rollback"}
      BY <1>2, <1>4, <2>2, <3>1 DEF InTransaction
    <3>2. CASE sql = "savepoint"
      BY <1>2, <1>4, <2>2, <3>2 DEF Steps, Contents, Kept, InTransaction
    <3>3. CASE sql = "undo"
      BY <1>2, <1>4, <2>2, <3>3 DEF Steps, Contents, Kept, InTransaction
    <3> QED
      BY <3>1, <3>2, <3>3
  <2> QED
    BY <2>1, <2>2
<1>10. Migrating'
  <2>1. /\ \A m \in Migrators \ {f} : pc'[m] \notin {"insert", "migrate", "commit", "rollback"}
        /\ \A m \in Migrators \ {f} : pc[m] \notin {"insert", "migrate", "commit", "rollback"}
    BY <1>1, <1>3 DEF InTransaction
  <2>2. CASE sql = "rollback"
    BY <1>2, <1>4, <2>1, <2>2 DEF Migrating, Clean, Recorded, Ran
  <2>3. CASE sql # "rollback"
    <3>1. f \in Migrators => pc[f] = "begin" /\ pc'[f] \in {"select", "first"}
      BY <1>2, <1>3, <2>3
    <3>2. Clean
      BY <2>1, <3>1 DEF Steps, Contents, Migrating
    <3>3. Clean'
      BY <1>5, <3>2 DEF Clean, Recorded, Ran
    <3> QED
      BY <2>1, <3>1, <3>3 DEF Migrating
  <2> QED
    BY <2>2, <2>3
<1> QED
  BY <1>6, <1>7, <1>8, <1>9, <1>10 DEF Contents

(* COMMIT: the disk gets what the transaction wrote, all of it.            *)
LEMMA CommitContents ==
  ASSUME NEW f, Steps(f, "commit")
  PROVE  Contents' /\ \A i \in Ran(disk') \ Ran(disk), j \in Ran(disk) : j < i
<1>1. \A g \in Fibers \ {f} : ~InTransaction(g) /\ ~InTransaction(g)' /\ pc'[g] = pc[g]
  BY Others
<1>2. pc[f] = "commit" /\ pc'[f] = "done"
  BY Goes DEF Steps
<1>3. /\ f \in Fibers /\ f \in Transactors \cup Migrators
      /\ (f \in Transactors => f \notin Migrators)
      /\ Transactors \subseteq Fibers /\ Migrators \subseteq Fibers
  BY FiberKinds DEF Steps, OfKind
<1>4. /\ disk' = disk \cup Uncommitted /\ open' = FALSE /\ Uncommitted' = {}
  BY DEF Steps, Perform, Uncommitted, Visible
<1> HIDE DEF Fibers
<1>5. Begun'
  BY <1>1, <1>2 DEF Begun, InTransaction
<1>6. RolledBackLeavesNothing'
  <2> SUFFICES ASSUME NEW g \in Transactors, <<g, "first">> \in disk' \/ <<g, "second">> \in disk'
               PROVE  pc'[g] = "done" /\ <<g, "first">> \in disk'
    BY DEF RolledBackLeavesNothing
  <2>1. CASE g # f
    BY <1>1, <1>3, <1>4, <2>1 DEF Steps, Contents, RolledBackLeavesNothing, Kept
  <2>2. CASE g = f
    BY <1>2, <1>4, <2>2 DEF Steps, Contents, Kept
  <2> QED
    BY <2>1, <2>2
<1>7. Recorded(Uncommitted) = Ran(Uncommitted)
      /\ \A i \in Ran(Uncommitted), j \in Ran(disk) : j < i
  <2>1. CASE f \in Migrators
    BY <1>2, <2>1 DEF Steps, Contents, Migrating
  <2>2. CASE f \notin Migrators
    <3>1. \A m \in Migrators : pc[m] \notin {"migrate", "commit", "rollback"}
      BY <1>1, <1>3, <2>2 DEF InTransaction
    <3> QED
      BY <3>1 DEF Steps, Contents, Migrating, Clean
  <2> QED
    BY <2>1, <2>2
<1>8. /\ Recorded(disk') = Recorded(disk) \cup Recorded(Uncommitted)
      /\ Ran(disk') = Ran(disk) \cup Ran(Uncommitted)
  BY <1>4 DEF Recorded, Ran
<1>9. RecordedIffRan'
  BY <1>7, <1>8 DEF Steps, Contents, RecordedIffRan
<1>10. Kept'
  BY <1>1, <1>2, <1>3, <1>4 DEF Kept, InTransaction
<1>11. Migrating'
  <2>1. \A m \in Migrators : pc'[m] \notin {"insert", "migrate", "commit"}
    BY <1>1, <1>2, <1>3 DEF InTransaction
  <2> QED
    BY <1>4, <2>1 DEF Migrating, Clean, Recorded, Ran
<1> QED
  BY <1>5, <1>6, <1>7, <1>8, <1>9, <1>10, <1>11 DEF Contents

(* Every action keeps what is written consistent, and only a COMMIT adds   *)
(* migrations to the disk.                                                 *)
LEMMA NextContents ==
  ASSUME Inv, Ordered, Contents, [Next]_vars
  PROVE  Contents' /\ \A i \in Ran(disk') \ Ran(disk), j \in Ran(disk) : j < i
<1>0. pc \in [Fibers -> Stages] /\ calls \in Seq(Calls)
  BY DEF Inv, TypeOK
<1>1. ASSUME NEW f \in Fibers,
             StartPlain(f) \/ TakePermit(f) \/ InterruptOutside(f) \/ InterruptBody(f)
      PROVE  Contents' /\ disk' = disk
  <2>1. UNCHANGED <<open, outer, inner, disk, required>>
    BY <1>1 DEF StartPlain, TakePermit, InterruptOutside, InterruptBody
  <2>2. PICK stage \in Stages :
          /\ pc' = [pc EXCEPT ![f] = stage]
          /\ \/ /\ ~InTransaction(f) /\ pc[f] # "done"
                /\ stage \in {"plain", "create", "begin", "failed", "interrupted"}
             \/ pc[f] \in Body /\ stage = "rollback"
             \/ pc[f] = "second" /\ stage \in {"undo", "abort"}
    BY <1>1 DEF StartPlain, TakePermit, InterruptOutside, InterruptBody, Send, InTransaction
  <2> QED
    BY <2>1, <2>2, SendContents
<1>2. ASSUME StepFails PROVE Contents' /\ disk' = disk
  <2>1. /\ UNCHANGED <<open, outer, inner, disk, required>>
        /\ First.sql = pc[First.by] /\ calls # <<>>
    BY <1>2 DEF StepFails, Awaited
  <2>2. First.by \in Fibers
    BY <2>1, QueueHead
  <2>3. PICK stage \in Stages :
          /\ pc' = [pc EXCEPT ![First.by] = stage]
          /\ \/ /\ ~InTransaction(First.by) /\ pc[First.by] # "done"
                /\ stage \in {"plain", "create", "begin", "failed", "interrupted"}
             \/ pc[First.by] \in Body /\ stage = "rollback"
             \/ pc[First.by] = "second" /\ stage \in {"undo", "abort"}
    BY <1>2, <2>1 DEF StepFails, RollBack, Send, InTransaction
  <2> HIDE DEF First
  <2> QED
    BY <2>1, <2>2, <2>3, SendContents
<1>3. ASSUME Step PROVE Contents' /\ \A i \in Ran(disk') \ Ran(disk), j \in Ran(disk) : j < i
  <2> DEFINE f == First.by
  <2> DEFINE sql == First.sql
  <2>1. Steps(f, sql)
    BY <1>3, QueueHead, OrderedHead DEF Step, Steps, Awaited
  <2>2. sql \in Statements
    BY <2>1 DEF Steps
  <2> HIDE DEF f, sql
  <2>3. CASE sql = "commit"
    BY <2>1, <2>3, CommitContents
  <2>4. CASE sql \in {"plain", "create"}
    <3>1. Ran(disk') = Ran(disk)
      BY <2>1, <2>4, WriteAdds DEF Steps
    <3> QED
      BY <2>1, <2>4, <3>1, PlainContents
  <2>5. CASE sql \in Body
    <3>1. open
      BY <2>1, <2>5 DEF Steps, Contents, Begun, InTransaction
    <3>2. Ran(disk') = Ran(disk)
      BY <2>1, <2>5, <3>1, WriteAdds DEF Steps
    <3> QED
      BY <2>1, <2>5, <3>2, BodyContents
  <2>6. CASE sql \in Controls \ {"commit"}
    <3>1. disk' = disk
      BY <2>1, <2>6 DEF Steps, Perform
    <3> QED
      BY <2>1, <2>6, <3>1, ControlContents
  <2> QED
    BY <2>2, <2>3, <2>4, <2>5, <2>6
<1>4. ASSUME StepAbandoned
      PROVE  Contents' /\ \A i \in Ran(disk') \ Ran(disk), j \in Ran(disk) : j < i
  BY <1>4, AbandonedContents
<1>5. ASSUME Prepare \/ UNCHANGED vars PROVE Contents' /\ disk' = disk
  <2>1. UNCHANGED <<pc, open, outer, inner, disk, required>>
    BY <1>5 DEF Prepare, vars
  <2> QED
    BY <2>1 DEF Contents, Begun, InTransaction, RolledBackLeavesNothing, RecordedIffRan, Kept,
         Migrating, Clean, Uncommitted, Recorded, Ran
<1> QED
  BY <1>1, <1>2, <1>3, <1>4, <1>5 DEF Next

LEMMA ContentsInvariant == Spec => [](Inv /\ Ordered /\ Contents)
<1>1. Init => Inv /\ Ordered /\ Contents
  BY InitInv, InitContents
<1>2. Inv /\ Ordered /\ Contents /\ [Next]_vars => (Inv /\ Ordered /\ Contents)'
  BY NextInv, NextOrdered, NextContents
<1> QED
  BY <1>1, <1>2, PTL DEF Spec

(* README.md:67 of packages/sqlite, for any number of fibers: what a       *)
(* transaction wrote is on disk only if it committed, although statements  *)
(* its fiber has abandoned go on (SqliteClient.ts:148).                    *)
THEOREM NothingLeft == Spec => []RolledBackLeavesNothing
<1>1. Contents => RolledBackLeavesNothing
  BY DEF Contents
<1> QED
  BY <1>1, ContentsInvariant, PTL

(* SqliteMigrator.ts:230: rows are inserted before the migrations run, and *)
(* yet exactly those on record have run, whatever fails, for any migrators *)
(* of any versions.                                                        *)
THEOREM RecordsAreTrue == Spec => []RecordedIffRan
<1>1. Contents => RecordedIffRan
  BY DEF Contents
<1> QED
  BY <1>1, ContentsInvariant, PTL

(* SqliteMigrator.ts:216-219: the latest id is read inside the transaction *)
(* that runs what is later, so that no migrator runs one behind another's. *)
THEOREM OnlyForwards == Spec => NeverBackwards
<1>1. Inv /\ Ordered /\ Contents /\ [Next]_vars
        => [\A i \in Ran(disk') \ Ran(disk), j \in Ran(disk) : j < i]_vars
  BY NextContents
<1> QED
  BY <1>1, ContentsInvariant, PTL DEF Spec, NeverBackwards
=============================================================================
