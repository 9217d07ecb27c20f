------------------------- MODULE NativeStreamsProofs -------------------------
(***************************************************************************)
(* What holds of the native streams for any fields, watches and buffer:    *)
(* their types, that only a snapshot takes a value back, and that a closed *)
(* stream listens no more.                                                 *)
(***************************************************************************)
EXTENDS NativeStreams, Integers, TLAPS

USE SourcesDiffer, BufferPositive, ChangesType
USE DEF listeners, snapshot, Sources, Unknown, Unread

(* A queue takes a value at its end, and may drop one at its front.        *)
LEMMA Offered ==
  ASSUME NEW S, NEW q \in Seq(S), NEW v \in S
  PROVE  /\ Offer(q, v) \in Seq(S)
         /\ \/ Offer(q, v) = Append(q, v)
            \/ q # <<>> /\ Offer(q, v) = Append(Tail(q), v)
  BY DEF Offer

(* A queue gives its first value and keeps the others.                     *)
LEMMA Taken ==
  ASSUME NEW S, NEW q \in Seq(S), q # <<>>
  PROVE  Head(q) \in S /\ Tail(q) \in Seq(S)
<1>1. Head(q) = q[1] /\ 1 \in DOMAIN q
  OBVIOUS
<1> QED
  BY <1>1

(* Listeners, queues, snapshot and what is shown are of their types.       *)
THEOREM TypeCorrect == Spec => []TypeOK
<1>1. Init => TypeOK
  BY DEF Init, TypeOK
<1>2. TypeOK /\ [Next]_vars => TypeOK'
  <2> SUFFICES ASSUME TypeOK, [Next]_vars PROVE TypeOK'
    OBVIOUS
  <2>0. sources \subseteq Sources
    BY DEF TypeOK
  <2>1. ASSUME NEW s \in sources, Change(s) PROVE TypeOK'
    <3>1. native[s] + 1 \in 1..(MaxChanges + 1) /\ queue[s] \in Seq(1..(MaxChanges + 1))
      BY <2>0, <2>1 DEF Change, TypeOK
    <3>2. Offer(queue[s], native[s] + 1) \in Seq(1..(MaxChanges + 1))
      BY <3>1, Offered
    <3>3. native' \in [Sources -> 1..(MaxChanges + 1)]
      BY <2>0, <2>1, <3>1 DEF Change, TypeOK
    <3>4. queue' \in [Sources -> Seq(1..(MaxChanges + 1))]
      <4>1. queue' = queue \/ queue' = [queue EXCEPT ![s] = Offer(queue[s], native[s] + 1)]
        BY <2>1 DEF Change
      <4> QED
        BY <2>0, <3>2, <4>1 DEF TypeOK
    <3>5. fresh' \subseteq sources
      BY <2>1 DEF Change, TypeOK
    <3> QED
      BY <2>1, <3>3, <3>4, <3>5 DEF Change, TypeOK
  <2>2. ASSUME NEW s \in sources, Subscribe(s) \/ Register(s) \/ Registered(s)
        PROVE  TypeOK'
    BY <2>0, <2>2 DEF Subscribe, Register, Registered, TypeOK
  <2>3. ASSUME NEW s \in sources, SubscribeFails(s) \/ WatchFails(s) \/ Fail(s) \/ Release(s)
        PROVE  TypeOK'
    BY <2>0, <2>3 DEF SubscribeFails, WatchFails, Fail, Release, TypeOK
  <2>4. ASSUME NEW s \in sources, Deliver(s) PROVE TypeOK'
    <3>1. queue[s] \in Seq(1..(MaxChanges + 1)) /\ queue[s] # <<>>
      BY <2>0, <2>4 DEF Deliver, TypeOK
    <3>2. Head(queue[s]) \in 0..(MaxChanges + 1) /\ Tail(queue[s]) \in Seq(1..(MaxChanges + 1))
      <4>1. Head(queue[s]) \in 1..(MaxChanges + 1) /\ Tail(queue[s]) \in Seq(1..(MaxChanges + 1))
        BY <3>1, Taken
      <4> QED
        BY <4>1
    <3> QED
      BY <2>0, <2>4, <3>2 DEF Deliver, TypeOK
  <2>5. ASSUME NEW s \in sources, Capture(s) PROVE TypeOK'
    BY <2>0, <2>5 DEF Capture, TypeOK
  <2>6. CASE AskSnapshot \/ ApplySnapshot \/ SnapshotFails \/ Interrupt \/ Close
    BY <2>6 DEF AskSnapshot, ApplySnapshot, SnapshotFails, Interrupt, Close, TypeOK
  <2>7. CASE UNCHANGED vars
    BY <2>7 DEF vars, TypeOK
  <2> QED
    BY <2>1, <2>2, <2>3, <2>4, <2>5, <2>6, <2>7 DEF Next, Idle
<1> QED
  BY <1>1, <1>2, PTL DEF Spec

-----------------------------------------------------------------------------
(* The tail of a queue in order, and what is appended to one, is in order. *)
Ordered(q) == \A i, j \in DOMAIN q : i < j => q[i] < q[j]
Within(q, low, high) == \A i \in DOMAIN q : low < q[i] /\ q[i] <= high

LEMMA TailOrdered ==
  ASSUME NEW q \in Seq(Nat), q # <<>>, Ordered(q), NEW low \in Int, NEW high \in Nat, Within(q, low, high)
  PROVE  /\ Tail(q) \in Seq(Nat) /\ Ordered(Tail(q)) /\ Within(Tail(q), low, high)
         /\ Within(Tail(q), Head(q), high)
<1>1. /\ Tail(q) \in Seq(Nat) /\ Head(q) = q[1] /\ 1 \in DOMAIN q
      /\ \A i \in DOMAIN Tail(q) : i \in Nat /\ i + 1 \in DOMAIN q /\ i + 1 > 1 /\ Tail(q)[i] = q[i + 1]
  OBVIOUS
<1>2. Ordered(Tail(q))
  BY <1>1 DEF Ordered
<1> QED
  BY <1>1, <1>2 DEF Ordered, Within

LEMMA AppendOrdered ==
  ASSUME NEW q \in Seq(Nat), Ordered(q), NEW low \in Int, NEW n \in Nat, Within(q, low, n), low < n + 1
  PROVE  Append(q, n + 1) \in Seq(Nat) /\ Ordered(Append(q, n + 1)) /\ Within(Append(q, n + 1), low, n + 1)
<1>1. /\ Append(q, n + 1) \in Seq(Nat)
      /\ \A i \in DOMAIN Append(q, n + 1) :
           \/ i \in DOMAIN q /\ Append(q, n + 1)[i] = q[i]
           \/ i = Len(q) + 1 /\ Append(q, n + 1)[i] = n + 1
      /\ DOMAIN q = 1..Len(q) /\ Len(q) \in Nat /\ \A i \in DOMAIN q : q[i] \in Nat
  OBVIOUS
<1> QED
  BY <1>1 DEF Ordered, Within

LEMMA OfferedOrdered ==
  ASSUME NEW q \in Seq(Nat), Ordered(q), NEW low \in Int, NEW n \in Nat, Within(q, low, n), low < n + 1
  PROVE  Ordered(Offer(q, n + 1)) /\ Within(Offer(q, n + 1), low, n + 1)
<1>1. CASE Offer(q, n + 1) = Append(q, n + 1)
  BY <1>1, AppendOrdered
<1>2. CASE q # <<>> /\ Offer(q, n + 1) = Append(Tail(q), n + 1)
  <2>1. Tail(q) \in Seq(Nat) /\ Ordered(Tail(q)) /\ Within(Tail(q), low, n)
    BY <1>2, TailOrdered
  <2> QED
    BY <1>2, <2>1, AppendOrdered
<1>3. n + 1 \in Nat
  OBVIOUS
<1> QED
  BY <1>1, <1>2, <1>3, Offered

(* What the events before the snapshot may leave behind in a queue.        *)
Bound(s) == IF read # "applied" \/ shown[s] # captured[s] THEN shown[s] ELSE -1

Queued == \A s \in sources : Ordered(queue[s]) /\ Within(queue[s], Bound(s), native[s])

(* Nothing is shown or read before the native module has it.               *)
Behind == \A s \in sources : shown[s] <= native[s] /\ captured[s] <= native[s]

Inv == TypeOK /\ Queued /\ Behind

(* The order of the queues is kept.                                        *)
LEMMA QueuedKept == ASSUME Inv, TypeOK', [Next]_vars PROVE Queued' /\ Behind'
<1>0. /\ sources \subseteq Sources /\ shown \in [Sources -> 0..(MaxChanges + 1)]
      /\ captured \in [Sources -> 0..(MaxChanges + 1)] /\ native \in [Sources -> 1..(MaxChanges + 1)]
      /\ queue \in [Sources -> Seq(1..(MaxChanges + 1))] /\ Queued
  BY DEF Inv, TypeOK
<1>1. ASSUME NEW s \in sources
      PROVE  /\ queue[s] \in Seq(Nat) /\ native[s] \in Nat /\ shown[s] \in Nat /\ captured[s] \in Nat
             /\ Bound(s) \in Int /\ Bound(s) < native[s] + 1
             /\ Ordered(queue[s]) /\ Within(queue[s], Bound(s), native[s])
  <2>1. /\ queue[s] \in Seq(Nat) /\ native[s] \in Nat /\ shown[s] \in Nat /\ captured[s] \in Nat
        /\ shown[s] <= native[s]
    BY <1>0 DEF Inv, Behind
  <2> QED
    BY <1>0, <2>1 DEF Bound, Queued
<1>2. ASSUME NEW s \in sources, Change(s) PROVE Queued' /\ Behind'
  <2>1. /\ Ordered(Offer(queue[s], native[s] + 1))
        /\ Within(Offer(queue[s], native[s] + 1), Bound(s), native[s] + 1)
    BY <1>1, OfferedOrdered
  <2>2. Within(queue[s], Bound(s), native[s] + 1)
    <3>1. \A i \in DOMAIN queue[s] : queue[s][i] \in Nat
      BY <1>1
    <3> QED
      BY <1>1, <3>1 DEF Within
  <2>3. UNCHANGED <<sources, read, captured, shown>>
        /\ native' = [native EXCEPT ![s] = native[s] + 1]
        /\ queue' \in {[queue EXCEPT ![s] = Offer(queue[s], native[s] + 1)], queue}
    BY <1>2 DEF Change
  <2>4. Behind'
    BY <1>0, <1>1, <2>3 DEF Behind, Inv
  <2>5. ASSUME NEW r \in sources
        PROVE  Ordered(queue'[r]) /\ Within(queue'[r], Bound(r), native'[r])
    <3>1. CASE r = s
      <4>1. native'[r] = native[s] + 1 /\ queue'[r] \in {Offer(queue[s], native[s] + 1), queue[s]}
        BY <1>0, <2>3, <3>1
      <4> QED
        BY <1>1, <2>1, <2>2, <3>1, <4>1
    <3>2. CASE r # s
      <4>1. native'[r] = native[r] /\ queue'[r] = queue[r]
        BY <1>0, <2>3, <3>2
      <4> QED
        BY <1>1, <4>1
    <3> QED
      BY <3>1, <3>2
  <2> QED
    BY <2>3, <2>4, <2>5 DEF Queued, Bound, Ordered, Within
<1>3. ASSUME NEW s \in sources, Deliver(s) PROVE Queued' /\ Behind'
  <2>1. /\ queue[s] # <<>>
        /\ UNCHANGED <<sources, read, captured, native>>
        /\ shown' = [shown EXCEPT ![s] = Head(queue[s])]
        /\ queue' = [queue EXCEPT ![s] = Tail(queue[s])]
    BY <1>3 DEF Deliver
  <2>2. /\ Ordered(Tail(queue[s])) /\ Within(Tail(queue[s]), Head(queue[s]), native[s])
        /\ Tail(queue[s]) \in Seq(Nat) /\ Head(queue[s]) \in Nat
    BY <1>1, <2>1, TailOrdered, Taken
  <2>3. Within(Tail(queue[s]), -1, native[s])
    <3> DEFINE rest == Tail(queue[s])
    <3>1. rest \in Seq(Nat) /\ Within(rest, Head(queue[s]), native[s])
      BY <2>2
    <3> HIDE DEF rest
    <3>2. \A i \in DOMAIN rest : rest[i] \in Nat /\ rest[i] <= native[s]
      BY <3>1 DEF Within
    <3>3. \A v \in Nat : -1 < v
      OBVIOUS
    <3>4. Within(rest, -1, native[s])
      BY <3>2, <3>3 DEF Within
    <3> QED
      BY <3>4 DEF rest
  <2>4. Head(queue[s]) <= native[s]
    <3>1. 1 \in DOMAIN queue[s] /\ Head(queue[s]) = queue[s][1]
      BY <1>1, <2>1
    <3> QED
      BY <1>1, <3>1 DEF Within
  <2>5. Behind'
    BY <1>0, <2>1, <2>4 DEF Behind, Inv
  <2>6. ASSUME NEW r \in sources PROVE (Ordered(queue[r]) /\ Within(queue[r], Bound(r), native[r]))'
    <3>1. CASE r = s
      <4>1. queue'[r] = Tail(queue[s]) /\ native'[r] = native[s] /\ Bound(r)' \in {Head(queue[s]), -1}
        BY <1>0, <2>1, <3>1 DEF Bound
      <4> QED
        BY <2>2, <2>3, <4>1 DEF Ordered, Within
    <3>2. CASE r # s
      <4>1. queue'[r] = queue[r] /\ native'[r] = native[r] /\ Bound(r)' = Bound(r)
        BY <1>0, <2>1, <3>2 DEF Bound
      <4> QED
        BY <1>1, <4>1 DEF Ordered, Within
    <3> QED
      BY <3>1, <3>2
  <2> QED
    BY <2>1, <2>5, <2>6 DEF Queued
<1>4. ASSUME NEW s \in sources, Capture(s) PROVE Queued' /\ Behind'
  <2>1. /\ UNCHANGED <<sources, read, shown, native, queue>> /\ read = "asked"
        /\ captured' = [captured EXCEPT ![s] = native[s]]
    BY <1>4 DEF Capture
  <2> QED
    BY <1>0, <1>1, <2>1 DEF Queued, Bound, Behind, Inv
<1>5. CASE ApplySnapshot
  <2>1. UNCHANGED <<sources, captured, native, queue>> /\ read' = "applied" /\ shown' = captured
    BY <1>5 DEF ApplySnapshot
  <2>2. \A s \in sources : Within(queue[s], -1, native[s])
    <3>1. \A s \in sources : \A i \in DOMAIN queue[s] : queue[s][i] \in Nat
      BY <1>1
    <3> QED
      BY <1>1, <3>1 DEF Within
  <2> QED
    BY <1>1, <2>1, <2>2 DEF Queued, Bound, Behind, Inv
<1>6. ASSUME UNCHANGED <<sources, native, queue, captured, shown, read>>
      PROVE  Queued' /\ Behind'
  BY <1>0, <1>6 DEF Queued, Bound, Behind, Inv
<1>7. ASSUME NEW s \in sources,
             Subscribe(s) \/ Register(s) \/ Registered(s) \/ SubscribeFails(s) \/ WatchFails(s)
               \/ Fail(s) \/ Release(s)
      PROVE  Queued' /\ Behind'
  <2>1. UNCHANGED <<sources, native, queue, captured, shown, read>>
    BY <1>7 DEF Subscribe, Register, Registered, SubscribeFails, WatchFails, Fail, Release, listeners, snapshot
  <2> QED
    BY <1>6, <2>1
<1>8. CASE SnapshotFails \/ Interrupt \/ Close \/ Idle \/ UNCHANGED vars
  <2>1. UNCHANGED <<sources, native, queue, captured, shown, read>>
    BY <1>8 DEF SnapshotFails, Interrupt, Close, Idle, vars, listeners, snapshot
  <2> QED
    BY <1>6, <2>1
<1>9. CASE AskSnapshot
  <2>1. /\ UNCHANGED <<sources, native, queue, captured, shown>>
        /\ read' = "asked" /\ read = "new"
    BY <1>9 DEF AskSnapshot, listeners
  <2> QED
    BY <1>0, <2>1 DEF Queued, Bound, Behind, Inv
<1> QED
  BY <1>2, <1>3, <1>4, <1>5, <1>6, <1>7, <1>8, <1>9 DEF Next

-----------------------------------------------------------------------------
(* Whatever raced with the snapshot, a field is taken back by the snapshot *)
(* itself, or from the snapshot's own value, and by nothing else.          *)
THEOREM OnlySnapshotBack == Spec => OnlySnapshotGoesBack
<1>1. Init => Inv
  <2> SUFFICES ASSUME Init PROVE Inv
    OBVIOUS
  <2>1. TypeOK
    BY DEF Init, TypeOK
  <2>2. sources \subseteq Sources /\ \A s \in sources : queue[s] = <<>>
    BY DEF Init
  <2> QED
    BY <2>1, <2>2 DEF Init, Inv, Queued, Behind, Ordered, Within
<1>2. Inv /\ TypeOK' /\ [Next]_vars => Inv'
  BY QueuedKept DEF Inv
<1>3. Inv /\ [Next]_vars =>
        [\A s \in Sources : shown'[s] < shown[s] => read # read' \/ shown[s] = captured[s]]_vars
  <2> SUFFICES ASSUME Inv, [Next]_vars, NEW s \in Sources, shown'[s] < shown[s],
                      read = read', shown[s] # captured[s]
               PROVE  FALSE
    OBVIOUS
  <2>0. /\ sources \subseteq Sources /\ shown \in [Sources -> 0..(MaxChanges + 1)]
        /\ queue \in [Sources -> Seq(1..(MaxChanges + 1))]
    BY DEF Inv, TypeOK
  <2>1. CASE shown' = shown
    BY <2>0, <2>1
  <2>2. ASSUME NEW r \in sources, Deliver(r) PROVE FALSE
    <3>1. shown' = [shown EXCEPT ![r] = Head(queue[r])] /\ queue[r] # <<>>
      BY <2>2 DEF Deliver
    <3>2. r = s /\ shown'[s] = Head(queue[s])
      BY <2>0, <3>1
    <3>3. 1 \in DOMAIN queue[s] /\ Head(queue[s]) = queue[s][1] /\ queue[s][1] \in Nat
      BY <2>0, <3>1, <3>2
    <3>4. shown[s] < queue[s][1]
      BY <3>2, <3>3 DEF Inv, Queued, Bound, Within
    <3> QED
      BY <2>0, <3>2, <3>3, <3>4
  <2>3. CASE ApplySnapshot
    BY <2>3 DEF ApplySnapshot
  <2>4. (\E r \in sources : Deliver(r)) \/ ApplySnapshot \/ shown' = shown
    BY DEF Next, Change, Subscribe, Register, Registered, SubscribeFails, WatchFails, Fail,
           Capture, Release, AskSnapshot, SnapshotFails, Interrupt, Close, Idle, vars
  <2> QED
    BY <2>1, <2>2, <2>3, <2>4
<1> QED
  BY <1>1, <1>2, <1>3, TypeCorrect, PTL DEF Spec, OnlySnapshotGoesBack

-----------------------------------------------------------------------------
(* A listener exists only for a fiber that has to remove it.               *)
Owned ==
  /\ \A s \in sources : fiber[s] \in {"new", "off"} => s \notin listening
  /\ stream = "closed" => Released

(* However its scope came to close, a closed stream has no listener.       *)
ClosedIsDeaf == stream = "closed" => listening = {}

THEOREM ClosedDeaf == Spec => []ClosedIsDeaf
<1>1. Init => Owned
  BY DEF Init, Owned
<1>2. TypeOK /\ Owned /\ [Next]_vars => Owned'
  <2> SUFFICES ASSUME TypeOK, Owned, [Next]_vars PROVE Owned'
    OBVIOUS
  <2> USE DEF Owned, Released
  <2>0. sources \subseteq Sources /\ fiber \in [Sources -> {"new", "asked", "on", "off"}]
        /\ listening \subseteq sources
    BY DEF TypeOK
  <2>1. ASSUME NEW s \in sources,
               Subscribe(s) \/ Register(s) \/ Registered(s) \/ SubscribeFails(s) \/ Release(s)
        PROVE  Owned'
    BY <2>0, <2>1 DEF Subscribe, Register, Registered, SubscribeFails, Release
  <2>2. CASE Close
    BY <2>2 DEF Close
  <2>3. CASE UNCHANGED <<sources, fiber, listening>> /\ (stream' = "closed" => stream = "closed")
    BY <2>3
  <2>4. \/ \E s \in sources :
             Subscribe(s) \/ Register(s) \/ Registered(s) \/ SubscribeFails(s) \/ Release(s)
        \/ Close
        \/ UNCHANGED <<sources, fiber, listening>> /\ (stream' = "closed" => stream = "closed")
    BY DEF Next, Change, WatchFails, Deliver, Fail, Capture, AskSnapshot, ApplySnapshot,
           SnapshotFails, Interrupt, Idle, vars
  <2> QED
    BY <2>1, <2>2, <2>3, <2>4
<1>3. TypeOK /\ Owned => ClosedIsDeaf
  BY DEF TypeOK, Owned, Released, ClosedIsDeaf
<1> QED
  BY <1>1, <1>2, <1>3, TypeCorrect, PTL DEF Spec
=============================================================================
