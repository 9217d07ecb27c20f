---------------------------- MODULE NativeStreams -----------------------------
(***************************************************************************)
(* Native events as streams: the listener streams, powerStateChanges and   *)
(* the atoms of packages/battery/src/Battery.ts, networkStateAtom of       *)
(* packages/network/src/Network.ts (like them, of one field) and watcher   *)
(* of packages/location/src/Location.ts.                                   *)
(*                                                                         *)
(* A power stream merges one snapshot the native module is asked for with  *)
(* a listener per field; each runs in a fiber of its own and each listener *)
(* has a queue.  A watch has one listener, whose registration is answered  *)
(* by a promise, a sliding queue, and no snapshot.  The native module and  *)
(* the stream runtime are outside the repository.                          *)
(***************************************************************************)
EXTENDS Naturals, Sequences, FiniteSets

CONSTANTS
  Fields,      (* the fields of the power state                            *)
  Watches,     (* location watches; a stream has one of them               *)
  BufferSize,  (* of the sliding queue of a watch                          *)
  MaxChanges   (* bound: how often each native value changes               *)

ASSUME SourcesDiffer == Fields \cap Watches = {}
ASSUME BufferPositive == BufferSize \in Nat \ {0}
ASSUME ChangesType == MaxChanges \in Nat

VARIABLES
  sources,    (* the listeners this stream has                             *)
  native,     (* the n-th value of each                                    *)
  listening,  (* the native module holds the listener                      *)
  fiber,      (* of each listener: "new", "asked", "on", "off"             *)
  queue,      (* the values emitted and not yet delivered                  *)
  broken,     (* queues that were failed                                   *)
  read,       (* the snapshot: "new", "asked" or "applied"                 *)
  captured,   (* the values the native module has read for it so far       *)
  shown,      (* what the stream emitted last                              *)
  stream,     (* "open", "closing" or "closed"                             *)
  fresh       (* history, not code: values that changed while listened to, *)
              (* after the snapshot was applied                            *)

listeners == <<listening, fiber, queue, broken>>
snapshot == <<read, captured>>
vars == <<sources, native, listeners, snapshot, shown, stream, fresh>>

Unknown == 0
Unread == 0

Sources == Fields \cup Watches
Watch == sources \subseteq Watches

Init ==
  /\ sources \in {Fields} \cup {{s} : s \in Sources}
  /\ native = [s \in Sources |-> 1]
  /\ listening = {} /\ broken = {} /\ fresh = {}
  /\ fiber = [s \in Sources |-> "new"]
  /\ queue = [s \in Sources |-> <<>>]
  /\ read = IF Watch THEN "applied" ELSE "new"
  /\ captured = [s \in Sources |-> Unread]
  /\ shown = [s \in Sources |-> Unknown]
  /\ stream = "open"

-----------------------------------------------------------------------------
(* The listeners                                                           *)

(* Broken: a full queue drops the value that arrives.                      *)
DropsNewest(q, v) == IF Watch /\ Len(q) = BufferSize THEN q ELSE Append(q, v)

(* Queue.offerUnsafe: a full sliding queue drops its oldest value.         *)
Offer(q, v) == Append(IF Watch /\ Len(q) = BufferSize THEN Tail(q) ELSE q, v)

Change(s) ==
  /\ native[s] <= MaxChanges
  /\ native' = [native EXCEPT ![s] = @ + 1]
  /\ IF s \in listening
     THEN /\ queue' = [queue EXCEPT ![s] = Offer(@, native[s] + 1)]
          /\ fresh' = IF read = "applied" THEN fresh \cup {s} ELSE fresh
     ELSE UNCHANGED <<queue, fresh>>
  /\ UNCHANGED <<sources, listening, fiber, broken, snapshot, shown, stream>>

(* Of a watch only the call is made; the answer comes later.               *)
Subscribe(s) ==
  /\ stream = "open" /\ fiber[s] = "new"
  /\ IF Watch
     THEN fiber' = [fiber EXCEPT ![s] = "asked"] /\ UNCHANGED listening
     ELSE fiber' = [fiber EXCEPT ![s] = "on"] /\ listening' = listening \cup {s}
  /\ UNCHANGED <<sources, native, queue, broken, snapshot, shown, stream, fresh>>

Register(s) ==
  /\ fiber[s] = "asked" /\ s \notin listening
  /\ listening' = listening \cup {s}
  /\ UNCHANGED <<sources, native, fiber, queue, broken, snapshot, shown, stream, fresh>>

(* The acquisition is not interrupted: a scope that closes meanwhile waits *)
(* for the subscription.                                                   *)
Registered(s) ==
  /\ fiber[s] = "asked" /\ s \in listening
  /\ fiber' = [fiber EXCEPT ![s] = "on"]
  /\ UNCHANGED <<sources, native, listening, queue, broken, snapshot, shown, stream, fresh>>

(* The call throws or its promise rejects.                                 *)
SubscribeFails(s) ==
  /\ \/ fiber[s] = "new" /\ stream = "open"
     \/ fiber[s] = "asked" /\ s \notin listening
  /\ fiber' = [fiber EXCEPT ![s] = "off"]
  /\ broken' = broken \cup {s}
  /\ UNCHANGED <<sources, native, listening, queue, snapshot, shown, stream, fresh>>

(* A payload that is no position, or an error the native watch reports.    *)
WatchFails(s) ==
  /\ Watch /\ s \in listening
  /\ broken' = broken \cup {s}
  /\ UNCHANGED <<sources, native, listening, fiber, queue, snapshot, shown, stream, fresh>>

(* Broken: the newest value first.                                         *)
DeliverNewest(s) ==
  /\ stream = "open" /\ queue[s] # <<>>
  /\ shown' = [shown EXCEPT ![s] = queue[s][Len(queue[s])]]
  /\ queue' = [queue EXCEPT ![s] = SubSeq(@, 1, Len(@) - 1)]
  /\ UNCHANGED <<sources, native, listening, fiber, broken, snapshot, stream, fresh>>

Deliver(s) ==
  /\ stream = "open" /\ queue[s] # <<>>
  /\ shown' = [shown EXCEPT ![s] = Head(queue[s])]
  /\ queue' = [queue EXCEPT ![s] = Tail(@)]
  /\ UNCHANGED <<sources, native, listening, fiber, broken, snapshot, stream, fresh>>

(* A failed queue fails the stream, once what it holds is delivered.       *)
Fail(s) ==
  /\ stream = "open" /\ s \in broken /\ queue[s] = <<>>
  /\ stream' = "closing"
  /\ UNCHANGED <<sources, native, listeners, snapshot, shown, fresh>>

-----------------------------------------------------------------------------
(* The snapshot                                                            *)

AskSnapshot ==
  /\ stream = "open" /\ read = "new"
  /\ read' = "asked"
  /\ UNCHANGED <<sources, native, listeners, captured, shown, stream, fresh>>

(* The native module reads the parts one by one.                           *)
Capture(s) ==
  /\ read = "asked" /\ captured[s] = Unread
  /\ captured' = [captured EXCEPT ![s] = native[s]]
  /\ UNCHANGED <<sources, native, listeners, read, shown, stream, fresh>>

(* scan: the snapshot replaces every field, whatever events came before.   *)
ApplySnapshot ==
  /\ stream = "open" /\ read = "asked" /\ \A s \in sources : captured[s] # Unread
  /\ read' = "applied"
  /\ shown' = captured
  /\ UNCHANGED <<sources, native, listeners, captured, stream, fresh>>

SnapshotFails ==
  /\ stream = "open" /\ read = "asked"
  /\ stream' = "closing"
  /\ UNCHANGED <<sources, native, listeners, snapshot, shown, fresh>>

-----------------------------------------------------------------------------
(* The scope                                                               *)

Interrupt ==
  /\ stream = "open"
  /\ stream' = "closing"
  /\ UNCHANGED <<sources, native, listeners, snapshot, shown, fresh>>

Release(s) ==
  /\ stream = "closing" /\ fiber[s] \in {"new", "on"}
  /\ fiber' = [fiber EXCEPT ![s] = "off"]
  /\ listening' = listening \ {s}
  /\ UNCHANGED <<sources, native, queue, broken, snapshot, shown, stream, fresh>>

(* Broken: the release of the first listener is the release of all.        *)
ReleasedAny == \E s \in sources : fiber[s] = "off"

Released == \A s \in sources : fiber[s] = "off"

Close ==
  /\ stream = "closing" /\ Released
  /\ stream' = "closed"
  /\ UNCHANGED <<sources, native, listeners, snapshot, shown, fresh>>

Idle == stream = "closed" /\ UNCHANGED vars

Next ==
  \/ \E s \in sources :
       \/ Change(s) \/ Subscribe(s) \/ Register(s) \/ Registered(s) \/ SubscribeFails(s)
       \/ WatchFails(s) \/ Deliver(s) \/ Fail(s) \/ Capture(s) \/ Release(s)
  \/ AskSnapshot \/ ApplySnapshot \/ SnapshotFails \/ Interrupt \/ Close \/ Idle

(* The fibers run and the native module answers; nothing has to change,    *)
(* fail or be interrupted.                                                 *)
Fairness ==
  /\ \A s \in Sources :
       WF_vars(s \in sources /\ (Register(s) \/ Registered(s) \/ Release(s) \/ Deliver(s)))
  /\ WF_vars(Close)

Spec == Init /\ [][Next]_vars /\ Fairness

-----------------------------------------------------------------------------
(* Properties                                                              *)

TypeOK ==
  /\ sources \in {Fields} \cup {{s} : s \in Sources}
  /\ native \in [Sources -> 1..(MaxChanges + 1)]
  /\ listening \subseteq sources /\ broken \subseteq sources /\ fresh \subseteq sources
  /\ fiber \in [Sources -> {"new", "asked", "on", "off"}]
  /\ queue \in [Sources -> Seq(1..(MaxChanges + 1))]
  /\ read \in {"new", "asked", "applied"}
  /\ captured \in [Sources -> 0..(MaxChanges + 1)]
  /\ shown \in [Sources -> 0..(MaxChanges + 1)]
  /\ stream \in {"open", "closing", "closed"}

(* Values are shown in the order the native module had them.  A field is   *)
(* taken back only by the snapshot, read before it is applied, or from the *)
(* snapshot's own value, by an event that had been queued before it.       *)
OnlySnapshotGoesBack ==
  [][\A s \in Sources : shown'[s] < shown[s] => read # read' \/ shown[s] = captured[s]]_vars

(* However the snapshot raced with the events, a field that changes again  *)
(* after it, while it is listened to, is shown as it is in the end; a      *)
(* sliding queue may skip values and never the last.                       *)
ChangesArrive ==
  \A s \in Sources :
    s \in fresh ~> (stream # "open" \/ shown[s] = native[s])

(* However the scope comes to close, it does close, and from then on the   *)
(* native module holds no listener of the stream: one whose registration   *)
(* was still unanswered is waited for and removed.                         *)
ListenersRemoved == stream = "closing" ~> [](stream = "closed" /\ listening = {})
=============================================================================
