-------------------------- MODULE KeepAwakePromise --------------------------
(***************************************************************************)
(* What packages/keep-awake promises of scoped leases, with no mention of  *)
(* reference counts, locks or native calls: a tag is awake while a scope   *)
(* holds it and the last scope to leave puts it back to sleep.  The one    *)
(* exception is a native release that fails: the tag is lost, and stays    *)
(* awake from then on.                                                     *)
(***************************************************************************)
CONSTANTS Scopes, Tags

VARIABLES
  holders,  (* [Tags -> SUBSET Scopes]: who holds a lease on the tag       *)
  awake,    (* the tags whose native activation is on                      *)
  lost      (* the tags whose native release failed                        *)

vars == <<holders, awake, lost>>

Init ==
  /\ holders = [t \in Tags |-> {}]
  /\ awake = {}
  /\ lost = {}

Take(s, t) ==
  /\ \A u \in Tags : s \notin holders[u]
  /\ holders' = [holders EXCEPT ![t] = @ \cup {s}]
  /\ awake' = awake \cup {t}
  /\ UNCHANGED lost

Leave(s, t) ==
  /\ s \in holders[t]
  /\ holders' = [holders EXCEPT ![t] = @ \ {s}]
  /\ \/ /\ holders[t] # {s} \/ t \in lost
        /\ UNCHANGED <<awake, lost>>
     \/ /\ holders[t] = {s} /\ t \notin lost
        /\ awake' = awake \ {t}
        /\ UNCHANGED lost
     \/ /\ holders[t] = {s} /\ t \notin lost
        /\ lost' = lost \cup {t}
        /\ UNCHANGED awake

Next == \E s \in Scopes, t \in Tags : Take(s, t) \/ Leave(s, t)

Spec == Init /\ [][Next]_vars
=============================================================================
