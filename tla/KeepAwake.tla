----------------------------- MODULE KeepAwake ------------------------------
(***************************************************************************)
(* The scoped keep-awake lease of packages/keep-awake/src/KeepAwake.ts.    *)
(*                                                                         *)
(* One service, one SynchronizedRef holding a Map from tag to lease count. *)
(* modifyEffect runs its update with the ref's semaphore held, so the      *)
(* native activate/deactivate call happens inside the critical section; an *)
(* update that fails leaves the map as it was.  Scopes are the fibers that *)
(* open a lease, close it, and may open another one later.                 *)
(*                                                                         *)
(* Definitions marked "Broken" are no part of the specification: each is a *)
(* plausible bug in the definition after it, kept to show that a property  *)
(* notices.                                                                *)
(***************************************************************************)
EXTENDS Naturals, FiniteSets

CONSTANTS
  Scopes,        (* effect scopes, each with at most one lease at a time   *)
  ExplicitTags,  (* tags named by options.tag                              *)
  ManualTags,    (* explicit tags the exact-name manual API is used on too *)
  MaxGenerated,  (* bound on the tags nextTag() is asked for               *)
  NoScope, NoTag

ASSUME ScopesFinite == IsFiniteSet(Scopes)
ASSUME NoScopeFresh == NoScope \notin Scopes
ASSUME MaxGeneratedNat == MaxGenerated \in Nat
ASSUME TagsDistinct ==
  /\ ManualTags \subseteq ExplicitTags
  /\ ExplicitTags \cap (1..MaxGenerated) = {}
  /\ NoTag \notin ExplicitTags \cup (1..MaxGenerated)

GeneratedTags == 1..MaxGenerated
Tags == ExplicitTags \cup GeneratedTags

VARIABLES
  pc,         (* where each scope's fiber is                               *)
  tag,        (* the tag its lease is for                                  *)
  counts,     (* scopedLeaseCounts for the service; 0 = no entry           *)
  mutex,      (* the fiber that holds the SynchronizedRef's semaphore      *)
  generated,  (* generatedTag                                              *)
  native,     (* external: tags Expo currently keeps the screen awake for  *)
  lost        (* history: tags whose native release failed                 *)

vars == <<pc, tag, counts, mutex, generated, native, lost>>

Stages == {"idle", "probing", "acquiring", "activating",
           "held", "releasing", "deactivating"}

(* A scope holds a lease from the end of its acquisition to the end of its *)
(* finalizer.                                                              *)
Leasing == {"held", "releasing", "deactivating"}
HoldersOf(t) == {s \in Scopes : pc[s] \in Leasing /\ tag[s] = t}

Init ==
  /\ pc = [s \in Scopes |-> "idle"]
  /\ tag = [s \in Scopes |-> NoTag]
  /\ counts = [t \in Tags |-> 0]
  /\ mutex = NoScope
  /\ generated = 0
  /\ native = {}
  /\ lost = {}

Goto(s, stage) == pc' = [pc EXCEPT ![s] = stage]

Finish(s) ==
  /\ Goto(s, "idle")
  /\ tag' = [tag EXCEPT ![s] = NoTag]

-----------------------------------------------------------------------------
(* keepAwake(options)                                                      *)

Open(s) ==
  /\ pc[s] = "idle"
  /\ Goto(s, "probing")
  /\ UNCHANGED <<tag, counts, mutex, generated, native, lost>>

(* isAvailable answered false, failed, or the fiber was interrupted while  *)
(* it waited: no lease was asked for yet.                                  *)
Unavailable(s) ==
  /\ pc[s] = "probing"
  /\ Goto(s, "idle")
  /\ UNCHANGED <<tag, counts, mutex, generated, native, lost>>

AvailableExplicit(s, t) ==
  /\ pc[s] = "probing"
  /\ tag' = [tag EXCEPT ![s] = t]
  /\ Goto(s, "acquiring")
  /\ UNCHANGED <<counts, mutex, generated, native, lost>>

(* options.tag was omitted: nextTag() pre-increments the module counter.   *)
AvailableGenerated(s) ==
  /\ pc[s] = "probing"
  /\ generated < MaxGenerated
  /\ generated' = generated + 1
  /\ tag' = [tag EXCEPT ![s] = generated + 1]
  /\ Goto(s, "acquiring")
  /\ UNCHANGED <<counts, mutex, native, lost>>

-----------------------------------------------------------------------------
(* acquireScopedLease: uninterruptible, being the acquire of acquireRelease *)

ShareLease(s) ==
  /\ pc[s] = "acquiring"
  /\ mutex = NoScope
  /\ counts[tag[s]] # 0
  /\ counts' = [counts EXCEPT ![tag[s]] = @ + 1]
  /\ Goto(s, "held")
  /\ UNCHANGED <<tag, mutex, generated, native, lost>>

StartActivate(s) ==
  /\ pc[s] = "acquiring"
  /\ mutex = NoScope
  /\ counts[tag[s]] = 0
  /\ mutex' = s
  /\ Goto(s, "activating")
  /\ UNCHANGED <<tag, counts, generated, native, lost>>

ActivateOk(s) ==
  /\ pc[s] = "activating"
  /\ native' = native \cup {tag[s]}
  /\ counts' = [counts EXCEPT ![tag[s]] = 1]
  /\ mutex' = NoScope
  /\ Goto(s, "held")
  /\ UNCHANGED <<tag, generated, lost>>

(* Broken: the failing activation keeps the semaphore.                     *)
ActivateFailLocked(s) ==
  /\ pc[s] = "activating"
  /\ Finish(s)
  /\ UNCHANGED <<counts, mutex, generated, native, lost>>

(* The typed failure leaves through modifyEffect: the new map is dropped.  *)
ActivateFail(s) ==
  /\ pc[s] = "activating"
  /\ mutex' = NoScope
  /\ Finish(s)
  /\ UNCHANGED <<counts, generated, native, lost>>

-----------------------------------------------------------------------------
(* The scope closes (normally, on failure or on interruption) and runs     *)
(* releaseScopedLease as its finalizer.                                    *)

Close(s) ==
  /\ pc[s] = "held"
  /\ Goto(s, "releasing")
  /\ UNCHANGED <<tag, counts, mutex, generated, native, lost>>

(* Broken: off by one, the last scope only counts down.                    *)
DropLastShare(s) ==
  /\ pc[s] = "releasing"
  /\ mutex = NoScope
  /\ counts[tag[s]] >= 1
  /\ counts' = [counts EXCEPT ![tag[s]] = @ - 1]
  /\ Finish(s)
  /\ UNCHANGED <<mutex, generated, native, lost>>

DropShare(s) ==
  /\ pc[s] = "releasing"
  /\ mutex = NoScope
  /\ counts[tag[s]] > 1
  /\ counts' = [counts EXCEPT ![tag[s]] = @ - 1]
  /\ Finish(s)
  /\ UNCHANGED <<mutex, generated, native, lost>>

(* Broken: whichever scope closes first deactivates.                       *)
DeactivateAlways(s) ==
  /\ pc[s] = "releasing"
  /\ mutex = NoScope
  /\ mutex' = s
  /\ Goto(s, "deactivating")
  /\ UNCHANGED <<tag, counts, generated, native, lost>>

StartDeactivate(s) ==
  /\ pc[s] = "releasing"
  /\ mutex = NoScope
  /\ counts[tag[s]] <= 1
  /\ mutex' = s
  /\ Goto(s, "deactivating")
  /\ UNCHANGED <<tag, counts, generated, native, lost>>

DeactivateOk(s) ==
  /\ pc[s] = "deactivating"
  /\ native' = native \ {tag[s]}
  /\ counts' = [counts EXCEPT ![tag[s]] = 0]
  /\ mutex' = NoScope
  /\ Finish(s)
  /\ UNCHANGED <<generated, lost>>

(* Effect.orDie: the scope ends with a defect and the map keeps its entry. *)
DeactivateFail(s) ==
  /\ pc[s] = "deactivating"
  /\ lost' = lost \cup {tag[s]}
  /\ mutex' = NoScope
  /\ Finish(s)
  /\ UNCHANGED <<counts, generated, native>>

-----------------------------------------------------------------------------
(* activateKeepAwakeAsync(t) / deactivateKeepAwake(t): straight to Expo.   *)

ManualActivate(t) ==
  /\ native' = native \cup {t}
  /\ UNCHANGED <<pc, tag, counts, mutex, generated, lost>>

ManualDeactivate(t) ==
  /\ native' = native \ {t}
  /\ UNCHANGED <<pc, tag, counts, mutex, generated, lost>>

-----------------------------------------------------------------------------
Request(s) ==
  \/ Open(s)
  \/ Unavailable(s)
  \/ \E t \in ExplicitTags : AvailableExplicit(s, t)
  \/ AvailableGenerated(s)

Acquire(s) ==
  \/ ShareLease(s)
  \/ StartActivate(s)
  \/ ActivateOk(s)
  \/ ActivateFail(s)

Release(s) ==
  \/ DropShare(s)
  \/ StartDeactivate(s)
  \/ DeactivateOk(s)
  \/ DeactivateFail(s)

Manual == \E t \in ManualTags : ManualActivate(t) \/ ManualDeactivate(t)

Next ==
  \/ \E s \in Scopes : Request(s) \/ Acquire(s) \/ Close(s) \/ Release(s)
  \/ Manual

Spec == Init /\ [][Next]_vars

(* A native promise settles, and the semaphore wakes its waiters in turn.  *)
(* Nothing obliges a scope to open or to close.                            *)
Fairness ==
  \A s \in Scopes : SF_vars(Acquire(s)) /\ SF_vars(Release(s))

FairSpec == Spec /\ Fairness

-----------------------------------------------------------------------------
(* Properties                                                              *)

(* Every variable keeps its shape (the single type invariant).             *)
TypeOK ==
  /\ pc \in [Scopes -> Stages]
  /\ tag \in [Scopes -> Tags \cup {NoTag}]
  /\ counts \in [Tags -> Nat]
  /\ mutex \in Scopes \cup {NoScope}
  /\ generated \in 0..MaxGenerated
  /\ native \subseteq Tags
  /\ lost \subseteq Tags

(* KeepAwake.ts:231: overlapping scopes share one activation.  While any   *)
(* scope holds a lease the screen stays awake for its tag, unless the      *)
(* manual API meddles with that tag.                                       *)
HeldStaysAwake ==
  \A s \in Scopes :
    pc[s] \in Leasing => tag[s] \in native \cup ManualTags

(* The count of a tag is the number of scopes holding it, plus one for     *)
(* ever once a native release of that tag was lost.                        *)
CountsAreHolders ==
  \A t \in Tags :
    counts[t] = Cardinality(HoldersOf(t)) + (IF t \in lost THEN 1 ELSE 0)

(* README.md:55: the last scope to close deactivates.  With no holder left *)
(* a tag sleeps, unless a native release failed or the manual API woke it. *)
ReleasedSleeps ==
  \A t \in Tags :
    HoldersOf(t) = {} => t \notin native \/ t \in lost \cup ManualTags

(* README.md:53: generated tags isolate concurrent scoped callers.         *)
GeneratedIsolated ==
  \A s, r \in Scopes :
    tag[s] = tag[r] /\ tag[s] \in GeneratedTags => s = r

(* The native call of one scope never runs beside the native call of       *)
(* another: the map's semaphore is held across it, so an activation cannot *)
(* overtake the deactivation it follows.                                   *)
NativeCallsSerialized ==
  \A s, r \in Scopes :
    pc[s] \in {"activating", "deactivating"} /\
    pc[r] \in {"activating", "deactivating"} => s = r

(* A lease that was asked for is granted or refused, and a closed scope    *)
(* finishes its finalizer, whatever the other scopes do.                   *)
RequestsSettle ==
  \A s \in Scopes :
    /\ pc[s] = "acquiring" ~> pc[s] \in {"held", "idle"}
    /\ pc[s] = "releasing" ~> pc[s] = "idle"

(* The leases implement the abstract promise, for the tags the manual API  *)
(* leaves alone.                                                           *)
Promise ==
  INSTANCE KeepAwakePromise WITH
    Tags <- Tags \ ManualTags,
    holders <- [t \in Tags \ ManualTags |-> HoldersOf(t)],
    awake <- native \ ManualTags,
    lost <- lost \ ManualTags

ImplementsPromise == Promise!Spec
=============================================================================
