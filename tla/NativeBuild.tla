----------------------------- MODULE NativeBuild ------------------------------
(***************************************************************************)
(* NativeArtifactCache with what an iOS build does inside the semaphore of *)
(* the compilers: PodsCache.ts and its use by executeBuild of              *)
(* AppBuildExecutor.ts, in tooling/compatibility-harness/src/build.        *)
(*                                                                         *)
(* The Pods cache has an index, from the inputs (which builds of one       *)
(* native key share) to the hash of a Podfile.lock, an entry for each such *)
(* hash, and a lock file that no prune looks at.                           *)
(***************************************************************************)
EXTENDS NativeArtifactCache

CONSTANTS
  Locks,   (* the contents of Podfile.lock that pod install may end with   *)
  NoLock

ASSUME LocksType == NoLock \notin Locks

VARIABLES
  podsLock,     (* whose token the lock file of the Pods cache holds       *)
  podsOrphaned, (* is there a lock file whose token was never written?     *)
  index,        (* the lock hash the index has for the inputs              *)
  entries,      (* per lock hash: the Pods of the entry, and its lock file *)
  step,         (* of the build that is compiling                          *)
  tree,         (* its Pods, and the Podfile.lock beside them              *)
  wanted,       (* of a restore: the lock hash it has read in the index    *)
  beside,       (* of a publication: the copy to be renamed to its entry   *)
  podsPlan      (* what each prune is going to delete of this cache        *)

cache == <<podsLock, podsOrphaned, index, entries>>
local == <<step, tree, wanted, beside>>
pods == <<cache, local, podsPlan>>
buildVars == <<vars, pods>>

Steps == {"none", "restore", "look", "check entry", "copy", "install", "publish", "check",
          "remove", "removing", "rename", "drop", "point", "xcode"}

(* "part" and "torn": the directory is there and some of what was in it is *)
(* not.  The two are one to the code; "torn" remembers that it was a prune *)
(* that began to delete what was whole.                                    *)
PodsStates == {"whole", "part", "torn"}
PodsEntries == [pods : {"none"} \cup PodsStates, lock : BOOLEAN]
NoPods == [pods |-> "none", lock |-> FALSE]
Trees == [lock : Locks \cup {NoLock}, pods : PodsStates]
NoTree == [lock |-> NoLock, pods |-> "whole"]
PodsPlans == [entries : SUBSET Locks, copies : SUBSET Builds, index : BOOLEAN]
NoPodsPlan == [entries |-> {}, copies |-> {}, index |-> FALSE]

BuildInit ==
  /\ Init
  /\ podsLock = Nobody
  /\ podsOrphaned \in BOOLEAN
  /\ index = NoLock
  /\ entries = [l \in Locks |-> NoPods]
  /\ step = "none" /\ tree = NoTree
  /\ wanted = NoLock /\ beside = NoPods
  /\ podsPlan = [p \in Prunes |-> NoPodsPlan]

(* What a recursive remove leaves of an entry as far as it has come, or if *)
(* it ends early.                                                          *)
PodsRemains(e, broken) ==
  {left \in PodsEntries :
     /\ left.lock => e.lock
     /\ left.pods \in {"none", e.pods} \cup (IF e.pods = "whole" THEN {broken} ELSE {})}

(* What restore and publish ask of an entry: both parts are there, and the *)
(* lock file, which nothing writes in place, has the hash in its name.     *)
Valid(e) == e.pods # "none" /\ e.lock

-----------------------------------------------------------------------------
(* Inside the semaphore                                                    *)

Compiling(b) == platform = "ios" /\ At(b, "compile") /\ compiler = b

StepTo(b, from, to) == Compiling(b) /\ step = from /\ step' = to

(* withCacheLock: a file that is there or cannot be made, or a token that  *)
(* cannot be written, makes the cache busy, and the build goes on without. *)
LockPods(b, from, inside, busy) ==
  /\ Compiling(b) /\ step = from
  /\ \/ step' = busy /\ UNCHANGED <<podsLock, podsOrphaned>>
     \/ /\ podsLock = Nobody /\ ~podsOrphaned
        /\ \/ podsLock' = b /\ step' = inside /\ UNCHANGED podsOrphaned
           \/ podsOrphaned' = TRUE /\ step' = busy /\ UNCHANGED podsLock
  /\ UNCHANGED <<vars, index, entries, tree, wanted, beside, podsPlan>>

(* The release may fail to remove the file.                                *)
UnlockPods(b) ==
  podsLock' \in IF podsLock = b THEN {Nobody, b} ELSE {podsLock}

(* restore: the index may name an entry ...                                *)
ReadIndex(b) ==
  /\ Compiling(b) /\ step = "look"
  /\ \/ /\ index = NoLock
        /\ step' = "install" /\ UnlockPods(b) /\ UNCHANGED wanted
     \/ /\ index # NoLock
        /\ step' = "check entry" /\ wanted' = index /\ UNCHANGED podsLock
  /\ UNCHANGED <<vars, podsOrphaned, index, entries, tree, beside, podsPlan>>

(* ... which must be valid ...                                             *)
CheckPods(b) ==
  /\ Compiling(b) /\ step = "check entry"
  /\ \/ /\ ~Valid(entries[wanted])
        /\ step' = "install" /\ UnlockPods(b) /\ wanted' = NoLock
     \/ /\ Valid(entries[wanted])
        /\ step' = "copy" /\ UNCHANGED <<podsLock, wanted>>
  /\ UNCHANGED <<vars, podsOrphaned, index, entries, tree, beside, podsPlan>>

(* ... and of which what is there by now is copied into the workspace; if  *)
(* a part of it is gone altogether the restore fails, and the build.       *)
CopyPods(b) ==
  /\ StepTo(b, "copy", "install") /\ UnlockPods(b)
  /\ Valid(entries[wanted])
  /\ tree' = [lock |-> wanted, pods |-> entries[wanted].pods]
  /\ wanted' = NoLock
  /\ UNCHANGED <<vars, podsOrphaned, index, entries, beside, podsPlan>>

(* pod install: of restored Pods that are not whole it may or may not find *)
(* out; then Podfile.lock equals Manifest.lock, or the build fails.        *)
Install(b) ==
  /\ StepTo(b, "install", "publish")
  /\ tree' \in {[lock |-> l, pods |-> s] : l \in Locks, s \in {"whole", tree.pods}}
  /\ UNCHANGED <<vars, cache, wanted, beside, podsPlan>>

-----------------------------------------------------------------------------
(* publish                                                                 *)

(* Broken: the Pods are copied to the place of the entry, not beside it.   *)
CopyInPlace(b) ==
  /\ Compiling(b) /\ step = "check"
  /\ IF Valid(entries[tree.lock])
       THEN step' = "drop" /\ UNCHANGED entries
       ELSE /\ step' = "remove"
            /\ entries' = [entries EXCEPT ![tree.lock] = [pods |-> "part", lock |-> TRUE]]
  /\ UNCHANGED <<vars, podsLock, podsOrphaned, index, tree, wanted, beside, podsPlan>>

(* A valid entry is kept; else the Pods are copied beside its place.       *)
CheckEntry(b) ==
  /\ Compiling(b) /\ step = "check"
  /\ \/ /\ Valid(entries[tree.lock])
        /\ step' = "drop" /\ UNCHANGED beside
     \/ /\ ~Valid(entries[tree.lock])
        /\ step' = "remove" /\ beside' = [pods |-> tree.pods, lock |-> TRUE]
  /\ UNCHANGED <<vars, cache, tree, wanted, podsPlan>>

RemoveEntry(b) ==
  /\ StepTo(b, "remove", "removing")
  /\ \E left \in PodsRemains(entries[tree.lock], "part") :
       entries' = [entries EXCEPT ![tree.lock] = left]
  /\ UNCHANGED <<vars, podsLock, podsOrphaned, index, tree, wanted, beside, podsPlan>>

EntryRemoved(b) ==
  /\ StepTo(b, "removing", "rename")
  /\ entries' = [entries EXCEPT ![tree.lock] = NoPods]
  /\ UNCHANGED <<vars, podsLock, podsOrphaned, index, tree, wanted, beside, podsPlan>>

(* The copy must still be there.                                           *)
RenameEntry(b) ==
  /\ StepTo(b, "rename", "drop") /\ beside # NoPods
  /\ entries' = [entries EXCEPT ![tree.lock] = beside]
  /\ beside' = NoPods
  /\ UNCHANGED <<vars, podsLock, podsOrphaned, index, tree, wanted, podsPlan>>

(* The index of these inputs is removed, and the new one renamed in.       *)
DropIndex(b) ==
  /\ StepTo(b, "drop", "point")
  /\ index' = NoLock
  /\ UNCHANGED <<vars, podsLock, podsOrphaned, entries, tree, wanted, beside, podsPlan>>

PointIndex(b) ==
  /\ StepTo(b, "point", "xcode") /\ UnlockPods(b)
  /\ index' = tree.lock
  /\ UNCHANGED <<vars, podsOrphaned, entries, tree, wanted, beside, podsPlan>>

-----------------------------------------------------------------------------
(* A fresh workspace has no Pods.                                          *)
BuildEnters(b) ==
  /\ EnterCompiler(b)
  /\ step' = IF platform = "ios" THEN "restore" ELSE "xcode"
  /\ tree' = NoTree /\ wanted' = NoLock /\ beside' = NoPods
  /\ UNCHANGED <<cache, podsPlan>>

Leaves == step' = "none" /\ tree' = NoTree /\ wanted' = NoLock /\ beside' = NoPods

BuildCompiles(b) ==
  /\ step = "xcode" /\ Compile(b) /\ Leaves
  /\ UNCHANGED <<cache, podsPlan>>

BuildGoesOn(b) ==
  /\ Restore(b) \/ Decide(b) \/ Publish(b) \/ Release(b) \/ Finish(b)
  /\ UNCHANGED pods

BuildFails(b) ==
  /\ Fail(b)
  /\ IF Compiling(b)
       THEN UnlockPods(b) /\ Leaves
       ELSE UNCHANGED <<podsLock, local>>
  /\ UNCHANGED <<podsOrphaned, index, entries, podsPlan>>

(* What a prune took from under the build makes it fail.                   *)
PodsMissing(b) ==
  /\ Compiling(b)
  /\ \/ step = "copy" /\ ~Valid(entries[wanted])
     \/ step = "rename" /\ beside = NoPods
  /\ BuildFails(b)

PodsWork(b) ==
  \/ LockPods(b, "restore", "look", "install") \/ ReadIndex(b) \/ CheckPods(b) \/ CopyPods(b)
  \/ Install(b)
  \/ LockPods(b, "publish", "check", "xcode") \/ CheckEntry(b)
  \/ RemoveEntry(b) \/ EntryRemoved(b) \/ RenameEntry(b) \/ DropIndex(b) \/ PointIndex(b)

-----------------------------------------------------------------------------
(* prune                                                                   *)

(* Its plan has entries, copies beside them, and the index of an entry it  *)
(* deletes; so it has an index whose entry is not there, or was not when   *)
(* the entries were listed.                                                *)
PlanPods(p) ==
  /\ PlanDeletions(p)
  /\ \E chosen \in PodsPlans :
       /\ \A l \in chosen.entries : entries[l] # NoPods
       /\ \A b \in chosen.copies : compiler = b /\ beside # NoPods
       /\ chosen.index => index # NoLock
       /\ index \in chosen.entries \/ (index # NoLock /\ entries[index] = NoPods)
            => chosen.index
       /\ podsPlan' = [podsPlan EXCEPT ![p] = chosen]
  /\ UNCHANGED <<cache, local>>

(* The plan is worked off in the order of the paths, the native cache's    *)
(* first, and tears what was whole.                                        *)
DeletePods(p, l) ==
  /\ plan[p] = NoPlan /\ l \in podsPlan[p].entries
  /\ \E left \in PodsRemains(entries[l], "torn") :
       /\ entries' = [entries EXCEPT ![l] = left]
       /\ \/ UNCHANGED podsPlan
          \/ left = NoPods /\ podsPlan' = [podsPlan EXCEPT ![p].entries = @ \ {l}]
  /\ UNCHANGED <<vars, podsLock, podsOrphaned, index, local>>

(* It is deleted while its publication lasts, or else is of no interest.   *)
DeletePodsCopy(p, b) ==
  /\ plan[p] = NoPlan /\ b \in podsPlan[p].copies
  /\ \E left \in PodsEntries :
       /\ left \in IF compiler = b THEN PodsRemains(beside, "torn") ELSE {beside}
       /\ beside' = left
       /\ \/ UNCHANGED podsPlan
          \/ /\ compiler = b => left = NoPods
             /\ podsPlan' = [podsPlan EXCEPT ![p].copies = @ \ {b}]
  /\ UNCHANGED <<vars, cache, step, tree, wanted>>

DeleteIndex(p) ==
  /\ plan[p] = NoPlan /\ podsPlan[p].index
  /\ podsPlan[p].entries = {} /\ podsPlan[p].copies = {}
  /\ index' = NoLock
  /\ podsPlan' = [podsPlan EXCEPT ![p].index = FALSE]
  /\ UNCHANGED <<vars, podsLock, podsOrphaned, entries, local>>

BuildsPruned(p) ==
  \/ (ListLocks(p) \/ Delete(p)) /\ UNCHANGED pods
  \/ PlanPods(p)
  \/ \E l \in Locks : DeletePods(p, l)
  \/ \E b \in Builds : DeletePodsCopy(p, b)
  \/ DeleteIndex(p)
  \/ /\ PruneEnds(p)
     /\ podsPlan' = [podsPlan EXCEPT ![p] = NoPodsPlan]
     /\ UNCHANGED <<cache, local>>

BuildNext ==
  \/ \E b \in Builds :
       \/ Prepare(b) /\ UNCHANGED pods
       \/ Die(b) /\ UNCHANGED <<cache, step, tree, wanted, podsPlan>>
                 /\ beside' = IF compiler = b THEN NoPods ELSE beside
       \/ PodsWork(b) \/ PodsMissing(b) \/ BuildEnters(b) \/ BuildCompiles(b) \/ BuildGoesOn(b)
       \/ BuildFails(b)
  \/ \E p \in Prunes : BuildsPruned(p)

BuildFairness ==
  \A b \in Builds :
    /\ WF_buildVars(PodsWork(b) \/ PodsMissing(b) \/ BuildCompiles(b) \/ BuildGoesOn(b))
    /\ SF_buildVars(BuildEnters(b))

BuildSpec == BuildInit /\ [][BuildNext]_buildVars /\ BuildFairness

-----------------------------------------------------------------------------
(* Properties                                                              *)

BuildTypeOK ==
  /\ TypeOK
  /\ podsLock \in Builds \cup {Nobody} /\ podsOrphaned \in BOOLEAN
  /\ index \in Locks \cup {NoLock}
  /\ entries \in [Locks -> PodsEntries]
  /\ step \in Steps /\ tree \in Trees
  /\ wanted \in Locks \cup {NoLock} /\ beside \in PodsEntries
  /\ podsPlan \in [Prunes -> PodsPlans]

(* CacheLayout.ts:1, complete CocoaPods dependency trees: wherever builds  *)
(* fail or die while they replace an entry or an index, what xcodebuild    *)
(* gets, and what the cache has for valid, are whole trees, unless a prune *)
(* had begun to delete from one: it died there, or it went by locks listed *)
(* before and deleted while a build copied, published or checked the tree. *)
PodsComplete ==
  /\ tree.pods # "part"
  /\ \A l \in Locks : Valid(entries[l]) => entries[l].pods # "part"
=============================================================================
