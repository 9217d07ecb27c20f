----------------------- MODULE WorkspaceLifecycleProofs ----------------------
(***************************************************************************)
(* What holds of pruning for any number of builds, prunes, deaths and      *)
(* stalls.  That a prune never touches a workspace or cache while any lock *)
(* is active does not hold (a TLC run refutes it: locks are read first and *)
(* deletions happen later); the builds that were on record before the      *)
(* prune read the locks are safe, and that is proved here.  So is that in  *)
(* calm weather a workspace has one build at a time, always on record.     *)
(***************************************************************************)
EXTENDS WorkspaceLifecycle, TLAPS

USE DEF At, Goto, RemoveLock, Stages, Plan, NoPlan, locks, plans, disk

(* A plan with one or two of its parts replaced is a plan.                 *)
LEMMA PlanUpdates ==
  ASSUME NEW d \in Plan, NEW C \in SUBSET Caches, NEW W \in SUBSET Workspaces
  PROVE  /\ [d EXCEPT !.locks = W] \in Plan
         /\ [d EXCEPT !.trees = W] \in Plan
         /\ [d EXCEPT !.caches = C] \in Plan
         /\ [d EXCEPT !.trees = W, !.caches = C] \in Plan
  OBVIOUS

(* The types of the disk, the actors' progress and the plans of prunes.    *)
THEOREM TypeCorrect == Spec => []TypeOK
<1> USE WorkspaceOfType
<1>1. Init => TypeOK
  BY DEF Init, TypeOK
<1>2. TypeOK /\ [Next]_vars => TypeOK'
  <2> SUFFICES ASSUME TypeOK, [Next]_vars PROVE TypeOK'
    OBVIOUS
  <2> USE DEF TypeOK
  <2>0. CASE UNCHANGED vars
    BY <2>0 DEF vars
  <2> SUFFICES ASSUME Step, Remember, UNCHANGED calm PROVE TypeOK'
    BY <2>0 DEF Next
  <2>h. held' \in [Actors -> SUBSET Builds]
    BY DEF Remember, Recorded, Alive
  <2>a. Builds \subseteq Actors
    BY DEF Actors
  <2> USE <2>a
<2>1. ASSUME NEW b \in Builds, Acquire(b) PROVE TypeOK'
    <3> USE <2>h
    <3>1. CASE Start(b) \/ LookForLock(b)
      BY <3>1 DEF Start, LookForLock
    <3>2. CASE ReadOwner(b) \/ StatLock(b)
      BY <3>2 DEF ReadOwner, StatLock
    <3>3. CASE RemoveStale(b)
      BY <3>3 DEF RemoveStale
    <3>4. CASE MakeLock(b)
      BY <3>4 DEF MakeLock
    <3>5. CASE WriteOwner(b)
      BY <3>5 DEF WriteOwner
    <3>6. CASE WriteFails(b)
      BY <3>6 DEF WriteFails
    <3> QED
      BY <2>1, <3>1, <3>2, <3>3, <3>4, <3>5, <3>6 DEF Acquire
  <2>2. ASSUME NEW b \in Builds, Work(b) PROVE TypeOK'
    <3> USE <2>h
    <3>1. CASE Prepare(b)
      BY <3>1 DEF Prepare
    <3>2. CASE Compile(b)
      BY <3>2 DEF Compile
    <3>3. CASE Publish(b)
      BY <3>3 DEF Publish
    <3>4. CASE Sweep(b)
      BY <3>4 DEF Sweep
    <3> QED
      BY <2>2, <3>1, <3>2, <3>3, <3>4 DEF Work
  <2>3. ASSUME NEW b \in Builds, Release(b) PROVE TypeOK'
    <3> USE <2>h
    <3>1. CASE VerifyToken(b)
      <4>1. resume[b] \in Stages /\ pc' \in [Actors -> Stages]
        BY <3>1 DEF VerifyToken
      <4>2. resume' \in [Actors -> {"done", "failed", "look", "list"}]
        BY <3>1 DEF VerifyToken
      <4> QED
        BY <3>1, <4>1, <4>2 DEF VerifyToken
    <3>2. CASE Unlock(b)
      BY <3>2 DEF Unlock
    <3> QED
      BY <2>3, <3>1, <3>2 DEF Release
  <2>4. ASSUME NEW b \in Builds, Die(b) PROVE TypeOK'
    BY <2>h, <2>4 DEF Die
  <2>5. ASSUME NEW w \in Workspaces, Age(w) PROVE TypeOK'
    BY <2>h, <2>5 DEF Age
  <2>6. ASSUME NEW p \in Actors, Prune(p) PROVE TypeOK'
    <3> USE <2>h
    <3>0. CASE Command(p)
      BY <3>0 DEF Command
    <3>1. CASE ListLocks(p)
      <4>1. doomed' \in [Actors -> Plan]
        BY <3>1 DEF ListLocks
      <4> QED
        BY <3>1, <4>1 DEF ListLocks
    <3>2. CASE PlanDeletions(p)
      <4>1. PICK kept \in SUBSET (trees \ active[p]), evicted \in SUBSET caches :
              doomed' = [doomed EXCEPT ![p].trees = (trees \ active[p]) \ kept,
                                       ![p].caches = evicted]
        BY <3>2 DEF PlanDeletions
      <4>2. [doomed[p] EXCEPT !.trees = (trees \ active[p]) \ kept, !.caches = evicted]
              \in Plan
        <5>1. (trees \ active[p]) \ kept \in SUBSET Workspaces
              /\ evicted \in SUBSET Caches /\ doomed[p] \in Plan
          OBVIOUS
        <5> HIDE DEF Plan
        <5> QED
          BY <5>1, PlanUpdates
      <4>3. doomed' \in [Actors -> Plan]
        BY <4>1, <4>2
      <4> QED
        BY <3>2, <4>3 DEF PlanDeletions
    <3>3. CASE PruneEnds(p) \/ PlanFails(p)
      BY <3>3 DEF PruneEnds, PlanFails, PruneFails
    <3>4. CASE DryRun(p)
      BY <3>4 DEF DryRun
    <3>5. CASE Wipe(p)
      BY <3>5 DEF Wipe
    <3>6. ASSUME NEW w \in Workspaces, JudgeLock(p, w) PROVE TypeOK'
      <4>1. doomed' = doomed \/ doomed' = [doomed EXCEPT ![p].locks = @ \cup {w}]
        BY <3>6 DEF JudgeLock
      <4>2. [doomed[p] EXCEPT !.locks = @ \cup {w}] \in Plan
        <5>1. doomed[p].locks \cup {w} \in SUBSET Workspaces /\ doomed[p] \in Plan
          OBVIOUS
        <5> HIDE DEF Plan
        <5> QED
          BY <5>1, PlanUpdates
      <4>3. doomed' \in [Actors -> Plan]
        BY <4>1, <4>2
      <4> QED
        <5>1. pc' \in [Actors -> Stages]
          BY <3>6 DEF JudgeLock, PruneFails
        <5>2. /\ active' \in [Actors -> SUBSET Workspaces]
              /\ todo' \in [Actors -> SUBSET Workspaces]
          BY <3>6 DEF JudgeLock
        <5> QED
          BY <3>6, <4>3, <5>1, <5>2 DEF JudgeLock
    <3>7. ASSUME NEW w \in Workspaces, DeleteLock(p, w) PROVE TypeOK'
      <4>1. [doomed[p] EXCEPT !.locks = @ \ {w}] \in Plan
        <5>1. doomed[p].locks \ {w} \in SUBSET Workspaces /\ doomed[p] \in Plan
          OBVIOUS
        <5> HIDE DEF Plan
        <5> QED
          BY <5>1, PlanUpdates
      <4>2. doomed' \in [Actors -> Plan]
        BY <3>7, <4>1 DEF DeleteLock
      <4> QED
        BY <3>7, <4>2 DEF DeleteLock
    <3>8. ASSUME NEW w \in Workspaces, DeleteTree(p, w) PROVE TypeOK'
      <4>1. [doomed[p] EXCEPT !.trees = @ \ {w}] \in Plan
        <5>1. doomed[p].trees \ {w} \in SUBSET Workspaces /\ doomed[p] \in Plan
          OBVIOUS
        <5> HIDE DEF Plan
        <5> QED
          BY <5>1, PlanUpdates
      <4>2. doomed' \in [Actors -> Plan]
        BY <3>8, <4>1 DEF DeleteTree
      <4> QED
        BY <3>8, <4>2 DEF DeleteTree
    <3>9. ASSUME NEW c \in Caches, DeleteCache(p, c) PROVE TypeOK'
      <4>1. [doomed[p] EXCEPT !.caches = @ \ {c}] \in Plan
        <5>1. doomed[p].caches \ {c} \in SUBSET Caches /\ doomed[p] \in Plan
          OBVIOUS
        <5> HIDE DEF Plan
        <5> QED
          BY <5>1, PlanUpdates
      <4>2. doomed' \in [Actors -> Plan]
        BY <3>9, <4>1 DEF DeleteCache
      <4> QED
        BY <3>9, <4>2 DEF DeleteCache
    <3> QED
      BY <2>6, <3>0, <3>1, <3>2, <3>3, <3>4, <3>5, <3>6, <3>7, <3>8, <3>9 DEF Prune
  <2> QED
    BY <2>1, <2>2, <2>3, <2>4, <2>5, <2>6 DEF Step
<1> QED
  BY <1>1, <1>2, PTL DEF Spec

-----------------------------------------------------------------------------
(* What a prune under way owes the builds that were on record when it      *)
(* listed the locks and still are: each of their locks is still to judge   *)
(* or found active, none is planned for deletion, and once the plan is     *)
(* made neither are their workspaces nor, if there is one, any cache.      *)
Owes(p) ==
  /\ held[p] \subseteq Recorded
  /\ pc[p] \in {"judge", "delete"} =>
       \A b \in held[p] : WorkspaceOf[b] \notin doomed[p].locks
  /\ pc[p] = "judge" =>
       \A b \in held[p] : WorkspaceOf[b] \in todo[p] \cup active[p]
  /\ pc[p] = "delete" =>
       /\ \A b \in held[p] : WorkspaceOf[b] \notin doomed[p].trees
       /\ held[p] # {} => doomed[p].caches = {}
  /\ pc[p] = "wipe" => held[p] = {}

HeldInv == \A p \in Actors : Owes(p)

(* Unless a prune lists the locks, nobody joins those it has to spare.     *)
LEMMA HeldShrinks ==
  ASSUME TypeOK, Remember, NEW p \in Actors
  PROVE  /\ held'[p] \subseteq Recorded'
         /\ ListLocks(p) \/ held'[p] \subseteq held[p]
<1>1. held'[p] = IF ListLocks(p) THEN Recorded' ELSE held[p] \cap Recorded'
  BY DEF Remember
<1> QED
  BY <1>1

(* A step that leaves an actor's plan alone, and leaves it where it is or  *)
(* takes it out of the prune, keeps what the actor owes.                   *)
LEMMA OwesKept ==
  ASSUME TypeOK, Remember, HeldInv, NEW p \in Actors,
         todo'[p] = todo[p], active'[p] = active[p], doomed'[p] = doomed[p],
         pc'[p] = pc[p] \/ pc'[p] \notin {"judge", "delete", "wipe"}
  PROVE  Owes(p)'
<1>1. Owes(p)
  BY DEF HeldInv
<1>2. ASSUME ListLocks(p) PROVE FALSE
  <2>1. pc[p] = "list" /\ pc'[p] = "judge"
    BY <1>2 DEF ListLocks, TypeOK
  <2> QED
    BY <2>1
<1>3. held'[p] \subseteq Recorded' /\ held'[p] \subseteq held[p]
  BY <1>2, HeldShrinks
<1> QED
  BY <1>1, <1>3 DEF Owes

(* A step that only moves one actor out of, or not into, a prune.          *)
LEMMA OwesElsewhere ==
  ASSUME TypeOK, Remember, HeldInv, UNCHANGED plans, NEW q \in Actors,
         \A p \in Actors : p # q => pc'[p] = pc[p],
         pc'[q] = pc[q] \/ pc'[q] \notin {"judge", "delete", "wipe"}
  PROVE  HeldInv'
<1> SUFFICES ASSUME NEW p \in Actors PROVE Owes(p)'
  BY DEF HeldInv
<1>1. todo'[p] = todo[p] /\ active'[p] = active[p] /\ doomed'[p] = doomed[p]
  OBVIOUS
<1>2. pc'[p] = pc[p] \/ pc'[p] \notin {"judge", "delete", "wipe"}
  OBVIOUS
<1> QED
  BY <1>1, <1>2, OwesKept

(* Every step of Next keeps the debts of every prune.                      *)
LEMMA OwesStep ==
  ASSUME TypeOK, HeldInv, [Next]_vars
  PROVE  HeldInv'
<1> USE WorkspaceOfType
<1>0. CASE UNCHANGED vars
  BY <1>0 DEF vars, HeldInv, Owes, Recorded, Alive
<1> SUFFICES ASSUME Step, Remember PROVE HeldInv'
  BY <1>0 DEF Next
<1>a. Builds \subseteq Actors
  BY DEF Actors
<1>1. ASSUME NEW b \in Builds, Acquire(b) \/ Work(b) \/ Release(b) \/ Die(b)
      PROVE  HeldInv'
  <2>1. UNCHANGED plans
    BY <1>1 DEF Acquire, Work, Release, Start, LookForLock, ReadOwner, StatLock,
         RemoveStale, MakeLock, WriteOwner, WriteFails, Prepare, Compile, Publish,
         Sweep, VerifyToken, Unlock, Die
  <2>2. \E stage \in Stages \ {"judge", "delete", "wipe"} : Goto(b, stage)
    <3> USE DEF TypeOK
    <3>1. CASE Acquire(b)
      BY <3>1 DEF Acquire, Start, LookForLock, ReadOwner, StatLock, RemoveStale,
           MakeLock, WriteOwner, WriteFails
    <3>2. CASE Work(b)
      BY <3>2 DEF Work, Prepare, Compile, Publish, Sweep
    <3>3. CASE Release(b)
      <4>1. resume[b] \in Stages \ {"judge", "delete", "wipe"}
        BY <1>a
      <4>2. Goto(b, "unlock") \/ Goto(b, resume[b])
        BY <3>3 DEF Release, VerifyToken, Unlock
      <4> QED
        BY <4>1, <4>2
    <3>4. CASE Die(b)
      BY <3>4 DEF Die
    <3> QED
      BY <1>1, <3>1, <3>2, <3>3, <3>4
  <2>3. /\ \A p \in Actors : p # b => pc'[p] = pc[p]
        /\ pc'[b] \notin {"judge", "delete", "wipe"}
    BY <2>2, <1>a DEF TypeOK
  <2> QED
    BY <2>1, <2>3, <1>a, OwesElsewhere
<1>2. ASSUME NEW w \in Workspaces, Age(w) PROVE HeldInv'
  <2>1. UNCHANGED plans /\ pc' = pc
    BY <1>2 DEF Age
  <2>2. \A p \in Actors : Owes(p)'
    BY <2>1, OwesKept
  <2> QED
    BY <2>2 DEF HeldInv
<1>3. ASSUME NEW q \in Actors, Prune(q) PROVE HeldInv'
  <2>1. CASE Command(q) \/ PruneEnds(q) \/ PlanFails(q)
    <3>1. UNCHANGED plans
      BY <2>1 DEF Command, PruneEnds, PlanFails
    <3>2. \E stage \in Stages \ {"judge", "delete", "wipe"} : Goto(q, stage)
      BY <2>1 DEF Command, PruneEnds, PlanFails, PruneFails, TypeOK
    <3>3. /\ \A p \in Actors : p # q => pc'[p] = pc[p]
          /\ pc'[q] \notin {"judge", "delete", "wipe"}
      BY <3>2 DEF TypeOK
    <3> QED
      BY <3>1, <3>3, OwesElsewhere
  <2>2. CASE ~(Command(q) \/ PruneEnds(q) \/ PlanFails(q))
    <3>1. Owes(q)
      BY DEF HeldInv
    <3>2. \A p \in Actors : p # q =>
            /\ todo'[p] = todo[p] /\ active'[p] = active[p]
            /\ doomed'[p] = doomed[p] /\ (pc'[p] = pc[p] \/ pc'[p] = "done")
      BY <1>3, <2>2 DEF Prune, ListLocks, PlanDeletions, DryRun, Wipe, JudgeLock,
           PruneFails, DeleteLock, DeleteTree, DeleteCache, TypeOK
    <3>3. \A p \in Actors : p # q => Owes(p)'
      BY <3>2, OwesKept
    <3>4. Owes(q)'
      <4>1. CASE ListLocks(q)
        BY <4>1, HeldShrinks DEF ListLocks, Owes, TypeOK, Recorded
      <4> SUFFICES ASSUME ~ListLocks(q) PROVE Owes(q)'
        BY <4>1
      <4>h. held'[q] \subseteq Recorded' /\ held'[q] \subseteq held[q]
        BY HeldShrinks
      <4>2. CASE PlanDeletions(q)
        <5>1. PICK kept \in SUBSET (trees \ active[q]), evicted \in SUBSET caches :
                /\ active[q] # {} => evicted = {}
                /\ doomed' = [doomed EXCEPT ![q].trees = (trees \ active[q]) \ kept,
                                            ![q].caches = evicted]
          BY <4>2 DEF PlanDeletions
        <5>2. /\ doomed'[q].trees = (trees \ active[q]) \ kept
              /\ doomed'[q].caches = evicted
              /\ doomed'[q].locks = doomed[q].locks
          BY <5>1 DEF TypeOK
        <5>3. pc[q] = "judge" /\ todo[q] = {} /\ pc'[q] = "delete"
          BY <4>2 DEF PlanDeletions, TypeOK
        <5> QED
          BY <3>1, <4>h, <5>1, <5>2, <5>3 DEF Owes
      <4>3. CASE DryRun(q)
        <5>1. pc[q] = "judge" /\ todo[q] = {} /\ pc'[q] \in {"wipe", "failed"}
              /\ (pc'[q] = "wipe" => active[q] = {})
          BY <4>3 DEF DryRun, TypeOK
        <5> QED
          BY <3>1, <4>h, <5>1 DEF Owes
      <4>4. CASE Wipe(q)
        BY <3>1, <4>4, <4>h DEF Wipe, Owes, TypeOK
      <4>5. ASSUME NEW w \in Workspaces, JudgeLock(q, w) PROVE Owes(q)'
        <5>1. pc[q] = "judge" /\ todo'[q] = todo[q] \ {w}
          BY <4>5 DEF JudgeLock, TypeOK
        <5>2. ASSUME NEW b \in held'[q]
              PROVE  /\ w = WorkspaceOf[b] => w \in made /\ Protected(w)
                     /\ WorkspaceOf[b] \in todo[q] \cup active[q]
                     /\ WorkspaceOf[b] \notin doomed[q].locks
          BY <3>1, <4>h, <5>1, <5>2 DEF Owes, Recorded, Protected
        <5>3. CASE Protected(w)
          <6>1. \/ /\ active'[q] = active[q] \cup {w}
                   /\ pc'[q] = pc[q] /\ doomed'[q] = doomed[q]
                \/ pc'[q] \in {"failed", "done"}
            BY <4>5, <5>3 DEF JudgeLock, PruneFails, TypeOK
          <6> QED
            BY <4>h, <5>1, <5>2, <6>1 DEF Owes
        <5>4. CASE ~Protected(w)
          <6>1. \/ /\ doomed'[q].locks = doomed[q].locks \cup {w}
                   /\ active'[q] = active[q] /\ pc'[q] = pc[q]
                \/ pc'[q] \in {"failed", "done"}
            BY <4>5, <5>4 DEF JudgeLock, PruneFails, TypeOK
          <6>2. \A b \in held'[q] : w # WorkspaceOf[b]
            BY <5>2, <5>4
          <6> QED
            BY <4>h, <5>1, <5>2, <6>1, <6>2 DEF Owes
        <5> QED
          BY <5>3, <5>4
      <4>6. ASSUME NEW w \in Workspaces, DeleteLock(q, w) \/ DeleteTree(q, w)
            PROVE  Owes(q)'
        <5>1. /\ pc'[q] = pc[q] /\ pc[q] = "delete"
              /\ doomed'[q].locks \subseteq doomed[q].locks
              /\ doomed'[q].trees \subseteq doomed[q].trees
              /\ doomed'[q].caches = doomed[q].caches
          BY <4>6 DEF DeleteLock, DeleteTree, TypeOK
        <5> QED
          BY <3>1, <4>h, <5>1 DEF Owes
      <4>7. ASSUME NEW c \in Caches, DeleteCache(q, c) PROVE Owes(q)'
        <5>1. /\ pc'[q] = pc[q] /\ pc[q] = "delete"
              /\ doomed'[q].locks = doomed[q].locks
              /\ doomed'[q].trees = doomed[q].trees
              /\ doomed'[q].caches \subseteq doomed[q].caches
          BY <4>7 DEF DeleteCache, TypeOK
        <5> QED
          BY <3>1, <4>h, <5>1 DEF Owes
      <4> QED
        BY <1>3, <2>2, <4>2, <4>3, <4>4, <4>5, <4>6, <4>7 DEF Prune
    <3> QED
      BY <3>3, <3>4 DEF HeldInv
  <2> QED
    BY <2>1, <2>2
<1> QED
  BY <1>1, <1>2, <1>3 DEF Step

(* Every prune under way owes what Owes says, in every behaviour.          *)
THEOREM DebtsKept == Spec => []HeldInv
<1>1. Init => HeldInv
  BY DEF Init, HeldInv, Owes
<1>2. TypeOK /\ HeldInv /\ [Next]_vars => HeldInv'
  BY OwesStep
<1> QED
  BY <1>1, <1>2, TypeCorrect, PTL DEF Spec

(* docs/architecture.md:323, as far as it holds: a prune never deletes the *)
(* lock, the workspace or a cache of a build that was on record before the *)
(* prune read the locks and still is.                                      *)
THEOREM HeldBuildsSafe == Spec => []HeldBuildsSpared
<1>1. HeldInv => HeldBuildsSpared
  BY DEF HeldInv, Owes, HeldBuildsSpared, At
<1> QED
  BY <1>1, DebtsKept, PTL

-----------------------------------------------------------------------------
(* Calm weather.  A lock directory without a record is young and its build *)
(* is about to write it; nobody takes it for stale, so no build removes a  *)
(* lock and no prune plans to; and a build in its scope is on record.      *)
WriterWaits ==
  \A b \in Builds : At(b, "write") =>
    WorkspaceOf[b] \in made /\ WorkspaceOf[b] \in young /\ owner[WorkspaceOf[b]] = Nobody

OneWriter ==
  \A b, c \in Builds :
    At(b, "write") /\ At(c, "write") /\ WorkspaceOf[b] = WorkspaceOf[c] => b = c

OwnedOrWritten ==
  \A w \in made :
    owner[w] \in Builds \/ \E b \in Builds : WorkspaceOf[b] = w /\ At(b, "write")

NoneStale ==
  \A b \in Builds :
    /\ ~At(b, "remove") /\ ~At(b, "dead")
    /\ At(b, "stat") /\ WorkspaceOf[b] \in made => WorkspaceOf[b] \in young

NoneDoomed ==
  /\ \A p \in Actors : doomed[p].locks = {} /\ ~At(p, "wipe")
  /\ \A p \in Cleaners : At(p, "idle")

ScopeLocked ==
  \A b \in Builds : InScope(b) =>
    WorkspaceOf[b] \in made /\ owner[WorkspaceOf[b]] = b

Orderly ==
  WriterWaits /\ OneWriter /\ OwnedOrWritten /\ NoneStale /\ NoneDoomed /\ ScopeLocked

OrderlyWhenCalm == calm => Orderly

(* A step that leaves the locks alone, dooms none of them and moves one    *)
(* actor, neither from nor to a place where a lock is about to change      *)
(* unless it is that of a release.                                         *)
LEMMA OrderlyMove ==
  ASSUME TypeOK, Orderly, UNCHANGED locks, NEW q \in Actors,
         \A p \in Actors : p # q => pc'[p] = pc[p],
         q \notin Cleaners, pc[q] # "write",
         pc'[q] \notin {"write", "remove", "dead", "wipe"},
         q \in Builds =>
           /\ pc'[q] = "stat" /\ WorkspaceOf[q] \in made => WorkspaceOf[q] \in young
           /\ InScope(q)' => InScope(q),
         \A p \in Actors : doomed'[p].locks = {}
  PROVE  Orderly'
<1> USE WorkspaceOfType DEF Orderly
<1>a. Builds \subseteq Actors /\ Cleaners \subseteq Actors
  BY DEF Actors
<1>w. \A b \in Builds : At(b, "write")' <=> At(b, "write")
  BY <1>a
<1>1. WriterWaits'
  BY <1>w DEF WriterWaits
<1>2. OneWriter'
  BY <1>w DEF OneWriter
<1>3. OwnedOrWritten'
  BY <1>w DEF OwnedOrWritten
<1>4. NoneStale'
  BY <1>a DEF NoneStale
<1>5. NoneDoomed'
  BY <1>a DEF NoneDoomed
<1>6. ScopeLocked'
  BY <1>a DEF ScopeLocked, InScope
<1> QED
  BY <1>1, <1>2, <1>3, <1>4, <1>5, <1>6

(* Every lock is that of a live build or of one about to be.               *)
LEMMA AllProtected ==
  ASSUME TypeOK, Orderly, NEW w \in made
  PROVE  Protected(w) /\ (owner[w] = Nobody => w \in young)
<1>1. CASE owner[w] \in Builds
  BY <1>1, NobodyFresh DEF Orderly, NoneStale, Protected, Alive
<1>2. CASE owner[w] \notin Builds
  BY <1>2 DEF Orderly, OwnedOrWritten, WriterWaits, Protected
<1> QED
  BY <1>1, <1>2

(* The steps of a build keep order.                                        *)
LEMMA OrderlyBuild ==
  ASSUME TypeOK, calm, Orderly, NEW b \in Builds,
         Acquire(b) \/ Work(b) \/ Release(b) \/ Die(b)
  PROVE  Orderly'
<1> USE WorkspaceOfType
<1>a. Builds \subseteq Actors /\ b \notin Cleaners
  BY ActorKinds DEF Actors
<1>d. \A p \in Actors : doomed[p].locks = {}
  BY DEF Orderly, NoneDoomed
<1> DEFINE w == WorkspaceOf[b]
<1>1. CASE Start(b) \/ LookForLock(b) \/ StatLock(b)
  <2>1. /\ UNCHANGED locks /\ UNCHANGED doomed
        /\ \A p \in Actors : p # b => pc'[p] = pc[p]
        /\ pc[b] # "write" /\ pc'[b] \in {"look", "list", "read", "mkdir", "failed"}
    <3>1. pc[b] = "stat" => ~(w \in made /\ w \notin young)
      BY DEF Orderly, NoneStale
    <3> QED
      BY <1>1, <3>1, <1>a DEF Start, LookForLock, StatLock, TypeOK
  <2> QED
    BY <1>a, <1>d, <2>1, OrderlyMove DEF InScope
<1>2. CASE ReadOwner(b)
  <2>1. owner[w] \in Builds => owner[w] \in Alive
    BY DEF Orderly, NoneStale, Alive
  <2>2. w \in made /\ owner[w] = Nobody => w \in young
    BY AllProtected
  <2>3. /\ UNCHANGED locks /\ UNCHANGED doomed
        /\ \A p \in Actors : p # b => pc'[p] = pc[p]
        /\ pc[b] = "read" /\ pc'[b] \in {"stat", "failed"}
        /\ pc'[b] = "stat" => owner[w] = Nobody
    BY <1>2, <2>1, <1>a DEF ReadOwner, TypeOK
  <2> QED
    BY <1>a, <1>d, <2>2, <2>3, OrderlyMove DEF InScope
<1>3. CASE RemoveStale(b) \/ WriteFails(b) \/ Die(b)
  BY <1>3 DEF RemoveStale, WriteFails, Die, Orderly, NoneStale, WriterWaits
<1>4. CASE MakeLock(b)
  <2>1. CASE w \in made
    <3>1. /\ UNCHANGED locks /\ UNCHANGED doomed
          /\ \A p \in Actors : p # b => pc'[p] = pc[p]
          /\ pc[b] = "mkdir" /\ pc'[b] = "failed"
      BY <1>4, <2>1, <1>a DEF MakeLock, TypeOK
    <3> QED
      BY <1>a, <1>d, <3>1, OrderlyMove DEF InScope
  <2>2. CASE w \notin made
    <3>1. /\ made' = made \cup {w} /\ young' = young \cup {w} /\ owner' = owner
          /\ pc' = [pc EXCEPT ![b] = "write"] /\ UNCHANGED doomed
          /\ pc[b] = "mkdir" /\ owner[w] = Nobody
      BY <1>4, <2>2 DEF MakeLock, TypeOK
    <3>2. pc'[b] = "write" /\ \A p \in Actors : p # b => pc'[p] = pc[p]
      BY <3>1, <1>a DEF TypeOK
    <3>n. \A c \in Builds : WorkspaceOf[c] = w => pc[c] # "write"
      BY <2>2 DEF Orderly, WriterWaits
    <3>3. WriterWaits'
      BY <1>a, <3>1, <3>2 DEF Orderly, WriterWaits
    <3>4. OneWriter'
      BY <1>a, <3>2, <3>n DEF Orderly, OneWriter
    <3>5. OwnedOrWritten'
      <4> SUFFICES ASSUME NEW v \in made'
                   PROVE  owner'[v] \in Builds \/ \E c \in Builds : WorkspaceOf[c] = v /\ At(c, "write")'
        BY DEF OwnedOrWritten
      <4>1. CASE v = w
        BY <4>1, <3>2
      <4>2. CASE v # w
        BY <4>2, <3>1, <3>2, <1>a DEF Orderly, OwnedOrWritten
      <4> QED
        BY <4>1, <4>2
    <3>6. NoneStale'
      BY <1>a, <3>1, <3>2 DEF Orderly, NoneStale
    <3>7. NoneDoomed'
      BY <1>a, <3>1, <3>2, ActorKinds DEF Orderly, NoneDoomed, Actors
    <3>8. ScopeLocked'
      BY <1>a, <3>1, <3>2 DEF Orderly, ScopeLocked, InScope
    <3> QED
      BY <3>3, <3>4, <3>5, <3>6, <3>7, <3>8 DEF Orderly
  <2> QED
    BY <2>1, <2>2
<1>5. CASE WriteOwner(b)
  <2>1. /\ pc[b] = "write" /\ w \in made /\ UNCHANGED <<made, young, doomed>>
        /\ owner'[w] = b /\ \A v \in Workspaces : v # w => owner'[v] = owner[v]
        /\ pc'[b] = "prepare" /\ \A p \in Actors : p # b => pc'[p] = pc[p]
    BY <1>5, <1>a DEF WriteOwner, TypeOK
  <2>n. \A c \in Builds : c # b /\ WorkspaceOf[c] = w => pc[c] # "write" /\ ~InScope(c)
    <3>1. owner[w] = Nobody
      BY <2>1 DEF Orderly, WriterWaits
    <3> QED
      BY <2>1, <3>1, NobodyFresh DEF Orderly, OneWriter, ScopeLocked
  <2>3. WriterWaits'
    BY <1>a, <2>1, <2>n DEF Orderly, WriterWaits
  <2>4. OneWriter'
    BY <1>a, <2>1 DEF Orderly, OneWriter
  <2>5. OwnedOrWritten'
    <3> SUFFICES ASSUME NEW v \in made'
                 PROVE  owner'[v] \in Builds \/ \E c \in Builds : WorkspaceOf[c] = v /\ At(c, "write")'
      BY DEF OwnedOrWritten
    <3>1. CASE v = w
      BY <3>1, <2>1
    <3>2. CASE v # w
      BY <3>2, <2>1, <1>a DEF Orderly, OwnedOrWritten, TypeOK
    <3> QED
      BY <3>1, <3>2
  <2>6. NoneStale'
    BY <1>a, <2>1 DEF Orderly, NoneStale
  <2>7. NoneDoomed'
    BY <1>a, <2>1, ActorKinds DEF Orderly, NoneDoomed, Actors
  <2>8. ScopeLocked'
    BY <1>a, <2>1, <2>n DEF Orderly, ScopeLocked, InScope
  <2> QED
    BY <2>3, <2>4, <2>5, <2>6, <2>7, <2>8 DEF Orderly
<1>6. CASE Work(b)
  <2>1. /\ UNCHANGED locks /\ UNCHANGED doomed
        /\ \A p \in Actors : p # b => pc'[p] = pc[p]
        /\ pc[b] \in {"prepare", "compile", "publish", "sweep"}
        /\ pc'[b] \in {"compile", "publish", "sweep", "verify"}
    BY <1>6, <1>a DEF Work, Prepare, Compile, Publish, Sweep, TypeOK
  <2> QED
    BY <1>a, <1>d, <2>1, OrderlyMove DEF InScope
<1>7. CASE VerifyToken(b)
  <2>1. resume[b] \in {"done", "failed", "look", "list"}
    BY <1>a DEF TypeOK
  <2>2. /\ UNCHANGED locks /\ UNCHANGED doomed
        /\ \A p \in Actors : p # b => pc'[p] = pc[p]
        /\ pc[b] = "verify" /\ pc'[b] \in {"unlock", "done", "failed", "look", "list"}
    BY <1>7, <2>1, <1>a DEF VerifyToken, TypeOK
  <2> QED
    BY <1>a, <1>d, <2>2, OrderlyMove DEF InScope
<1>8. CASE Unlock(b)
  <2>1. resume[b] \in {"done", "failed", "look", "list"}
    BY <1>a DEF TypeOK
  <2>2. /\ pc[b] = "unlock" /\ UNCHANGED doomed
        /\ made' = made \ {w} /\ young' = young \ {w}
        /\ \A v \in Workspaces : v # w => owner'[v] = owner[v]
        /\ pc'[b] \in {"done", "failed", "look", "list"}
        /\ \A p \in Actors : p # b => pc'[p] = pc[p]
    BY <1>8, <2>1, <1>a DEF Unlock, TypeOK
  <2>n. \A c \in Builds : c # b /\ WorkspaceOf[c] = w => pc[c] # "write" /\ ~InScope(c)
    <3>1. owner[w] = b
      BY <2>2 DEF Orderly, ScopeLocked, InScope
    <3> QED
      BY <3>1, NobodyFresh DEF Orderly, WriterWaits, ScopeLocked
  <2>3. WriterWaits'
    BY <1>a, <2>2, <2>n DEF Orderly, WriterWaits
  <2>4. OneWriter'
    BY <1>a, <2>2 DEF Orderly, OneWriter
  <2>5. OwnedOrWritten'
    BY <1>a, <2>2 DEF Orderly, OwnedOrWritten, TypeOK
  <2>6. NoneStale'
    BY <1>a, <2>2 DEF Orderly, NoneStale
  <2>7. NoneDoomed'
    BY <1>a, <2>2, ActorKinds DEF Orderly, NoneDoomed, Actors
  <2>8. ScopeLocked'
    BY <1>a, <2>2, <2>n DEF Orderly, ScopeLocked, InScope
  <2> QED
    BY <2>3, <2>4, <2>5, <2>6, <2>7, <2>8 DEF Orderly
<1> QED
  BY <1>1, <1>2, <1>3, <1>4, <1>5, <1>6, <1>7, <1>8 DEF Acquire, Release

(* The steps of a prune keep order.                                        *)
LEMMA OrderlyPrune ==
  ASSUME TypeOK, calm, Orderly, NEW q \in Actors, Prune(q)
  PROVE  Orderly'
<1> USE WorkspaceOfType
<1>1. q \notin Cleaners
  BY ActorKinds DEF Orderly, NoneDoomed, Prune, Command, ListLocks, PlanDeletions, PlanFails, PruneEnds,
       DryRun, Wipe, JudgeLock, DeleteLock, DeleteTree, DeleteCache
<1>2. /\ UNCHANGED locks
      /\ \A p \in Actors : p # q => pc'[p] = pc[p] /\ doomed'[p].locks = doomed[p].locks
      /\ pc[q] # "write"
      /\ pc'[q] \in {"list", "judge", "delete", "done", "failed", "look"}
      /\ doomed'[q].locks = {}
  <2>d. doomed[q].locks = {} /\ pc[q] # "wipe"
    BY DEF Orderly, NoneDoomed
  <2> USE DEF TypeOK
  <2>1. CASE Command(q) \/ PruneEnds(q) \/ PlanFails(q)
    <3>1. resume[q] \in {"done", "failed", "look", "list"}
      OBVIOUS
    <3> QED
      BY <2>1, <3>1, <2>d DEF Command, PruneEnds, PlanFails, PruneFails
  <2>2. CASE ListLocks(q)
    BY <2>2 DEF ListLocks
  <2>3. CASE PlanDeletions(q)
    BY <2>3, <2>d DEF PlanDeletions
  <2>4. CASE DryRun(q) \/ Wipe(q)
    BY <2>4, <2>d, <1>1 DEF DryRun, Wipe
  <2>5. ASSUME NEW w \in Workspaces, JudgeLock(q, w) PROVE <1>2!:
    <3>1. w \in made => Protected(w)
      BY AllProtected
    <3> QED
      BY <2>5, <3>1, <2>d DEF JudgeLock, PruneFails
  <2>6. ASSUME NEW w \in Workspaces, DeleteLock(q, w) \/ DeleteTree(q, w) PROVE <1>2!:
    BY <2>6, <2>d DEF DeleteLock, DeleteTree
  <2>7. ASSUME NEW c \in Caches, DeleteCache(q, c) PROVE <1>2!:
    BY <2>7, <2>d DEF DeleteCache
  <2> QED
    BY <2>1, <2>2, <2>3, <2>4, <2>5, <2>6, <2>7 DEF Prune
<1>3. \A p \in Actors : doomed'[p].locks = {}
  BY <1>2 DEF Orderly, NoneDoomed
<1> QED
  BY <1>1, <1>2, <1>3, OrderlyMove DEF InScope

(* In calm weather order is kept by every step.                            *)
LEMMA OrderlyStep ==
  ASSUME TypeOK, OrderlyWhenCalm, [Next]_vars
  PROVE  OrderlyWhenCalm'
<1> USE WorkspaceOfType
<1>0. CASE UNCHANGED vars
  BY <1>0 DEF vars, OrderlyWhenCalm, Orderly, WriterWaits, OneWriter, OwnedOrWritten, NoneStale,
       NoneDoomed, ScopeLocked, InScope
<1> SUFFICES ASSUME Step, calm, Orderly PROVE Orderly'
  BY <1>0 DEF Next, OrderlyWhenCalm
<1>1. ASSUME NEW w \in Workspaces, Age(w) PROVE Orderly'
  <2>1. /\ \A b \in Builds : pc[b] \in {"write", "stat"} => WorkspaceOf[b] # w
        /\ young' = young \ {w} /\ UNCHANGED <<pc, made, owner, doomed>>
    BY <1>1 DEF Age
  <2>2. (WriterWaits /\ NoneStale)'
    BY <2>1 DEF Orderly, WriterWaits, NoneStale
  <2>3. (OneWriter /\ OwnedOrWritten /\ NoneDoomed /\ ScopeLocked)'
    BY <2>1 DEF Orderly, OneWriter, OwnedOrWritten, NoneDoomed, ScopeLocked, InScope
  <2> QED
    BY <2>2, <2>3 DEF Orderly
<1> QED
  BY <1>1, OrderlyBuild, OrderlyPrune DEF Step

(* docs/architecture.md:322, as far as it holds: while no process dies or  *)
(* stalls and nobody cleans all, the lock of a workspace records the build *)
(* that is in its scope, from the record to the release.                   *)
THEOREM ScopesRecorded == Spec => []ScopeRecordedWhenCalm
<1>1. Init => OrderlyWhenCalm
  BY DEF Init, OrderlyWhenCalm, Orderly, WriterWaits, OneWriter, OwnedOrWritten, NoneStale,
       NoneDoomed, ScopeLocked, InScope, Actors
<1>2. TypeOK /\ OrderlyWhenCalm /\ [Next]_vars => OrderlyWhenCalm'
  BY OrderlyStep
<1>3. OrderlyWhenCalm => ScopeRecordedWhenCalm
  BY DEF OrderlyWhenCalm, Orderly, ScopeLocked, ScopeRecordedWhenCalm, ScopeRecorded
<1> QED
  BY <1>1, <1>2, <1>3, TypeCorrect, PTL DEF Spec
=============================================================================
