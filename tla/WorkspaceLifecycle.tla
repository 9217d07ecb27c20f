-------------------------- MODULE WorkspaceLifecycle -------------------------
(***************************************************************************)
(* Workspace locks against pruning: acquireWorkspace, prune,               *)
(* pruneBeforeBuild, cleanAll and publishNativeProduct of                  *)
(* tooling/compatibility-harness/src/artifacts/ArtifactLifecycle.ts, in    *)
(* the order AppBuildExecutor.execute calls them.                          *)
(*                                                                         *)
(* Harness processes share the .artifacts directory and nothing else.  A   *)
(* build locks its workspace, a prune first reads every lock, plans what   *)
(* to delete and then deletes it, path by path: locks, caches, workspaces. *)
(* A build prunes before (short of disk) and after itself; a pruner or a   *)
(* cleaner is the process of an artifacts command.                         *)
(***************************************************************************)
EXTENDS Naturals, FiniteSets

CONSTANTS
  Builds,      (* calls of execute, each in a process of its own           *)
  Web,         (* the builds for the web: nothing to publish, no prune     *)
  Pruners,     (* artifacts-prune processes                                *)
  Cleaners,    (* artifacts-clean --all processes                          *)
  Workspaces,
  WorkspaceOf, (* workspaceName: the workspace of each build               *)
  Caches,      (* entries of the Pods and native caches                    *)
  Faulty,      (* builds whose process may die or fail to write its owner  *)
  Nobody       (* owner.json is missing, or is not a whole owner record    *)

Actors == Builds \cup Pruners \cup Cleaners

ASSUME ActorKinds ==
  /\ Builds \cap (Pruners \cup Cleaners) = {}
  /\ Pruners \cap Cleaners = {}
  /\ Web \subseteq Builds /\ Faulty \subseteq Builds
ASSUME WorkspaceOfType == WorkspaceOf \in [Builds -> Workspaces]
ASSUME NobodyFresh == Nobody \notin Builds

VARIABLES
  calm,    (* the environment: nobody dies or stalls, nobody cleans all    *)
  pc,      (* the next file-system call of each actor                      *)
  resume,  (* where an actor goes on after a prune or a release            *)
  made,    (* the workspaces whose lock directory exists                   *)
  owner,   (* what owner.json of each lock holds                           *)
  young,   (* locks with an mtime within lockInitializationGrace           *)
  trees,   (* the workspace directories                                    *)
  caches,  (* the cache entries on disk                                    *)
  todo,    (* of a prune: the listed locks still to judge                  *)
  active,  (* of a prune: activeWorkspaces                                 *)
  doomed,  (* of a prune: the entries it decided to delete, as a plan      *)
  held     (* history, not code: the builds that were recorded when a      *)
           (* prune listed the locks and have been recorded ever since     *)

locks == <<made, owner, young>>
plans == <<todo, active, doomed>>
disk == <<made, owner, young, trees, caches>>
vars ==
  <<calm, pc, resume, made, owner, young, trees, caches, todo, active, doomed, held>>

Stages ==
  {"idle", "look", "read", "stat", "remove", "mkdir", "write", "prepare", "compile",
   "publish", "sweep", "verify", "unlock", "list", "judge", "plan", "delete", "wipe",
   "done", "failed", "dead"}

Plan == [locks : SUBSET Workspaces, caches : SUBSET Caches, trees : SUBSET Workspaces]
NoPlan == [locks |-> {}, caches |-> {}, trees |-> {}]

At(p, stage) == pc[p] = stage
Goto(p, stage) == pc' = [pc EXCEPT ![p] = stage]

(* process.kill(pid, 0): the builds whose process still runs.              *)
Alive == {b \in Builds : pc[b] # "dead"}

(* The builds whose lock is on disk and names them.                        *)
Recorded == {b \in Alive : WorkspaceOf[b] \in made /\ owner[WorkspaceOf[b]] = b}

RemoveLock(w) ==
  /\ made' = made \ {w}
  /\ owner' = [owner EXCEPT ![w] = Nobody]
  /\ young' = young \ {w}

Init ==
  /\ calm \in BOOLEAN
  /\ pc = [p \in Actors |-> "idle"]
  /\ resume = [p \in Actors |-> "done"]
  /\ made = {} /\ owner = [w \in Workspaces |-> Nobody] /\ young = {}
  /\ trees \in SUBSET Workspaces
  /\ caches = Caches
  /\ todo = [p \in Actors |-> {}]
  /\ active = [p \in Actors |-> {}]
  /\ doomed = [p \in Actors |-> NoPlan]
  /\ held = [p \in Actors |-> {}]

-----------------------------------------------------------------------------
(* acquireWorkspace                                                        *)

(* execute: below the free-space floor pruneBeforeBuild prunes first.      *)
Start(b) ==
  /\ At(b, "idle")
  /\ \/ Goto(b, "look") /\ UNCHANGED resume
     \/ Goto(b, "list") /\ resume' = [resume EXCEPT ![b] = "look"]
  /\ UNCHANGED <<disk, plans>>

LookForLock(b) ==
  /\ At(b, "look")
  /\ Goto(b, IF WorkspaceOf[b] \in made THEN "read" ELSE "mkdir")
  /\ UNCHANGED <<resume, disk, plans>>

(* A live owner refuses the build; one that is dead is removed.            *)
ReadOwner(b) ==
  LET o == owner[WorkspaceOf[b]] IN
  /\ At(b, "read")
  /\ \/ o \in Alive /\ Goto(b, "failed")
     \/ o \in Builds \ Alive /\ Goto(b, "remove")
     \/ o = Nobody /\ Goto(b, "stat")
  /\ UNCHANGED <<resume, disk, plans>>

(* stat of a directory that is gone fails; a young one is initializing.    *)
StatLock(b) ==
  LET w == WorkspaceOf[b] IN
  /\ At(b, "stat")
  /\ Goto(b, IF w \in made /\ w \notin young THEN "remove" ELSE "failed")
  /\ UNCHANGED <<resume, disk, plans>>

(* remove without force: it fails when another process was faster.         *)
RemoveStale(b) ==
  LET w == WorkspaceOf[b] IN
  /\ At(b, "remove")
  /\ RemoveLock(w)
  /\ Goto(b, IF w \in made THEN "mkdir" ELSE "failed")
  /\ UNCHANGED <<resume, trees, caches, plans>>

(* Broken: mkdir with recursive: true, which also succeeds if it exists.   *)
MakeAnyway(b) ==
  LET w == WorkspaceOf[b] IN
  /\ At(b, "mkdir")
  /\ made' = made \cup {w} /\ young' = young \cup {w}
  /\ Goto(b, "write")
  /\ UNCHANGED <<resume, owner, trees, caches, plans>>

(* makeDirectory(lock) fails with AlreadyExists.                           *)
MakeLock(b) ==
  LET w == WorkspaceOf[b] IN
  /\ At(b, "mkdir")
  /\ \/ w \in made /\ Goto(b, "failed") /\ UNCHANGED locks
     \/ /\ w \notin made
        /\ made' = made \cup {w} /\ young' = young \cup {w} /\ owner' = owner
        /\ Goto(b, "write")
  /\ UNCHANGED <<resume, trees, caches, plans>>

WriteOwner(b) ==
  LET w == WorkspaceOf[b] IN
  /\ At(b, "write")
  /\ w \in made
  /\ owner' = [owner EXCEPT ![w] = b]
  /\ Goto(b, "prepare")
  /\ UNCHANGED <<resume, made, young, trees, caches, plans>>

(* The directory is gone, or the disk is full: nothing undoes the mkdir.   *)
WriteFails(b) ==
  /\ At(b, "write")
  /\ WorkspaceOf[b] \notin made \/ (b \in Faulty /\ ~calm)
  /\ Goto(b, "failed")
  /\ UNCHANGED <<resume, disk, plans>>

-----------------------------------------------------------------------------
(* The build scope                                                         *)

(* AppWorkspace.prepare: an old tree is removed and a new one made.        *)
Prepare(b) ==
  /\ At(b, "prepare")
  /\ trees' = trees \cup {WorkspaceOf[b]}
  /\ Goto(b, "compile")
  /\ UNCHANGED <<resume, locks, caches, plans>>

(* A compiled build may have filled a cache; a failed or interrupted one   *)
(* leaves its tree to be looked at.                                        *)
Compile(b) ==
  /\ At(b, "compile")
  /\ \E filled \in SUBSET Caches : caches' = caches \cup filled
  /\ \/ b \in Web /\ Goto(b, "verify") /\ resume' = [resume EXCEPT ![b] = "done"]
     \/ b \notin Web /\ Goto(b, "publish") /\ UNCHANGED resume
     \/ Goto(b, "verify") /\ resume' = [resume EXCEPT ![b] = "failed"]
  /\ UNCHANGED <<locks, trees, plans>>

(* publishNativeProduct: copy the product, which needs the tree ...        *)
Publish(b) ==
  /\ At(b, "publish")
  /\ \/ WorkspaceOf[b] \in trees /\ Goto(b, "sweep") /\ UNCHANGED resume
     \/ /\ WorkspaceOf[b] \notin trees
        /\ Goto(b, "verify") /\ resume' = [resume EXCEPT ![b] = "failed"]
  /\ UNCHANGED <<disk, plans>>

(* ... then remove the workspace; not with force, so it must still exist.  *)
Sweep(b) ==
  LET w == WorkspaceOf[b] IN
  /\ At(b, "sweep")
  /\ trees' = trees \ {w}
  /\ resume' = [resume EXCEPT ![b] = IF w \in trees THEN "list" ELSE "failed"]
  /\ Goto(b, "verify")
  /\ UNCHANGED <<locks, caches, plans>>

(* The scope closes: a lock that carries another token is left alone.      *)
VerifyToken(b) ==
  /\ At(b, "verify")
  /\ \/ owner[WorkspaceOf[b]] = b /\ Goto(b, "unlock") /\ UNCHANGED resume
     \/ /\ owner[WorkspaceOf[b]] # b
        /\ Goto(b, resume[b]) /\ resume' = [resume EXCEPT ![b] = "done"]
  /\ UNCHANGED <<disk, plans>>

Unlock(b) ==
  /\ At(b, "unlock")
  /\ RemoveLock(WorkspaceOf[b])
  /\ Goto(b, resume[b]) /\ resume' = [resume EXCEPT ![b] = "done"]
  /\ UNCHANGED <<trees, caches, plans>>

-----------------------------------------------------------------------------
(* prune                                                                   *)

Command(p) ==
  /\ p \in Pruners \/ (p \in Cleaners /\ ~calm)
  /\ At(p, "idle")
  /\ Goto(p, "list")
  /\ UNCHANGED <<resume, disk, plans>>

(* readDirectory(locksRoot)                                                *)
ListLocks(p) ==
  /\ At(p, "list")
  /\ todo' = [todo EXCEPT ![p] = made]
  /\ active' = [active EXCEPT ![p] = {}]
  /\ doomed' = [doomed EXCEPT ![p] = NoPlan]
  /\ Goto(p, "judge")
  /\ UNCHANGED <<resume, disk>>

(* A prune that fails fails the build it precedes; the one after a build   *)
(* is ignored.                                                             *)
PruneFails(p) == Goto(p, IF resume[p] = "look" THEN "failed" ELSE "done")

Protected(w) == owner[w] \in Alive \/ (owner[w] = Nobody /\ w \in young)

(* readOwner and stat of one listed lock; stat of a lock that has been     *)
(* released since makes the prune fail.                                    *)
JudgeLock(p, w) ==
  /\ At(p, "judge") /\ w \in todo[p]
  /\ todo' = [todo EXCEPT ![p] = @ \ {w}]
  /\ \/ /\ Protected(w)
        /\ active' = [active EXCEPT ![p] = @ \cup {w}]
        /\ UNCHANGED <<pc, doomed>>
     \/ /\ w \in made /\ ~Protected(w)
        /\ doomed' = [doomed EXCEPT ![p].locks = @ \cup {w}]
        /\ UNCHANGED <<pc, active>>
     \/ /\ w \notin made
        /\ PruneFails(p)
        /\ UNCHANGED <<active, doomed>>
  /\ UNCHANGED <<resume, disk>>

(* Broken: the caches are planned as if no build were active.              *)
PlanAnyCache(p) ==
  /\ p \notin Cleaners
  /\ At(p, "judge") /\ todo[p] = {}
  /\ \E kept \in SUBSET (trees \ active[p]), evicted \in SUBSET caches :
       doomed' = [doomed EXCEPT ![p].trees = (trees \ active[p]) \ kept,
                                ![p].caches = evicted]
  /\ Goto(p, "delete")
  /\ UNCHANGED <<resume, disk, todo, active>>

(* The unlocked workspaces go, except perhaps the newest; the caches are   *)
(* protected while any workspace is active, else the oldest ones over the  *)
(* budget go.  Which of them that is, is not decided here.                 *)
PlanDeletions(p) ==
  /\ p \notin Cleaners
  /\ At(p, "judge") /\ todo[p] = {}
  /\ \E kept \in SUBSET (trees \ active[p]), evicted \in SUBSET caches :
       /\ Cardinality(kept) <= 1
       /\ active[p] # {} => evicted = {}
       /\ doomed' = [doomed EXCEPT ![p].trees = (trees \ active[p]) \ kept,
                                   ![p].caches = evicted]
  /\ Goto(p, "delete")
  /\ UNCHANGED <<resume, disk, todo, active>>

(* stat of what has been listed, and of every file in it, fails if another *)
(* process removes it first: a prune or a clean-up that deletes, or a      *)
(* build that works in its tree or sweeps it.                              *)
PlanFails(p) ==
  /\ At(p, "judge") /\ todo[p] = {}
  /\ \E q \in Actors \ {p} : pc[q] \in {"prepare", "compile", "sweep", "delete", "wipe"}
  /\ PruneFails(p)
  /\ UNCHANGED <<resume, disk, plans>>

(* remove with force, in the order of the paths.                           *)
DeleteLock(p, w) ==
  /\ At(p, "delete") /\ w \in doomed[p].locks
  /\ RemoveLock(w)
  /\ doomed' = [doomed EXCEPT ![p].locks = @ \ {w}]
  /\ UNCHANGED <<pc, resume, trees, caches, todo, active>>

DeleteCache(p, c) ==
  /\ At(p, "delete") /\ doomed[p].locks = {} /\ c \in doomed[p].caches
  /\ caches' = caches \ {c}
  /\ doomed' = [doomed EXCEPT ![p].caches = @ \ {c}]
  /\ UNCHANGED <<pc, resume, locks, trees, todo, active>>

DeleteTree(p, w) ==
  /\ At(p, "delete") /\ doomed[p].locks = {} /\ doomed[p].caches = {}
  /\ w \in doomed[p].trees
  /\ trees' = trees \ {w}
  /\ doomed' = [doomed EXCEPT ![p].trees = @ \ {w}]
  /\ UNCHANGED <<pc, resume, locks, caches, todo, active>>

PruneEnds(p) ==
  /\ At(p, "delete") /\ doomed[p] = NoPlan
  /\ Goto(p, resume[p]) /\ resume' = [resume EXCEPT ![p] = "done"]
  /\ UNCHANGED <<disk, plans>>

(* cleanAll: a dry run, and a refusal if it protects a lock ...            *)
DryRun(p) ==
  /\ p \in Cleaners
  /\ At(p, "judge") /\ todo[p] = {}
  /\ Goto(p, IF active[p] = {} THEN "wipe" ELSE "failed")
  /\ UNCHANGED <<resume, disk, plans>>

(* ... else the artifacts directory goes as a whole.                       *)
Wipe(p) ==
  /\ At(p, "wipe")
  /\ made' = {} /\ young' = {} /\ owner' = [w \in Workspaces |-> Nobody]
  /\ trees' = {} /\ caches' = {}
  /\ Goto(p, "done")
  /\ UNCHANGED <<resume, plans>>

-----------------------------------------------------------------------------
(* The environment                                                         *)

Die(b) ==
  /\ b \in Faulty /\ ~calm
  /\ pc[b] \notin {"idle", "done", "failed", "dead"}
  /\ Goto(b, "dead")
  /\ UNCHANGED <<resume, disk, plans>>

(* A minute passes on a lock; when it is calm, never while a live build is *)
(* between the mkdir and the owner record, or between missing the record   *)
(* and looking at the age.                                                 *)
Age(w) ==
  /\ w \in young
  /\ calm => \A b \in Builds : pc[b] \in {"write", "stat"} => WorkspaceOf[b] # w
  /\ young' = young \ {w}
  /\ UNCHANGED <<pc, resume, made, owner, trees, caches, plans>>

-----------------------------------------------------------------------------
Acquire(b) ==
  \/ Start(b) \/ LookForLock(b) \/ ReadOwner(b) \/ StatLock(b) \/ RemoveStale(b)
  \/ MakeLock(b) \/ WriteOwner(b) \/ WriteFails(b)

Work(b) == Prepare(b) \/ Compile(b) \/ Publish(b) \/ Sweep(b)

Release(b) == VerifyToken(b) \/ Unlock(b)

Prune(p) ==
  \/ Command(p) \/ ListLocks(p) \/ PlanDeletions(p) \/ PlanFails(p) \/ PruneEnds(p)
  \/ DryRun(p) \/ Wipe(p)
  \/ \E w \in Workspaces : JudgeLock(p, w) \/ DeleteLock(p, w) \/ DeleteTree(p, w)
  \/ \E c \in Caches : DeleteCache(p, c)

Step ==
  \/ \E b \in Builds : Acquire(b) \/ Work(b) \/ Release(b) \/ Die(b)
  \/ \E p \in Actors : Prune(p)
  \/ \E w \in Workspaces : Age(w)

(* History: a prune that lists the locks starts with whoever is recorded,  *)
(* and forgets those that stop being recorded, if only for an instant.     *)
Remember ==
  held' = [p \in Actors |->
             IF ListLocks(p) THEN Recorded' ELSE held[p] \cap Recorded']

Next == Step /\ Remember /\ UNCHANGED calm

Spec == Init /\ [][Next]_vars

-----------------------------------------------------------------------------
(* Properties                                                              *)

(* The single type invariant.                                              *)
TypeOK ==
  /\ calm \in BOOLEAN
  /\ pc \in [Actors -> Stages]
  /\ resume \in [Actors -> {"done", "failed", "look", "list"}]
  /\ made \subseteq Workspaces
  /\ young \subseteq made
  /\ owner \in [Workspaces -> Builds \cup {Nobody}]
  /\ \A w \in Workspaces \ made : owner[w] = Nobody
  /\ trees \subseteq Workspaces
  /\ caches \subseteq Caches
  /\ todo \in [Actors -> SUBSET Workspaces]
  /\ active \in [Actors -> SUBSET Workspaces]
  /\ doomed \in [Actors -> Plan]
  /\ held \in [Actors -> SUBSET Builds]

InScope(b) ==
  pc[b] \in {"prepare", "compile", "publish", "sweep", "verify", "unlock"}

(* What is true of "pruning never removes a workspace or cache while any   *)
(* build lock is active" (docs/architecture.md:323): nothing a prune is    *)
(* about to delete belongs to a build whose lock was on record when the    *)
(* prune began to read the locks and still is, and while there is such a   *)
(* build no cache is about to go, and cleanAll refuses to run.             *)
HeldBuildsSpared ==
  \A p \in Actors : held[p] # {} =>
    /\ At(p, "delete") => /\ doomed[p].caches = {}
                         /\ \A b \in held[p] :
                              WorkspaceOf[b] \notin doomed[p].locks \cup doomed[p].trees
    /\ ~At(p, "wipe")

(* docs/architecture.md:322: a workspace lock records the owning process   *)
(* for the complete build scope.                                           *)
ScopeRecorded == \A b \in Builds : InScope(b) => owner[WorkspaceOf[b]] = b

(* It does while nobody dies, stalls or cleans all; so two builds are then *)
(* never in the scope of one workspace.                                    *)
ScopeRecordedWhenCalm == calm => ScopeRecorded

(* docs/architecture.md:323-324: pruning never removes a workspace or      *)
(* cache while any build lock is active.  Only a build that has published  *)
(* its product removes a workspace then.                                   *)
ActiveLocksProtect ==
  [][Recorded # {} =>
       /\ caches \subseteq caches'
       /\ \A w \in trees \ trees' :
            \E b \in Builds : At(b, "sweep") /\ WorkspaceOf[b] = w]_vars
=============================================================================
