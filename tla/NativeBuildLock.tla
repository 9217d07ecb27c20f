--------------------------- MODULE NativeBuildLock --------------------------
(***************************************************************************)
(* The machine-wide native build lock: acquireNativeBuild of               *)
(* tooling/compatibility-harness/src/artifacts/ArtifactLifecycle.ts.       *)
(*                                                                         *)
(* Harness processes share nothing but one directory in the user's         *)
(* temporary directory.  mkdir decides who owns it, owner.json inside it   *)
(* says which process that is, and a waiter that finds a dead owner (or no *)
(* owner for a minute) renames the directory away.  Every call to the file *)
(* system is a step of its own; a process can die between any two.         *)
(*                                                                         *)
(* A builder is one call of acquireNativeBuild with its own token, in a    *)
(* process of its own, so a builder names its token and its pid alike.     *)
(* Definitions marked "Broken" only serve to show that a property notices. *)
(***************************************************************************)
EXTENDS FiniteSets

CONSTANTS
  Builders,   (* calls of acquireNativeBuild                               *)
  Mortal,     (* builders whose process may die                            *)
  Stalls,     (* may a minute pass between two calls of a live builder?    *)
  Nobody      (* owner.json is missing, or is not a whole owner record     *)

ASSUME NobodyFresh == Nobody \notin Builders
ASSUME MortalBuilders == Mortal \subseteq Builders
ASSUME StallsBoolean == Stalls \in BOOLEAN

VARIABLES
  pc,      (* the next file-system call of each builder                    *)
  exists,  (* does the lock directory exist at its path?                   *)
  owner,   (* what owner.json in that directory holds                      *)
  young    (* is the directory's mtime within lockInitializationGrace?     *)

lock == <<exists, owner, young>>
vars == <<pc, exists, owner, young>>

Stages == {"idle", "mkdir", "write", "undo", "read", "stat", "recover", "waiting",
           "building", "verify", "rename", "done", "failed", "dead"}

(* process.kill(pid, 0): the builders whose process still runs.            *)
Alive == {b \in Builders : pc[b] # "dead"}

Init ==
  /\ pc = [b \in Builders |-> "idle"]
  /\ exists = FALSE
  /\ owner = Nobody
  /\ young = FALSE

Goto(b, stage) == pc' = [pc EXCEPT ![b] = stage]

At(b, stage) == pc[b] = stage

(* The directory leaves its path, whoever made it.                         *)
RemoveLock ==
  /\ exists' = FALSE
  /\ owner' = Nobody
  /\ young' = FALSE

-----------------------------------------------------------------------------
(* One attempt                                                             *)

Start(b) == At(b, "idle") /\ Goto(b, "mkdir") /\ UNCHANGED lock

(* Broken: mkdir with recursive: true, which also succeeds if it exists.   *)
MakeAnyway(b) ==
  /\ At(b, "mkdir")
  /\ exists' = TRUE /\ owner' = owner /\ young' = TRUE
  /\ Goto(b, "write")

MakeDirectory(b) ==
  /\ At(b, "mkdir")
  /\ ~exists
  /\ exists' = TRUE /\ owner' = Nobody /\ young' = TRUE
  /\ Goto(b, "write")

AlreadyExists(b) ==
  /\ At(b, "mkdir")
  /\ exists
  /\ Goto(b, "read")
  /\ UNCHANGED lock

(* writeFileString goes to the path: the directory there may by now be     *)
(* another builder's.                                                      *)
WriteOwner(b) ==
  /\ At(b, "write")
  /\ exists
  /\ owner' = b
  /\ Goto(b, "building")
  /\ UNCHANGED <<exists, young>>

(* The write fails: the directory is gone, or the disk is full.            *)
WriteFails(b) ==
  /\ At(b, "write")
  /\ Goto(b, "undo")
  /\ UNCHANGED lock

(* Broken: a failed write leaves the empty directory behind.               *)
KeepMake(b) ==
  /\ At(b, "undo")
  /\ Goto(b, "mkdir")
  /\ UNCHANGED lock

(* tapError: remove(lock, force), then the error leaves acquireNativeBuild *)
UndoMake(b) ==
  /\ At(b, "undo")
  /\ RemoveLock
  /\ Goto(b, "failed")

(* Broken: whoever holds the lock, a waiter takes it over.                 *)
ReadNothing(b) ==
  /\ At(b, "read")
  /\ Goto(b, "recover")
  /\ UNCHANGED lock

(* readNativeBuildOwner and isProcessAlive: a live owner means wait, a     *)
(* dead one recover, an unreadable record a look at the directory's age.   *)
ReadOwner(b) ==
  /\ At(b, "read")
  /\ \/ owner \in Alive /\ Goto(b, "waiting")
     \/ owner \in Builders \ Alive /\ Goto(b, "recover")
     \/ owner = Nobody /\ Goto(b, "stat")
  /\ UNCHANGED lock

(* A directory that is gone by now counts as old.                          *)
StatLock(b) ==
  /\ At(b, "stat")
  /\ Goto(b, IF exists /\ young THEN "waiting" ELSE "recover")
  /\ UNCHANGED lock

(* Broken: a stale lock is waited for like a live one.                     *)
RecoverNever(b) ==
  /\ At(b, "recover")
  /\ Goto(b, "waiting")
  /\ UNCHANGED lock

(* rename(lock, quarantine) takes whatever is at the path now; NotFound    *)
(* means another builder was faster.  Either way the attempt is retried.   *)
Recover(b) ==
  /\ At(b, "recover")
  /\ RemoveLock
  /\ Goto(b, "mkdir")

(* Schedule.spaced(nativeBuildPollMillis): try again.                      *)
Poll(b) == At(b, "waiting") /\ Goto(b, "mkdir") /\ UNCHANGED lock

-----------------------------------------------------------------------------
(* The scope closes: the release of acquireRelease                         *)

FinishBuild(b) == At(b, "building") /\ Goto(b, "verify") /\ UNCHANGED lock

(* current?.token !== token: not ours any more, nothing to release.        *)
VerifyToken(b) ==
  /\ At(b, "verify")
  /\ Goto(b, IF owner = b THEN "rename" ELSE "done")
  /\ UNCHANGED lock

RenameReleased(b) ==
  /\ At(b, "rename")
  /\ RemoveLock
  /\ Goto(b, "done")

-----------------------------------------------------------------------------
(* The environment                                                         *)

(* A process dies with whatever it left on disk; its pid is not reused.    *)
Die(b) ==
  /\ b \in Mortal
  /\ pc[b] \notin {"idle", "done", "failed", "dead"}
  /\ Goto(b, "dead")
  /\ UNCHANGED lock

(* A minute passes on a directory.  Without Stalls that never happens      *)
(* while a live builder is between making the directory and recording its  *)
(* owner, or between missing the record and looking at the age.            *)
Age ==
  /\ exists /\ young
  /\ Stalls \/ \A b \in Builders : pc[b] \notin {"write", "undo", "stat"}
  /\ young' = FALSE
  /\ UNCHANGED <<pc, exists, owner>>

-----------------------------------------------------------------------------
Attempt(b) ==
  \/ Start(b) \/ MakeDirectory(b) \/ AlreadyExists(b)
  \/ WriteOwner(b) \/ WriteFails(b) \/ UndoMake(b)
  \/ ReadOwner(b) \/ StatLock(b) \/ Recover(b) \/ Poll(b)

Release(b) == FinishBuild(b) \/ VerifyToken(b) \/ RenameReleased(b)

Next ==
  \/ \E b \in Builders : Attempt(b) \/ Release(b) \/ Die(b)
  \/ Age

Spec == Init /\ [][Next]_vars

(* Each live process keeps running, its compiler ends or times out, and    *)
(* time passes.  Starting a build and dying are nobody's duty.             *)
Fairness ==
  /\ \A b \in Builders :
       /\ WF_vars(~At(b, "idle") /\ Attempt(b))
       /\ WF_vars(Release(b))
  /\ SF_vars(Age)

FairSpec == Spec /\ Fairness

(* The runs stop when every builder is done, failed or dead.               *)
-----------------------------------------------------------------------------
(* Properties                                                              *)

(* The single type invariant.                                              *)
TypeOK ==
  /\ pc \in [Builders -> Stages]
  /\ exists \in BOOLEAN
  /\ owner \in Builders \cup {Nobody}
  /\ young \in BOOLEAN
  /\ ~exists => owner = Nobody /\ ~young

(* docs/testing.md:368: native compilers share one machine-wide semaphore; *)
(* a build record says maxSimultaneousNativeBuilds: 1.                     *)
Building(b) == pc[b] \in {"building", "verify", "rename"}

MutualExclusion ==
  \A b, c \in Builders : Building(b) /\ Building(c) => b = c

(* A step of one builder never takes the lock directory away from a        *)
(* builder that is alive and still needs it.                               *)
LiveLockKept ==
  [][\A b \in Builders :
       Building(b) /\ owner = b /\ owner' # b => pc'[b] \in {"done", "dead"}]_vars

(* A record on disk names a builder that is compiling or has died, so no   *)
(* waiter ever waits for a build that is over.                             *)
OwnerIsBuilding ==
  owner # Nobody => Building(owner) \/ pc[owner] = "dead"

(* A lock without a record is being made or undone, or its maker died.  So *)
(* when every builder is through, the directory is gone.                   *)
NoLockLeft ==
  exists /\ owner = Nobody => \E b \in Builders : pc[b] \in {"write", "undo", "dead"}

(* docs/testing.md:370: a lock left by a dead process is recovered, and a  *)
(* build that waits is served in the end (or dies, or cannot write).       *)
WaitersServed ==
  \A b \in Builders :
    pc[b] = "waiting" ~> pc[b] \in {"building", "failed", "dead"}
=============================================================================
