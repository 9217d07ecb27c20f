------------------------- MODULE NativeArtifactCache -------------------------
(***************************************************************************)
(* The native half of a build: executeBuild of AppBuildExecutor.ts with    *)
(* NativeArtifactCache.ts, in tooling/compatibility-harness/src/build.     *)
(*                                                                         *)
(* Builds are processes that share one cache entry (they agree on its      *)
(* key), the lock file beside it and the semaphore of the native           *)
(* compilers, which is taken to keep its promise: NativeBuildLock has the  *)
(* semaphore itself.  A build looks for a shell in the entry, repacks it   *)
(* with its own bundle, or compiles a shell and publishes it.  Of an       *)
(* artifact only the build that compiled it is kept, and whether it is     *)
(* whole.                                                                  *)
(*                                                                         *)
(* Prunes (prune of ArtifactLifecycle.ts) are processes of their own, or   *)
(* what a build does before and after the steps it takes here.  They look  *)
(* for active builds first, and delete later what they then listed.        *)
(***************************************************************************)
EXTENDS Naturals, FiniteSets

CONSTANTS
  Builds,
  Rebuilders,  (* the requests with allowNativeRebuild                     *)
  Mortal,      (* builds whose process may die                             *)
  Prunes,
  Nobody       (* no build: a file that is not there                       *)

ASSUME RebuildersType == Rebuilders \subseteq Builds
ASSUME MortalType == Mortal \subseteq Builds
ASSUME NobodyFresh == Nobody \notin Builds

VARIABLES
  platform,    (* of the key all these builds share                        *)
  stage,       (* the next step of each build                              *)
  after,       (* where a build goes on when it has released the lock file *)
  lock,        (* whose token the lock file holds                          *)
  orphaned,    (* is there a lock file whose token was never written?      *)
  entry,       (* the cache entry: record.json and the artifact            *)
  found,       (* of a restore: the sourceBuildId of the record it read    *)
  output,      (* the product in a build's workspace: the shell in it      *)
  failedRepack,(* builds whose restore reported repackFailure              *)
  copy,        (* what a publication has beside the entry, to be renamed   *)
  evidence,    (* nativeCacheEvidence                                      *)
  compiler,    (* the holder of the native build semaphore                 *)
  pruning,     (* the next step of each prune                              *)
  seen,        (* the builds whose workspace lock a prune has listed       *)
  plan,        (* what it is going to delete                               *)
  disturbed    (* history, not code: see DeleteEntry and DeleteLockFile    *)

lockFile == <<lock, orphaned>>
results == <<found, output, failedRepack, evidence>>
prunes == <<pruning, seen, plan, disturbed>>
vars == <<platform, stage, after, lockFile, entry, copy, results, compiler, prunes>>

Restoring == {"lookup", "hash", "repack"}
Publishing == {"copy", "remove", "removing", "rename", "stamp"}
Releasing == {"release", "unlock"}
Inside == Restoring \cup Publishing \cup Releasing
Ended == {"done", "failed", "dead"}
Stages == {"idle", "restore", "decide", "compiler", "compile", "publish", "finish"}
            \cup Inside \cup Ended

(* The builds whose workspace is locked by a live process.                 *)
Active == {b \in Builds : stage[b] \notin {"idle"} \cup Ended}

Plans == [entry : BOOLEAN, lock : BOOLEAN, copies : SUBSET Builds]
NoPlan == [entry |-> FALSE, lock |-> FALSE, copies |-> {}]

Artifacts == [by : Builds \cup {Nobody}, whole : BOOLEAN]
NoArtifact == [by |-> Nobody, whole |-> FALSE]
Entries == [record : Builds \cup {Nobody}, shell : Artifacts]
NoEntry == [record |-> Nobody, shell |-> NoArtifact]
Evidence == [source : {"none", "native-cache", "full-build"}, by : Builds \cup {Nobody}]
NoEvidence == [source |-> "none", by |-> Nobody]

At(b, s) == stage[b] = s
Goto(b, s) == stage' = [stage EXCEPT ![b] = s]

(* What a recursive remove leaves when it ends early: of a directory (an   *)
(* .app) any part, of a file (an .apk) all or nothing.                     *)
Remains(e) ==
  {left \in Entries :
     /\ left.record \in {e.record, Nobody}
     /\ left.shell \in {e.shell, NoArtifact}
                         \cup (IF platform = "ios" THEN {[e.shell EXCEPT !.whole = FALSE]} ELSE {})}

Init ==
  /\ platform \in {"ios", "android"}
  /\ stage = [b \in Builds |-> "idle"]
  /\ after = [b \in Builds |-> "decide"]
  /\ lock = Nobody
  /\ orphaned \in BOOLEAN      (* a process of before may have left it      *)
  /\ entry = NoEntry /\ copy = [b \in Builds |-> NoEntry]
  /\ found = [b \in Builds |-> Nobody]
  /\ output = [b \in Builds |-> NoArtifact]
  /\ failedRepack = {}
  /\ evidence = [b \in Builds |-> NoEvidence]
  /\ compiler = Nobody
  /\ pruning = [p \in Prunes |-> "off"]
  /\ seen = [p \in Prunes |-> {}]
  /\ plan = [p \in Prunes |-> NoPlan]
  /\ disturbed = {}

-----------------------------------------------------------------------------
(* withCacheLock                                                           *)

(* Broken: who finds the lock waits for it.                                *)
LockWaiting(b, inside, busy) ==
  /\ lock = Nobody /\ ~orphaned
  /\ \/ lock' = b /\ Goto(b, inside) /\ UNCHANGED orphaned
     \/ orphaned' = TRUE /\ Goto(b, busy) /\ UNCHANGED lock

(* The file is created exclusively.  A file that is there, or is not made, *)
(* means busy, and so does a write that fails, which leaves the file       *)
(* without its token.                                                      *)
Lock(b, inside, busy) ==
  \/ Goto(b, busy) /\ UNCHANGED <<lock, orphaned>>
  \/ /\ lock = Nobody /\ ~orphaned
     /\ \/ lock' = b /\ Goto(b, inside) /\ UNCHANGED orphaned
        \/ orphaned' = TRUE /\ Goto(b, busy) /\ UNCHANGED lock

(* The scope of acquireNativeBuild closes.                                 *)
Freed(b) == IF compiler = b THEN Nobody ELSE compiler

(* The release reads the token in the file ...                             *)
ReadToken(b) ==
  /\ At(b, "release")
  /\ \/ /\ lock = b
        /\ Goto(b, "unlock") /\ UNCHANGED compiler
     \/ /\ lock # b
        /\ Goto(b, after[b]) /\ compiler' = Freed(b)
  /\ UNCHANGED <<platform, after, lockFile, entry, copy, results, prunes>>

(* ... and if it is the build's removes the file, whosesoever it is by     *)
(* then; that it may fail to is ignored.                                   *)
RemoveLockFile(b) ==
  /\ At(b, "unlock") /\ Goto(b, after[b])
  /\ \/ lock' = Nobody /\ orphaned' = FALSE
     \/ UNCHANGED lockFile
  /\ compiler' = Freed(b)
  /\ UNCHANGED <<platform, after, entry, copy, results, prunes>>

-----------------------------------------------------------------------------
(* restore                                                                 *)

(* Preparing the workspace, prebuild, fingerprints: nothing is shared.     *)
Prepare(b) ==
  /\ At(b, "idle") /\ Goto(b, "restore")
  /\ UNCHANGED <<platform, after, lockFile, entry, copy, results, compiler, prunes>>

RestoreLocked(b) ==
  /\ At(b, "restore") /\ Lock(b, "lookup", "decide")
  /\ UNCHANGED <<platform, after, entry, copy, results, compiler, prunes>>

(* The entry must be there, with a record that fits; forceColdBuild does   *)
(* not even look.                                                          *)
LookUp(b) ==
  /\ At(b, "lookup")
  /\ \/ /\ entry.record # Nobody /\ entry.shell.by # Nobody
        /\ found' = [found EXCEPT ![b] = entry.record]
        /\ Goto(b, "hash")
     \/ Goto(b, "release") /\ UNCHANGED found
  /\ UNCHANGED <<platform, after, lockFile, entry, copy, output, failedRepack, evidence,
                 compiler, prunes>>

(* Broken: the artifact is not hashed.                                     *)
HashNothing(b) ==
  /\ At(b, "hash") /\ Goto(b, "repack")
  /\ UNCHANGED <<platform, after, lockFile, entry, copy, results, compiler, prunes>>

(* The artifact's hash is that of the record, or it is a miss.             *)
Hash(b) ==
  /\ At(b, "hash")
  /\ \/ /\ entry.shell = [by |-> found[b], whole |-> TRUE]
        /\ Goto(b, "repack") /\ UNCHANGED found
     \/ /\ entry.shell # [by |-> found[b], whole |-> TRUE]
        /\ found' = [found EXCEPT ![b] = Nobody]
        /\ Goto(b, "release")
  /\ UNCHANGED <<platform, after, lockFile, entry, copy, output, failedRepack, evidence,
                 compiler, prunes>>

(* Repack, and on a physical device sign and verify, what the entry has by *)
(* now with the current bundle; a failure of any of them removes the       *)
(* output.                                                                 *)
Repack(b) ==
  /\ At(b, "repack") /\ Goto(b, "release")
  /\ \/ /\ entry.shell.by # Nobody
        /\ output' = [output EXCEPT ![b] = entry.shell]
        /\ UNCHANGED <<found, failedRepack>>
     \/ /\ found' = [found EXCEPT ![b] = Nobody]
        /\ failedRepack' = failedRepack \cup {b}
        /\ output' = [output EXCEPT ![b] = NoArtifact]
  /\ UNCHANGED <<platform, after, lockFile, entry, copy, evidence, compiler, prunes>>

-----------------------------------------------------------------------------
(* Repack or compile                                                       *)

(* ensureNativeRebuildAllowed                                              *)
RebuildRefused(b) == b \in failedRepack \ Rebuilders

(* Then a hit is evidence and a miss compiles.                             *)
Decide(b) ==
  /\ At(b, "decide")
  /\ \/ /\ RebuildRefused(b)
        /\ Goto(b, "failed") /\ UNCHANGED evidence
     \/ /\ ~RebuildRefused(b) /\ found[b] # Nobody
        /\ evidence' = [evidence EXCEPT ![b] = [source |-> "native-cache", by |-> found[b]]]
        /\ Goto(b, "finish")
     \/ /\ ~RebuildRefused(b) /\ found[b] = Nobody
        /\ Goto(b, "compiler") /\ UNCHANGED evidence
  /\ UNCHANGED <<platform, after, lockFile, entry, copy, found, output, failedRepack, compiler,
                 prunes>>

(* acquireNativeBuild: the semaphore of a dead process is recovered.       *)
EnterCompiler(b) ==
  /\ At(b, "compiler")
  /\ compiler \notin {other \in Builds : stage[other] # "dead"}
  /\ compiler' = b /\ Goto(b, "compile")
  /\ UNCHANGED <<platform, after, lockFile, entry, copy, results, prunes>>

(* An Android build leaves the semaphore before it publishes, an iOS build *)
(* after.                                                                  *)
Compile(b) ==
  /\ At(b, "compile") /\ Goto(b, "publish")
  /\ output' = [output EXCEPT ![b] = [by |-> b, whole |-> TRUE]]
  /\ compiler' = IF platform = "android" THEN Nobody ELSE compiler
  /\ UNCHANGED <<platform, after, lockFile, entry, copy, found, failedRepack, evidence, prunes>>

-----------------------------------------------------------------------------
(* publish                                                                 *)

(* A busy entry is not published to, and the build has no evidence then.   *)
PublishLocked(b) ==
  /\ At(b, "publish") /\ Lock(b, "copy", "finish")
  /\ after' = [after EXCEPT ![b] = "finish"]
  /\ compiler' = IF stage'[b] = "finish" THEN Freed(b) ELSE compiler
  /\ UNCHANGED <<platform, entry, copy, results, prunes>>

(* The output is hashed and copied beside the entry, with its record.      *)
CopyBeside(b) ==
  /\ At(b, "copy") /\ Goto(b, "remove")
  /\ copy' = [copy EXCEPT ![b] = [record |-> b, shell |-> output[b]]]
  /\ UNCHANGED <<platform, after, lockFile, entry, results, compiler, prunes>>

(* Then the old entry is removed, file by file.                            *)
RemoveOld(b) ==
  /\ At(b, "remove") /\ Goto(b, "removing")
  /\ entry' \in Remains(entry)
  /\ UNCHANGED <<platform, after, lockFile, copy, results, compiler, prunes>>

Removed(b) ==
  /\ At(b, "removing") /\ Goto(b, "rename")
  /\ entry' = NoEntry
  /\ UNCHANGED <<platform, after, lockFile, copy, results, compiler, prunes>>

(* The rename makes record and artifact appear at once, if the copy is     *)
(* still there and the place is free.                                      *)
Rename(b) ==
  /\ At(b, "rename") /\ Goto(b, "stamp")
  /\ copy[b] # NoEntry /\ entry = NoEntry
  /\ entry' = copy[b] /\ copy' = [copy EXCEPT ![b] = NoEntry]
  /\ UNCHANGED <<platform, after, lockFile, results, compiler, prunes>>

(* utimes of the entry, and publish has succeeded.                         *)
Stamp(b) ==
  /\ At(b, "stamp") /\ Goto(b, "release")
  /\ evidence' = [evidence EXCEPT ![b] = [source |-> "full-build", by |-> b]]
  /\ UNCHANGED <<platform, after, lockFile, entry, copy, found, output, failedRepack, compiler,
                 prunes>>

-----------------------------------------------------------------------------
(* The build record and publishNativeProduct.                              *)
Finish(b) ==
  /\ At(b, "finish") /\ Goto(b, "done")
  /\ UNCHANGED <<platform, after, lockFile, entry, copy, results, compiler, prunes>>

(* A command or a file-system call fails: the finalizers run, the cache    *)
(* lock's before the semaphore's.  Nobody looks at the copy again.         *)
Fail(b) ==
  /\ stage[b] \notin {"idle", "decide"} \cup Releasing \cup Ended
  /\ after' = [after EXCEPT ![b] = "failed"]
  /\ \/ stage[b] \in Inside /\ Goto(b, "release") /\ UNCHANGED compiler
     \/ stage[b] \notin Inside /\ Goto(b, "failed") /\ compiler' = Freed(b)
  /\ copy' = [copy EXCEPT ![b] = NoEntry]
  /\ UNCHANGED <<platform, lockFile, entry, results, prunes>>

RenameFails(b) ==
  /\ At(b, "rename") /\ (copy[b] = NoEntry \/ entry # NoEntry)
  /\ Fail(b)

Die(b) ==
  /\ b \in Mortal /\ b \in Active
  /\ Goto(b, "dead")
  /\ copy' = [copy EXCEPT ![b] = NoEntry]
  /\ UNCHANGED <<platform, after, lockFile, entry, results, compiler, prunes>>

-----------------------------------------------------------------------------
(* prune                                                                   *)

ListLocks(p) ==
  /\ pruning[p] = "off"
  /\ pruning' = [pruning EXCEPT ![p] = "judge"]
  /\ seen' = [seen EXCEPT ![p] = Active]
  /\ UNCHANGED <<platform, stage, after, lockFile, entry, copy, results, compiler, plan, disturbed>>

(* The caches are protected if a listed lock is a live build's, and a lock *)
(* that has been released since makes the prune fail; so it goes on if all *)
(* of them are of the dead.  Of what is in the cache's directory now it    *)
(* then chooses: to a prune a lock file, or a copy beside an entry, is an  *)
(* entry like any other.                                                   *)
PlanDeletions(p) ==
  /\ pruning[p] = "judge" /\ \A b \in seen[p] : At(b, "dead")
  /\ pruning' = [pruning EXCEPT ![p] = "delete"]
  /\ seen' = [seen EXCEPT ![p] = {}]
  /\ \E chosen \in Plans :
       /\ chosen.entry => entry # NoEntry
       /\ chosen.lock => lock # Nobody \/ orphaned
       /\ \A b \in chosen.copies : copy[b] # NoEntry
       /\ plan' = [plan EXCEPT ![p] = chosen]
  /\ UNCHANGED <<platform, stage, after, lockFile, entry, copy, results, compiler, disturbed>>

(* The deletions go in the order of the paths, with force, and file by     *)
(* file.  The history has the builds that have hashed the entry, and are   *)
(* about to repack it.                                                     *)
DeleteEntry(p) ==
  /\ plan[p].entry
  /\ entry' \in Remains(entry)
  /\ \/ UNCHANGED plan
     \/ entry' = NoEntry /\ plan' = [plan EXCEPT ![p].entry = FALSE]
  /\ disturbed' = disturbed \cup {b \in Builds : entry' # entry /\ At(b, "repack")}
  /\ UNCHANGED <<platform, stage, after, lockFile, copy, results, compiler, pruning, seen>>

(* If that was the lock file of a live build, whose turn it is with the    *)
(* entry is anybody's guess: the history has all builds that have not      *)
(* ended.                                                                  *)
DeleteLockFile(p) ==
  /\ plan[p].lock /\ ~plan[p].entry
  /\ plan' = [plan EXCEPT ![p].lock = FALSE]
  /\ lock' = Nobody /\ orphaned' = FALSE
  /\ disturbed' = disturbed \cup
                    {b \in Builds : stage[b] \notin Ended /\ lock \in Builds /\ stage[lock] \in Inside}
  /\ UNCHANGED <<platform, stage, after, entry, copy, results, compiler, pruning, seen>>

DeleteCopy(p) ==
  /\ ~plan[p].entry /\ ~plan[p].lock
  /\ \E b \in plan[p].copies, left \in Entries :
       /\ left \in Remains(copy[b])
       /\ copy' = [copy EXCEPT ![b] = left]
       /\ \/ UNCHANGED plan
          \/ left = NoEntry /\ plan' = [plan EXCEPT ![p].copies = @ \ {b}]
  /\ UNCHANGED <<platform, stage, after, lockFile, entry, results, compiler, pruning, seen, disturbed>>

(* All is deleted, or it fails or dies before.                             *)
PruneEnds(p) ==
  /\ pruning[p] # "off"
  /\ pruning' = [pruning EXCEPT ![p] = "off"]
  /\ seen' = [seen EXCEPT ![p] = {}]
  /\ plan' = [plan EXCEPT ![p] = NoPlan]
  /\ UNCHANGED <<platform, stage, after, lockFile, entry, copy, results, compiler, disturbed>>

-----------------------------------------------------------------------------
Restore(b) == RestoreLocked(b) \/ LookUp(b) \/ Hash(b) \/ Repack(b)

Publish(b) ==
  \/ PublishLocked(b) \/ CopyBeside(b) \/ RemoveOld(b) \/ Removed(b)
  \/ Rename(b) \/ RenameFails(b) \/ Stamp(b)

Release(b) == ReadToken(b) \/ RemoveLockFile(b)

Work(b) ==
  \/ Restore(b) \/ Decide(b) \/ EnterCompiler(b) \/ Compile(b) \/ Publish(b)
  \/ Release(b) \/ Finish(b)

Delete(p) == DeleteEntry(p) \/ DeleteLockFile(p) \/ DeleteCopy(p)

Prune(p) == ListLocks(p) \/ PlanDeletions(p) \/ Delete(p) \/ PruneEnds(p)

Next ==
  \/ \E b \in Builds : Prepare(b) \/ Work(b) \/ Fail(b) \/ Die(b)
  \/ \E p \in Prunes : Prune(p)

Spec == Init /\ [][Next]_vars

(* Live processes go on, commands end or time out, and the semaphore       *)
(* serves its waiters.                                                     *)
Fairness ==
  \A b \in Builds : WF_vars(Work(b)) /\ SF_vars(EnterCompiler(b))

FairSpec == Spec /\ Fairness

-----------------------------------------------------------------------------
(* Properties                                                              *)

(* The single type invariant.                                              *)
TypeOK ==
  /\ platform \in {"ios", "android"}
  /\ stage \in [Builds -> Stages]
  /\ after \in [Builds -> {"decide", "finish", "failed"}]
  /\ lock \in Builds \cup {Nobody} /\ orphaned \in BOOLEAN
  /\ entry \in Entries /\ copy \in [Builds -> Entries]
  /\ found \in [Builds -> Builds \cup {Nobody}]
  /\ output \in [Builds -> Artifacts]
  /\ failedRepack \subseteq Builds
  /\ evidence \in [Builds -> Evidence]
  /\ compiler \in Builds \cup {Nobody}
  /\ pruning \in [Prunes -> {"off", "judge", "delete"}]
  /\ seen \in [Prunes -> SUBSET Builds]
  /\ plan \in [Prunes -> Plans]
  /\ disturbed \subseteq Builds

(* docs/architecture.md:311, a validated artifact: whatever other builds   *)
(* do to the entry meanwhile, and wherever they or prunes die, the product *)
(* of a build has the whole shell of the build its evidence names, its own *)
(* if it says it compiled it.  There are two exceptions, and both are a    *)
(* prune that goes by locks it listed before the build began: it deletes   *)
(* from the entry between the build's hash and its repack, or it deletes   *)
(* the lock file of a live build before this one has ended.                *)
EvidenceIsTrue ==
  \A b \in Builds \ disturbed : evidence[b] # NoEvidence =>
    /\ output[b] = [by |-> evidence[b].by, whole |-> TRUE]
    /\ evidence[b].source = "full-build" => evidence[b].by = b

(* The builds that were begun end, whoever left a lock beside an entry.    *)
BuildsEnd == <>[](\A b \in Builds : stage[b] \in {"idle"} \cup Ended)
=============================================================================
