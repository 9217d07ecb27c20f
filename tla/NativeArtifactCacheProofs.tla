---------------------- MODULE NativeArtifactCacheProofs ----------------------
(***************************************************************************)
(* What holds of the native artifact cache for any number of builds,       *)
(* deaths and prunes: its types, and that the evidence of a build names    *)
(* the shell that is in its product; that builds with their Pods behave as *)
(* the cache's model has it; and that the Pods are whole.                  *)
(***************************************************************************)
EXTENDS NativeBuild, TLAPS

USE RebuildersType, MortalType, NobodyFresh
USE DEF At, Goto, Lock, Freed, Restoring, Publishing, Releasing, Inside, Ended, Stages,
        lockFile, results, prunes

(* The records the actions write are of their types.                       *)
LEMMA RecordTypes ==
  /\ NoArtifact \in Artifacts /\ NoEntry \in Entries /\ NoEvidence \in Evidence
  /\ NoPlan \in Plans
  /\ \A b \in Builds : [by |-> b, whole |-> TRUE] \in Artifacts
  /\ \A b \in Builds, s \in Artifacts : [record |-> b, shell |-> s] \in Entries
  /\ \A b \in Builds, s \in {"native-cache", "full-build"} : [source |-> s, by |-> b] \in Evidence
  /\ \A e \in Entries : e.shell \in Artifacts /\ e.record \in Builds \cup {Nobody}
  /\ \A d \in Plans : [d EXCEPT !.entry = FALSE] \in Plans /\ [d EXCEPT !.lock = FALSE] \in Plans
  BY DEF NoArtifact, NoEntry, NoEvidence, NoPlan, Artifacts, Entries, Evidence, Plans

(* What is left of an entry is an entry.                                   *)
LEMMA RemainsAreEntries == \A e : Remains(e) \subseteq Entries
  BY DEF Remains

(* The types of builds, lock file, cache entry, evidence and prunes.       *)
THEOREM TypeCorrect == Spec => []TypeOK
<1>1. Init => TypeOK
  BY RecordTypes DEF Init, TypeOK
<1>2. TypeOK /\ [Next]_vars => TypeOK'
  <2> SUFFICES ASSUME TypeOK, [Next]_vars PROVE TypeOK'
    OBVIOUS
  <2> USE DEF TypeOK
  <2>1. ASSUME NEW b \in Builds, Restore(b) PROVE TypeOK'
    <3>1. CASE RestoreLocked(b)
      <4>1. stage' = [stage EXCEPT ![b] = "lookup"] \/ stage' = [stage EXCEPT ![b] = "decide"]
        BY <3>1 DEF RestoreLocked
      <4>2. /\ lock' \in {lock, b} /\ orphaned' \in {orphaned, TRUE}
            /\ UNCHANGED <<platform, after, entry, copy, results, compiler, prunes>>
        BY <3>1 DEF RestoreLocked
      <4>3. stage' \in [Builds -> Stages]
        BY <4>1
      <4> QED
        BY <4>2, <4>3
    <3>2. CASE LookUp(b)
      <4>1. entry.record \in Builds \cup {Nobody}
        BY RecordTypes
      <4> QED
        BY <3>2, <4>1 DEF LookUp
    <3>3. CASE Hash(b)
      <4>1. CASE entry.shell = [by |-> found[b], whole |-> TRUE]
        BY <3>3, <4>1 DEF Hash
      <4>2. CASE entry.shell # [by |-> found[b], whole |-> TRUE]
        BY <3>3, <4>2 DEF Hash
      <4> QED
        BY <4>1, <4>2
    <3>4. CASE Repack(b)
      <4>1. entry.shell \in Artifacts /\ NoArtifact \in Artifacts
        BY RecordTypes
      <4>2. CASE found' = [found EXCEPT ![b] = Nobody]
        BY <3>4, <4>1, <4>2 DEF Repack
      <4>3. CASE UNCHANGED <<found, failedRepack>>
        BY <3>4, <4>1, <4>3 DEF Repack
      <4> QED
        BY <3>4, <4>2, <4>3 DEF Repack
    <3> QED
      BY <2>1, <3>1, <3>2, <3>3, <3>4 DEF Restore
  <2>2. ASSUME NEW b \in Builds, Publish(b) \/ Fail(b) PROVE TypeOK'
    <3>1. CASE PublishLocked(b)
      <4>1. stage' \in {[stage EXCEPT ![b] = s] : s \in {"copy", "finish"}}
        BY <3>1 DEF PublishLocked
      <4>2. lock' \in {lock, b} /\ orphaned' \in {orphaned, TRUE} /\ compiler' \in {compiler, Nobody}
        BY <3>1 DEF PublishLocked
      <4>3. after' = [after EXCEPT ![b] = "finish"] /\ UNCHANGED <<platform, entry, copy, results, prunes>>
        BY <3>1 DEF PublishLocked
      <4> QED
        BY <4>1, <4>2, <4>3
    <3>2. CASE CopyBeside(b)
      <4>1. [record |-> b, shell |-> output[b]] \in Entries
        BY RecordTypes
      <4> QED
        BY <3>2, <4>1 DEF CopyBeside
    <3>3. CASE RemoveOld(b)
      BY <3>3, RemainsAreEntries DEF RemoveOld
    <3>4. CASE Removed(b)
      BY <3>4, RecordTypes DEF Removed
    <3>5. CASE Rename(b)
      BY <3>5, RecordTypes DEF Rename
    <3>6. CASE Fail(b)
      BY <3>6, RecordTypes DEF Fail
    <3>7. CASE Stamp(b)
      BY <3>7, RecordTypes DEF Stamp
    <3> QED
      BY <2>2, <3>1, <3>2, <3>3, <3>4, <3>5, <3>6, <3>7 DEF Publish, RenameFails
  <2>3. ASSUME NEW b \in Builds, Decide(b) PROVE TypeOK'
    <3>1. found[b] # Nobody => [source |-> "native-cache", by |-> found[b]] \in Evidence
      BY RecordTypes
    <3> QED
      BY <2>3, <3>1 DEF Decide
  <2>4. ASSUME NEW b \in Builds, EnterCompiler(b) \/ Compile(b) PROVE TypeOK'
    <3>1. CASE EnterCompiler(b)
      BY <3>1 DEF EnterCompiler
    <3>2. CASE Compile(b)
      BY <3>2, RecordTypes DEF Compile
    <3> QED
      BY <2>4, <3>1, <3>2
  <2>5. ASSUME NEW b \in Builds, Release(b) PROVE TypeOK'
    <3>1. after[b] \in Stages
      OBVIOUS
    <3> QED
      BY <2>5, <3>1 DEF Release, ReadToken, RemoveLockFile
  <2>6. ASSUME NEW b \in Builds, Prepare(b) \/ Finish(b) \/ Die(b) PROVE TypeOK'
    <3>1. CASE Prepare(b) \/ Finish(b)
      BY <3>1 DEF Prepare, Finish
    <3>2. CASE Die(b)
      BY <3>2, RecordTypes DEF Die
    <3> QED
      BY <2>6, <3>1, <3>2
  <2>7. ASSUME NEW p \in Prunes, Prune(p) PROVE TypeOK'
    <3>1. CASE ListLocks(p)
      BY <3>1 DEF ListLocks, Active
    <3>2. CASE PlanDeletions(p)
      BY <3>2 DEF PlanDeletions
    <3>3. CASE DeleteEntry(p)
      <4>1. plan' = plan \/ plan' = [plan EXCEPT ![p].entry = FALSE]
        BY <3>3 DEF DeleteEntry
      <4>2. plan' \in [Prunes -> Plans]
        <5>1. CASE plan' = [plan EXCEPT ![p].entry = FALSE]
          BY <5>1, RecordTypes
        <5> QED
          BY <4>1, <5>1
      <4>3. entry' \in Entries
        BY <3>3, RemainsAreEntries, Zenon DEF DeleteEntry
      <4>4. disturbed' \subseteq Builds
        BY <3>3 DEF DeleteEntry
      <4> QED
        BY <3>3, <4>2, <4>3, <4>4 DEF DeleteEntry
    <3>4. CASE DeleteLockFile(p)
      BY <3>4, RecordTypes DEF DeleteLockFile
    <3>5. CASE DeleteCopy(p)
      <4>1. PICK b \in plan[p].copies, left \in Entries :
              /\ copy' = [copy EXCEPT ![b] = left]
              /\ \/ UNCHANGED plan
                 \/ plan' = [plan EXCEPT ![p].copies = @ \ {b}]
        BY <3>5 DEF DeleteCopy
      <4>2. b \in Builds
        BY DEF Plans
      <4>3. plan' \in [Prunes -> Plans]
        BY <4>1 DEF Plans
      <4> QED
        BY <3>5, <4>1, <4>2, <4>3 DEF DeleteCopy
    <3>6. CASE PruneEnds(p)
      BY <3>6, RecordTypes DEF PruneEnds
    <3> QED
      BY <2>7, <3>1, <3>2, <3>3, <3>4, <3>5, <3>6 DEF Prune, Delete
  <2>8. CASE UNCHANGED vars
    BY <2>8 DEF vars
  <2> QED
    BY <2>1, <2>2, <2>3, <2>4, <2>5, <2>6, <2>7, <2>8 DEF Next, Work
<1> QED
  BY <1>1, <1>2, PTL DEF Spec

-----------------------------------------------------------------------------
(* The lock file is the critical section, while no prune has deleted it    *)
(* under a build that has not ended since: whoever is inside has its own   *)
(* token there.                                                            *)
LockHeld ==
  \A b \in Builds \ disturbed, c \in Builds :
    stage[b] \notin Ended /\ stage[c] \in Inside => lock = c

(* The whole shell of a build.                                             *)
Own(b) == [by |-> b, whole |-> TRUE]

(* The restore is over, and nothing decided yet.                           *)
Restored(b) == stage[b] = "decide" \/ (stage[b] \in Releasing /\ after[b] = "decide")

(* Where a build has no evidence yet, for evidence comes last.             *)
Early(b) == stage[b] \notin {"finish"} \cup Releasing \cup Ended \/ Restored(b)

(* What holds for one build.  Its found record, its output and its         *)
(* evidence are its own; of the entry it can be certain while no prune is  *)
(* in its way.                                                             *)
Sure(b) ==
  /\ stage[b] \in {"idle", "restore", "lookup"} => found[b] = Nobody
  /\ stage[b] \in {"hash", "repack"} => found[b] # Nobody
  /\ stage[b] \in {"publish"} \cup Publishing => output[b] = Own(b)
  /\ stage[b] \in Publishing => after[b] = "finish"
  /\ Early(b) => evidence[b] = NoEvidence
  /\ b \notin disturbed =>
       /\ stage[b] = "repack" => entry.shell = Own(found[b])
       /\ Restored(b) /\ found[b] # Nobody => output[b] = Own(found[b])
       /\ evidence[b] # NoEvidence =>
            /\ output[b] = Own(evidence[b].by)
            /\ evidence[b].source = "full-build" => evidence[b].by = b

Inv == TypeOK /\ LockHeld /\ \A b \in Builds : Sure(b)

(* A step of one build that changes its own stage only, to s.              *)
LEMMA Moves ==
  ASSUME TypeOK, NEW b \in Builds, NEW s, stage' = [stage EXCEPT ![b] = s]
  PROVE  stage'[b] = s /\ \A c \in Builds \ {b} : stage'[c] = stage[c]
  BY DEF TypeOK

(* The lock is held after a step of b that leaves the lock file alone and  *)
(* does not enter.                                                         *)
LEMMA LockStays ==
  ASSUME Inv, NEW b \in Builds, NEW s,
         stage' = [stage EXCEPT ![b] = s], UNCHANGED <<lock, disturbed>>,
         stage[b] \notin Ended, s \in Inside => stage[b] \in Inside
  PROVE  LockHeld'
<1>1. stage'[b] = s /\ \A c \in Builds \ {b} : stage'[c] = stage[c]
  BY Moves DEF Inv
<1> QED
  BY <1>1 DEF Inv, LockHeld

(* While a build that nothing has disturbed is inside, no other is.        *)
LEMMA Alone ==
  ASSUME Inv, NEW b \in Builds, stage[b] \in Inside,
         NEW c \in Builds \ disturbed, stage[c] \in Inside
  PROVE  b = c
  BY DEF Inv, LockHeld

(* A step of b that is b's own affair, but for the lock file and, from     *)
(* inside, the entry, keeps the invariant if it keeps what holds for b.    *)
LEMMA Keeps ==
  ASSUME Inv, TypeOK', LockHeld', NEW b \in Builds, Sure(b)', UNCHANGED disturbed,
         \A c \in Builds \ {b} :
           /\ stage'[c] = stage[c] /\ after'[c] = after[c] /\ found'[c] = found[c]
           /\ output'[c] = output[c] /\ evidence'[c] = evidence[c],
         UNCHANGED entry \/ stage[b] \in Inside
  PROVE  Inv'
<1>1. SUFFICES ASSUME NEW c \in Builds \ {b} PROVE Sure(c)'
  BY DEF Inv
<1>2. Sure(c)
  BY DEF Inv
<1>3. c \notin disturbed /\ stage[c] = "repack" => UNCHANGED entry
  BY Alone
<1> QED
  BY <1>1, <1>2, <1>3 DEF Sure, Early, Restored, Own

(* No step of restore disturbs the invariant.                              *)
LEMMA RestoreKeeps ==
  ASSUME Inv, TypeOK', NEW b \in Builds, Restore(b) PROVE Inv'
<1>0. Sure(b) /\ TypeOK
  BY DEF Inv
<1>1. CASE RestoreLocked(b)
  <2>1. PICK s \in {"lookup", "decide"} :
          stage' = [stage EXCEPT ![b] = s] /\ (s = "lookup" => lock = Nobody /\ lock' = b)
    BY <1>1 DEF RestoreLocked
  <2>2. /\ stage[b] = "restore" /\ lock' \in {lock, b} /\ (lock # lock' => lock = Nobody)
        /\ UNCHANGED <<after, entry, found, output, evidence, disturbed>>
    BY <1>1 DEF RestoreLocked
  <2>3. stage'[b] = s /\ \A c \in Builds \ {b} : stage'[c] = stage[c]
    BY <1>0, <2>1, Moves
  <2>4. LockHeld'
    BY <2>1, <2>2, <2>3 DEF Inv, LockHeld
  <2>5. Sure(b)'
    BY <1>0, <2>2, <2>3 DEF Sure, Early, Restored, Own
  <2> QED
    BY <2>2, <2>3, <2>4, <2>5, Keeps
<1>2. CASE LookUp(b)
  <2>1. /\ stage[b] = "lookup" /\ UNCHANGED <<lock, after, entry, output, evidence, disturbed>>
        /\ \/ stage' = [stage EXCEPT ![b] = "release"] /\ UNCHANGED found
           \/ /\ stage' = [stage EXCEPT ![b] = "hash"]
              /\ entry.record # Nobody /\ found' = [found EXCEPT ![b] = entry.record]
    BY <1>2 DEF LookUp
  <2>2. stage'[b] \in {"hash", "release"} /\ \A c \in Builds \ {b} : stage'[c] = stage[c]
    BY <1>0, <2>1, Moves
  <2>3. found \in [Builds -> Builds \cup {Nobody}]
    BY <1>0 DEF TypeOK
  <2>4. \A c \in Builds \ {b} : found'[c] = found[c]
    BY <2>1, <2>3
  <2>5. stage'[b] = "hash" => found'[b] # Nobody
    <3>1. stage' # [stage EXCEPT ![b] = "release"] => found'[b] # Nobody
      BY <2>1, <2>3
    <3>2. stage' = [stage EXCEPT ![b] = "release"] => stage'[b] = "release"
      BY <1>0, Moves
    <3> QED
      BY <3>1, <3>2
  <2>6. stage'[b] = "release" => found'[b] = Nobody
    <3>1. stage' # [stage EXCEPT ![b] = "hash"] => UNCHANGED found
      BY <2>1
    <3>2. stage' = [stage EXCEPT ![b] = "hash"] => stage'[b] = "hash"
      BY <1>0, Moves
    <3> QED
      BY <1>0, <2>1, <3>1, <3>2 DEF Sure
  <2>7. LockHeld'
    BY <2>1, LockStays
  <2>8. Sure(b)'
    BY <1>0, <2>1, <2>2, <2>5, <2>6 DEF Sure, Early, Restored, Own
  <2> QED
    BY <2>1, <2>2, <2>4, <2>7, <2>8, Keeps
<1>3. CASE Hash(b)
  <2>1. PICK s \in {"repack", "release"} :
          /\ stage' = [stage EXCEPT ![b] = s]
          /\ s = "repack" => entry.shell = Own(found[b]) /\ UNCHANGED found
          /\ s = "release" => found' = [found EXCEPT ![b] = Nobody]
    BY <1>3 DEF Hash, Own
  <2>2. stage[b] = "hash" /\ UNCHANGED <<lock, after, entry, output, evidence, disturbed>>
    BY <1>3 DEF Hash
  <2>3. stage'[b] = s /\ \A c \in Builds \ {b} : stage'[c] = stage[c] /\ found'[c] = found[c]
    <3>1. stage'[b] = s /\ \A c \in Builds \ {b} : stage'[c] = stage[c]
      BY <1>0, <2>1, Moves
    <3> QED
      BY <1>0, <2>1, <3>1 DEF TypeOK
  <2>4. LockHeld'
    BY <2>1, <2>2, LockStays
  <2>5. s = "release" => found'[b] = Nobody
    BY <1>0, <2>1 DEF TypeOK
  <2>6. Sure(b)'
    BY <1>0, <2>1, <2>2, <2>3, <2>5 DEF Sure, Early, Restored, Own
  <2> QED
    BY <2>2, <2>3, <2>4, <2>6, Keeps
<1>4. CASE Repack(b)
  <2>1. /\ stage[b] = "repack" /\ stage' = [stage EXCEPT ![b] = "release"]
        /\ UNCHANGED <<lock, after, entry, evidence, disturbed>>
        /\ \/ found' = found /\ output' = [output EXCEPT ![b] = entry.shell]
           \/ found' = [found EXCEPT ![b] = Nobody] /\ output' = [output EXCEPT ![b] = NoArtifact]
    BY <1>4 DEF Repack
  <2>2. stage'[b] = "release" /\ \A c \in Builds \ {b} : stage'[c] = stage[c]
    BY <1>0, <2>1, Moves
  <2>3. /\ \A c \in Builds \ {b} : found'[c] = found[c] /\ output'[c] = output[c]
        /\ found'[b] # Nobody => found'[b] = found[b] /\ output'[b] = entry.shell
    BY <1>0, <2>1 DEF TypeOK
  <2>4. LockHeld'
    BY <2>1, LockStays
  <2>5. Sure(b)'
    BY <1>0, <2>1, <2>2, <2>3 DEF Sure, Early, Restored, Own
  <2> QED
    BY <2>1, <2>2, <2>3, <2>4, <2>5, Keeps
<1> QED
  BY <1>1, <1>2, <1>3, <1>4 DEF Restore

(* Nor does one of publish: the entry changes only under the lock, so no   *)
(* other build is between its hash and its repack.                         *)
LEMMA PublishKeeps ==
  ASSUME Inv, TypeOK', NEW b \in Builds,
         PublishLocked(b) \/ CopyBeside(b) \/ RemoveOld(b) \/ Removed(b) \/ Rename(b) \/ Stamp(b)
  PROVE  Inv'
<1>0. Sure(b) /\ TypeOK
  BY DEF Inv
<1>1. CASE PublishLocked(b)
  <2>1. /\ stage[b] = "publish" /\ after' = [after EXCEPT ![b] = "finish"]
        /\ UNCHANGED <<entry, found, output, evidence, disturbed>>
        /\ \/ stage' = [stage EXCEPT ![b] = "finish"] /\ UNCHANGED lock
           \/ stage' = [stage EXCEPT ![b] = "copy"] /\ lock = Nobody /\ lock' = b
    BY <1>1 DEF PublishLocked
  <2>2. stage'[b] \in {"copy", "finish"} /\ \A c \in Builds \ {b} : stage'[c] = stage[c]
    BY <1>0, <2>1, Moves
  <2>3. after'[b] = "finish" /\ \A c \in Builds \ {b} : after'[c] = after[c]
    BY <1>0, <2>1 DEF TypeOK
  <2>4. LockHeld'
    <3>1. CASE stage' = [stage EXCEPT ![b] = "finish"] /\ UNCHANGED lock
      BY <2>1, <3>1, LockStays
    <3>2. CASE lock = Nobody /\ lock' = b
      BY <2>1, <2>2, <3>2 DEF Inv, LockHeld
    <3> QED
      BY <2>1, <3>1, <3>2
  <2>5. Sure(b)'
    BY <1>0, <2>1, <2>2, <2>3 DEF Sure, Early, Restored, Own
  <2> QED
    BY <2>1, <2>2, <2>3, <2>4, <2>5, Keeps
<1>2. CASE CopyBeside(b) \/ RemoveOld(b) \/ Removed(b) \/ Rename(b)
  <2>1. PICK s \in Publishing : stage' = [stage EXCEPT ![b] = s]
    BY <1>2 DEF CopyBeside, RemoveOld, Removed, Rename
  <2>2. stage[b] \in Publishing /\ UNCHANGED <<lock, after, found, output, evidence, disturbed>>
    BY <1>2 DEF CopyBeside, RemoveOld, Removed, Rename
  <2>3. stage'[b] = s /\ \A c \in Builds \ {b} : stage'[c] = stage[c]
    BY <1>0, <2>1, Moves
  <2>4. LockHeld'
    BY <2>1, <2>2, LockStays
  <2>5. Sure(b)'
    BY <1>0, <2>2, <2>3 DEF Sure, Early, Restored, Own
  <2> QED
    BY <2>2, <2>3, <2>4, <2>5, Keeps
<1>3. CASE Stamp(b)
  <2>1. /\ stage[b] = "stamp" /\ stage' = [stage EXCEPT ![b] = "release"]
        /\ evidence' = [evidence EXCEPT ![b] = [source |-> "full-build", by |-> b]]
        /\ UNCHANGED <<lock, after, entry, found, output, disturbed>>
    BY <1>3 DEF Stamp
  <2>2. stage'[b] = "release" /\ \A c \in Builds \ {b} : stage'[c] = stage[c]
    BY <1>0, <2>1, Moves
  <2>3. /\ evidence'[b] = [source |-> "full-build", by |-> b]
        /\ \A c \in Builds \ {b} : evidence'[c] = evidence[c]
    BY <1>0, <2>1 DEF TypeOK
  <2>4. LockHeld'
    BY <2>1, LockStays
  <2>5. Sure(b)'
    <3>1. evidence'[b].by = b /\ output'[b] = Own(evidence'[b].by)
      BY <1>0, <2>1, <2>3 DEF Sure
    <3>2. ~Early(b)' /\ ~Restored(b)'
      BY <1>0, <2>1, <2>2 DEF Sure, Early, Restored
    <3> QED
      BY <2>2, <3>1, <3>2 DEF Sure
  <2> QED
    BY <2>1, <2>2, <2>3, <2>4, <2>5, Keeps
<1> QED
  BY <1>1, <1>2, <1>3

(* Nor the release, which removes nobody else's lock file.                 *)
LEMMA ReleaseKeeps ==
  ASSUME Inv, TypeOK', NEW b \in Builds, Release(b) PROVE Inv'
<1>0. Sure(b) /\ TypeOK
  BY DEF Inv
<1>1. PICK s \in {"unlock", "decide", "finish", "failed"} :
        stage' = [stage EXCEPT ![b] = s] /\ s \in {"unlock", after[b]}
  BY <1>0 DEF Release, ReadToken, RemoveLockFile, TypeOK
<1>2. /\ stage[b] \in Releasing /\ UNCHANGED <<after, entry, found, output, evidence, disturbed>>
      /\ lock' \in {lock, Nobody}
      /\ lock' # lock => stage' = [stage EXCEPT ![b] = after[b]]
  BY DEF Release, ReadToken, RemoveLockFile
<1>3. stage'[b] = s /\ \A c \in Builds \ {b} : stage'[c] = stage[c]
  BY <1>0, <1>1, Moves
<1>4. LockHeld'
  <2>1. CASE UNCHANGED lock
    BY <1>1, <1>2, <2>1, LockStays
  <2>2. CASE lock' # lock
    <3>1. stage'[b] = after[b] /\ after[b] \notin Inside
      BY <1>0, <1>2, <2>2 DEF TypeOK
    <3>2. SUFFICES ASSUME NEW d \in Builds \ disturbed, NEW c \in Builds,
                          stage'[d] \notin Ended, stage'[c] \in Inside
                   PROVE  FALSE
      BY <1>2 DEF LockHeld
    <3>3. c # b /\ stage[c] \in Inside /\ stage[d] \notin Ended
      BY <1>2, <1>3, <3>1, <3>2
    <3>4. lock = c /\ lock = b
      BY <1>2, <3>3 DEF Inv, LockHeld
    <3> QED
      BY <3>3, <3>4
  <2> QED
    BY <2>1, <2>2
<1>5. Sure(b)'
  BY <1>0, <1>1, <1>2, <1>3 DEF Sure, Early, Restored, Own
<1> QED
  BY <1>2, <1>3, <1>4, <1>5, Keeps

(* Nor the steps around them.                                              *)
LEMMA OutsideKeeps ==
  ASSUME Inv, TypeOK', NEW b \in Builds,
         Prepare(b) \/ Decide(b) \/ EnterCompiler(b) \/ Compile(b) \/ Finish(b) \/ Fail(b) \/ Die(b)
  PROVE  Inv'
<1>0. Sure(b) /\ TypeOK
  BY DEF Inv
<1>1. CASE Prepare(b) \/ EnterCompiler(b) \/ Finish(b) \/ Die(b)
  <2>1. /\ stage[b] \notin Ended
        /\ UNCHANGED <<lock, after, entry, found, output, evidence, disturbed>>
    BY <1>1 DEF Prepare, EnterCompiler, Finish, Die, Active
  <2>2. PICK s \in {"restore", "compile", "done", "dead"} :
          /\ stage' = [stage EXCEPT ![b] = s]
          /\ (s = "restore" => stage[b] = "idle") /\ (s = "compile" => stage[b] = "compiler")
    BY <1>1 DEF Prepare, EnterCompiler, Finish, Die
  <2>3. stage'[b] = s /\ \A c \in Builds \ {b} : stage'[c] = stage[c]
    BY <1>0, <2>2, Moves
  <2>4. LockHeld'
    BY <2>1, <2>2, LockStays
  <2>5. Sure(b)'
    BY <1>0, <2>1, <2>2, <2>3 DEF Sure, Early, Restored, Own
  <2> QED
    BY <2>1, <2>3, <2>4, <2>5, Keeps
<1>2. CASE Decide(b)
  <2>1. stage[b] = "decide" /\ UNCHANGED <<lock, after, entry, found, output, disturbed>>
    BY <1>2 DEF Decide
  <2>2. CASE stage' = [stage EXCEPT ![b] = "finish"] /\ found[b] # Nobody
             /\ evidence' = [evidence EXCEPT ![b] = [source |-> "native-cache", by |-> found[b]]]
    <3>1. stage'[b] = "finish" /\ \A c \in Builds \ {b} : stage'[c] = stage[c]
      BY <1>0, <2>2, Moves
    <3>2. /\ evidence'[b] = [source |-> "native-cache", by |-> found[b]]
          /\ \A c \in Builds \ {b} : evidence'[c] = evidence[c]
      BY <1>0, <2>2 DEF TypeOK
    <3>3. evidence'[b].by = found[b] /\ evidence'[b].source # "full-build"
      BY <3>2
    <3>4. b \notin disturbed => output[b] = Own(found[b])
      BY <1>0, <2>1, <2>2 DEF Sure, Restored
    <3>5. LockHeld'
      BY <2>1, <2>2, LockStays
    <3>6. Sure(b)'
      BY <2>1, <3>1, <3>3, <3>4 DEF Sure, Early, Restored, Own
    <3> QED
      BY <2>1, <3>1, <3>2, <3>5, <3>6, Keeps
  <2>3. CASE UNCHANGED evidence /\ \E s \in {"failed", "compiler"} : stage' = [stage EXCEPT ![b] = s]
    <3>1. PICK s \in {"failed", "compiler"} : stage' = [stage EXCEPT ![b] = s]
      BY <2>3
    <3>2. stage'[b] = s /\ \A c \in Builds \ {b} : stage'[c] = stage[c]
      BY <1>0, <3>1, Moves
    <3>3. LockHeld'
      BY <2>1, <3>1, LockStays
    <3>4. Sure(b)'
      BY <1>0, <2>1, <2>3, <3>2 DEF Sure, Early, Restored, Own
    <3> QED
      BY <2>1, <2>3, <3>2, <3>3, <3>4, Keeps
  <2> QED
    BY <1>2, <2>2, <2>3 DEF Decide
<1>3. CASE Compile(b)
  <2>1. /\ stage[b] = "compile" /\ stage' = [stage EXCEPT ![b] = "publish"]
        /\ output' = [output EXCEPT ![b] = [by |-> b, whole |-> TRUE]]
        /\ UNCHANGED <<lock, after, entry, found, evidence, disturbed>>
    BY <1>3 DEF Compile
  <2>2. stage'[b] = "publish" /\ \A c \in Builds \ {b} : stage'[c] = stage[c]
    BY <1>0, <2>1, Moves
  <2>3. output'[b] = Own(b) /\ \A c \in Builds \ {b} : output'[c] = output[c]
    BY <1>0, <2>1 DEF TypeOK, Own
  <2>4. LockHeld'
    BY <2>1, LockStays
  <2>5. Sure(b)'
    BY <1>0, <2>1, <2>2, <2>3 DEF Sure, Early, Restored
  <2> QED
    BY <2>1, <2>2, <2>3, <2>4, <2>5, Keeps
<1>4. CASE Fail(b)
  <2>1. /\ stage[b] \notin {"decide"} \cup Releasing \cup Ended
        /\ after' = [after EXCEPT ![b] = "failed"]
        /\ UNCHANGED <<lock, entry, found, output, evidence, disturbed>>
    BY <1>4 DEF Fail
  <2>2. PICK s \in {"release", "failed"} :
          stage' = [stage EXCEPT ![b] = s] /\ (s = "release" => stage[b] \in Inside)
    BY <1>4 DEF Fail
  <2>3. stage'[b] = s /\ \A c \in Builds \ {b} : stage'[c] = stage[c]
    BY <1>0, <2>2, Moves
  <2>4. after'[b] = "failed" /\ \A c \in Builds \ {b} : after'[c] = after[c]
    BY <1>0, <2>1 DEF TypeOK
  <2>5. LockHeld'
    BY <2>1, <2>2, LockStays
  <2>6. Sure(b)'
    BY <1>0, <2>1, <2>3, <2>4 DEF Sure, Early, Restored, Own
  <2> QED
    BY <2>1, <2>3, <2>4, <2>5, <2>6, Keeps
<1> QED
  BY <1>1, <1>2, <1>3, <1>4

(* Nor a prune: what it deletes from the entry disturbs the build that has *)
(* hashed it, and a lock file it deletes under a live build all that have  *)
(* not ended.                                                              *)
LEMMA PruneKeeps == ASSUME Inv, TypeOK', NEW p \in Prunes, Prune(p) PROVE Inv'
<1>0. \A b \in Builds : Sure(b)
  BY DEF Inv
<1>1. CASE ListLocks(p) \/ PlanDeletions(p) \/ DeleteCopy(p) \/ PruneEnds(p)
  <2>1. UNCHANGED <<stage, after, lock, entry, found, output, evidence, disturbed>>
    BY <1>1 DEF ListLocks, PlanDeletions, DeleteCopy, PruneEnds
  <2> QED
    BY <2>1 DEF Inv, LockHeld, Sure, Early, Restored, Own
<1>2. CASE DeleteEntry(p)
  <2>1. /\ UNCHANGED <<stage, after, lock, found, output, evidence>>
        /\ disturbed' = disturbed \cup {b \in Builds : entry' # entry /\ stage[b] = "repack"}
    BY <1>2 DEF DeleteEntry
  <2>2. LockHeld'
    BY <2>1 DEF Inv, LockHeld
  <2>3. ASSUME NEW b \in Builds PROVE Sure(b)'
    BY <1>0, <2>1 DEF Sure, Early, Restored, Own
  <2> QED
    BY <2>2, <2>3 DEF Inv
<1>3. CASE DeleteLockFile(p)
  <2>1. /\ UNCHANGED <<stage, after, entry, found, output, evidence>>
        /\ lock' = Nobody
        /\ disturbed' = disturbed \cup
             {b \in Builds : stage[b] \notin Ended /\ lock \in Builds /\ stage[lock] \in Inside}
    BY <1>3 DEF DeleteLockFile
  <2>2. LockHeld'
    <3>1. SUFFICES ASSUME NEW b \in Builds \ disturbed', NEW c \in Builds,
                          stage[b] \notin Ended, stage[c] \in Inside
                   PROVE  FALSE
      BY <2>1 DEF LockHeld
    <3>2. lock = c
      BY <2>1, <3>1 DEF Inv, LockHeld
    <3> QED
      BY <2>1, <3>1, <3>2
  <2>3. ASSUME NEW b \in Builds PROVE Sure(b)'
    BY <1>0, <2>1 DEF Sure, Early, Restored, Own
  <2> QED
    BY <2>2, <2>3 DEF Inv
<1> QED
  BY <1>1, <1>2, <1>3 DEF Prune, Delete

(* EvidenceIsTrue (the run native_cache checks it): whatever builds do to  *)
(* the entry, and wherever they or prunes die, the product of a build has  *)
(* the whole shell its evidence names, unless a prune deleted from the     *)
(* entry between the build's hash and its repack, or deleted the lock file *)
(* of a live build while this one had not ended.                           *)
THEOREM EvidenceCorrect == Spec => []EvidenceIsTrue
<1>1. Init => Inv
  <2> SUFFICES ASSUME Init PROVE Inv
    OBVIOUS
  <2>1. TypeOK
    BY RecordTypes DEF Init, TypeOK
  <2>2. LockHeld /\ \A b \in Builds : Sure(b)
    BY DEF Init, LockHeld, Sure, Early, Restored
  <2> QED
    BY <2>1, <2>2 DEF Inv
<1>2. Inv /\ TypeOK' /\ [Next]_vars => Inv'
  <2> SUFFICES ASSUME Inv, TypeOK', [Next]_vars PROVE Inv'
    OBVIOUS
  <2>1. CASE UNCHANGED vars
    BY <2>1 DEF vars, Inv, LockHeld, Sure, Early, Restored, Own
  <2>2. ASSUME NEW b \in Builds, Prepare(b) \/ Work(b) \/ Fail(b) \/ Die(b) PROVE Inv'
    BY <2>2, RestoreKeeps, PublishKeeps, ReleaseKeeps, OutsideKeeps DEF Work, Publish, RenameFails
  <2>3. ASSUME NEW p \in Prunes, Prune(p) PROVE Inv'
    BY <2>3, PruneKeeps
  <2> QED
    BY <2>1, <2>2, <2>3 DEF Next
<1>3. Inv => EvidenceIsTrue
  BY DEF Inv, Sure, EvidenceIsTrue, Own
<1> QED
  BY <1>1, <1>2, <1>3, TypeCorrect, PTL DEF Spec

-----------------------------------------------------------------------------
(* A build with its Pods is, to the native cache, one without: each step   *)
(* of NativeBuild is a step of NativeArtifactCache or leaves it alone.     *)
THEOREM Composed == BuildSpec => Init /\ [][Next]_vars
<1>1. BuildInit => Init
  BY DEF BuildInit
<1>2. [BuildNext]_buildVars => [Next]_vars
  <2> SUFFICES ASSUME [BuildNext]_buildVars PROVE [Next]_vars
    OBVIOUS
  <2>1. CASE UNCHANGED buildVars
    <3>1. vars' = vars
      BY <2>1 DEF buildVars
    <3> QED
      BY <3>1
  <2>2. ASSUME NEW b \in Builds, PodsWork(b) PROVE UNCHANGED vars
    <3>1. CASE \/ LockPods(b, "restore", "look", "install") \/ LockPods(b, "publish", "check", "xcode")
               \/ ReadIndex(b) \/ CheckPods(b)
      BY <3>1 DEF LockPods, ReadIndex, CheckPods
    <3>2. CASE CopyPods(b) \/ Install(b)
      BY <3>2 DEF CopyPods, Install
    <3>3. CASE \/ CheckEntry(b) \/ RemoveEntry(b) \/ EntryRemoved(b) \/ RenameEntry(b)
               \/ DropIndex(b) \/ PointIndex(b)
      BY <3>3 DEF CheckEntry, RemoveEntry, EntryRemoved, RenameEntry, DropIndex, PointIndex
    <3> QED
      BY <2>2, <3>1, <3>2, <3>3 DEF PodsWork
  <2>3. ASSUME NEW b \in Builds,
               BuildEnters(b) \/ BuildCompiles(b) \/ BuildGoesOn(b) \/ BuildFails(b)
                 \/ PodsMissing(b) \/ Prepare(b) \/ Die(b)
        PROVE  Next
    BY <2>3 DEF BuildEnters, BuildCompiles, BuildGoesOn, BuildFails, PodsMissing, Next, Work
  <2>4. ASSUME NEW p \in Prunes, BuildsPruned(p) PROVE [Next]_vars
    BY <2>4 DEF BuildsPruned, PlanPods, DeletePods, DeletePodsCopy, DeleteIndex, Prune, Next
  <2> QED
    BY <2>1, <2>2, <2>3, <2>4 DEF BuildNext
<1> QED
  BY <1>1, <1>2, PTL DEF BuildSpec

(* Hence the evidence of a build with its Pods is true as well, with the   *)
(* same two exceptions.                                                    *)
THEOREM EvidenceOfBuilds == BuildSpec => []EvidenceIsTrue
<1>1. Spec <=> Init /\ [][Next]_vars
  BY DEF Spec
<1> QED
  BY <1>1, Composed, EvidenceCorrect, PTL

-----------------------------------------------------------------------------
(* The Pods of the compiling build and of the cache are of their types,    *)
(* there is a lock once the index is read and from pod install on, what    *)
(* publish replaces is what it has found to be incomplete, however much a  *)
(* prune deletes of it meanwhile, and nothing but that is a part.          *)
AfterInstall == {"publish", "check", "remove", "removing", "rename", "drop", "point"}

Installing == step \in AfterInstall => tree.lock \in Locks
Wanting == step \in {"check entry", "copy"} => wanted \in Locks
Replacing == step \in {"remove", "removing"} => ~Valid(entries[tree.lock])
ValidWhole == \A l \in Locks : Valid(entries[l]) => entries[l].pods # "part"

PodsInv ==
  /\ entries \in [Locks -> PodsEntries]
  /\ index \in Locks \cup {NoLock} /\ tree.pods \in PodsStates /\ beside \in PodsEntries
  /\ Installing /\ Wanting /\ Replacing
  /\ tree.pods # "part" /\ beside.pods # "part" /\ ValidWhole

(* An entry that is not valid never becomes so, and none becomes a part,   *)
(* however much of it a prune removes.                                     *)
LEMMA RemainsInvalid ==
  ASSUME NEW e \in PodsEntries, NEW broken \in {"part", "torn"}, NEW left \in PodsRemains(e, broken)
  PROVE  /\ left \in PodsEntries
         /\ Valid(left) => Valid(e)
         /\ broken = "torn" /\ e.pods # "part" => left.pods # "part"
  BY DEF PodsRemains, PodsEntries, PodsStates, Valid

LEMMA ValidPods == \A e \in PodsEntries : Valid(e) => e.pods \in PodsStates
  BY DEF PodsEntries, Valid

(* The records the steps write.                                            *)
LEMMA PodsRecords ==
  /\ NoPods \in PodsEntries /\ NoPods.pods # "part" /\ ~Valid(NoPods)
  /\ NoTree.pods = "whole" /\ "whole" \in PodsStates
  /\ \A s \in PodsStates, l \in Locks \cup {NoLock} :
       LET t == [lock |-> l, pods |-> s] IN t.lock = l /\ t.pods = s
  /\ \A s \in {"none"} \cup PodsStates :
       LET e == [pods |-> s, lock |-> TRUE] IN e \in PodsEntries /\ e.pods = s
  BY DEF NoPods, NoTree, PodsEntries, PodsStates, Valid

(* What xcodebuild gets and what the cache has for complete is whole,      *)
(* unless a prune began to delete from it: no failure or death of builds   *)
(* makes a part of it.                                                     *)
THEOREM PodsWhole == BuildSpec => []PodsComplete
<1>1. BuildInit => PodsInv
  BY LocksType, PodsRecords
  DEF BuildInit, PodsInv, Installing, Wanting, Replacing, ValidWhole, AfterInstall
<1>2. PodsInv /\ [BuildNext]_buildVars => PodsInv'
  <2> SUFFICES ASSUME PodsInv, [BuildNext]_buildVars PROVE PodsInv'
    OBVIOUS
  <2> USE DEF PodsInv, Installing, Wanting, Replacing, ValidWhole, AfterInstall, cache, pods, local
  <2>0. ASSUME UNCHANGED <<index, entries, step, tree, wanted, beside>> PROVE PodsInv'
    BY <2>0 DEF Valid
  <2>1. CASE UNCHANGED buildVars
    BY <2>0, <2>1 DEF buildVars
  <2>2. ASSUME NEW b \in Builds, PodsWork(b) PROVE PodsInv'
    <3>1. CASE LockPods(b, "restore", "look", "install") \/ LockPods(b, "publish", "check", "xcode")
      BY <3>1 DEF LockPods, Valid
    <3>2. CASE ReadIndex(b)
      BY <3>2 DEF ReadIndex, Valid
    <3>3. CASE CheckPods(b)
      BY <3>3 DEF CheckPods, Valid
    <3>4. CASE CopyPods(b)
      <4>1. tree' = [lock |-> wanted, pods |-> entries[wanted].pods] /\ step' = "install"
            /\ step = "copy" /\ Valid(entries[wanted]) /\ UNCHANGED <<index, entries, beside>>
        BY <3>4 DEF CopyPods, StepTo
      <4>2. tree'.pods = entries[wanted].pods /\ wanted \in Locks
        BY <4>1, LocksType
      <4>3. tree'.pods # "part" /\ tree'.pods \in PodsStates
        BY <4>1, <4>2, ValidPods
      <4> QED
        BY <4>1, <4>3 DEF Valid
    <3>5. CASE Install(b)
      <4>1. PICK l \in Locks, s \in {"whole", tree.pods} : tree' = [lock |-> l, pods |-> s]
        BY ONLY <3>5 DEF Install
      <4>2. tree'.lock \in Locks /\ tree'.pods # "part" /\ tree'.pods \in PodsStates
        BY <4>1, PodsRecords
      <4>3. step' = "publish" /\ UNCHANGED <<index, entries, wanted, beside>>
        BY <3>5 DEF Install, StepTo
      <4> QED
        BY <4>2, <4>3 DEF Valid
    <3>6. CASE CheckEntry(b)
      <4>1. /\ step' \in {"drop", "remove"} /\ UNCHANGED <<index, entries, tree, wanted>>
            /\ step = "check" /\ (step' = "remove" => ~Valid(entries[tree.lock]))
            /\ UNCHANGED beside \/ beside' = [pods |-> tree.pods, lock |-> TRUE]
        BY <3>6 DEF CheckEntry
      <4>2. beside' \in PodsEntries /\ beside'.pods # "part"
        <5>1. tree.pods \in PodsStates
          OBVIOUS
        <5>2. [pods |-> tree.pods, lock |-> TRUE] \in PodsEntries
          BY <5>1, PodsRecords
        <5>3. CASE beside' = [pods |-> tree.pods, lock |-> TRUE]
          BY <5>2, <5>3
        <5> QED
          BY <4>1, <5>3
      <4> QED
        BY <4>1, <4>2 DEF Valid
    <3>7. CASE RemoveEntry(b)
      <4>1. PICK left \in PodsRemains(entries[tree.lock], "part") :
              entries' = [entries EXCEPT ![tree.lock] = left]
        BY <3>7 DEF RemoveEntry
      <4>2. tree.lock \in Locks /\ ~Valid(entries[tree.lock]) /\ step' = "removing"
            /\ UNCHANGED <<index, tree, wanted, beside>>
        BY <3>7 DEF RemoveEntry, StepTo
      <4>3. left \in PodsEntries /\ ~Valid(left)
        BY <4>1, <4>2, RemainsInvalid
      <4> QED
        BY <4>1, <4>2, <4>3 DEF Valid
    <3>8. CASE EntryRemoved(b)
      BY <3>8, PodsRecords DEF EntryRemoved, StepTo, Valid
    <3>9. CASE RenameEntry(b)
      <4>1. /\ step = "rename" /\ step' = "drop" /\ beside' = NoPods
            /\ entries' = [entries EXCEPT ![tree.lock] = beside]
            /\ UNCHANGED <<index, tree, wanted>>
        BY <3>9 DEF RenameEntry, StepTo
      <4>2. beside \in PodsEntries
        OBVIOUS
      <4> QED
        BY <4>1, <4>2, PodsRecords DEF Valid
    <3>10. CASE DropIndex(b) \/ PointIndex(b)
      BY <3>10 DEF DropIndex, PointIndex, StepTo, Valid
    <3> QED
      BY <2>2, <3>1, <3>2, <3>3, <3>4, <3>5, <3>6, <3>7, <3>8, <3>9, <3>10 DEF PodsWork
  <2>3. ASSUME NEW b \in Builds, BuildEnters(b) \/ BuildCompiles(b) PROVE PodsInv'
    <3>1. /\ tree' = NoTree /\ beside' = NoPods /\ step' \in {"restore", "xcode", "none"}
          /\ UNCHANGED <<index, entries>>
      BY <2>3 DEF BuildEnters, BuildCompiles, Leaves
    <3> QED
      BY <3>1, PodsRecords DEF Valid
  <2>4. ASSUME NEW b \in Builds, BuildGoesOn(b) \/ (Prepare(b) /\ UNCHANGED pods) PROVE PodsInv'
    BY <2>0, <2>4 DEF BuildGoesOn
  <2>5. ASSUME UNCHANGED <<index, entries, step, tree, wanted>>, beside' \in {NoPods, beside}
        PROVE  PodsInv'
    BY <2>5, PodsRecords DEF Valid
  <2>6. ASSUME NEW b \in Builds, BuildFails(b) \/ PodsMissing(b) PROVE PodsInv'
    <3>1. /\ UNCHANGED <<index, entries>>
          /\ Leaves \/ UNCHANGED <<step, tree, wanted, beside>>
      BY <2>6 DEF BuildFails, PodsMissing
    <3> QED
      BY <2>0, <3>1, PodsRecords DEF Valid, Leaves
  <2>7. ASSUME NEW p \in Prunes, BuildsPruned(p) PROVE PodsInv'
    <3>1. ASSUME NEW l \in Locks, DeletePods(p, l) PROVE PodsInv'
      <4>1. PICK left \in PodsRemains(entries[l], "torn") : entries' = [entries EXCEPT ![l] = left]
        BY <3>1 DEF DeletePods
      <4>2. left \in PodsEntries /\ (Valid(left) => Valid(entries[l]))
            /\ (entries[l].pods # "part" => left.pods # "part")
        BY <4>1, RemainsInvalid
      <4>3. UNCHANGED <<index, step, tree, wanted, beside>>
        BY <3>1 DEF DeletePods
      <4> QED
        BY <4>1, <4>2, <4>3
    <3>2. ASSUME NEW b \in Builds, DeletePodsCopy(p, b) PROVE PodsInv'
      <4>1. beside' \in PodsRemains(beside, "torn") \cup {beside} /\ beside' \in PodsEntries
            /\ UNCHANGED <<index, entries, step, tree, wanted>>
        BY <3>2 DEF DeletePodsCopy
      <4>2. beside' \in PodsEntries /\ beside'.pods # "part"
        BY <4>1, RemainsInvalid
      <4> QED
        BY <4>1, <4>2
    <3>3. CASE DeleteIndex(p)
      BY <3>3 DEF DeleteIndex, Valid
    <3>4. CASE UNCHANGED <<cache, local>>
      BY <2>0, <3>4
    <3> QED
      BY <2>7, <3>1, <3>2, <3>3, <3>4 DEF BuildsPruned, PlanPods
  <2> QED
    BY <2>1, <2>2, <2>3, <2>4, <2>5, <2>6, <2>7 DEF BuildNext
<1>3. PodsInv => PodsComplete
  BY DEF PodsInv, ValidWhole, PodsComplete
<1> QED
  BY <1>1, <1>2, <1>3, PTL DEF BuildSpec
=============================================================================
