------------------------ MODULE NativeBuildLockProofs -----------------------
(***************************************************************************)
(* What holds of the native build lock for any number of builders, deaths  *)
(* and stalls: its types, that a record on disk names a builder which is   *)
(* compiling or dead, and that no lock outlives its users.  Mutual         *)
(* exclusion does not hold in general (a TLC run refutes it); the last     *)
(* theorems show that the recovery rename alone is to blame, and of it     *)
(* only that the lock may have changed since it was judged stale.          *)
(***************************************************************************)
EXTENDS NativeBuildLock, TLAPS

USE DEF At, Goto, RemoveLock, Building, Stages

(* The types of the lock and of the builders' progress.                    *)
THEOREM TypeCorrect == Spec => []TypeOK
<1>1. Init => TypeOK
  BY DEF Init, TypeOK
<1>2. TypeOK /\ [Next]_vars => TypeOK'
  <2> SUFFICES ASSUME TypeOK, [Next]_vars PROVE TypeOK'
    OBVIOUS
  <2> USE DEF TypeOK
  <2>1. ASSUME NEW b \in Builders, Attempt(b) PROVE TypeOK'
    <3>1. CASE Start(b) \/ AlreadyExists(b) \/ Poll(b) \/ WriteFails(b)
      BY <3>1 DEF Start, AlreadyExists, Poll, WriteFails, lock
    <3>2. CASE MakeDirectory(b)
      BY <3>2 DEF MakeDirectory
    <3>3. CASE WriteOwner(b)
      BY <3>3 DEF WriteOwner
    <3>4. CASE UndoMake(b) \/ Recover(b)
      BY <3>4 DEF UndoMake, Recover
    <3>5. CASE ReadOwner(b)
      BY <3>5 DEF ReadOwner, lock
    <3>6. CASE StatLock(b)
      BY <3>6 DEF StatLock, lock
    <3> QED
      BY <2>1, <3>1, <3>2, <3>3, <3>4, <3>5, <3>6 DEF Attempt
  <2>2. ASSUME NEW b \in Builders, Release(b) PROVE TypeOK'
    <3>1. CASE FinishBuild(b) \/ VerifyToken(b)
      BY <3>1 DEF FinishBuild, VerifyToken, lock
    <3>2. CASE RenameReleased(b)
      BY <3>2 DEF RenameReleased
    <3> QED
      BY <2>2, <3>1, <3>2 DEF Release
  <2>3. ASSUME NEW b \in Builders, Die(b) PROVE TypeOK'
    BY <2>3 DEF Die, lock
  <2>4. CASE Age
    BY <2>4 DEF Age
  <2>5. CASE UNCHANGED vars
    BY <2>5 DEF vars
  <2> QED
    BY <2>1, <2>2, <2>3, <2>4, <2>5 DEF Next
<1> QED
  BY <1>1, <1>2, PTL DEF Spec

-----------------------------------------------------------------------------
(* A builder only leaves its compilation by dying, or by a release that    *)
(* takes its own record off the disk.                                      *)
Recorded == OwnerIsBuilding /\ NoLockLeft

LEMMA StepRecorded == TypeOK /\ Recorded /\ [Next]_vars => Recorded'
<1> SUFFICES ASSUME TypeOK, Recorded, [Next]_vars PROVE Recorded'
  OBVIOUS
<1> USE NobodyFresh DEF TypeOK, Recorded, OwnerIsBuilding, NoLockLeft
<1>1. ASSUME NEW b \in Builders, Start(b) \/ AlreadyExists(b) \/ Poll(b)
      PROVE  Recorded'
  BY <1>1 DEF Start, AlreadyExists, Poll, lock
<1>2. ASSUME NEW b \in Builders, MakeDirectory(b)
      PROVE  Recorded'
  BY <1>2 DEF MakeDirectory
<1>3. ASSUME NEW b \in Builders, WriteOwner(b) \/ WriteFails(b)
      PROVE  Recorded'
  BY <1>3 DEF WriteOwner, WriteFails, lock
<1>4. ASSUME NEW b \in Builders, UndoMake(b) \/ Recover(b) \/ RenameReleased(b)
      PROVE  Recorded'
  BY <1>4 DEF UndoMake, Recover, RenameReleased
<1>5. ASSUME NEW b \in Builders, ReadOwner(b) \/ StatLock(b)
      PROVE  Recorded'
  BY <1>5 DEF ReadOwner, StatLock, lock
<1>6. ASSUME NEW b \in Builders, FinishBuild(b) \/ VerifyToken(b)
      PROVE  Recorded'
  BY <1>6 DEF FinishBuild, VerifyToken, lock
<1>7. ASSUME NEW b \in Builders, Die(b)
      PROVE  Recorded'
  BY <1>7 DEF Die, lock
<1>8. CASE Age \/ UNCHANGED vars
  BY <1>8 DEF Age, vars
<1> QED
  BY <1>1, <1>2, <1>3, <1>4, <1>5, <1>6, <1>7, <1>8 DEF Next, Attempt, Release

(* No waiter ever waits for a build that is over.                          *)
THEOREM OwnersCompile == Spec => []OwnerIsBuilding
<1>1. Init => Recorded
  BY DEF Init, Recorded, OwnerIsBuilding, NoLockLeft
<1>2. Recorded => OwnerIsBuilding
  BY DEF Recorded
<1> QED
  BY <1>1, <1>2, StepRecorded, TypeCorrect, PTL DEF Spec

(* A lock without a record has a maker at work, or a dead one.             *)
THEOREM LocksHaveMakers == Spec => []NoLockLeft
<1>1. Init => Recorded
  BY DEF Init, Recorded, OwnerIsBuilding, NoLockLeft
<1>2. Recorded => NoLockLeft
  BY DEF Recorded
<1> QED
  BY <1>1, <1>2, StepRecorded, TypeCorrect, PTL DEF Spec

-----------------------------------------------------------------------------
(* Between its mkdir and its last rename a builder owns the directory.     *)
Inside(b) == pc[b] \in {"write", "undo"} \/ Building(b)

OwnDirectory ==
  /\ \A b, c \in Builders : Inside(b) /\ Inside(c) => b = c
  /\ \A b \in Builders : Inside(b) => exists
  /\ \A b \in Builders : Building(b) => owner = b

(* Every behaviour in which a lock that is renamed away as stale still is  *)
(* what ReadOwner and StatLock look for: its owner is dead, or there is no *)
(* record and the directory is gone or old.                                *)
Stale == owner \in Builders \ Alive \/ (owner = Nobody /\ ~(exists /\ young))

AtomicRecovery == Init /\ [][Next /\ \A b \in Builders : Recover(b) => Stale]_vars

(* A lock has no record and is young while its maker is alive and has not  *)
(* written one.                                                            *)
MakersAreYoung ==
  \A b \in Builders : pc[b] \in {"write", "undo"} => young /\ owner = Nobody

LEMMA OwnDirectoryKept ==
  ASSUME ~Stalls, TypeOK, OwnDirectory, MakersAreYoung,
         (Next /\ \A b \in Builders : Recover(b) => Stale) \/ UNCHANGED vars
  PROVE  OwnDirectory' /\ MakersAreYoung'
<1> USE NobodyFresh DEF TypeOK, Inside, OwnDirectory, MakersAreYoung
<1>1. ASSUME NEW b \in Builders, Start(b) \/ AlreadyExists(b) \/ Poll(b)
      PROVE  OwnDirectory' /\ MakersAreYoung'
  BY <1>1 DEF Start, AlreadyExists, Poll, lock
<1>2. ASSUME NEW b \in Builders, MakeDirectory(b)
      PROVE  OwnDirectory' /\ MakersAreYoung'
  BY <1>2 DEF MakeDirectory
<1>3. ASSUME NEW b \in Builders, WriteOwner(b) \/ WriteFails(b)
      PROVE  OwnDirectory' /\ MakersAreYoung'
  BY <1>3 DEF WriteOwner, WriteFails, lock
<1>4. ASSUME NEW b \in Builders, UndoMake(b) \/ RenameReleased(b)
      PROVE  OwnDirectory' /\ MakersAreYoung'
  BY <1>4 DEF UndoMake, RenameReleased
<1>5. ASSUME NEW b \in Builders, ReadOwner(b) \/ StatLock(b)
      PROVE  OwnDirectory' /\ MakersAreYoung'
  BY <1>5 DEF ReadOwner, StatLock, lock
<1>6. ASSUME NEW b \in Builders, FinishBuild(b) \/ VerifyToken(b)
      PROVE  OwnDirectory' /\ MakersAreYoung'
  BY <1>6 DEF FinishBuild, VerifyToken, lock
<1>7. ASSUME NEW b \in Builders, Recover(b)
      PROVE  OwnDirectory' /\ MakersAreYoung'
  <2>1. Stale
    <3>1. pc'[b] # pc[b]
      BY <1>7 DEF Recover
    <3> QED
      BY <1>7, <3>1 DEF vars
  <2>2. \A c \in Builders : ~Inside(c)
    BY <2>1 DEF Stale, Alive
  <2> QED
    BY <1>7, <2>2 DEF Recover
<1>8. ASSUME NEW b \in Builders, Die(b)
      PROVE  OwnDirectory' /\ MakersAreYoung'
  BY <1>8 DEF Die, lock
<1>9. CASE Age \/ UNCHANGED vars
  BY <1>9 DEF Age, vars
<1> QED
  BY <1>1, <1>2, <1>3, <1>4, <1>5, <1>6, <1>7, <1>8, <1>9 DEF Next, Attempt, Release

(* Such behaviours keep the directory of the one builder inside.           *)
LEMMA AtomicInvariant ==
  ASSUME ~Stalls
  PROVE  AtomicRecovery => [](TypeOK /\ OwnDirectory /\ MakersAreYoung)
<1>1. Init => OwnDirectory /\ MakersAreYoung
  BY DEF Init, OwnDirectory, MakersAreYoung, Inside
<1>2. TypeOK /\ OwnDirectory /\ MakersAreYoung
        /\ [Next /\ \A b \in Builders : Recover(b) => Stale]_vars
        => OwnDirectory' /\ MakersAreYoung'
  BY OwnDirectoryKept
<1>3. [Next /\ \A b \in Builders : Recover(b) => Stale]_vars => [Next]_vars
  OBVIOUS
<1> QED
  BY <1>1, <1>2, <1>3, TypeCorrect, PTL DEF AtomicRecovery, Spec

(* What lets two compilers run is only that a lock judged stale is renamed *)
(* when it may be another: if it were not, they would exclude each other,  *)
(* however many they are, whichever die and whoever recovers ...           *)
THEOREM ExclusionWithAtomicRecovery ==
  ASSUME ~Stalls
  PROVE  AtomicRecovery => []MutualExclusion
<1>1. OwnDirectory => MutualExclusion
  BY DEF OwnDirectory, MutualExclusion, Inside
<1> QED
  BY <1>1, AtomicInvariant, PTL

(* ... and no step of another would take a live builder's lock away.       *)
THEOREM LiveLocksWithAtomicRecovery ==
  ASSUME ~Stalls
  PROVE  AtomicRecovery => LiveLockKept
<1>1. TypeOK /\ OwnDirectory /\ MakersAreYoung
        /\ [Next /\ \A b \in Builders : Recover(b) => Stale]_vars
        => [\A b \in Builders :
              Building(b) /\ owner = b /\ owner' # b => pc'[b] \in {"done", "dead"}]_vars
  <2> SUFFICES ASSUME TypeOK, OwnDirectory, Next, \A b \in Builders : Recover(b) => Stale,
                      NEW b \in Builders, Building(b), owner = b, owner' # b
               PROVE  pc'[b] \in {"done", "dead"}
    OBVIOUS
  <2> USE NobodyFresh DEF TypeOK, OwnDirectory, Inside
  <2>1. ASSUME NEW c \in Builders, Attempt(c) PROVE FALSE
    <3>1. CASE Recover(c)
      BY <3>1 DEF Stale, Alive
    <3>2. CASE ~Recover(c)
      BY <2>1, <3>2 DEF Attempt, Start, MakeDirectory, AlreadyExists, WriteOwner, WriteFails,
           UndoMake, ReadOwner, StatLock, Poll, lock
    <3> QED
      BY <3>1, <3>2
  <2>2. ASSUME NEW c \in Builders, Release(c) PROVE c = b /\ pc'[b] = "done"
    BY <2>2 DEF Release, FinishBuild, VerifyToken, RenameReleased, lock
  <2> QED
    BY <2>1, <2>2 DEF Next, Die, Age, lock
<1> QED
  BY <1>1, AtomicInvariant, PTL DEF AtomicRecovery, LiveLockKept
=============================================================================
