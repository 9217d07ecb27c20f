--------------------------- MODULE KeepAwakeProofs --------------------------
(***************************************************************************)
(* The scoped leases of KeepAwake are correct for any finite set of scopes *)
(* and any tags.  The argument is one inductive invariant: the semaphore's *)
(* owner is exactly the fiber inside a native call, the count of a tag is  *)
(* the number of its holders (plus a lost release), and a tag is awake     *)
(* exactly when its count is not zero.                                     *)
(***************************************************************************)
EXTENDS KeepAwake, FiniteSetTheorems, TLAPS

InCall == {"activating", "deactivating"}

MutexInv == \A s \in Scopes : pc[s] \in InCall <=> mutex = s

TagInv == \A s \in Scopes : pc[s] \in {"idle", "probing"} <=> tag[s] = NoTag

CallInv ==
  \A s \in Scopes :
    /\ pc[s] = "activating" => counts[tag[s]] = 0
    /\ pc[s] = "deactivating" => counts[tag[s]] = 1

NativeInv == \A t \in Tags \ ManualTags : counts[t] > 0 <=> t \in native

IInv == TypeOK /\ MutexInv /\ TagInv /\ CallInv /\ CountsAreHolders /\ NativeInv

LostCount(t) == IF t \in lost THEN 1 ELSE 0

-----------------------------------------------------------------------------
(* The tags are a set of values none of which is NoTag.                    *)
LEMMA NoTagOutside == NoTag \notin Tags /\ GeneratedTags \subseteq Tags
  BY TagsDistinct DEF Tags, GeneratedTags

(* Any set of holders is finite, so it has a cardinality.                  *)
LEMMA HoldersFinite ==
  ASSUME NEW t
  PROVE  IsFiniteSet(HoldersOf(t)) /\ Cardinality(HoldersOf(t)) \in Nat
<1>1. HoldersOf(t) \subseteq Scopes
  BY DEF HoldersOf
<1>2. IsFiniteSet(HoldersOf(t))
  BY <1>1, ScopesFinite, FS_Subset
<1> QED
  BY <1>2, FS_CardinalityType

(* A scope that starts to lease tag t adds one to the holders of t, and to *)
(* no other tag's.                                                         *)
LEMMA JoinHolders ==
  ASSUME TypeOK, NEW s \in Scopes, pc[s] \notin Leasing,
         pc' = [pc EXCEPT ![s] = "held"], tag' = tag,
         NEW t \in Tags
  PROVE  Cardinality(HoldersOf(t))'
           = Cardinality(HoldersOf(t)) + (IF t = tag[s] THEN 1 ELSE 0)
<1>1. CASE t = tag[s]
  <2>1. HoldersOf(t)' = HoldersOf(t) \cup {s}
    BY <1>1 DEF HoldersOf, TypeOK, Leasing
  <2>2. s \notin HoldersOf(t)
    BY DEF HoldersOf
  <2> QED
    BY <1>1, <2>1, <2>2, HoldersFinite, FS_AddElement
<1>2. CASE t # tag[s]
  <2>1. HoldersOf(t)' = HoldersOf(t)
    BY <1>2 DEF HoldersOf, TypeOK, Leasing
  <2> QED
    BY <1>2, <2>1, HoldersFinite
<1> QED
  BY <1>1, <1>2

(* A scope that ends its lease of tag[s] takes one from the holders of     *)
(* that tag, and from no other's.                                          *)
LEMMA QuitHolders ==
  ASSUME TypeOK, NEW s \in Scopes, pc[s] \in Leasing, tag[s] \in Tags,
         pc' = [pc EXCEPT ![s] = "idle"], tag' = [tag EXCEPT ![s] = NoTag],
         NEW t \in Tags
  PROVE  Cardinality(HoldersOf(t))'
           = Cardinality(HoldersOf(t)) - (IF t = tag[s] THEN 1 ELSE 0)
<1>1. CASE t = tag[s]
  <2>1. HoldersOf(t)' = HoldersOf(t) \ {s}
    BY <1>1 DEF HoldersOf, TypeOK, Leasing
  <2>2. s \in HoldersOf(t)
    BY <1>1 DEF HoldersOf
  <2>3. Cardinality(HoldersOf(t) \ {s}) = Cardinality(HoldersOf(t)) - 1
    BY <2>2, HoldersFinite, FS_RemoveElement
  <2> QED
    BY <1>1, <2>1, <2>3
<1>2. CASE t # tag[s]
  <2>1. HoldersOf(t)' = HoldersOf(t)
    BY <1>2 DEF HoldersOf, TypeOK, Leasing
  <2> QED
    BY <1>2, <2>1, HoldersFinite
<1> QED
  BY <1>1, <1>2

(* Steps that neither start nor end a lease leave the holders alone.       *)
LEMMA SameHolders ==
  ASSUME TypeOK, NEW s \in Scopes, NEW stage \in Stages,
         pc[s] \in Leasing <=> stage \in Leasing,
         pc' = [pc EXCEPT ![s] = stage],
         pc[s] \in Leasing => tag' = tag,
         \A r \in Scopes \ {s} : tag'[r] = tag[r],
         NEW t \in Tags
  PROVE  Cardinality(HoldersOf(t))' = Cardinality(HoldersOf(t))
<1>1. HoldersOf(t)' = HoldersOf(t)
  BY DEF HoldersOf, TypeOK, Leasing, Stages
<1> QED
  BY <1>1

-----------------------------------------------------------------------------
LEMMA InitIInv == Init => IInv
<1> SUFFICES ASSUME Init PROVE IInv
  OBVIOUS
<1>1. TypeOK
  BY MaxGeneratedNat DEF Init, TypeOK, Stages
<1>2. MutexInv /\ TagInv /\ CallInv /\ NativeInv
  BY NoScopeFresh DEF Init, MutexInv, TagInv, CallInv, NativeInv, InCall
<1>3. CountsAreHolders
  <2> SUFFICES ASSUME NEW t \in Tags
               PROVE  counts[t] = Cardinality(HoldersOf(t)) + LostCount(t)
    BY DEF CountsAreHolders, LostCount
  <2>1. HoldersOf(t) = {}
    BY DEF Init, HoldersOf, Leasing
  <2> QED
    BY <2>1, FS_EmptySet DEF Init, LostCount
<1> QED
  BY <1>1, <1>2, <1>3 DEF IInv

-----------------------------------------------------------------------------
(* Every step keeps the types.                                             *)
LEMMA StepTypeOK == TypeOK /\ TagInv /\ [Next]_vars => TypeOK'
<1> SUFFICES ASSUME TypeOK, TagInv, [Next]_vars
             PROVE  TypeOK'
  OBVIOUS
<1> USE DEF TypeOK, Stages
<1>1. ASSUME NEW s \in Scopes, Request(s)
      PROVE  TypeOK'
  <2>1. \A n \in 0..MaxGenerated :
          n < MaxGenerated => n + 1 \in 0..MaxGenerated /\ n + 1 \in Tags
    BY MaxGeneratedNat DEF Tags, GeneratedTags
  <2>2. CASE Open(s) \/ Unavailable(s)
    BY <2>2 DEF Open, Unavailable, Goto
  <2>3. CASE \E t \in ExplicitTags : AvailableExplicit(s, t)
    BY <2>3 DEF AvailableExplicit, Goto, Tags
  <2>4. CASE AvailableGenerated(s)
    BY <2>1, <2>4 DEF AvailableGenerated, Goto
  <2> QED
    BY <1>1, <2>2, <2>3, <2>4 DEF Request
<1>2. ASSUME NEW s \in Scopes, Acquire(s)
      PROVE  TypeOK'
  <2>1. pc[s] \in {"acquiring", "activating"} => tag[s] \in Tags
    BY DEF TagInv
  <2>2. CASE ShareLease(s) \/ StartActivate(s)
    BY <2>1, <2>2 DEF ShareLease, StartActivate, Goto
  <2>3. CASE ActivateOk(s)
    BY <2>1, <2>3 DEF ActivateOk, Goto
  <2>4. CASE ActivateFail(s)
    BY <2>4 DEF ActivateFail, Finish, Goto
  <2> QED
    BY <1>2, <2>2, <2>3, <2>4 DEF Acquire
<1>3. ASSUME NEW s \in Scopes, Close(s)
      PROVE  TypeOK'
  BY <1>3 DEF Close, Goto
<1>4. ASSUME NEW s \in Scopes, Release(s)
      PROVE  TypeOK'
  <2>1. pc[s] \in {"releasing", "deactivating"} => tag[s] \in Tags
    BY DEF TagInv
  <2>2. CASE DropShare(s)
    BY <2>1, <2>2 DEF DropShare, Finish, Goto
  <2>3. CASE StartDeactivate(s)
    BY <2>3 DEF StartDeactivate, Goto
  <2>4. CASE DeactivateOk(s) \/ DeactivateFail(s)
    BY <2>1, <2>4 DEF DeactivateOk, DeactivateFail, Finish, Goto
  <2> QED
    BY <1>4, <2>2, <2>3, <2>4 DEF Release
<1>5. CASE Manual
  BY <1>5, TagsDistinct DEF Manual, ManualActivate, ManualDeactivate, Tags
<1>6. CASE UNCHANGED vars
  BY <1>6 DEF vars
<1> QED
  BY <1>1, <1>2, <1>3, <1>4, <1>5, <1>6 DEF Next

(* The semaphore's owner is the one fiber inside a native call, and only   *)
(* idle or probing scopes have no tag.                                     *)
LEMMA StepLocal == TypeOK /\ MutexInv /\ TagInv /\ [Next]_vars => MutexInv' /\ TagInv'
<1> SUFFICES ASSUME TypeOK, MutexInv, TagInv, [Next]_vars
             PROVE  MutexInv' /\ TagInv'
  OBVIOUS
<1> USE DEF TypeOK, Stages, MutexInv, TagInv, InCall
<1>1. ASSUME NEW s \in Scopes, Request(s)
      PROVE  MutexInv' /\ TagInv'
  <2>1. CASE Open(s) \/ Unavailable(s)
    BY <2>1 DEF Open, Unavailable, Goto
  <2>2. CASE \E t \in ExplicitTags : AvailableExplicit(s, t)
    BY <2>2, NoTagOutside DEF AvailableExplicit, Goto, Tags
  <2>3. CASE AvailableGenerated(s)
    <3>1. generated + 1 \in Tags
      BY <2>3, MaxGeneratedNat DEF AvailableGenerated, Tags, GeneratedTags
    <3> QED
      BY <2>3, <3>1, NoTagOutside DEF AvailableGenerated, Goto
  <2> QED
    BY <1>1, <2>1, <2>2, <2>3 DEF Request
<1>2. ASSUME NEW s \in Scopes, Acquire(s)
      PROVE  MutexInv' /\ TagInv'
  BY <1>2, NoScopeFresh
     DEF Acquire, ShareLease, StartActivate, ActivateOk, ActivateFail, Finish, Goto
<1>3. ASSUME NEW s \in Scopes, Close(s)
      PROVE  MutexInv' /\ TagInv'
  BY <1>3 DEF Close, Goto
<1>4. ASSUME NEW s \in Scopes, Release(s)
      PROVE  MutexInv' /\ TagInv'
  BY <1>4, NoScopeFresh
     DEF Release, DropShare, StartDeactivate, DeactivateOk, DeactivateFail, Finish, Goto
<1>5. CASE Manual \/ UNCHANGED vars
  BY <1>5 DEF Manual, ManualActivate, ManualDeactivate, vars
<1> QED
  BY <1>1, <1>2, <1>3, <1>4, <1>5 DEF Next

-----------------------------------------------------------------------------
(* The holder whose deactivation is in flight is the only one, and its tag *)
(* has lost no release: its count is one.                                  *)
LEMMA LastHolder ==
  ASSUME TypeOK, TagInv, CountsAreHolders,
         NEW s \in Scopes, pc[s] \in Leasing, counts[tag[s]] <= 1
  PROVE  /\ tag[s] \in Tags \ lost
         /\ counts[tag[s]] = 1
         /\ Cardinality(HoldersOf(tag[s])) = 1
<1>1. tag[s] \in Tags
  BY DEF TypeOK, TagInv, Leasing
<1>2. HoldersOf(tag[s]) # {}
  BY DEF HoldersOf
<1>3. Cardinality(HoldersOf(tag[s])) # 0
  BY <1>2, HoldersFinite, FS_EmptySet
<1> QED
  BY <1>1, <1>3, HoldersFinite DEF CountsAreHolders, TypeOK

(* Steps of one scope that touch neither counts nor lost and neither start *)
(* nor end a lease keep the counting invariants.                           *)
LEMMA StepQuiet ==
  ASSUME TypeOK, CountsAreHolders,
         NEW s \in Scopes, NEW stage \in Stages,
         pc[s] \in Leasing <=> stage \in Leasing,
         pc' = [pc EXCEPT ![s] = stage],
         pc[s] \in Leasing => tag' = tag,
         \A r \in Scopes \ {s} : tag'[r] = tag[r],
         UNCHANGED <<counts, lost>>
  PROVE  CountsAreHolders'
<1>1. \A t \in Tags : Cardinality(HoldersOf(t))' = Cardinality(HoldersOf(t))
  BY SameHolders
<1> QED
  BY <1>1 DEF CountsAreHolders

(* The count of every tag follows its holders.                             *)
LEMMA StepCounts == IInv /\ [Next]_vars => CountsAreHolders'
<1> SUFFICES ASSUME IInv, [Next]_vars
             PROVE  CountsAreHolders'
  OBVIOUS
<1> USE DEF IInv
<1>1. ASSUME NEW s \in Scopes, Request(s)
      PROVE  CountsAreHolders'
  <2>1. PICK stage \in {"idle", "probing", "acquiring"} :
          /\ pc' = [pc EXCEPT ![s] = stage]
          /\ pc[s] \notin Leasing
          /\ \A r \in Scopes \ {s} : tag'[r] = tag[r]
          /\ UNCHANGED <<counts, lost>>
    BY <1>1 DEF Request, Open, Unavailable, AvailableExplicit, AvailableGenerated,
                Goto, Leasing, TypeOK
  <2> QED
    BY <2>1, StepQuiet DEF Leasing, Stages
<1>2. ASSUME NEW s \in Scopes, Acquire(s)
      PROVE  CountsAreHolders'
  <2>1. CASE StartActivate(s) \/ ActivateFail(s)
    <3>1. PICK stage \in {"idle", "activating"} :
            /\ pc' = [pc EXCEPT ![s] = stage]
            /\ pc[s] \notin Leasing
            /\ \A r \in Scopes \ {s} : tag'[r] = tag[r]
            /\ UNCHANGED <<counts, lost>>
      BY <2>1 DEF StartActivate, ActivateFail, Finish, Goto, Leasing, TypeOK
    <3> QED
      BY <3>1, StepQuiet DEF Leasing, Stages
  <2>2. CASE ShareLease(s) \/ ActivateOk(s)
    <3>1. /\ pc[s] \notin Leasing
          /\ tag[s] \in Tags
          /\ pc' = [pc EXCEPT ![s] = "held"]
          /\ UNCHANGED <<tag, lost>>
      BY <2>2 DEF ShareLease, ActivateOk, Goto, Leasing, TagInv, TypeOK
    <3>2. counts' = [counts EXCEPT ![tag[s]] = @ + 1]
      BY <2>2 DEF ShareLease, ActivateOk, CallInv, TypeOK
    <3>3. \A t \in Tags : Cardinality(HoldersOf(t))'
             = Cardinality(HoldersOf(t)) + (IF t = tag[s] THEN 1 ELSE 0)
      BY <3>1, JoinHolders
    <3> QED
      BY <3>1, <3>2, <3>3, HoldersFinite DEF CountsAreHolders, TypeOK
  <2> QED
    BY <1>2, <2>1, <2>2 DEF Acquire
<1>3. ASSUME NEW s \in Scopes, Close(s)
      PROVE  CountsAreHolders'
  <2>1. /\ pc' = [pc EXCEPT ![s] = "releasing"]
        /\ pc[s] \in Leasing
        /\ UNCHANGED <<tag, counts, lost>>
    BY <1>3 DEF Close, Goto, Leasing
  <2> QED
    BY <2>1, StepQuiet DEF Leasing, Stages
<1>4. ASSUME NEW s \in Scopes, Release(s)
      PROVE  CountsAreHolders'
  <2>1. CASE StartDeactivate(s)
    <3>1. /\ pc' = [pc EXCEPT ![s] = "deactivating"]
          /\ pc[s] \in Leasing
          /\ UNCHANGED <<tag, counts, lost>>
      BY <2>1 DEF StartDeactivate, Goto, Leasing
    <3> QED
      BY <3>1, StepQuiet DEF Leasing, Stages
  <2>2. CASE DropShare(s) \/ DeactivateOk(s) \/ DeactivateFail(s)
    <3>1. /\ pc[s] \in Leasing
          /\ tag[s] \in Tags
          /\ pc' = [pc EXCEPT ![s] = "idle"]
          /\ tag' = [tag EXCEPT ![s] = NoTag]
      BY <2>2 DEF DropShare, DeactivateOk, DeactivateFail, Finish, Goto, Leasing,
                  TagInv, TypeOK
    <3>2. \A t \in Tags : Cardinality(HoldersOf(t))'
             = Cardinality(HoldersOf(t)) - (IF t = tag[s] THEN 1 ELSE 0)
      BY <3>1, QuitHolders
    <3>3. CASE DropShare(s) \/ DeactivateOk(s)
      <4>1. counts' = [counts EXCEPT ![tag[s]] = @ - 1] /\ lost' = lost
        BY <3>3 DEF DropShare, DeactivateOk, CallInv, TypeOK
      <4> QED
        BY <3>1, <3>2, <4>1, HoldersFinite DEF CountsAreHolders, TypeOK
    <3>4. CASE DeactivateFail(s)
      <4>1. /\ counts' = counts
            /\ lost' = lost \cup {tag[s]}
            /\ counts[tag[s]] = 1
        BY <3>4 DEF DeactivateFail, CallInv
      <4>2. tag[s] \notin lost
        BY <3>1, <4>1, LastHolder DEF Leasing
      <4> QED
        BY <3>1, <3>2, <4>1, <4>2, HoldersFinite DEF CountsAreHolders, TypeOK
    <3> QED
      BY <2>2, <3>3, <3>4
  <2> QED
    BY <1>4, <2>1, <2>2 DEF Release
<1>5. CASE Manual \/ UNCHANGED vars
  <2>1. UNCHANGED <<pc, tag, counts, lost>>
    BY <1>5 DEF Manual, ManualActivate, ManualDeactivate, vars
  <2> QED
    BY <2>1 DEF CountsAreHolders, HoldersOf
<1> QED
  BY <1>1, <1>2, <1>3, <1>4, <1>5 DEF Next

(* While a native call is in flight nobody else changes the count of its   *)
(* tag, and a tag is awake exactly when its count is not zero.             *)
LEMMA StepNative == IInv /\ [Next]_vars => CallInv' /\ NativeInv'
<1> SUFFICES ASSUME IInv, [Next]_vars
             PROVE  CallInv' /\ NativeInv'
  OBVIOUS
<1> USE DEF IInv, TypeOK, Stages
<1>1. ASSUME NEW s \in Scopes, Request(s)
      PROVE  CallInv' /\ NativeInv'
  BY <1>1 DEF Request, Open, Unavailable, AvailableExplicit, AvailableGenerated,
              Goto, CallInv, NativeInv
<1>2. ASSUME NEW s \in Scopes, Acquire(s)
      PROVE  CallInv' /\ NativeInv'
  <2>1. tag[s] \in Tags
    BY <1>2 DEF Acquire, ShareLease, StartActivate, ActivateOk, ActivateFail, TagInv
  <2>2. CASE ShareLease(s)
    <3>1. \A r \in Scopes : pc'[r] \notin InCall
      BY <2>2, NoScopeFresh DEF ShareLease, Goto, MutexInv, InCall
    <3> QED
      BY <2>1, <2>2, <3>1 DEF ShareLease, CallInv, NativeInv, InCall
  <2>3. CASE StartActivate(s)
    BY <2>1, <2>3 DEF StartActivate, Goto, CallInv, NativeInv
  <2>4. CASE ActivateOk(s) \/ ActivateFail(s)
    <3>1. \A r \in Scopes : pc'[r] \notin InCall
      BY <2>4, NoScopeFresh DEF ActivateOk, ActivateFail, Finish, Goto, MutexInv, InCall
    <3> QED
      BY <2>1, <2>4, <3>1 DEF ActivateOk, ActivateFail, CallInv, NativeInv, InCall
  <2> QED
    BY <1>2, <2>2, <2>3, <2>4 DEF Acquire
<1>3. ASSUME NEW s \in Scopes, Close(s)
      PROVE  CallInv' /\ NativeInv'
  BY <1>3 DEF Close, Goto, CallInv, NativeInv
<1>4. ASSUME NEW s \in Scopes, Release(s)
      PROVE  CallInv' /\ NativeInv'
  <2>1. pc[s] \in Leasing /\ tag[s] \in Tags
    BY <1>4 DEF Release, DropShare, StartDeactivate, DeactivateOk, DeactivateFail,
                Leasing, TagInv
  <2>2. CASE DropShare(s)
    <3>1. \A r \in Scopes : pc'[r] \notin InCall
      BY <2>2, NoScopeFresh DEF DropShare, Finish, Goto, MutexInv, InCall
    <3> QED
      BY <2>1, <2>2, <3>1 DEF DropShare, CallInv, NativeInv, InCall
  <2>3. CASE StartDeactivate(s)
    <3>1. counts[tag[s]] = 1
      BY <2>1, <2>3, LastHolder DEF StartDeactivate
    <3> QED
      BY <2>1, <2>3, <3>1 DEF StartDeactivate, Goto, CallInv, NativeInv
  <2>4. CASE DeactivateOk(s) \/ DeactivateFail(s)
    <3>1. \A r \in Scopes : pc'[r] \notin InCall
      BY <2>4, NoScopeFresh
         DEF DeactivateOk, DeactivateFail, Finish, Goto, MutexInv, InCall
    <3> QED
      BY <2>1, <2>4, <3>1 DEF DeactivateOk, DeactivateFail, CallInv, NativeInv, InCall
  <2> QED
    BY <1>4, <2>2, <2>3, <2>4 DEF Release
<1>5. CASE Manual
  BY <1>5, TagsDistinct DEF Manual, ManualActivate, ManualDeactivate, CallInv, NativeInv
<1>6. CASE UNCHANGED vars
  BY <1>6 DEF vars, CallInv, NativeInv
<1> QED
  BY <1>1, <1>2, <1>3, <1>4, <1>5, <1>6 DEF Next

-----------------------------------------------------------------------------
(* The inductive invariant holds of every behaviour.                       *)
THEOREM Invariance == Spec => []IInv
<1>1. IInv /\ [Next]_vars => IInv'
  BY StepTypeOK, StepLocal, StepCounts, StepNative DEF IInv
<1> QED
  BY InitIInv, <1>1, PTL DEF Spec

(* Type correctness of the lease map and the scopes' fibers.               *)
THEOREM TypeCorrect == Spec => []TypeOK
<1>1. IInv => TypeOK
  BY DEF IInv
<1> QED
  BY Invariance, <1>1, PTL

(* The reference count of a tag is the number of scopes holding it, plus   *)
(* one once a native release of the tag has failed.                        *)
THEOREM CountsCorrect == Spec => []CountsAreHolders
<1>1. IInv => CountsAreHolders
  BY DEF IInv
<1> QED
  BY Invariance, <1>1, PTL

(* A tag some scope holds is awake, unless the manual API uses it too.     *)
LEMMA HolderCounted ==
  ASSUME IInv, NEW s \in Scopes, pc[s] \in Leasing
  PROVE  tag[s] \in Tags /\ counts[tag[s]] > 0
<1>1. tag[s] \in Tags
  BY DEF IInv, TypeOK, TagInv, Leasing
<1>2. HoldersOf(tag[s]) # {}
  BY DEF HoldersOf
<1> QED
  BY <1>1, <1>2, HoldersFinite, FS_EmptySet DEF IInv, TypeOK, CountsAreHolders

THEOREM HeldAwake == Spec => []HeldStaysAwake
<1>1. IInv => HeldStaysAwake
  BY HolderCounted DEF HeldStaysAwake, IInv, NativeInv
<1> QED
  BY Invariance, <1>1, PTL

(* With no holder left a tag sleeps, unless its native release failed.     *)
THEOREM ReleasedAsleep == Spec => []ReleasedSleeps
<1>1. IInv => ReleasedSleeps
  <2> SUFFICES ASSUME IInv, NEW t \in Tags \ (lost \cup ManualTags), HoldersOf(t) = {}
               PROVE  t \notin native
    BY DEF ReleasedSleeps
  <2>1. counts[t] = 0
    BY FS_EmptySet DEF IInv, CountsAreHolders
  <2> QED
    BY <2>1 DEF IInv, NativeInv
<1> QED
  BY Invariance, <1>1, PTL

(* At most one fiber is inside a native call.                              *)
THEOREM NativeSerialized == Spec => []NativeCallsSerialized
<1>1. IInv => NativeCallsSerialized
  BY DEF IInv, MutexInv, InCall, NativeCallsSerialized
<1> QED
  BY Invariance, <1>1, PTL

-----------------------------------------------------------------------------
(* No tag in use was generated after the counter's current value.          *)
GeneratedInv ==
  /\ \A s \in Scopes : tag[s] \in GeneratedTags => tag[s] <= generated
  /\ GeneratedIsolated

(* Two scopes never hold, or ask for, the same generated tag.              *)
THEOREM GeneratedTagsIsolated == Spec => []GeneratedIsolated
<1>1. Init => GeneratedInv
  BY NoTagOutside, TagsDistinct DEF Init, GeneratedInv, GeneratedIsolated, GeneratedTags
<1>2. TypeOK /\ GeneratedInv /\ [Next]_vars => GeneratedInv'
  <2> SUFFICES ASSUME TypeOK, GeneratedInv, [Next]_vars
               PROVE  GeneratedInv'
    OBVIOUS
  <2> USE DEF GeneratedInv, GeneratedIsolated
  <2>1. ASSUME NEW s \in Scopes, NEW t \in ExplicitTags, AvailableExplicit(s, t)
        PROVE  GeneratedInv'
    <3>1. t \notin GeneratedTags
      BY TagsDistinct DEF GeneratedTags
    <3>2. tag' = [tag EXCEPT ![s] = t] /\ generated' = generated
      BY <2>1 DEF AvailableExplicit
    <3> QED
      BY <3>1, <3>2 DEF TypeOK
  <2>2. ASSUME NEW s \in Scopes, AvailableGenerated(s)
        PROVE  GeneratedInv'
    <3>1. /\ tag' = [tag EXCEPT ![s] = generated + 1]
          /\ generated' = generated + 1
      BY <2>2 DEF AvailableGenerated
    <3>2. \A r \in Scopes : tag[r] \in GeneratedTags => tag[r] # generated + 1
      BY MaxGeneratedNat DEF TypeOK, GeneratedTags
    <3> QED
      BY <3>1, <3>2, MaxGeneratedNat DEF TypeOK, GeneratedTags
  <2>3. ASSUME NEW s \in Scopes, tag' = [tag EXCEPT ![s] = NoTag], generated' = generated
        PROVE  GeneratedInv'
    BY <2>3, TagsDistinct DEF TypeOK, GeneratedTags
  <2>4. CASE UNCHANGED <<tag, generated>>
    BY <2>4
  <2>5. ASSUME NEW s \in Scopes, Request(s) PROVE GeneratedInv'
    BY <2>5, <2>1, <2>2, <2>4 DEF Request, Open, Unavailable
  <2>6. ASSUME NEW s \in Scopes, Acquire(s) PROVE GeneratedInv'
    BY <2>6, <2>3, <2>4
       DEF Acquire, ShareLease, StartActivate, ActivateOk, ActivateFail, Finish
  <2>7. ASSUME NEW s \in Scopes, Release(s) PROVE GeneratedInv'
    BY <2>7, <2>3, <2>4
       DEF Release, DropShare, StartDeactivate, DeactivateOk, DeactivateFail, Finish
  <2>8. ASSUME NEW s \in Scopes, Close(s) PROVE GeneratedInv'
    BY <2>8, <2>4 DEF Close
  <2>9. CASE Manual \/ UNCHANGED vars
    BY <2>9, <2>4 DEF Manual, ManualActivate, ManualDeactivate, vars
  <2> QED
    BY <2>5, <2>6, <2>7, <2>8, <2>9 DEF Next
<1>3. GeneratedInv => GeneratedIsolated
  BY DEF GeneratedInv
<1> QED
  BY <1>1, <1>2, <1>3, TypeCorrect, PTL DEF Spec

-----------------------------------------------------------------------------
(* Refinement.  A step that starts a lease is a Take of the promise, one   *)
(* that ends it a Leave, and every other step a stutter.                   *)
Kept == Tags \ ManualTags

LEMMA PromiseStutter ==
  ASSUME TypeOK, NEW s \in Scopes, NEW stage \in Stages,
         pc[s] \in Leasing <=> stage \in Leasing,
         pc' = [pc EXCEPT ![s] = stage],
         pc[s] \in Leasing => tag' = tag,
         \A r \in Scopes \ {s} : tag'[r] = tag[r],
         UNCHANGED <<native, lost>>
  PROVE  UNCHANGED Promise!vars
<1>1. \A t \in Tags : HoldersOf(t)' = HoldersOf(t)
  BY DEF HoldersOf, TypeOK, Leasing, Stages
<1> QED
  BY <1>1 DEF Promise!vars

(* Starting a lease.                                                       *)
LEMMA PromiseTake ==
  ASSUME IInv, NEW s \in Scopes, ShareLease(s) \/ ActivateOk(s)
  PROVE  Promise!Next \/ UNCHANGED Promise!vars
<1>1. /\ pc[s] \notin Leasing
      /\ tag[s] \in Tags
      /\ pc' = [pc EXCEPT ![s] = "held"]
      /\ UNCHANGED <<tag, lost>>
  BY DEF ShareLease, ActivateOk, Goto, Leasing, IInv, TagInv, TypeOK
<1>2. \A t \in Tags : s \notin HoldersOf(t)
  BY <1>1 DEF HoldersOf
<1>3. \A t \in Tags : HoldersOf(t)' = IF t = tag[s] THEN HoldersOf(t) \cup {s}
                                                    ELSE HoldersOf(t)
  BY <1>1 DEF HoldersOf, IInv, TypeOK, Leasing
<1>4. CASE tag[s] \in ManualTags
  <2>1. native' \ ManualTags = native \ ManualTags
    BY <1>4 DEF ShareLease, ActivateOk
  <2> QED
    BY <1>1, <1>3, <1>4, <2>1 DEF Promise!vars
<1>5. CASE tag[s] \notin ManualTags
  <2>1. native' = native \cup {tag[s]}
    <3>1. CASE ActivateOk(s)
      BY <3>1 DEF ActivateOk
    <3>2. CASE ShareLease(s)
      BY <1>1, <1>5, <3>2 DEF ShareLease, IInv, NativeInv, TypeOK
    <3> QED
      BY <3>1, <3>2
  <2>2. Promise!Take(s, tag[s])
    BY <1>1, <1>2, <1>3, <1>5, <2>1 DEF Promise!Take
  <2> QED
    BY <1>1, <1>5, <2>2 DEF Promise!Next
<1> QED
  BY <1>4, <1>5

(* Ending a lease.                                                         *)
LEMMA PromiseLeave ==
  ASSUME IInv, NEW s \in Scopes,
         DropShare(s) \/ DeactivateOk(s) \/ DeactivateFail(s)
  PROVE  Promise!Next \/ UNCHANGED Promise!vars
<1>1. /\ pc[s] \in Leasing
      /\ tag[s] \in Tags
      /\ pc' = [pc EXCEPT ![s] = "idle"]
      /\ tag' = [tag EXCEPT ![s] = NoTag]
  BY DEF DropShare, DeactivateOk, DeactivateFail, Finish, Goto, Leasing, IInv, TagInv, TypeOK
<1>2. s \in HoldersOf(tag[s])
  BY <1>1 DEF HoldersOf
<1>3. \A t \in Tags : HoldersOf(t)' = IF t = tag[s] THEN HoldersOf(t) \ {s}
                                                    ELSE HoldersOf(t)
  BY <1>1 DEF HoldersOf, IInv, TypeOK, Leasing
<1>4. CASE tag[s] \in ManualTags
  <2>1. /\ native' \ ManualTags = native \ ManualTags
        /\ lost' \ ManualTags = lost \ ManualTags
    BY <1>4 DEF DropShare, DeactivateOk, DeactivateFail
  <2> QED
    BY <1>3, <1>4, <2>1 DEF Promise!vars
<1>5. CASE tag[s] \notin ManualTags
  <2>1. /\ [t \in Kept |-> HoldersOf(t)]'
            = [[t \in Kept |-> HoldersOf(t)] EXCEPT ![tag[s]] = @ \ {s}]
        /\ tag[s] \in Kept
    BY <1>1, <1>3, <1>5 DEF Kept
  <2>2. CASE DropShare(s)
    <3>1. HoldersOf(tag[s]) # {s} \/ tag[s] \in lost
      <4>1. counts[tag[s]] > 1
        BY <2>2 DEF DropShare
      <4>2. Cardinality({s}) = 1
        BY FS_Singleton
      <4> QED
        BY <1>1, <4>1, <4>2 DEF IInv, CountsAreHolders
    <3>2. UNCHANGED <<native, lost>>
      BY <2>2 DEF DropShare
    <3>3. Promise!Leave(s, tag[s])
      BY <1>2, <1>5, <2>1, <3>1, <3>2 DEF Promise!Leave, Kept
    <3> QED
      BY <2>1, <3>3 DEF Promise!Next, Kept
  <2>3. CASE DeactivateOk(s) \/ DeactivateFail(s)
    <3>1. tag[s] \notin lost /\ Cardinality(HoldersOf(tag[s])) = 1
      BY <1>1, <2>3, LastHolder DEF DeactivateOk, DeactivateFail, IInv, CallInv
    <3>2. HoldersOf(tag[s]) = {s}
      BY <1>2, <3>1, HoldersFinite, FS_Singleton
    <3>3. \/ native' = native \ {tag[s]} /\ lost' = lost
          \/ native' = native /\ lost' = lost \cup {tag[s]}
      BY <2>3 DEF DeactivateOk, DeactivateFail
    <3>4. Promise!Leave(s, tag[s])
      BY <1>2, <1>5, <2>1, <3>1, <3>2, <3>3 DEF Promise!Leave, Kept
    <3> QED
      BY <2>1, <3>4 DEF Promise!Next, Kept
  <2> QED
    BY <2>2, <2>3
<1> QED
  BY <1>4, <1>5

(* The lease map implements the abstract promise.                          *)
THEOREM Refinement == Spec => ImplementsPromise
<1>1. Init => Promise!Init
  BY DEF Init, Promise!Init, HoldersOf, Leasing
<1>2. IInv /\ [Next]_vars => [Promise!Next]_(Promise!vars)
  <2> SUFFICES ASSUME IInv, [Next]_vars
               PROVE  Promise!Next \/ UNCHANGED Promise!vars
    OBVIOUS
  <2>1. ASSUME NEW s \in Scopes, NEW stage \in Stages,
               pc[s] \in Leasing <=> stage \in Leasing,
               pc' = [pc EXCEPT ![s] = stage],
               pc[s] \in Leasing => tag' = tag,
               \A r \in Scopes \ {s} : tag'[r] = tag[r],
               UNCHANGED <<native, lost>>
        PROVE  UNCHANGED Promise!vars
    BY <2>1, PromiseStutter DEF IInv
  <2>2. ASSUME NEW s \in Scopes, Request(s)
        PROVE  UNCHANGED Promise!vars
    <3>1. PICK stage \in {"idle", "probing", "acquiring"} :
            /\ pc' = [pc EXCEPT ![s] = stage]
            /\ pc[s] \notin Leasing
            /\ \A r \in Scopes \ {s} : tag'[r] = tag[r]
            /\ UNCHANGED <<native, lost>>
      BY <2>2 DEF Request, Open, Unavailable, AvailableExplicit, AvailableGenerated,
                  Goto, Leasing, IInv, TypeOK
    <3> QED
      BY <3>1, <2>1 DEF Leasing, Stages
  <2>3. ASSUME NEW s \in Scopes, StartActivate(s) \/ ActivateFail(s)
        PROVE  UNCHANGED Promise!vars
    <3>1. PICK stage \in {"idle", "activating"} :
            /\ pc' = [pc EXCEPT ![s] = stage]
            /\ pc[s] \notin Leasing
            /\ \A r \in Scopes \ {s} : tag'[r] = tag[r]
            /\ UNCHANGED <<native, lost>>
      BY <2>3 DEF StartActivate, ActivateFail, Finish, Goto, Leasing, IInv, TypeOK
    <3> QED
      BY <3>1, <2>1 DEF Leasing, Stages
  <2>4. ASSUME NEW s \in Scopes, Close(s) \/ StartDeactivate(s)
        PROVE  UNCHANGED Promise!vars
    <3>1. PICK stage \in {"releasing", "deactivating"} :
            /\ pc' = [pc EXCEPT ![s] = stage]
            /\ pc[s] \in Leasing
            /\ UNCHANGED <<tag, native, lost>>
      BY <2>4 DEF Close, StartDeactivate, Goto, Leasing
    <3> QED
      BY <3>1, <2>1 DEF Leasing, Stages
  <2>5. CASE Manual
    <3>1. /\ native' \ ManualTags = native \ ManualTags
          /\ UNCHANGED <<pc, tag, lost>>
      BY <2>5 DEF Manual, ManualActivate, ManualDeactivate
    <3> QED
      BY <3>1 DEF Promise!vars, HoldersOf
  <2>6. CASE UNCHANGED vars
    BY <2>6 DEF vars, Promise!vars, HoldersOf
  <2> QED
    BY <2>2, <2>3, <2>4, <2>5, <2>6, PromiseTake, PromiseLeave DEF Next, Acquire, Release
<1> QED
  BY <1>1, <1>2, Invariance, PTL DEF Spec, ImplementsPromise, Promise!Spec
=============================================================================
