-------------------------- MODULE NativeRunProofs ---------------------------
(***************************************************************************)
(* What holds of native runs for any plans, units, builds, sizes, devices  *)
(* and number of commands and launches: the types, that the successes      *)
(* recorded under a run identity are one observation of one build, that no *)
(* record is ever replaced, that off physical devices a success was        *)
(* printed whole by the launch whose flow passed, and that a command that  *)
(* ends well leaves what compare takes as complete.                        *)
(***************************************************************************)
EXTENDS NativeRun, FiniteSetTheorems, TLAPS

USE DEF At, Goto, command, locals, store, phone

(* What the command says of its batch and unit.                            *)
LEMMA Names ==
  ASSUME CommandType
  PROVE  /\ run \in Runs /\ unit \in Sources /\ Units[1] \in Sources /\ 1 \in DOMAIN Units
         /\ \A u \in Sources \cup {Whole} : <<run, u>> \in RecordKeys
<1>1. plan \in Seq(Runs) /\ Units \in Seq(Sources) /\ Units # <<>>
  BY PlansType, UnitsType DEF CommandType
<1>2. 1 \in DOMAIN Units /\ next \in DOMAIN Units /\ batch \in DOMAIN plan
  BY <1>1 DEF CommandType
<1>3. run \in Runs /\ unit \in Sources /\ Units[1] \in Sources
  BY <1>1, <1>2 DEF run, unit
<1> QED
  BY <1>2, <1>3 DEF RecordKeys

(* A record the command writes is one.                                     *)
LEMMA RecordTyped ==
  ASSUME CommandType, pc \in Program \cup {"persist"}, NEW o \in Outcomes
  PROVE  Record(o) \in RecordType
<1>1. build \in Builds /\ execution \in Nat /\ result \in Seq(Nat) /\ accepted \in Nat
  BY DEF CommandType
<1> QED
  BY <1>1, Names DEF Record, RecordType

(* A chunk in the log comes from a launch, and launches have sizes.        *)
LEMMA LogTyped ==
  ASSUME PhoneType
  PROVE  /\ Len(launches) \in Nat /\ DOMAIN launches = 1..Len(launches)
         /\ \A l \in DOMAIN launches :
              /\ Size(l) \in Nat \ {0} /\ launches[l].run \in Runs /\ launches[l].build \in Builds
         /\ \A r \in Runs : \A k \in DOMAIN log[r] : log[r][k].launch \in DOMAIN launches
<1>1. Len(launches) \in Nat /\ DOMAIN launches = 1..Len(launches)
  BY DEF PhoneType
<1>2. ASSUME NEW l \in DOMAIN launches
      PROVE  Size(l) \in Nat \ {0} /\ launches[l].run \in Runs /\ launches[l].build \in Builds
  <2>1. launches[l] \in Launches
    BY DEF PhoneType
  <2> QED
    BY <2>1, SizesType DEF Launches, Size
<1>3. ASSUME NEW r \in Runs, NEW k \in DOMAIN log[r] PROVE log[r][k].launch \in DOMAIN launches
  <2>1. log[r] \in Seq(ChunksOf(1..Len(launches)))
    BY DEF PhoneType
  <2>2. log[r][k] \in ChunksOf(1..Len(launches))
    BY <2>1
  <2> QED
    BY <1>1, <2>2 DEF ChunksOf
<1> QED
  BY <1>1, <1>2, <1>3

(* What a driver reads is a sequence of launches.                          *)
LEMMA ResultTyped ==
  ASSUME TypeOK, NEW parts \in InFile \cup InLog \cup OnScreen
  PROVE  parts \in Seq(Nat) /\ 1 \in DOMAIN parts /\ \A i \in DOMAIN parts : parts[i] \in DOMAIN launches
<1>1. run \in Runs /\ Len(launches) \in Nat /\ DOMAIN launches = 1..Len(launches)
  BY Names, LogTyped DEF TypeOK
<1>2. CASE parts \in InFile
  <2>1. file[run] \in DOMAIN launches /\ parts = <<file[run]>>
    BY <1>1, <1>2 DEF InFile, TypeOK, PhoneType
  <2> QED
    BY <1>1, <2>1
<1>3. CASE parts \in InLog
  <2>1. PICK k \in DOMAIN log[run] : parts \in Assembled(k)
    BY <1>3 DEF InLog
  <2>2. Size(log[run][k].launch) \in Nat \ {0}
    BY <1>1, <2>1, LogTyped DEF TypeOK
  <2>3. parts \in [1..Size(log[run][k].launch) -> DOMAIN launches]
    BY <2>1 DEF Assembled
  <2>4. parts \in Seq(Nat)
    BY <1>1, <2>2, <2>3
  <2> QED
    BY <2>2, <2>3, <2>4
<1>4. CASE parts \in OnScreen
  <2>1. app \in DOMAIN launches /\ parts = <<app>>
    BY <1>1, <1>4 DEF OnScreen, TypeOK, PhoneType
  <2> QED
    BY <1>1, <2>1
<1> QED
  BY <1>2, <1>3, <1>4

-----------------------------------------------------------------------------
(* A program that fails is a failure to persist.                           *)
LEMMA FailTyped ==
  ASSUME CommandType, UNCHANGED <<device, execution, plan, batch>>, pc \in Program,
         FailWith("runner-failed") \/ FailWith("unavailable")
  PROVE  CommandType'
<1>1. 1 \in DOMAIN Units /\ None \notin Outcomes
  BY Names, NoneFresh
<1>2. /\ pc' = "persist" /\ outcome' \in {"runner-failed", "unavailable"} /\ outcome' # None
      /\ tries' = 0 /\ accepted' = 0 /\ result' = <<>> /\ next' = 1 /\ build' = build
  BY <1>1 DEF FailWith, Forget, Outcomes
<1> QED
  BY <1>1, <1>2 DEF CommandType, Stages, Program

(* The command keeps its types ...                                         *)
LEMMA CommandTyped == ASSUME TypeOK, [Next]_vars PROVE CommandType'
<1> USE DEF CommandType, TypeOK, Ended, Program, Stages, Forget, FailWith
<1>0. 1 \in DOMAIN Units /\ None \notin Builds \cup Outcomes
  BY Names, NoneFresh
<1>1. CASE Start
  <2>1. plan' \in Seq(Runs) /\ plan' # <<>>
    BY <1>1, PlansType DEF Start
  <2> QED
    BY <1>1, <2>1 DEF Start
<1>2. CASE WriteFlow
  BY <1>2, Names DEF WriteFlow, Builds
<1>3. CASE Install \/ PollFails \/ Validate \/ LookForRecord \/ Deadline
  <2>1. CASE FailWith("unavailable") /\ UNCHANGED <<device, execution, plan, batch>> /\ pc \in Program
    BY <1>0, <2>1, FailTyped
  <2>2. CASE UNCHANGED <<device, execution, plan, batch, locals, outcome>> /\ pc \in Program
             /\ pc' \in {"maestro", "look", "rename"}
    BY <2>2
  <2> QED
    BY <1>3, <2>1, <2>2 DEF Install, PollFails, Validate, LookForRecord, Deadline
<1>4. CASE StartFlow \/ FlowPasses \/ Crash \/ PrintChunk \/ ShowComplete
  BY <1>4, LogTyped DEF StartFlow, FlowPasses, Crash, PrintChunk, ShowComplete
<1>5. CASE FlowFails
  <2>1. CASE /\ UNCHANGED <<device, execution, plan, batch, build, accepted, result, next, outcome>>
             /\ pc \in Program /\ pc' = "maestro" /\ tries' = tries + 1
    BY <2>1
  <2>2. CASE /\ FailWith("runner-failed") \/ FailWith("unavailable")
             /\ UNCHANGED <<device, execution, plan, batch>> /\ pc \in Program
    BY <1>0, <2>2, FailTyped
  <2> QED
    BY <1>5, <2>1, <2>2 DEF FlowFails
<1>6. CASE Poll
  BY <1>6, ResultTyped DEF Poll
<1>7. CASE RenameRecord
  <2>1. /\ plan \in Seq(Runs) /\ Units \in Seq(Sources)
        /\ batch < Len(plan) => batch + 1 \in DOMAIN plan
        /\ next < Len(Units) => next + 1 \in DOMAIN Units
    BY PlansType, UnitsType
  <2>2. UNCHANGED <<device, execution, plan, outcome>> /\ pc = "rename"
    BY <1>7 DEF RenameRecord
  <2>3. CASE pc' = "look" /\ UNCHANGED <<batch, build, tries, accepted, result>>
             /\ next < Len(Units) /\ next' = next + 1
    BY <2>1, <2>2, <2>3
  <2>4. CASE pc' \in {"flow", "done"} /\ Forget /\ build' = None /\ batch' \in DOMAIN plan
    BY <1>0, <2>2, <2>4
  <2> QED
    BY <1>7, <2>1, <2>3, <2>4 DEF RenameRecord
<1>8. CASE LateRename \/ PersistFailure \/ Die
  <2>1. CASE LateRename
    BY <2>1 DEF LateRename
  <2>2. CASE PersistFailure \/ Die
    <3>1. /\ UNCHANGED <<device, execution, plan, batch>> /\ pc' \in {"failed", "dead"}
          /\ Forget /\ build' = None /\ outcome' = None
      BY <2>2 DEF PersistFailure, Die
    <3> QED
      BY <1>0, <3>1
  <2> QED
    BY <1>8, <2>1, <2>2
<1>9. CASE UNCHANGED vars
  BY <1>9 DEF vars
<1> QED
  BY <1>1, <1>2, <1>3, <1>4, <1>5, <1>6, <1>7, <1>8, <1>9 DEF Next, Supervise

(* ... so does the evidence store ...                                      *)
LEMMA StoreTyped == ASSUME TypeOK, [Next]_vars PROVE StoreType'
<1> USE DEF StoreType
<1>1. /\ StoreType /\ run \in Runs /\ CommandType
      /\ \A u \in Sources \cup {Whole} : <<run, u>> \in RecordKeys
      /\ unit \in Sources
  BY Names DEF TypeOK
<1>2. CASE WriteFlow
  BY <1>1, <1>2 DEF WriteFlow, Builds
<1>3. CASE RenameRecord
  <2>1. Record("succeeded") \in RecordType
    BY <1>1, <1>3, RecordTyped DEF RenameRecord, Program, Outcomes
  <2> QED
    BY <1>1, <1>3, <2>1 DEF RenameRecord
<1>4. CASE Deadline
  <2>1. Record("succeeded") \in RecordType
    BY <1>1, <1>4, RecordTyped DEF Deadline, Outcomes
  <2> QED
    BY <1>1, <1>4, <2>1 DEF Deadline
<1>5. CASE LateRename
  BY <1>1, <1>5 DEF LateRename
<1>6. CASE PersistFailure
  <2>1. Record(outcome) \in RecordType
    BY <1>1, <1>6, RecordTyped DEF PersistFailure, CommandType, Outcomes
  <2> QED
    BY <1>1, <1>6, <2>1 DEF PersistFailure
<1>7. CASE Die
  <2>1. At("rename") => Record("succeeded") \in RecordType
    BY <1>1, RecordTyped DEF Program, Outcomes
  <2> QED
    BY <1>1, <1>7, <2>1 DEF Die
<1>8. CASE UNCHANGED store
  BY <1>1, <1>8
<1>9. Next => \/ WriteFlow \/ RenameRecord \/ Deadline \/ LateRename \/ PersistFailure \/ Die
              \/ UNCHANGED store
  BY DEF Next, Supervise, Start, Install, StartFlow, FlowPasses, FlowFails, Poll, PollFails,
         Validate, LookForRecord, PrintChunk, ShowComplete, Crash
<1> QED
  BY <1>2, <1>3, <1>4, <1>5, <1>6, <1>7, <1>8, <1>9 DEF vars

(* ... and so does the device.                                             *)
LEMMA PhoneTyped == ASSUME TypeOK, [Next]_vars PROVE PhoneType'
<1> USE DEF PhoneType
<1>1. /\ PhoneType /\ run \in Runs
      /\ Len(launches) \in Nat /\ 0 \in 0..Len(launches)
  BY Names, LogTyped DEF TypeOK
<1>0. [r \in Runs |-> 0] \in [Runs -> 0..Len(launches)]
  BY <1>1
<1>2. CASE Install
  <2>1. UNCHANGED <<launches, log>> /\ file' \in {[r \in Runs |-> 0], file}
    BY <1>2 DEF Install
  <2>2. \/ app' = 0 /\ printed' = 0 /\ shown' = FALSE
        \/ app' = app /\ printed' = printed /\ shown' = shown
    BY <1>2 DEF Install
  <2>3. shown' \in BOOLEAN /\ (shown' => app' # 0)
    <3>1. CASE shown' = FALSE
      BY ONLY <3>1, Zenon
    <3>2. CASE app' = app /\ shown' = shown
      BY <1>1, <3>2
    <3> QED
      BY <2>2, <3>1, <3>2
  <2>4. app' \in 0..Len(launches') /\ printed' \in Nat
    BY <1>1, <2>1, <2>2
  <2> QED
    BY <1>0, <1>1, <2>1, <2>3, <2>4
<1>3. CASE StartFlow
  <2>1. PICK size \in Sizes :
          launches' = Append(launches, [run |-> run, build |-> build, size |-> size])
    BY <1>3 DEF StartFlow
  <2>2. [run |-> run, build |-> build, size |-> size] \in Launches
    BY <1>1, <1>3 DEF StartFlow, Launches, TypeOK, CommandType, Program
  <2>3. launches' \in Seq(Launches) /\ Len(launches') = Len(launches) + 1
    BY <1>1, <2>1, <2>2
  <2>4. ChunksOf(1..Len(launches)) \subseteq ChunksOf(1..Len(launches'))
    BY <1>1, <2>3 DEF ChunksOf
  <2>5. log' \in [Runs -> Seq(ChunksOf(1..Len(launches')))]
    BY <1>1, <1>3, <2>4 DEF StartFlow
  <2>6. file' \in {[r \in Runs |-> 0], file}
    BY <1>3 DEF StartFlow
  <2>7. app' = Len(launches') /\ printed' = 0 /\ shown' = FALSE
    BY <1>3, <2>3 DEF StartFlow
  <2>8. file' \in [Runs -> 0..Len(launches')]
    BY <1>0, <1>1, <2>3, <2>6
  <2>9. Len(launches') \in 0..Len(launches') /\ Len(launches') # 0
    BY <1>1, <2>3
  <2> QED
    BY <2>3, <2>5, <2>7, <2>8, <2>9
<1>4. CASE PrintChunk
  <2>1. app \in DOMAIN launches /\ launches[app].run \in Runs
    BY <1>1, <1>4, LogTyped DEF PrintChunk
  <2>2. [launch |-> app, part |-> printed + 1] \in ChunksOf(1..Len(launches))
    BY <1>1, <2>1 DEF ChunksOf
  <2>3. UNCHANGED <<launches, app, shown, file>> /\ printed' = printed + 1
        /\ log' = [log EXCEPT ![launches[app].run] =
                      Append(@, [launch |-> app, part |-> printed + 1])]
    BY <1>4 DEF PrintChunk
  <2>4. log' \in [Runs -> Seq(ChunksOf(1..Len(launches)))]
    BY <1>1, <2>1, <2>2, <2>3
  <2> QED
    BY <1>1, <2>3, <2>4
<1>5. CASE ShowComplete
  BY <1>1, <1>5, LogTyped DEF ShowComplete
<1>6. CASE Crash
  BY <1>1, <1>6 DEF Crash
<1>7. CASE UNCHANGED phone
  BY <1>1, <1>7
<1>8. Next => Install \/ StartFlow \/ PrintChunk \/ ShowComplete \/ Crash \/ UNCHANGED phone
  BY DEF Next, Supervise, Start, WriteFlow, FlowPasses, FlowFails, Poll, PollFails, Validate,
         LookForRecord, RenameRecord, Deadline, LateRename, PersistFailure, Die
<1> QED
  BY <1>2, <1>3, <1>4, <1>5, <1>6, <1>7, <1>8 DEF vars

(* Nothing is recorded, launched or printed at first.                      *)
LEMMA InitTyped == Init => TypeOK
<1> SUFFICES ASSUME Init PROVE TypeOK
  OBVIOUS
<1>1. plan \in Plans /\ 1 \in DOMAIN plan /\ 1 \in DOMAIN Units
  <2>1. plan \in Plans /\ Units \in Seq(Sources) /\ Units # <<>>
    BY PlansType, UnitsType DEF Init
  <2>2. plan \in Seq(Runs) /\ plan # <<>>
    BY <2>1, PlansType
  <2> QED
    BY <2>1, <2>2
<1>2. CommandType
  BY <1>1 DEF Init, CommandType, Ended, Program, Stages
<1>3. StoreType
  BY DEF Init, StoreType
<1>4. PhoneType
  <2>1. Len(launches) = 0 /\ launches \in Seq(Launches)
    BY DEF Init
  <2>2. log \in [Runs -> Seq(ChunksOf(1..Len(launches)))]
    BY DEF Init
  <2>3. file \in [Runs -> 0..Len(launches)]
    BY <2>1 DEF Init
  <2>4. shown \in BOOLEAN /\ (shown => app # 0)
    BY Zenon DEF Init
  <2>5. app \in 0..Len(launches) /\ printed \in Nat
    BY <2>1 DEF Init
  <2> QED
    BY <2>1, <2>2, <2>3, <2>4, <2>5 DEF PhoneType
<1> QED
  BY <1>2, <1>3, <1>4 DEF TypeOK

(* The types of command, evidence store, device and log.                   *)
THEOREM TypeCorrect == Spec => []TypeOK
<1>1. Init => TypeOK
  BY InitTyped
<1>2. TypeOK /\ [Next]_vars => TypeOK'
  BY CommandTyped, StoreTyped, PhoneTyped DEF TypeOK
<1> QED
  BY <1>1, <1>2, PTL DEF Spec

-----------------------------------------------------------------------------
(* What makes the successes of a run identity one observation.  A launch   *)
(* is of the build its run's flow names, and what was printed is where the *)
(* run of its launch says.                                                 *)
LaunchedAsAsked == \A l \in DOMAIN launches : launches[l].build = flows[launches[l].run]

PrintedByRun ==
  \A r \in Runs :
    /\ \A k \in DOMAIN log[r] : launches[log[r][k].launch].run = r
    /\ file[r] # 0 => launches[file[r]].run = r

(* The result in hand, and with it a record, is of its run.                *)
PartsOf(r, parts) == \A i \in DOMAIN parts : parts[i] \in DOMAIN launches /\ launches[parts[i]].run = r

ResultOfRun ==
  /\ pc \in Program => flows[run] = build
  /\ pc \notin {"validate", "look", "rename"} => result = <<>>
  /\ pc \notin {"look", "rename"} => next = 1
  /\ PartsOf(run, result)

Sound(rec) ==
  /\ rec.infrastructure = "succeeded"
  /\ rec.build = flows[rec.run]
  /\ PartsOf(rec.run, rec.parts)

RecordsSound ==
  \A r \in Runs :
    /\ \A u \in Sources : records[<<r, u>>] # None =>
         records[<<r, u>>].run = r /\ records[<<r, u>>].unit = u /\ Sound(records[<<r, u>>])
    /\ records[<<r, Whole>>] # None => records[<<r, Whole>>].infrastructure # "succeeded"

(* The units before the n-th one are recorded, by this execution from this *)
(* result.                                                                 *)
RecordedBefore(r, n, x, parts) ==
  \A i \in 1..(n - 1) :
    /\ records[<<r, Units[i]>>] # None
    /\ records[<<r, Units[i]>>].execution = x /\ records[<<r, Units[i]>>].parts = parts

(* Units are recorded in order, ...                                        *)
InOrder ==
  \A r \in Runs : \A n \in DOMAIN Units :
    LET rec == records[<<r, Units[n]>>] IN
    rec # None => RecordedBefore(r, n, rec.execution, rec.parts)

(* ... and so is a record whose rename is under way.                       *)
Addable(rec) ==
  /\ Sound(rec)
  /\ records[<<rec.run, rec.unit>>] = None
  /\ \A n \in DOMAIN Units :
       Units[n] = rec.unit => RecordedBefore(rec.run, n, rec.execution, rec.parts)

Renames ==
  /\ pc = "look" => RecordedBefore(run, next, execution, result)
  /\ pc = "rename" => Addable(Record("succeeded"))
  /\ late # None => pc \in Ended \cup {"persist"} /\ Addable(late)

Inv ==
  /\ TypeOK /\ LaunchedAsAsked /\ PrintedByRun /\ ResultOfRun
  /\ RecordsSound /\ InOrder /\ Renames

(* Launches are only added, and a flow once written keeps its build.       *)
LEMMA Stable ==
  ASSUME TypeOK, [Next]_vars
  PROVE  /\ \A l \in DOMAIN launches : l \in DOMAIN launches' /\ launches'[l] = launches[l]
         /\ \A r \in Runs : flows[r] # None => flows'[r] = flows[r]
<1>0. Len(launches) \in Nat /\ launches \in Seq(Launches) /\ run \in Runs
      /\ flows \in [Runs -> Builds \cup {None}]
  BY LogTyped, Names DEF TypeOK, PhoneType, StoreType
<1>1. CASE StartFlow
  BY <1>0, <1>1 DEF StartFlow
<1>2. CASE WriteFlow
  BY <1>0, <1>2 DEF WriteFlow
<1>3. CASE UNCHANGED <<launches, flows>>
  BY <1>3
<1>4. Next => StartFlow \/ WriteFlow \/ UNCHANGED <<launches, flows>>
  BY DEF Next, Supervise, Start, Install, FlowPasses, FlowFails, Poll, PollFails, Validate,
         LookForRecord, RenameRecord, Deadline, LateRename, PersistFailure, Die,
         PrintChunk, ShowComplete, Crash
<1> QED
  BY <1>1, <1>2, <1>3, <1>4 DEF vars

(* What a launch was asked for does not change.                            *)
LEMMA LaunchedKept == ASSUME Inv, [Next]_vars PROVE LaunchedAsAsked'
<1> USE DEF LaunchedAsAsked
<1>0. TypeOK /\ TypeOK' /\ PhoneType /\ run \in Runs /\ None \notin Builds
  BY CommandTyped, StoreTyped, PhoneTyped, Names, NoneFresh DEF Inv, TypeOK
<1>1. \A l \in DOMAIN launches : launches'[l].build = flows'[launches'[l].run]
  BY <1>0, Stable, LogTyped DEF Inv
<1>2. CASE StartFlow
  <2>1. PICK size \in Sizes :
          launches' = Append(launches, [run |-> run, build |-> build, size |-> size])
    BY <1>2 DEF StartFlow
  <2>2. flows[run] = build /\ flows' = flows /\ launches \in Seq(Launches)
    BY <1>2 DEF StartFlow, Inv, ResultOfRun, Program, TypeOK, PhoneType
  <2> QED
    BY <1>1, <2>1, <2>2
<1>3. CASE launches' = launches
  BY <1>1, <1>3
<1>4. Next => StartFlow \/ launches' = launches
  BY DEF Next, Supervise, Start, WriteFlow, Install, FlowPasses, FlowFails, Poll, PollFails,
         Validate, LookForRecord, RenameRecord, Deadline, LateRename, PersistFailure, Die,
         PrintChunk, ShowComplete, Crash
<1> QED
  BY <1>2, <1>3, <1>4 DEF vars

(* The application prints under the run it was launched with.              *)
LEMMA PrintedKept == ASSUME Inv, [Next]_vars PROVE PrintedByRun'
<1>0. TypeOK /\ PhoneType /\ run \in Runs
  BY Names DEF Inv, TypeOK
<1>1. ASSUME NEW r \in Runs
      PROVE  /\ \A k \in DOMAIN log[r] : launches'[log[r][k].launch].run = r
             /\ file[r] # 0 => launches'[file[r]].run = r
  <2>1. file[r] \in 0..Len(launches)
    BY <1>0 DEF PhoneType
  <2> QED
    BY <1>0, <2>1, Stable, LogTyped DEF Inv, PrintedByRun
<1>2. CASE PrintChunk
  <2>1. app \in DOMAIN launches /\ launches' = launches /\ file' = file
    BY <1>0, <1>2, LogTyped DEF PrintChunk, PhoneType
  <2>2. log' = [log EXCEPT ![launches[app].run] =
                  Append(@, [launch |-> app, part |-> printed + 1])]
    BY <1>2 DEF PrintChunk
  <2>3. ASSUME NEW r \in Runs, NEW k \in DOMAIN log'[r]
        PROVE  launches[log'[r][k].launch].run = r
    <3>1. log \in [Runs -> Seq(ChunksOf(1..Len(launches)))] /\ launches[app].run \in Runs
      BY <1>0, <2>1, LogTyped DEF PhoneType
    <3>2. CASE r # launches[app].run
      BY <1>1, <2>1, <2>2, <2>3, <3>1, <3>2
    <3>3. CASE r = launches[app].run
      <4>1. log'[r] = Append(log[r], [launch |-> app, part |-> printed + 1])
        BY <2>2, <3>1, <3>3
      <4>2. log[r] \in Seq(ChunksOf(1..Len(launches)))
        BY <3>1
      <4>3. \/ k \in DOMAIN log[r] /\ log'[r][k] = log[r][k]
            \/ log'[r][k].launch = app
        BY <2>3, <4>1, <4>2
      <4> QED
        BY <1>1, <2>1, <3>3, <4>3
    <3> QED
      BY <3>2, <3>3
  <2> QED
    BY <1>1, <2>1, <2>3 DEF PrintedByRun
<1>3. CASE ShowComplete
  <2>1. app \in DOMAIN launches /\ launches' = launches /\ log' = log
    BY <1>0, <1>3, LogTyped DEF ShowComplete, PhoneType
  <2>2. file' = file \/ file' = [file EXCEPT ![launches[app].run] = app]
    BY <1>3 DEF ShowComplete
  <2>3. file \in [Runs -> 0..Len(launches)]
    BY <1>0 DEF PhoneType
  <2> QED
    BY <1>1, <2>1, <2>2, <2>3 DEF PrintedByRun
<1>4. CASE log' = log /\ file' \in {file, [r \in Runs |-> 0]}
  BY <1>1, <1>4 DEF PrintedByRun
<1>5. Next => PrintChunk \/ ShowComplete \/ (log' = log /\ file' \in {file, [r \in Runs |-> 0]})
  BY DEF Next, Supervise, Start, WriteFlow, Install, StartFlow, FlowPasses, FlowFails, Poll,
         PollFails, Validate, LookForRecord, RenameRecord, Deadline, LateRename,
         PersistFailure, Die, Crash
<1> QED
  BY <1>2, <1>3, <1>4, <1>5 DEF vars

(* What is assembled, found in a file or shown is of the batch's run.      *)
LEMMA ReadOfRun ==
  ASSUME TypeOK, PrintedByRun, NEW parts \in InFile \cup InLog \cup OnScreen
  PROVE  PartsOf(run, parts)
<1>0. run \in Runs /\ DOMAIN launches = 1..Len(launches) /\ Len(launches) \in Nat
  BY Names, LogTyped DEF TypeOK
<1>1. \A i \in DOMAIN parts : parts[i] \in DOMAIN launches
  BY ResultTyped
<1>2. CASE parts \in InFile
  BY <1>0, <1>1, <1>2 DEF InFile, PrintedByRun, PartsOf
<1>3. CASE parts \in InLog
  <2>1. PICK k \in DOMAIN log[run] : parts \in Assembled(k)
    BY <1>3 DEF InLog
  <2>2. \A i \in DOMAIN parts : \E j \in Kept(k) : log[run][j] = [launch |-> parts[i], part |-> i]
    BY <2>1 DEF Assembled
  <2>3. Kept(k) \subseteq DOMAIN log[run]
    <3>1. log[run] \in Seq(ChunksOf(1..Len(launches)))
      BY <1>0 DEF TypeOK, PhoneType
    <3> QED
      BY <2>1, <3>1 DEF Kept
  <2>4. \A i \in DOMAIN parts : \E j \in DOMAIN log[run] : log[run][j].launch = parts[i]
    <3> SUFFICES ASSUME NEW i \in DOMAIN parts
                 PROVE  \E j \in DOMAIN log[run] : log[run][j].launch = parts[i]
      OBVIOUS
    <3>1. PICK j \in Kept(k) : log[run][j] = [launch |-> parts[i], part |-> i]
      BY <2>2
    <3>2. log[run][j].launch = parts[i]
      BY <3>1
    <3> QED
      BY <2>3, <3>2
  <2>5. \A j \in DOMAIN log[run] : launches[log[run][j].launch].run = run
    BY <1>0 DEF PrintedByRun
  <2> QED
    BY <1>1, <2>4, <2>5 DEF PartsOf
<1>4. CASE parts \in OnScreen
  BY <1>0, <1>1, <1>4 DEF OnScreen, PartsOf
<1> QED
  BY <1>2, <1>3, <1>4

(* The result in hand stays one of its run, or is forgotten.               *)
LEMMA ResultKept == ASSUME Inv, [Next]_vars PROVE ResultOfRun'
<1> USE DEF ResultOfRun, Program, Ended
<1>0. TypeOK /\ PrintedByRun /\ ResultOfRun /\ run \in Runs /\ flows \in [Runs -> Builds \cup {None}]
  BY Names DEF Inv, TypeOK, StoreType
<1>1. ASSUME result' = <<>> PROVE PartsOf(run, result)'
  BY <1>1 DEF PartsOf
<1>2. ASSUME result' = result, plan' = plan, batch' = batch PROVE PartsOf(run, result)'
  BY <1>0, <1>2, Stable DEF PartsOf, run
<1>3. ASSUME plan' = plan, batch' = batch, flows' = flows, pc \in Program, build' = build
      PROVE  flows'[run'] = build'
  BY <1>0, <1>3 DEF run
<1>4. CASE Start
  BY <1>0, <1>1, <1>4 DEF Start
<1>5. CASE WriteFlow
  <2>1. pc' = "install" => flows'[run'] = build'
    BY <1>0, <1>5 DEF WriteFlow, run
  <2> QED
    BY <1>0, <1>1, <1>5, <2>1 DEF WriteFlow
<1>6. CASE Install \/ PollFails \/ Validate \/ LookForRecord \/ Deadline \/ FlowFails
  <2>1. plan' = plan /\ batch' = batch /\ flows' = flows /\ pc \in Program
    BY <1>6 DEF Install, PollFails, Validate, LookForRecord, Deadline, FlowFails
  <2>2. \/ FailWith("unavailable") \/ FailWith("runner-failed")
        \/ /\ UNCHANGED <<build, result, next>>
           /\ \/ pc \notin {"validate", "look", "rename"} /\ pc' \in {"maestro"}
              \/ pc \in {"validate", "look"} /\ pc' \in {"look", "rename"}
    BY <1>6 DEF Install, PollFails, Validate, LookForRecord, Deadline, FlowFails
  <2>3. CASE FailWith("unavailable") \/ FailWith("runner-failed")
    BY <1>1, <2>1, <2>3 DEF FailWith, Forget
  <2> QED
    BY <1>0, <1>2, <1>3, <2>1, <2>2, <2>3
<1>7. CASE Poll
  <2>1. result' \in InFile \cup InLog \cup OnScreen /\ UNCHANGED <<plan, batch, launches, flows, build, next>>
        /\ pc = "poll" /\ pc' = "validate"
    BY <1>7 DEF Poll
  <2>2. PartsOf(run, result)'
    <3>1. PartsOf(run, result')
      BY <1>0, <2>1, ReadOfRun
    <3> QED
      BY <2>1, <3>1 DEF PartsOf, run
  <2> QED
    BY <1>0, <1>3, <2>1, <2>2
<1>8. CASE RenameRecord
  <2>1. CASE pc' \in {"flow", "done"} /\ Forget
    BY <1>1, <2>1 DEF Forget
  <2>2. CASE pc' = "look" /\ UNCHANGED <<batch, build, tries, accepted, result>>
    <3>1. plan' = plan /\ flows' = flows /\ pc = "rename"
      BY <1>8 DEF RenameRecord
    <3> QED
      BY <1>0, <1>2, <1>3, <2>2, <3>1
  <2> QED
    BY <1>8, <2>1, <2>2 DEF RenameRecord
<1>9. CASE PersistFailure \/ Die
  <2>1. Forget /\ pc' \in {"failed", "dead"}
    BY <1>9 DEF PersistFailure, Die
  <2> QED
    BY <1>1, <2>1 DEF Forget
<1>10. CASE StartFlow \/ FlowPasses \/ LateRename \/ PrintChunk \/ ShowComplete \/ Crash
  <2>1. /\ UNCHANGED <<plan, batch, flows, build, result, next>>
        /\ \/ pc' = pc
           \/ pc = "maestro" /\ pc' = "running"
           \/ pc = "running" /\ pc' = "poll"
    BY <1>10 DEF StartFlow, FlowPasses, LateRename, PrintChunk, ShowComplete, Crash
  <2> QED
    BY <1>0, <1>2, <1>3, <2>1
<1>11. CASE UNCHANGED vars
  BY <1>0, <1>2, <1>3, <1>11 DEF vars
<1> QED
  BY <1>4, <1>5, <1>6, <1>7, <1>8, <1>9, <1>10, <1>11 DEF Next, Supervise

(* A record stays sound while launches are added and flows are kept.       *)
LEMMA SoundKept ==
  ASSUME TypeOK, [Next]_vars
  PROVE  \A rec \in RecordType :
           Sound(rec) => /\ rec.infrastructure = "succeeded"
                         /\ rec.build = flows'[rec.run]
                         /\ \A i \in DOMAIN rec.parts : rec.parts[i] \in DOMAIN launches'
                                                        /\ launches'[rec.parts[i]].run = rec.run
<1> SUFFICES ASSUME NEW rec \in RecordType, Sound(rec)
             PROVE  /\ rec.infrastructure = "succeeded"
                    /\ rec.build = flows'[rec.run]
                    /\ \A i \in DOMAIN rec.parts : rec.parts[i] \in DOMAIN launches'
                                                   /\ launches'[rec.parts[i]].run = rec.run
  OBVIOUS
<1>1. rec.run \in Runs /\ rec.build \in Builds
  BY DEF RecordType
<1>2. flows[rec.run] # None
  BY <1>1, NoneFresh DEF Sound
<1> QED
  BY <1>1, <1>2, Stable DEF Sound, PartsOf

(* A record whose turn it is joins the others without disturbing them.     *)
LEMMA AddRecord ==
  ASSUME Inv, [Next]_vars, NEW rec \in RecordType, Addable(rec),
         records' = [records EXCEPT ![<<rec.run, rec.unit>>] = rec]
  PROVE  RecordsSound' /\ InOrder'
<1>1. /\ records \in [RecordKeys -> RecordType \cup {None}] /\ TypeOK /\ rec # None
      /\ rec.run \in Runs /\ rec.unit \in Sources /\ Whole \notin Sources
  BY NoneFresh DEF Inv, TypeOK, StoreType, RecordType, Whole
<1>2. \A r \in Runs, u \in Sources \cup {Whole} :
        records'[<<r, u>>] = IF r = rec.run /\ u = rec.unit THEN rec ELSE records[<<r, u>>]
  BY <1>1 DEF RecordKeys
<1>3. ASSUME NEW r \in Runs, NEW u \in Sources \cup {Whole}, records[<<r, u>>] # None
      PROVE  records[<<r, u>>] \in RecordType
  BY <1>1, <1>3 DEF RecordKeys
<1>4. RecordsSound'
  <2>1. ASSUME NEW r \in Runs, NEW u \in Sources, records'[<<r, u>>] # None
        PROVE  records'[<<r, u>>].run = r /\ records'[<<r, u>>].unit = u
               /\ records'[<<r, u>>] \in RecordType /\ Sound(records'[<<r, u>>])
    <3>1. CASE r = rec.run /\ u = rec.unit
      <4>1. records'[<<r, u>>] = rec
        BY <1>2, <3>1
      <4> QED
        BY <3>1, <4>1 DEF Addable
    <3>2. CASE ~(r = rec.run /\ u = rec.unit)
      <4>1. records'[<<r, u>>] = records[<<r, u>>]
        BY <1>2, <3>2
      <4>2. /\ records[<<r, u>>] \in RecordType /\ Sound(records[<<r, u>>])
            /\ records[<<r, u>>].run = r /\ records[<<r, u>>].unit = u
        BY <1>3, <2>1, <4>1 DEF Inv, RecordsSound
      <4> QED
        BY <4>1, <4>2
    <3> QED
      BY <3>1, <3>2
  <2>2. ASSUME NEW r \in Runs, NEW u \in Sources, records'[<<r, u>>] # None
        PROVE  Sound(records[<<r, u>>])'
    BY <1>1, <2>1, <2>2, SoundKept DEF Sound, PartsOf
  <2>3. ASSUME NEW r \in Runs
        PROVE  records'[<<r, Whole>>] # None => records'[<<r, Whole>>].infrastructure # "succeeded"
    BY <1>1, <1>2 DEF Inv, RecordsSound
  <2> QED
    BY <2>1, <2>2, <2>3 DEF RecordsSound
<1>5. InOrder'
  <2> SUFFICES ASSUME NEW r \in Runs, NEW n \in DOMAIN Units, records'[<<r, Units[n]>>] # None,
                      NEW i \in 1..(n - 1)
               PROVE  /\ records'[<<r, Units[i]>>] # None
                      /\ records'[<<r, Units[i]>>].execution = records'[<<r, Units[n]>>].execution
                      /\ records'[<<r, Units[i]>>].parts = records'[<<r, Units[n]>>].parts
    BY DEF InOrder, RecordedBefore
  <2>1. i \in DOMAIN Units /\ Units[i] \in Sources /\ Units[n] \in Sources /\ i # n /\ Units[i] # Units[n]
    <3>1. Units \in Seq(Sources) /\ i \in DOMAIN Units /\ i # n
      BY UnitsType
    <3> QED
      BY <3>1, UnitsType
  <2>2. CASE ~(r = rec.run /\ Units[n] = rec.unit)
    <3>1. records'[<<r, Units[n]>>] = records[<<r, Units[n]>>]
      BY <1>2, <2>1, <2>2
    <3>2. /\ records[<<r, Units[i]>>] # None
          /\ records[<<r, Units[i]>>].execution = records[<<r, Units[n]>>].execution
          /\ records[<<r, Units[i]>>].parts = records[<<r, Units[n]>>].parts
      BY <3>1 DEF Inv, InOrder, RecordedBefore
    <3>3. records'[<<r, Units[i]>>] = records[<<r, Units[i]>>]
      BY <1>2, <2>1, <3>2 DEF Addable
    <3> QED
      BY <3>1, <3>2, <3>3
  <2>3. CASE r = rec.run /\ Units[n] = rec.unit
    <3>1. records'[<<r, Units[n]>>] = rec /\ records'[<<r, Units[i]>>] = records[<<r, Units[i]>>]
      BY <1>2, <2>1, <2>3
    <3>2. RecordedBefore(r, n, rec.execution, rec.parts)
      BY <2>3 DEF Addable
    <3> QED
      BY <3>1, <3>2 DEF RecordedBefore
  <2> QED
    BY <2>2, <2>3
<1> QED
  BY <1>4, <1>5

(* The record of the run as a whole is none of them.                       *)
LEMMA AddFailure ==
  ASSUME Inv, [Next]_vars, NEW rec, rec.infrastructure # "succeeded",
         records' = [records EXCEPT ![<<run, Whole>>] = rec]
  PROVE  RecordsSound' /\ InOrder'
<1>1. /\ records \in [RecordKeys -> RecordType \cup {None}] /\ TypeOK
      /\ run \in Runs /\ Whole \notin Sources
  BY Names, NoneFresh DEF Inv, TypeOK, StoreType, Whole
<1>2. \A r \in Runs, u \in Sources : records'[<<r, u>>] = records[<<r, u>>]
  BY <1>1 DEF RecordKeys
<1>3. \A r \in Runs : records'[<<r, Whole>>] \in {records[<<r, Whole>>], rec}
  BY <1>1 DEF RecordKeys
<1>4. \A r \in Runs, u \in Sources : records[<<r, u>>] \in RecordType \cup {None}
  BY <1>1 DEF RecordKeys
<1>5. RecordsSound'
  <2>1. ASSUME NEW r \in Runs, NEW u \in Sources, records'[<<r, u>>] # None
        PROVE  /\ records'[<<r, u>>].run = r /\ records'[<<r, u>>].unit = u
               /\ Sound(records[<<r, u>>])'
    <3>1. /\ records'[<<r, u>>] \in RecordType /\ Sound(records'[<<r, u>>])
          /\ records'[<<r, u>>].run = r /\ records'[<<r, u>>].unit = u
      <4>1. records'[<<r, u>>] = records[<<r, u>>]
        BY <1>2
      <4>2. /\ records[<<r, u>>] \in RecordType /\ Sound(records[<<r, u>>])
            /\ records[<<r, u>>].run = r /\ records[<<r, u>>].unit = u
        BY <1>4, <2>1, <4>1 DEF Inv, RecordsSound
      <4> QED
        BY <4>1, <4>2
    <3> QED
      BY <1>1, <3>1, SoundKept DEF Sound, PartsOf
  <2>2. ASSUME NEW r \in Runs
        PROVE  records'[<<r, Whole>>] # None => records'[<<r, Whole>>].infrastructure # "succeeded"
    BY <1>3 DEF Inv, RecordsSound
  <2> QED
    BY <2>1, <2>2 DEF RecordsSound
<1>6. InOrder'
  <2>1. Units \in Seq(Sources) /\ \A n \in DOMAIN Units : \A i \in 1..(n - 1) : i \in DOMAIN Units
    BY UnitsType
  <2>2. \A n \in DOMAIN Units : Units[n] \in Sources
    BY <2>1
  <2> QED
    BY <1>2, <2>1, <2>2 DEF Inv, InOrder, RecordedBefore
<1> QED
  BY <1>5, <1>6

(* A step that touches no record keeps them all sound and in order.        *)
LEMMA LeaveRecords ==
  ASSUME Inv, [Next]_vars, records' = records
  PROVE  RecordsSound' /\ InOrder'
<1>1. TypeOK /\ \A r \in Runs, u \in Sources : records[<<r, u>>] \in RecordType \cup {None}
  BY DEF Inv, TypeOK, StoreType, RecordKeys
<1>2. ASSUME NEW r \in Runs, NEW u \in Sources, records'[<<r, u>>] # None
      PROVE  /\ records'[<<r, u>>].run = r /\ records'[<<r, u>>].unit = u
             /\ Sound(records[<<r, u>>])'
  <2>1. /\ records'[<<r, u>>] \in RecordType /\ Sound(records'[<<r, u>>])
        /\ records'[<<r, u>>].run = r /\ records'[<<r, u>>].unit = u
    BY <1>1, <1>2 DEF Inv, RecordsSound
  <2> QED
    BY <1>1, <2>1, SoundKept DEF Sound, PartsOf
<1>3. RecordsSound'
  BY <1>2 DEF Inv, RecordsSound
<1>4. InOrder'
  BY DEF Inv, InOrder, RecordedBefore
<1> QED
  BY <1>3, <1>4

(* Every record a step adds is one whose turn it is, or a failure.         *)
LEMMA Recording ==
  ASSUME Inv, [Next]_vars
  PROVE  \/ \E rec \in RecordType :
              /\ Addable(rec) /\ records' = [records EXCEPT ![<<rec.run, rec.unit>>] = rec]
              /\ \/ rec = late
                 \/ rec = Record("succeeded") /\ pc = "rename"
         \/ \E rec : /\ rec.infrastructure # "succeeded" /\ records[<<run, Whole>>] = None
                     /\ records' = [records EXCEPT ![<<run, Whole>>] = rec]
         \/ records' = records
<1>1. TypeOK /\ CommandType
  BY DEF Inv, TypeOK
<1>2. CASE pc = "rename" /\ records' = [records EXCEPT ![<<run, unit>>] = Record("succeeded")]
  <2>1. Record("succeeded") \in RecordType /\ Addable(Record("succeeded"))
    BY <1>1, <1>2, RecordTyped DEF Program, Outcomes, Inv, Renames
  <2>2. Record("succeeded").run = run /\ Record("succeeded").unit = unit
    BY DEF Record
  <2> QED
    BY <1>2, <2>1, <2>2
<1>3. CASE late # None /\ records' = [records EXCEPT ![<<late.run, late.unit>>] = late]
  BY <1>1, <1>3 DEF Inv, Renames, TypeOK, StoreType
<1>4. CASE PersistFailure
  <2>1. Record(outcome).infrastructure # "succeeded"
    BY <1>1, <1>4, NoneFresh DEF PersistFailure, CommandType, Record, Outcomes
  <2> QED
    BY <1>4, <2>1 DEF PersistFailure
<1>5. CASE UNCHANGED vars
  BY <1>5 DEF vars
<1>6. Next => \/ pc = "rename" /\ records' = [records EXCEPT ![<<run, unit>>] = Record("succeeded")]
              \/ late # None /\ records' = [records EXCEPT ![<<late.run, late.unit>>] = late]
              \/ PersistFailure
              \/ records' = records
  BY DEF Next, Supervise, Start, WriteFlow, Install, StartFlow, FlowPasses, FlowFails, Poll,
         PollFails, Validate, LookForRecord, RenameRecord, Deadline, LateRename, Die,
         PrintChunk, ShowComplete, Crash
<1> QED
  BY <1>2, <1>3, <1>4, <1>5, <1>6

LEMMA RecordsKept == ASSUME Inv, [Next]_vars PROVE RecordsSound' /\ InOrder'
  BY Recording, AddRecord, AddFailure, LeaveRecords

(* A record's turn does not pass while no unit is recorded.                *)
LEMMA AddableKept ==
  ASSUME TypeOK, [Next]_vars,
         \A r \in Runs, u \in Sources : records'[<<r, u>>] = records[<<r, u>>],
         late \in RecordType, Addable(late), late' = late
  PROVE  Addable(late)'
<1>1. late.run \in Runs /\ late.unit \in Sources
  BY DEF RecordType
<1>2. Sound(late)'
  BY SoundKept DEF Addable, Sound, PartsOf
<1>3. \A n \in DOMAIN Units : \A i \in 1..(n - 1) : Units[i] \in Sources
  BY UnitsType
<1> QED
  BY <1>1, <1>2, <1>3 DEF Addable, RecordedBefore

(* The records still to be renamed stay those whose turn it is.            *)
LEMMA RenamesKept == ASSUME Inv, [Next]_vars PROVE Renames'
<1> USE DEF Renames, Program, Ended
<1>0. /\ TypeOK /\ CommandType /\ ResultOfRun /\ Renames
      /\ run \in Runs /\ unit \in Sources /\ Whole \notin Sources
      /\ records \in [RecordKeys -> RecordType \cup {None}] /\ late \in RecordType \cup {None}
      /\ \A r \in Runs, u \in Sources \cup {Whole} : <<r, u>> \in RecordKeys
  BY Names, NoneFresh DEF Inv, TypeOK, StoreType, Whole, RecordKeys
<1>1. CASE Validate
  <2>1. late' = late /\ late = None /\ pc' \in {"look", "persist"}
    BY <1>0, <1>1 DEF Validate, FailWith
  <2>2. pc' = "look" => next' = 1
    BY <1>0, <1>1 DEF Validate, FailWith, ResultOfRun
  <2>3. pc' = "look" => RecordedBefore(run, next, execution, result)'
    BY <2>2 DEF RecordedBefore
  <2> QED
    BY <2>1, <2>3
<1>2. CASE LookForRecord
  <2>1. late' = late /\ late = None /\ records' = records /\ pc' \in {"rename", "persist"}
    BY <1>0, <1>2 DEF LookForRecord, FailWith
  <2>2. ASSUME pc' = "rename" PROVE Addable(Record("succeeded"))'
    <3>1. /\ records[<<run, unit>>] = None
          /\ UNCHANGED <<plan, batch, build, accepted, result, next, execution, flows, launches>>
      BY <1>2, <2>2 DEF LookForRecord, FailWith
    <3>2. RecordedBefore(run, next, execution, result) /\ flows[run] = build /\ PartsOf(run, result)
      BY <1>0, <1>2 DEF LookForRecord, ResultOfRun
    <3>3. \A n \in DOMAIN Units : Units[n] = unit => n = next
      BY <1>0, UnitsType DEF CommandType, unit
    <3>4. Addable(Record("succeeded"))
      BY <3>1, <3>2, <3>3 DEF Addable, Sound, Record
    <3>5. Record("succeeded")' = Record("succeeded")
      BY <3>1 DEF Record, run, unit
    <3> QED
      BY <2>1, <3>1, <3>4, <3>5 DEF Addable, Sound, PartsOf, RecordedBefore
  <2> QED
    BY <2>1, <2>2
<1>3. CASE RenameRecord
  <2>1. late' = late /\ late = None /\ pc' \in {"look", "flow", "done"} /\ pc = "rename"
    BY <1>0, <1>3 DEF RenameRecord
  <2>2. ASSUME pc' = "look" PROVE RecordedBefore(run, next, execution, result)'
    <3>1. /\ UNCHANGED <<plan, batch, execution, result>> /\ next' = next + 1
          /\ records' = [records EXCEPT ![<<run, unit>>] = Record("succeeded")]
      BY <1>3, <2>2 DEF RenameRecord
    <3>2. Addable(Record("succeeded")) /\ Record("succeeded") \in RecordType
      BY <1>0, <2>1, RecordTyped DEF Outcomes
    <3>3. /\ Record("succeeded").run = run /\ Record("succeeded").unit = unit
          /\ Record("succeeded").execution = execution /\ Record("succeeded").parts = result
          /\ Record("succeeded") # None
      BY <3>2, NoneFresh DEF Record
    <3>4. next \in DOMAIN Units /\ Units[next] = unit /\ next \in Nat
          /\ \A i \in 1..next : i \in DOMAIN Units /\ Units[i] \in Sources
      BY <1>0, UnitsType DEF CommandType, unit
    <3>5. RecordedBefore(run, next, execution, result)
      BY <3>2, <3>3, <3>4 DEF Addable
    <3>6. ASSUME NEW i \in 1..next
          PROVE  /\ records'[<<run, Units[i]>>] # None
                 /\ records'[<<run, Units[i]>>].execution = execution
                 /\ records'[<<run, Units[i]>>].parts = result
      <4>1. CASE i = next
        <5>1. records'[<<run, Units[i]>>] = Record("succeeded")
          BY <1>0, <3>1, <3>4, <4>1
        <5> QED
          BY <3>3, <5>1
      <4>2. CASE i # next
        <5>1. Units[i] # unit /\ i \in 1..(next - 1) /\ Units[i] \in Sources
          BY <3>4, <4>2, UnitsType
        <5>2. records'[<<run, Units[i]>>] = records[<<run, Units[i]>>]
          BY <1>0, <3>1, <5>1
        <5> QED
          BY <3>5, <5>1, <5>2 DEF RecordedBefore
      <4> QED
        BY <4>1, <4>2
    <3>7. next' - 1 = next /\ run' = run
      BY <3>1, <3>4 DEF run
    <3> QED
      BY <3>1, <3>6, <3>7 DEF RecordedBefore
  <2> QED
    BY <2>1, <2>2
<1>4. CASE Deadline
  <2>1. /\ pc' = "persist" /\ UNCHANGED <<records, flows, launches>> /\ late = None
        /\ late' = IF pc = "rename" THEN Record("succeeded") ELSE None
    BY <1>0, <1>4 DEF Deadline, FailWith
  <2>2. pc = "rename" => Addable(Record("succeeded"))
    BY <1>0
  <2>3. late' # None => Addable(late)'
    BY <2>1, <2>2 DEF Addable, Sound, PartsOf, RecordedBefore
  <2> QED
    BY <2>1, <2>3
<1>5. CASE PersistFailure \/ Die
  <2>1. late' = late /\ pc' \in {"failed", "dead"}
    BY <1>5 DEF PersistFailure, Die
  <2>2. ASSUME late # None PROVE \A r \in Runs, u \in Sources : records'[<<r, u>>] = records[<<r, u>>]
    <3>1. \/ records' = records
          \/ records' = [records EXCEPT ![<<run, Whole>>] = Record(outcome)]
      BY <1>0, <1>5, <2>2 DEF PersistFailure, Die
    <3> QED
      BY <1>0, <3>1
  <2> QED
    BY <1>0, <2>1, <2>2, AddableKept
<1>6. CASE LateRename
  BY <1>0, <1>6 DEF LateRename
<1>7. CASE Start
  BY <1>7 DEF Start
<1>8. CASE UNCHANGED vars
  <2>1. UNCHANGED <<late, records, flows, launches, pc, plan, batch, next, execution, build, result, accepted>>
    BY <1>8 DEF vars
  <2>2. Record("succeeded")' = Record("succeeded") /\ run' = run
    BY <2>1 DEF Record, run, unit
  <2> QED
    BY <1>0, <2>1, <2>2 DEF Addable, Sound, PartsOf, RecordedBefore
<1>9. ASSUME late' = late, late = None, pc' \notin {"look", "rename"} PROVE Renames'
  BY <1>9
<1>10. CASE WriteFlow \/ Install \/ StartFlow \/ FlowPasses \/ FlowFails \/ Poll \/ PollFails
            \/ PrintChunk \/ ShowComplete \/ Crash
  <2>1. late' = late /\ pc' \notin {"look", "rename"}
    BY <1>10 DEF WriteFlow, Install, StartFlow, FlowPasses, FlowFails, Poll, PollFails,
                 PrintChunk, ShowComplete, Crash, FailWith, Watched
  <2>2. CASE late = None
    BY <1>9, <2>1, <2>2
  <2>3. CASE late # None
    <3>1. UNCHANGED <<late, records, pc>>
      BY <1>0, <1>10, <2>3
         DEF WriteFlow, Install, StartFlow, FlowPasses, FlowFails, Poll, PollFails,
             PrintChunk, ShowComplete, Crash, FailWith, Watched
    <3> QED
      BY <1>0, <2>1, <2>3, <3>1, AddableKept
  <2> QED
    BY <2>2, <2>3
<1> QED
  BY <1>1, <1>2, <1>3, <1>4, <1>5, <1>6, <1>7, <1>8, <1>10 DEF Next, Supervise

(* The invariant, from the empty store on.                                 *)
THEOREM Invariant == Spec => []Inv
<1>1. Init => Inv
  <2> SUFFICES ASSUME Init PROVE Inv
    OBVIOUS
  <2>1. TypeOK
    BY InitTyped
  <2>2. LaunchedAsAsked /\ PrintedByRun
    BY <2>1, LogTyped DEF Init, TypeOK, LaunchedAsAsked, PrintedByRun
  <2>3. ResultOfRun
    BY DEF Init, ResultOfRun, PartsOf, Program
  <2>4. \A r \in Runs, u \in Sources \cup {Whole} : records[<<r, u>>] = None
    BY DEF Init, RecordKeys
  <2>5. RecordsSound
    BY <2>4 DEF RecordsSound
  <2>6. InOrder
    <3>1. \A n \in DOMAIN Units : Units[n] \in Sources
      BY UnitsType
    <3> QED
      BY <2>4, <3>1 DEF InOrder
  <2>7. Renames
    BY DEF Init, Renames
  <2> QED
    BY <2>1, <2>2, <2>3, <2>5, <2>6, <2>7 DEF Inv
<1>2. Inv /\ [Next]_vars => Inv'
  BY CommandTyped, StoreTyped, PhoneTyped, LaunchedKept, PrintedKept, ResultKept, RecordsKept,
     RenamesKept DEF Inv, TypeOK
<1> QED
  BY <1>1, <1>2, PTL DEF Spec

-----------------------------------------------------------------------------
(* Whatever was killed, timed out, repeated and renamed late: the          *)
(* successes a run identity has in the evidence store were recorded by one *)
(* execution of runBatch from one result, all of it printed by launches of *)
(* that run and of the recorded build.                                     *)
THEOREM ObservedOnce == Spec => []OneObservation
<1>1. Inv => OneObservation
  <2> SUFFICES ASSUME Inv, NEW s \in Succeeded, NEW t \in Succeeded, s.run = t.run
               PROVE  /\ s.execution = t.execution /\ s.parts = t.parts /\ s.build = t.build
                      /\ \A i \in DOMAIN s.parts :
                           launches[s.parts[i]].run = s.run /\ launches[s.parts[i]].build = s.build
    BY DEF OneObservation
  <2>1. \A rec \in Succeeded :
          \E r \in Runs : \E n \in DOMAIN Units :
            /\ records[<<r, Units[n]>>] # None /\ rec = records[<<r, Units[n]>>]
            /\ rec.run = r /\ Sound(rec)
    <3> SUFFICES ASSUME NEW k \in RecordKeys, records[k] # None,
                        records[k].infrastructure = "succeeded"
                 PROVE  \E r \in Runs : \E n \in DOMAIN Units :
                          /\ records[<<r, Units[n]>>] # None /\ records[k] = records[<<r, Units[n]>>]
                          /\ records[k].run = r /\ Sound(records[k])
      BY DEF Succeeded
    <3>1. PICK r \in Runs, u \in Sources \cup {Whole} : k = <<r, u>>
      BY DEF RecordKeys
    <3>2. u \in Sources
      BY <3>1 DEF Inv, RecordsSound
    <3>3. PICK n \in DOMAIN Units : u = Units[n]
      BY <3>2 DEF Sources
    <3>4. records[<<r, u>>] # None /\ records[<<r, u>>].run = r /\ Sound(records[<<r, u>>])
      BY <3>1, <3>2 DEF Inv, RecordsSound
    <3> QED
      BY <3>1, <3>3, <3>4
  <2>2. PICK r \in Runs, n \in DOMAIN Units :
          s = records[<<r, Units[n]>>] /\ s # None /\ s.run = r /\ Sound(s)
    BY <2>1
  <2>3. PICK m \in DOMAIN Units : t = records[<<r, Units[m]>>] /\ t # None /\ Sound(t)
    <3>1. PICK q \in Runs, m \in DOMAIN Units :
            t = records[<<q, Units[m]>>] /\ t # None /\ t.run = q /\ Sound(t)
      BY <2>1
    <3>2. q = r
      BY <2>2, <3>1
    <3> QED
      BY <3>1, <3>2
  <2>4. s.execution = t.execution /\ s.parts = t.parts
    <3>1. Units \in Seq(Sources) /\ n \in Nat /\ m \in Nat
      BY UnitsType
    <3>2. CASE n < m
      <4>1. n \in 1..(m - 1)
        BY <3>1, <3>2
      <4> QED
        BY <2>2, <2>3, <4>1 DEF Inv, InOrder, RecordedBefore
    <3>3. CASE m < n
      <4>1. m \in 1..(n - 1)
        BY <3>1, <3>3
      <4> QED
        BY <2>2, <2>3, <4>1 DEF Inv, InOrder, RecordedBefore
    <3>4. CASE m = n
      BY <2>2, <2>3, <3>4
    <3> QED
      BY <3>1, <3>2, <3>3, <3>4
  <2>5. s.build = t.build
    BY <2>2, <2>3 DEF Sound
  <2>6. ASSUME NEW i \in DOMAIN s.parts
        PROVE  launches[s.parts[i]].run = s.run /\ launches[s.parts[i]].build = s.build
    BY <2>2 DEF Sound, PartsOf, Inv, LaunchedAsAsked
  <2> QED
    BY <2>4, <2>5, <2>6
<1> QED
  BY <1>1, Invariant, PTL

(* A record in the evidence store is never replaced or removed.            *)
LEMMA NeverReplaced ==
  ASSUME Inv, [Next]_vars, NEW k \in RecordKeys, records[k] # None
  PROVE  records'[k] = records[k]
<1>1. records \in [RecordKeys -> RecordType \cup {None}]
  BY DEF Inv, TypeOK, StoreType
<1>2. CASE \E rec \in RecordType :
             Addable(rec) /\ records' = [records EXCEPT ![<<rec.run, rec.unit>>] = rec]
  BY <1>1, <1>2 DEF Addable
<1>3. CASE \E rec : records[<<run, Whole>>] = None
                    /\ records' = [records EXCEPT ![<<run, Whole>>] = rec]
  BY <1>1, <1>3
<1>4. CASE records' = records
  BY <1>4
<1> QED
  BY <1>2, <1>3, <1>4, Recording

(* EvidenceStore.ts:43-46, also for a rename that lands after its command  *)
(* has failed and for a command that reuses an identity.                   *)
THEOREM EvidenceImmutable == Spec => ImmutableEvidence
<1>1. Inv /\ [Next]_vars =>
        [\A k \in RecordKeys : records[k] # None => records'[k] = records[k]]_vars
  BY NeverReplaced
<1> QED
  BY <1>1, Invariant, PTL DEF ImmutableEvidence, Spec

-----------------------------------------------------------------------------
(* Whose evidence it is.  The launch on the device is the last one, and    *)
(* the log of its run ends with what it has printed; when Maestro has seen *)
(* it complete all of it is there.  So what is read then is what the       *)
(* accepted launch printed, unless results of several sizes are mixed or   *)
(* a physical device was believed without its screen.                      *)
SameSize(r) == \A l, m \in Ran(r) : Size(l) = Size(m)

FromAccepted(r, parts, acc) ==
  /\ parts # <<>>
  /\ device # "physical" /\ SameSize(r) => \A i \in DOMAIN parts : parts[i] = acc

PrintsLast ==
  app # 0 =>
    LET r == launches[app].run IN
    /\ app = Len(launches) /\ printed <= Size(app) /\ printed <= Len(log[r])
    /\ \A j \in 1..printed :
         log[r][Len(log[r]) - printed + j] = [launch |-> app, part |-> j]
    /\ shown => printed = Size(app) /\ (device # "android" => file[r] = app)

ShowsRun ==
  /\ pc \in {"maestro", "running", "poll"} /\ app # 0 => launches[app].run = run
  /\ pc = "poll" /\ device # "physical" => shown /\ accepted = app

RecordsAccepted ==
  /\ pc \in {"validate", "look", "rename"} => FromAccepted(run, result, accepted)
  /\ \A r \in Runs, u \in Sources :
       records[<<r, u>>] # None =>
         FromAccepted(r, records[<<r, u>>].parts, records[<<r, u>>].accepted)
  /\ late # None => FromAccepted(late.run, late.parts, late.accepted)

(* What a launch has printed stays at the end of its run's log.            *)
LEMMA PrintsLastKept == ASSUME TypeOK, PrintsLast, [Next]_vars PROVE PrintsLast'
<1>0. /\ PhoneType /\ Len(launches) \in Nat /\ DOMAIN launches = 1..Len(launches)
      /\ device' = device
  <2>1. device' = device
    BY DEF Next, Supervise, Start, WriteFlow, Install, StartFlow, FlowPasses, FlowFails, Poll,
           PollFails, Validate, LookForRecord, RenameRecord, Deadline, LateRename,
           PersistFailure, Die, PrintChunk, ShowComplete, Crash, vars
  <2> QED
    BY <2>1, LogTyped DEF TypeOK
<1>1. CASE app' = 0
  BY <1>1 DEF PrintsLast
<1>2. CASE UNCHANGED phone
  BY <1>0, <1>2 DEF PrintsLast, Size
<1>3. CASE StartFlow
  <2>1. PICK size \in Sizes :
          launches' = Append(launches, [run |-> run, build |-> build, size |-> size])
    BY <1>3 DEF StartFlow
  <2>2. app' = Len(launches') /\ launches'[app'] = [run |-> run, build |-> build, size |-> size]
    BY <1>0, <1>3, <2>1 DEF StartFlow, PhoneType
  <2>3. printed' = 0 /\ shown' = FALSE /\ log' = log
    BY <1>3 DEF StartFlow
  <2>4. Size(app)' \in Nat /\ log'[launches'[app'].run] \in Seq(ChunksOf(1..Len(launches)))
    <3>1. run \in Runs
      BY Names DEF TypeOK
    <3> QED
      BY <1>0, <2>2, <2>3, <3>1, SizesType DEF Size, PhoneType
  <2>5. ~shown'
    BY ONLY <2>3, Zenon
  <2> QED
    BY <2>2, <2>3, <2>4, <2>5 DEF PrintsLast
<1>4. CASE PrintChunk
  <2> DEFINE r == launches[app].run
             L == log[r]
  <2>1. /\ app # 0 /\ app \in DOMAIN launches /\ UNCHANGED <<launches, app, shown, file>>
        /\ printed < Size(app) /\ printed' = printed + 1 /\ printed \in Nat
        /\ r \in Runs /\ Size(app) \in Nat
    <3>1. /\ app # 0 /\ UNCHANGED <<launches, app, shown, file>>
          /\ printed < Size(app) /\ printed' = printed + 1
      BY <1>4 DEF PrintChunk
    <3>2. app \in DOMAIN launches /\ printed \in Nat
      BY <1>0, <3>1 DEF PhoneType
    <3>3. r \in Runs /\ Size(app) \in Nat
      BY <1>0, <3>2, LogTyped
    <3> QED
      BY <3>1, <3>2, <3>3
  <2>2. L \in Seq(ChunksOf(1..Len(launches))) /\ Len(L) \in Nat
    BY <1>0, <2>1 DEF PhoneType
  <2>3. log'[r] = Append(L, [launch |-> app, part |-> printed + 1])
    BY <1>0, <1>4, <2>1 DEF PrintChunk, PhoneType
  <2>4. /\ Len(log'[r]) = Len(L) + 1 /\ log'[r][Len(L) + 1] = [launch |-> app, part |-> printed + 1]
        /\ \A k \in 1..Len(L) : log'[r][k] = L[k]
    BY <2>2, <2>3
  <2>5. /\ app = Len(launches) /\ printed <= Len(L)
        /\ \A j \in 1..printed : L[Len(L) - printed + j] = [launch |-> app, part |-> j]
        /\ ~shown
    BY <2>1 DEF PrintsLast
  <2>6. ASSUME NEW j \in 1..printed'
        PROVE  log'[r][Len(log'[r]) - printed' + j] = [launch |-> app, part |-> j]
    <3>1. Len(log'[r]) - printed' + j = Len(L) - printed + j
      BY <2>1, <2>2, <2>4
    <3>2. CASE j = printed + 1
      <4>1. printed \in Nat /\ Len(L) \in Nat
        BY <2>1, <2>2
      <4>n. \A m, q \in Nat : m - q + (q + 1) = m + 1
        OBVIOUS
      <4>2. Len(L) - printed + j = Len(L) + 1
        BY ONLY <3>2, <4>1, <4>n, Zenon
      <4> QED
        BY <2>4, <3>1, <3>2, <4>2
    <3>3. CASE j # printed + 1
      <4>1. j \in 1..printed /\ Len(L) - printed + j \in 1..Len(L)
        BY <2>1, <2>2, <2>5, <3>3
      <4> QED
        BY <2>4, <2>5, <3>1, <4>1
    <3> QED
      BY <3>2, <3>3
  <2>7. printed' <= Size(app) /\ printed' <= Len(log'[r]) /\ Size(app)' = Size(app)
    BY <2>1, <2>2, <2>4, <2>5 DEF Size
  <2>8. ~shown'
    BY <2>1, <2>5
  <2> QED
    BY <2>1, <2>5, <2>6, <2>7, <2>8 DEF PrintsLast
<1>5. CASE ShowComplete
  <2>1. /\ app # 0 /\ printed = Size(app) /\ UNCHANGED <<launches, app, printed, log>>
        /\ app \in DOMAIN launches /\ launches[app].run \in Runs
        /\ device # "android" => file' = [file EXCEPT ![launches[app].run] = app]
    BY <1>0, <1>5, LogTyped DEF ShowComplete, PhoneType
  <2>2. device # "android" => file'[launches[app].run] = app
    BY <1>0, <2>1 DEF PhoneType
  <2> QED
    BY <1>0, <2>1, <2>2 DEF PrintsLast, Size
<1>6. Next => StartFlow \/ PrintChunk \/ ShowComplete \/ app' = 0 \/ UNCHANGED phone
              \/ Install
  BY DEF Next, Supervise, Start, WriteFlow, FlowPasses, FlowFails, Poll, PollFails,
         Validate, LookForRecord, RenameRecord, Deadline, LateRename, PersistFailure, Die, Crash
<1>7. CASE Install
  <2>1. app' = 0 \/ UNCHANGED phone
    BY <1>7 DEF Install
  <2> QED
    BY <1>1, <1>2, <2>1
<1> QED
  BY <1>1, <1>2, <1>3, <1>4, <1>5, <1>6, <1>7 DEF vars

(* The command looks at a launch of its batch, and at the one that passed. *)
LEMMA ShowsRunKept == ASSUME TypeOK, PrintsLast, ShowsRun, [Next]_vars PROVE ShowsRun'
<1> USE DEF ShowsRun, Ended, Program, Watched
<1>0. Len(launches) \in Nat /\ launches \in Seq(Launches) /\ app \in 0..Len(launches) /\ (shown => app # 0)
  BY LogTyped DEF TypeOK, PhoneType
<1>1. CASE StartFlow
  <2>1. PICK size \in Sizes :
          launches' = Append(launches, [run |-> run, build |-> build, size |-> size])
    BY <1>1 DEF StartFlow
  <2>2. app' = Len(launches') /\ launches'[app'].run = run /\ run' = run /\ pc' = "running"
    BY <1>0, <1>1, <2>1 DEF StartFlow, run
  <2> QED
    BY <2>2
<1>2. CASE FlowPasses
  <2>1. pc = "running" /\ UNCHANGED <<device, app, shown, plan, batch, launches>> /\ accepted' = Len(launches)
        /\ (device = "physical" \/ shown)
    BY <1>2 DEF FlowPasses
  <2> QED
    BY <1>0, <2>1 DEF PrintsLast, run
<1>3. CASE Install
  <2>1. FailWith("unavailable") => pc' = "persist"
    BY DEF FailWith
  <2>2. pc' = "persist" \/ (app' = 0 /\ pc' = "maestro")
    BY <1>3, <2>1 DEF Install
  <2> QED
    BY <2>2
<1>4. CASE FlowFails \/ Crash
  <2>1. pc \in {"maestro", "running"} /\ pc' \in {"maestro", "running", "persist"}
        /\ UNCHANGED <<plan, batch, launches>> /\ app' \in {app, 0}
    BY <1>4 DEF FlowFails, Crash, FailWith
  <2> QED
    BY <2>1 DEF run
<1>5. CASE PrintChunk \/ LateRename \/ ShowComplete
  <2>1. UNCHANGED <<device, pc, plan, batch, launches, app, accepted>> /\ (shown => shown')
    BY <1>5 DEF PrintChunk, LateRename, ShowComplete
  <2> QED
    BY <2>1 DEF run
<1>6. CASE pc' \notin {"maestro", "running", "poll"}
  BY <1>6
<1>7. CASE UNCHANGED vars
  BY <1>7 DEF vars, run
<1>8. Next => \/ StartFlow \/ FlowPasses \/ Install \/ FlowFails \/ Crash \/ PrintChunk
              \/ LateRename \/ ShowComplete \/ pc' \notin {"maestro", "running", "poll"}
  BY DEF Next, Supervise, Start, WriteFlow, Poll, PollFails, Validate, LookForRecord,
         RenameRecord, Deadline, PersistFailure, Die, FailWith
<1> QED
  BY <1>1, <1>2, <1>3, <1>4, <1>5, <1>6, <1>7, <1>8

(* The log of a run of one size, whose last launch has printed all: pieced *)
(* together from wherever, the result is that launch's.                    *)
LEMMA LastAssembled ==
  ASSUME TypeOK, PrintedByRun, PrintsLast, SameSize(run), app # 0, shown, launches[app].run = run,
         NEW first \in DOMAIN log[run], NEW parts \in Assembled(first)
  PROVE  \A i \in DOMAIN parts : parts[i] = app
<1> DEFINE L == log[run]
           n == Len(L)
           size == Size(app)
<1>1. /\ run \in Runs /\ L \in Seq(ChunksOf(1..Len(launches))) /\ n \in Nat /\ DOMAIN L = 1..n
      /\ app \in DOMAIN launches /\ size \in Nat \ {0} /\ size <= n
      /\ \A j \in 1..size : L[n - size + j] = [launch |-> app, part |-> j]
  <2>1. run \in Runs /\ L \in Seq(ChunksOf(1..Len(launches))) /\ app \in DOMAIN launches
    BY Names, LogTyped DEF TypeOK, PhoneType
  <2>2. size \in Nat \ {0}
    BY <2>1, LogTyped DEF TypeOK
  <2> QED
    BY <2>1, <2>2 DEF PrintsLast
<1>2. \A k \in 1..n : Size(L[k].launch) = size
  BY <1>1, LogTyped DEF TypeOK, PrintedByRun, SameSize, Ran
<1>3. Kept(first) = first..n /\ first \in 1..n
  <2>1. Kept(first) = {k \in first..n : Size(L[k].launch) = Size(L[first].launch)}
    BY DEF Kept
  <2> QED
    BY <1>1, <1>2, <2>1
<1>4. /\ DOMAIN parts = 1..size
      /\ \A i \in 1..size : \E k \in first..n :
           /\ L[k] = [launch |-> parts[i], part |-> i]
           /\ \A j \in first..n : L[j].part = i => j <= k
  <2>1. /\ parts \in [1..Size(L[first].launch) -> DOMAIN launches]
        /\ \A i \in DOMAIN parts : \E k \in Kept(first) :
             /\ L[k] = [launch |-> parts[i], part |-> i]
             /\ \A j \in Kept(first) : L[j].part = i => j <= k
    BY DEF Assembled
  <2>2. Size(L[first].launch) = size
    BY <1>2, <1>3
  <2> HIDE DEF L, n, size
  <2>3. DOMAIN parts = 1..size
    BY <2>1, <2>2
  <2> QED
    BY <1>3, <2>1, <2>3
<1> HIDE DEF L, n, size
<1>a. n \in Nat /\ size \in Nat /\ 1 \in 1..size /\ size <= n /\ first \in Nat /\ 1 <= first /\ first <= n
  BY <1>1, <1>3
<1>5. first <= n - size + 1
  <2> SUFFICES ASSUME first > n - size + 1 PROVE FALSE
    BY <1>a
  <2>1. PICK k \in first..n : L[k] = [launch |-> parts[1], part |-> 1]
    BY <1>4, <1>a
  <2>2. k - (n - size) \in 2..size /\ n - size + (k - (n - size)) = k
    BY <1>a
  <2>3. L[k] = [launch |-> app, part |-> k - (n - size)]
    BY <1>1, <2>2
  <2> QED
    BY <2>1, <2>2, <2>3
<1>6. ASSUME NEW i \in 1..size PROVE parts[i] = app
  <2>1. PICK k \in first..n :
          /\ L[k] = [launch |-> parts[i], part |-> i]
          /\ \A j \in first..n : L[j].part = i => j <= k
    BY <1>4
  <2>2. n - size + i \in first..n /\ L[n - size + i] = [launch |-> app, part |-> i]
    <3>1. n - size + i \in first..n
      BY <1>5, <1>a
    <3> QED
      BY <1>1, <3>1
  <2>3. n - size + i <= k
    BY <2>1, <2>2
  <2>4. k - (n - size) \in 1..size /\ n - size + (k - (n - size)) = k
    BY <1>a, <2>3
  <2>5. L[k] = [launch |-> app, part |-> k - (n - size)]
    BY <1>1, <2>4
  <2> QED
    BY <2>1, <2>5
<1> QED
  BY <1>4, <1>6

(* What is read when the flow has passed is of the accepted launch.        *)
LEMMA ReadAccepted ==
  ASSUME TypeOK, PrintedByRun, PrintsLast, ShowsRun, pc = "poll",
         NEW parts \in InFile \cup InLog \cup OnScreen
  PROVE  FromAccepted(run, parts, accepted)
<1>1. parts # <<>>
  BY ResultTyped
<1>2. ASSUME device # "physical", SameSize(run) PROVE \A i \in DOMAIN parts : parts[i] = accepted
  <2>1. shown /\ accepted = app /\ app # 0 /\ launches[app].run = run
    BY <1>2 DEF ShowsRun, TypeOK, PhoneType
  <2>2. CASE parts \in InFile
    BY <2>1, <2>2 DEF InFile, PrintsLast
  <2>3. CASE parts \in InLog
    <3>1. PICK k \in DOMAIN log[run] : parts \in Assembled(k)
      BY <2>3 DEF InLog
    <3> QED
      BY <1>2, <2>1, <3>1, LastAssembled
  <2>4. CASE parts \in OnScreen
    BY <2>1, <2>4 DEF OnScreen
  <2> QED
    BY <2>2, <2>3, <2>4
<1> QED
  BY <1>1, <1>2 DEF FromAccepted

(* Whose evidence it is does not change when launches are added.           *)
LEMMA FromAcceptedKept ==
  ASSUME TypeOK, [Next]_vars, NEW r \in Runs, NEW parts, NEW acc, FromAccepted(r, parts, acc)
  PROVE  /\ parts # <<>>
         /\ device' # "physical" /\ SameSize(r)' => \A i \in DOMAIN parts : parts[i] = acc
<1>1. device' = device
  BY DEF Next, Supervise, Start, WriteFlow, Install, StartFlow, FlowPasses, FlowFails, Poll,
         PollFails, Validate, LookForRecord, RenameRecord, Deadline, LateRename,
         PersistFailure, Die, PrintChunk, ShowComplete, Crash, vars
<1>2. \A l \in DOMAIN launches : l \in DOMAIN launches' /\ launches'[l] = launches[l]
  BY Stable
<1>3. SameSize(r)' => SameSize(r)
  BY <1>2 DEF SameSize, Ran, Size
<1> QED
  BY <1>1, <1>3 DEF FromAccepted

(* A result once accepted is recorded as such.                             *)
LEMMA AcceptedKept ==
  ASSUME Inv, PrintsLast, ShowsRun, RecordsAccepted, [Next]_vars
  PROVE  RecordsAccepted'
<1>0. /\ TypeOK /\ run \in Runs /\ Whole \notin Sources /\ Sources \subseteq Sources \cup {Whole}
      /\ records \in [RecordKeys -> RecordType \cup {None}] /\ late \in RecordType \cup {None}
      /\ \A r \in Runs, u \in Sources \cup {Whole} : <<r, u>> \in RecordKeys
  BY Names, NoneFresh DEF Inv, TypeOK, StoreType, Whole, RecordKeys
<1>r. pc = "rename" =>
        /\ Record("succeeded") \in RecordType /\ Record("succeeded").run = run
        /\ FromAccepted(run, Record("succeeded").parts, Record("succeeded").accepted)
  <2>1. pc = "rename" => Record("succeeded") \in RecordType
    BY <1>0, RecordTyped DEF TypeOK, Program, Outcomes
  <2> QED
    BY <2>1 DEF Record, RecordsAccepted
<1>1. (pc \in {"validate", "look", "rename"} => FromAccepted(run, result, accepted))'
  <2> SUFFICES ASSUME pc' \in {"validate", "look", "rename"}
               PROVE  FromAccepted(run, result, accepted)'
    OBVIOUS
  <2>1. CASE Poll
    <3>1. /\ result' \in InFile \cup InLog \cup OnScreen /\ pc = "poll"
          /\ UNCHANGED <<device, plan, batch, accepted, launches>>
      BY <2>1 DEF Poll
    <3>2. FromAccepted(run, result', accepted)
      BY <1>0, <3>1, ReadAccepted DEF Inv
    <3> QED
      BY <3>1, <3>2 DEF FromAccepted, SameSize, Ran, Size, run
  <2>2. CASE /\ pc \in {"validate", "look", "rename"}
             /\ UNCHANGED <<plan, batch, result, accepted>>
    <3>1. FromAccepted(run, result, accepted)
      BY <2>2 DEF RecordsAccepted
    <3> QED
      BY <1>0, <2>2, <3>1, FromAcceptedKept DEF FromAccepted, run
  <2>3. Next => \/ Poll
                \/ /\ pc \in {"validate", "look", "rename"}
                   /\ UNCHANGED <<plan, batch, result, accepted>>
    BY DEF Next, Supervise, Start, WriteFlow, Install, StartFlow, FlowPasses, FlowFails, Poll,
           PollFails, Validate, LookForRecord, RenameRecord, Deadline, LateRename,
           PersistFailure, Die, PrintChunk, ShowComplete, Crash, FailWith, Watched
  <2> QED
    BY <2>1, <2>2, <2>3 DEF vars
<1>2. ASSUME NEW r \in Runs, NEW u \in Sources, records'[<<r, u>>] # None
      PROVE  FromAccepted(r, records[<<r, u>>].parts, records[<<r, u>>].accepted)'
  <2>1. FromAccepted(r, records'[<<r, u>>].parts, records'[<<r, u>>].accepted)
    <3>1. CASE \E rec \in RecordType :
                 /\ Addable(rec) /\ records' = [records EXCEPT ![<<rec.run, rec.unit>>] = rec]
                 /\ \/ rec = late
                    \/ rec = Record("succeeded") /\ pc = "rename"
      <4>1. PICK rec \in RecordType :
              /\ records' = [records EXCEPT ![<<rec.run, rec.unit>>] = rec]
              /\ \/ rec = late
                 \/ rec = Record("succeeded") /\ pc = "rename"
        BY <3>1
      <4>2. FromAccepted(rec.run, rec.parts, rec.accepted)
        BY <1>r, <4>1, NoneFresh DEF RecordsAccepted
      <4>3. rec.run \in Runs /\ rec.unit \in Sources
        BY DEF RecordType
      <4>4. records'[<<r, u>>] = IF r = rec.run /\ u = rec.unit THEN rec ELSE records[<<r, u>>]
        BY <1>0, <4>1, <4>3
      <4> QED
        BY <1>2, <4>2, <4>4 DEF RecordsAccepted
    <3>2. CASE \E rec : records' = [records EXCEPT ![<<run, Whole>>] = rec]
      <4>1. records'[<<r, u>>] = records[<<r, u>>]
        BY <1>0, <3>2
      <4> QED
        BY <1>2, <4>1 DEF RecordsAccepted
    <3>3. CASE records' = records
      BY <1>2, <3>3 DEF RecordsAccepted
    <3> QED
      BY <3>1, <3>2, <3>3, Recording
  <2>2. /\ records'[<<r, u>>].parts # <<>>
        /\ device' # "physical" /\ SameSize(r)' =>
             \A i \in DOMAIN records'[<<r, u>>].parts :
               records'[<<r, u>>].parts[i] = records'[<<r, u>>].accepted
    BY <1>0, <2>1, FromAcceptedKept
  <2> QED
    BY <2>2 DEF FromAccepted
<1>3. ASSUME late' # None PROVE FromAccepted(late.run, late.parts, late.accepted)'
  <2>1. late' = late \/ (late' = Record("succeeded") /\ pc = "rename")
    <3>1. CASE Deadline
      BY <1>3, <3>1 DEF Deadline
    <3>2. CASE LateRename
      BY <1>3, <3>2 DEF LateRename
    <3>3. CASE Start \/ Die \/ PrintChunk \/ ShowComplete \/ Crash \/ UNCHANGED vars
      BY <3>3 DEF Start, Die, PrintChunk, ShowComplete, Crash, vars
    <3>4. CASE WriteFlow \/ Install \/ StartFlow \/ FlowPasses \/ FlowFails \/ Poll \/ PollFails
      BY <3>4 DEF WriteFlow, Install, StartFlow, FlowPasses, FlowFails, Poll, PollFails
    <3>5. CASE Validate \/ LookForRecord \/ RenameRecord \/ PersistFailure
      BY <3>5 DEF Validate, LookForRecord, RenameRecord, PersistFailure
    <3> QED
      BY <3>1, <3>2, <3>3, <3>4, <3>5 DEF Next, Supervise
  <2>2. late'.run \in Runs
    <3>1. CASE late' = late
      <4>1. late \in RecordType
        BY <1>0, <1>3, <3>1
      <4> QED
        BY <3>1, <4>1 DEF RecordType
    <3>2. CASE late' = Record("succeeded") /\ pc = "rename"
      BY <1>0, <1>r, <3>2
    <3> QED
      BY <2>1, <3>1, <3>2
  <2>3. FromAccepted(late'.run, late'.parts, late'.accepted)
    <3>1. CASE late' = late
      BY <1>3, <3>1 DEF RecordsAccepted
    <3>2. CASE late' = Record("succeeded") /\ pc = "rename"
      BY <1>r, <3>2
    <3> QED
      BY <2>1, <3>1, <3>2
  <2> QED
    BY <1>0, <2>2, <2>3, FromAcceptedKept DEF FromAccepted
<1> QED
  BY <1>1, <1>2, <1>3 DEF RecordsAccepted

(* What the log, the screen and the records say of the accepted launch.    *)
AcceptedInv == PrintsLast /\ ShowsRun /\ RecordsAccepted

THEOREM AcceptedInvariant == Spec => []AcceptedInv
<1>1. Init => AcceptedInv
  <2> SUFFICES ASSUME Init PROVE AcceptedInv
    OBVIOUS
  <2>1. \A r \in Runs, u \in Sources : records[<<r, u>>] = None
    BY DEF Init, RecordKeys
  <2>2. app = 0 /\ pc = "idle" /\ late = None
    BY DEF Init
  <2> QED
    BY <2>1, <2>2 DEF AcceptedInv, PrintsLast, ShowsRun, RecordsAccepted
<1>2. Inv /\ AcceptedInv /\ [Next]_vars => AcceptedInv'
  BY PrintsLastKept, ShowsRunKept, AcceptedKept DEF AcceptedInv, Inv
<1> QED
  BY <1>1, <1>2, Invariant, PTL DEF Spec

(* PlatformDrivers.ts:164-165, where it holds: if the results of a run are *)
(* of one size, what is recorded of it as a success was all printed by the *)
(* launch whose flow passed, and nothing by one that failed before it.     *)
THEOREM AcceptedRecorded == Spec => []EvidenceOfAccepted
<1>1. Inv /\ AcceptedInv => EvidenceOfAccepted
  <2> SUFFICES ASSUME Inv, AcceptedInv, NEW k \in RecordKeys, records[k] # None,
                      records[k].infrastructure = "succeeded",
                      device # "physical", SameSize(records[k].run)
               PROVE  \A i \in DOMAIN records[k].parts : records[k].parts[i] = records[k].accepted
    BY DEF EvidenceOfAccepted, Succeeded, SameSize
  <2>1. PICK r \in Runs, u \in Sources \cup {Whole} : k = <<r, u>>
    BY DEF RecordKeys
  <2>2. u \in Sources /\ records[k].run = r
    BY <2>1 DEF Inv, RecordsSound
  <2> QED
    BY <2>1, <2>2 DEF AcceptedInv, RecordsAccepted, FromAccepted
<1> QED
  BY <1>1, Invariant, AcceptedInvariant, PTL

-----------------------------------------------------------------------------
(* What a command that ends well has recorded.  Batch by batch every unit  *)
(* is recorded by this command; and the failure recorded for a run as a    *)
(* whole is of an earlier command, until this one fails itself.            *)
AllRecorded(r) ==
  \A u \in Sources : records[<<r, u>>] # None /\ records[<<r, u>>].execution = execution

BatchesRecorded ==
  /\ \A i \in 1..(batch - 1) : AllRecorded(plan[i])
  /\ pc = "done" => \A i \in DOMAIN plan : AllRecorded(plan[i])

FailuresEarlier ==
  \A r \in Runs : records[<<r, Whole>>] # None =>
    /\ records[<<r, Whole>>].execution \in 0..execution
    /\ pc \notin {"failed", "dead"} => records[<<r, Whole>>].execution < execution

(* The last unit of a batch completes it.                                  *)
LEMMA BatchCompletes ==
  ASSUME Inv, [Next]_vars, RenameRecord, next = Len(Units)
  PROVE  \A u \in Sources :
           records'[<<run, u>>] # None /\ records'[<<run, u>>].execution = execution
<1>1. /\ TypeOK /\ CommandType /\ run \in Runs /\ unit \in Sources
      /\ records \in [RecordKeys -> RecordType \cup {None}]
      /\ \A u \in Sources \cup {Whole} : <<run, u>> \in RecordKeys
  BY Names DEF Inv, TypeOK, StoreType
<1>2. Record("succeeded") \in RecordType /\ Addable(Record("succeeded"))
  BY <1>1, RecordTyped DEF RenameRecord, Program, Outcomes, Inv, Renames
<1>3. RecordedBefore(run, next, execution, result)
  BY <1>1, <1>2 DEF Addable, Record, CommandType, unit, RenameRecord
<1>4. records' = [records EXCEPT ![<<run, unit>>] = Record("succeeded")]
  BY DEF RenameRecord
<1> SUFFICES ASSUME NEW u \in Sources
             PROVE  records'[<<run, u>>] # None /\ records'[<<run, u>>].execution = execution
  OBVIOUS
<1>5. PICK n \in 1..Len(Units) : u = Units[n]
  BY UnitsType DEF Sources
<1>6. CASE n = next
  <2>1. records'[<<run, u>>] = Record("succeeded")
    BY <1>1, <1>4, <1>5, <1>6 DEF unit
  <2> QED
    BY <1>2, <2>1, NoneFresh DEF Record
<1>7. CASE n # next
  <2>1. n \in 1..(next - 1)
    BY <1>5, <1>7, UnitsType
  <2>2. records[<<run, u>>] # None /\ records[<<run, u>>].execution = execution
    BY <1>3, <1>5, <2>1 DEF RecordedBefore
  <2> QED
    BY <1>1, <2>2, NeverReplaced
<1> QED
  BY <1>6, <1>7

LEMMA BatchesKept == ASSUME Inv, BatchesRecorded, [Next]_vars PROVE BatchesRecorded'
<1>0. /\ TypeOK /\ CommandType /\ plan \in Seq(Runs) /\ batch \in DOMAIN plan /\ batch \in Nat
      /\ \A r \in Runs, u \in Sources : <<r, u>> \in RecordKeys
  BY PlansType DEF Inv, TypeOK, CommandType, RecordKeys
<1>1. ASSUME NEW r \in Runs, AllRecorded(r), execution' = execution PROVE AllRecorded(r)'
  BY <1>0, <1>1, NeverReplaced DEF AllRecorded
<1>2. CASE Start
  BY <1>2 DEF Start, BatchesRecorded
<1>3. CASE RenameRecord
  <2>1. UNCHANGED <<execution, plan>>
    BY <1>3 DEF RenameRecord
  <2>2. \A i \in 1..(batch - 1) : plan[i] \in Runs /\ AllRecorded(plan[i])'
    BY <1>0, <1>1, <2>1 DEF BatchesRecorded
  <2>3. CASE batch' = batch /\ pc' = "look"
    BY <2>1, <2>2, <2>3 DEF BatchesRecorded
  <2>4. CASE next = Len(Units) /\ batch < Len(plan) /\ batch' = batch + 1 /\ pc' = "flow"
    <3>1. \A u \in Sources : /\ records'[<<plan[batch], u>>] # None
                            /\ records'[<<plan[batch], u>>].execution = execution
      BY <1>3, <2>4, BatchCompletes DEF run
    <3>2. \A i \in 1..(batch' - 1) : i \in 1..(batch - 1) \/ i = batch
      BY <1>0, <2>4
    <3> QED
      BY <2>1, <2>2, <2>4, <3>1, <3>2 DEF BatchesRecorded, AllRecorded
  <2>5. CASE next = Len(Units) /\ batch = Len(plan) /\ batch' = batch /\ pc' = "done"
    <3>1. \A u \in Sources : /\ records'[<<plan[batch], u>>] # None
                            /\ records'[<<plan[batch], u>>].execution = execution
      BY <1>3, <2>5, BatchCompletes DEF run
    <3>2. \A i \in DOMAIN plan : i \in 1..(batch - 1) \/ i = batch
      BY <1>0, <2>5
    <3> QED
      BY <2>1, <2>2, <2>5, <3>1, <3>2 DEF BatchesRecorded, AllRecorded
  <2> QED
    BY <1>3, <2>3, <2>4, <2>5 DEF RenameRecord
<1>4. CASE UNCHANGED <<execution, plan, batch>> /\ (pc' = "done" => pc = "done")
  <2>1. \A i \in DOMAIN plan : plan[i] \in Runs
    BY <1>0
  <2>2. \A i \in 1..(batch - 1) : i \in DOMAIN plan
    BY <1>0
  <2> QED
    BY <1>1, <1>4, <2>1, <2>2 DEF BatchesRecorded
<1>5. Next => \/ Start \/ RenameRecord
              \/ UNCHANGED <<execution, plan, batch>> /\ (pc' = "done" => pc = "done")
  BY DEF Next, Supervise, WriteFlow, Install, StartFlow, FlowPasses, FlowFails, Poll,
         PollFails, Validate, LookForRecord, Deadline, LateRename,
         PersistFailure, Die, PrintChunk, ShowComplete, Crash, FailWith
<1> QED
  BY <1>2, <1>3, <1>4, <1>5 DEF vars

LEMMA FailuresKept == ASSUME Inv, FailuresEarlier, [Next]_vars PROVE FailuresEarlier'
<1>0. /\ TypeOK /\ CommandType /\ run \in Runs /\ Whole \notin Sources /\ execution \in Nat
      /\ records \in [RecordKeys -> RecordType \cup {None}] /\ late \in RecordType \cup {None}
      /\ \A r \in Runs, u \in Sources \cup {Whole} : <<r, u>> \in RecordKeys
  BY Names, NoneFresh DEF Inv, TypeOK, CommandType, StoreType, Whole, RecordKeys
<1>1. CASE Start
  BY <1>0, <1>1 DEF Start, FailuresEarlier
<1>2. CASE PersistFailure
  <2>1. pc' = "failed" /\ execution' = execution
    BY <1>2 DEF PersistFailure
  <2>2. records' = records \/ records' = [records EXCEPT ![<<run, Whole>>] = Record(outcome)]
    BY <1>2 DEF PersistFailure
  <2>3. Record(outcome).execution = execution
    BY DEF Record
  <2>4. ASSUME NEW r \in Runs, records'[<<r, Whole>>] # None
        PROVE  records'[<<r, Whole>>].execution \in 0..execution
    <3>1. records'[<<r, Whole>>] = records[<<r, Whole>>] \/ records'[<<r, Whole>>] = Record(outcome)
      BY <1>0, <2>2
    <3> QED
      BY <1>0, <2>3, <2>4, <3>1 DEF FailuresEarlier
  <2> QED
    BY <2>1, <2>4 DEF FailuresEarlier
<1>3. CASE ~Start /\ ~PersistFailure
  <2>1. execution' = execution /\ (pc \in {"failed", "dead"} => pc' \in {"failed", "dead"})
    BY <1>3 DEF Next, Supervise, WriteFlow, Install, StartFlow, FlowPasses, FlowFails, Poll,
           PollFails, Validate, LookForRecord, RenameRecord, Deadline, LateRename,
           Die, PrintChunk, ShowComplete, Crash, Program, Ended, Watched, vars
  <2>2. \A r \in Runs : records'[<<r, Whole>>] = records[<<r, Whole>>]
    <3>1. CASE \E rec \in RecordType : records' = [records EXCEPT ![<<rec.run, rec.unit>>] = rec]
      BY <1>0, <3>1 DEF RecordType
    <3>2. CASE records' = records
      BY <3>2
    <3>3. \/ pc = "rename" /\ records' = [records EXCEPT ![<<run, unit>>] = Record("succeeded")]
          \/ late # None /\ records' = [records EXCEPT ![<<late.run, late.unit>>] = late]
          \/ records' = records
      BY <1>3 DEF Next, Supervise, WriteFlow, Install, StartFlow, FlowPasses, FlowFails, Poll,
             PollFails, Validate, LookForRecord, RenameRecord, Deadline, LateRename,
             Die, PrintChunk, ShowComplete, Crash, vars
    <3>4. pc = "rename" => /\ Record("succeeded") \in RecordType
                           /\ Record("succeeded").run = run /\ Record("succeeded").unit = unit
      BY <1>0, RecordTyped DEF Program, Outcomes, Record
    <3> QED
      BY <1>0, <3>1, <3>2, <3>3, <3>4
  <2> QED
    BY <2>1, <2>2 DEF FailuresEarlier
<1> QED
  BY <1>1, <1>2, <1>3

(* What is recorded when a command has ended well, for any plan.           *)
CompletedInv == BatchesRecorded /\ FailuresEarlier

THEOREM CompletedInvariant == Spec => []CompletedInv
<1>1. Init => CompletedInv
  <2> SUFFICES ASSUME Init PROVE CompletedInv
    OBVIOUS
  <2>1. \A r \in Runs : records[<<r, Whole>>] = None
    BY DEF Init, RecordKeys
  <2>2. batch = 1 /\ pc = "idle"
    BY DEF Init
  <2> QED
    BY <2>1, <2>2 DEF CompletedInv, BatchesRecorded, FailuresEarlier
<1>2. Inv /\ CompletedInv /\ [Next]_vars => CompletedInv'
  BY BatchesKept, FailuresKept DEF CompletedInv
<1> QED
  BY <1>1, <1>2, Invariant, PTL DEF Spec

(* A command that ends well leaves every batch of its plan with evidence   *)
(* compare takes as complete: a success for each source, of one build, all *)
(* made by this command; a failure on record is an earlier command's.      *)
THEOREM SuccessCompares == Spec => []SuccessIsComparable
<1>1. Inv /\ AcceptedInv /\ CompletedInv => SuccessIsComparable
  <2> SUFFICES ASSUME Inv, AcceptedInv, CompletedInv, pc = "done", NEW i \in DOMAIN plan
               PROVE  /\ \A s \in Succeeded : s.run = plan[i] => s.execution = execution
                      /\ records[<<plan[i], Whole>>] = None => Complete(plan[i], Sources)
                      /\ records[<<plan[i], Whole>>] # None =>
                           records[<<plan[i], Whole>>].execution < execution
    BY DEF SuccessIsComparable
  <2> DEFINE r == plan[i]
  <2>1. r \in Runs /\ Whole \notin Sources /\ Sources # {}
    <3>1. plan \in Seq(Runs) /\ Units \in Seq(Sources) /\ Units # <<>>
      BY PlansType, UnitsType DEF Inv, TypeOK, CommandType
    <3> QED
      BY <3>1, NoneFresh DEF Whole, Sources
  <2>2. /\ AllRecorded(r)
        /\ records[<<r, Whole>>] # None => records[<<r, Whole>>].execution < execution
    BY <2>1 DEF CompletedInv, BatchesRecorded, FailuresEarlier
  <2>3. ASSUME NEW s \in Succeeded, s.run = r PROVE s.execution = execution
    <3>1. PICK k \in RecordKeys : s = records[k] /\ records[k] # None /\ s.infrastructure = "succeeded"
      BY DEF Succeeded
    <3>2. PICK q \in Runs, u \in Sources \cup {Whole} : k = <<q, u>>
      BY DEF RecordKeys
    <3>3. u \in Sources /\ q = r
      BY <2>3, <3>1, <3>2 DEF Inv, RecordsSound
    <3> QED
      BY <2>2, <3>1, <3>2, <3>3 DEF AllRecorded
  <2>4. ASSUME records[<<r, Whole>>] = None PROVE Complete(r, Sources)
    <3>1. \A u \in Sources :
            /\ <<r, u>> \in {r} \X (Sources \cup {Whole}) /\ records[<<r, u>>] # None
            /\ records[<<r, u>>].unit = u /\ records[<<r, u>>].build = flows[r]
            /\ records[<<r, u>>].infrastructure = "succeeded" /\ records[<<r, u>>].parts # <<>>
      BY <2>1, <2>2
         DEF AllRecorded, Inv, RecordsSound, Sound, AcceptedInv, RecordsAccepted, FromAccepted
    <3>2. ASSUME NEW record \in Loaded(r, Sources)
          PROVE  /\ record.unit \in Sources /\ record.build = flows[r]
                 /\ record.infrastructure = "succeeded" /\ record.parts # <<>>
      <4>1. PICK k \in {r} \X (Sources \cup {Whole}) : record = records[k] /\ records[k] # None
        BY DEF Loaded
      <4>2. PICK u \in Sources : record = records[<<r, u>>]
        BY <2>4, <4>1
      <4> QED
        BY <3>1, <4>2
    <3>3. \A u \in Sources : records[<<r, u>>] \in Loaded(r, Sources)
      BY <3>1 DEF Loaded
    <3>4. \A record \in Loaded(r, Sources) : ~Issue(record)
      BY <3>2 DEF Issue
    <3>5. {record.unit : record \in Loaded(r, Sources)} = Sources
      <4> DEFINE loaded == Loaded(r, Sources)
      <4>1. \A record \in loaded : record.unit \in Sources
        BY <3>2
      <4>2. \A u \in Sources : \E record \in loaded : record.unit = u
        BY <3>1, <3>3
      <4> HIDE DEF loaded
      <4>3. {record.unit : record \in loaded} = Sources
        BY <4>1, <4>2, Zenon
      <4> QED
        BY <4>3 DEF loaded
    <3>6. {record.build : record \in Loaded(r, Sources)} = {flows[r]}
      <4>1. \A record \in Loaded(r, Sources) : record.build = flows[r]
        BY <3>2
      <4>2. Loaded(r, Sources) # {}
        BY <2>1, <3>3
      <4> QED
        BY <4>1, <4>2
    <3>7. Cardinality({flows[r]}) = 1
      BY FS_Singleton
    <3> QED
      BY <3>4, <3>5, <3>6, <3>7 DEF Complete
  <2> QED
    BY <2>2, <2>3, <2>4
<1> QED
  BY <1>1, Invariant, AcceptedInvariant, CompletedInvariant, PTL
=============================================================================
