----------------------------- MODULE NativeRun -----------------------------
(***************************************************************************)
(* A native run from the command to the verdict: supervise-native and      *)
(* supervise-native-pair (commands/NativeCommands.ts), runBatch of         *)
(* supervision/NativeSupervisor.ts with the drivers it calls, the          *)
(* application's runner on the device, the evidence store, and compare.    *)
(*                                                                         *)
(* One command uses the device at a time. It may be killed, and another    *)
(* command may be given the same run identity. What passes between the     *)
(* application and the harness is a log that outlives application and      *)
(* command, a file in the application's container, and the screen.         *)
(***************************************************************************)
EXTENDS Naturals, Sequences, FiniteSets

CONSTANTS
  Runs,          (* identities of batches: <run-id>-upstream, -candidate   *)
  Plans,         (* the batches of a command, in order                     *)
  Units,         (* the selected sources, in the order of the shard        *)
  BuildsOf,      (* the builds an operator may import for a batch          *)
  Sizes,         (* how many log chunks a result may take                  *)
  Devices,       (* subset of "android", "simulator", "physical"           *)
  Faults,        (* may writes fail, and commands be killed?               *)
  MaxExecutions, (* bound: commands                                        *)
  MaxLaunches,   (* bound: launches of the application                     *)
  None

maestroFlowRetries == 1

Sources == {Units[i] : i \in DOMAIN Units}
Builds == UNION {BuildsOf[r] : r \in Runs}

ASSUME PlansType == Plans # {} /\ Plans \subseteq Seq(Runs) \ {<<>>}
ASSUME UnitsType ==
  /\ Units \in Seq(Sources) \ {<<>>}
  /\ \A i, j \in DOMAIN Units : Units[i] = Units[j] => i = j
ASSUME SizesType == Sizes \subseteq Nat \ {0}
ASSUME DevicesType == Devices \subseteq {"android", "simulator", "physical"}

VARIABLES
  device,    (* where everything runs                                      *)
  execution, (* how many commands have been started                        *)
  plan,      (* the batches of the command                                 *)
  batch,     (* which of them is running                                   *)
  pc,        (* where the command is                                       *)
  build,     (* the build imported for this batch                          *)
  tries,     (* Maestro flows of the batch that have failed                *)
  accepted,  (* the launch whose flow passed, or 0                         *)
  result,    (* the JSON read: the launch each of its parts was printed by *)
  next,      (* index of the unit to be recorded                           *)
  outcome,   (* of a failed batch: its finalInfrastructure                 *)
  late,      (* a rename nobody waits for any more, or None                *)
  flows,     (* per run: the build its flow file asks for                  *)
  records,   (* per run and unit, and per run as a whole: record.json      *)
  launches,  (* history: every launch of the application                   *)
  app,       (* the launch running on the device, or 0                     *)
  printed,   (* how many of its chunks it has logged                       *)
  shown,     (* does it show compatibility_run_complete?                   *)
  log,       (* per run: the chunks in the device's log                    *)
  file       (* per run: the launch that wrote the result file, or 0       *)

command == <<execution, plan>>
locals == <<build, tries, accepted, result, next>>
store == <<late, flows, records>>
phone == <<launches, app, printed, shown, log, file>>
vars == <<device, command, batch, pc, locals, outcome, store, phone>>

(* finalInfrastructure. "unavailable" stands for the four that compare     *)
(* calls an issue: crashed, timed-out, protocol-error, device-unavailable. *)
Outcomes == {"succeeded", "runner-failed", "unavailable"}
RecordType ==
  [run : Runs, unit : Sources, execution : Nat, build : Builds, infrastructure : Outcomes,
   parts : Seq(Nat), accepted : Nat]

ASSUME NoneFresh == None \notin Sources \cup Builds \cup Outcomes \cup RecordType

Program == {"install", "maestro", "running", "poll", "validate", "look", "rename"}
Ended == {"idle", "done", "failed", "dead"}

run == plan[batch]
unit == Units[next]
At(stage) == pc = stage
Goto(stage) == pc' = stage

(* A record holds times, so that no two executions write the same bytes.   *)
(* unit is the plan's unit: the first one, for the record of a failure.    *)
Record(infrastructure) ==
  [run |-> run, unit |-> IF infrastructure = "succeeded" THEN unit ELSE Units[1],
   execution |-> execution, build |-> build, infrastructure |-> infrastructure,
   parts |-> result, accepted |-> accepted]

Whole == None
RecordKeys == Runs \X (Sources \cup {Whole})

Init ==
  /\ device \in Devices
  /\ execution = 0 /\ plan = CHOOSE p \in Plans : TRUE
  /\ pc = "idle" /\ batch = 1
  /\ build = None /\ tries = 0 /\ accepted = 0 /\ result = <<>> /\ next = 1 /\ outcome = None
  /\ late = None
  /\ flows = [r \in Runs |-> None]
  /\ records = [k \in RecordKeys |-> None]
  /\ launches = <<>> /\ app = 0 /\ printed = 0 /\ shown = FALSE
  /\ log = [r \in Runs |-> <<>>]
  /\ file = [r \in Runs |-> 0]

-----------------------------------------------------------------------------
(* The command                                                             *)

Start ==
  /\ pc \in Ended /\ execution < MaxExecutions /\ late = None
  /\ execution' = execution + 1
  /\ plan' \in Plans /\ batch' = 1
  /\ Goto("flow")
  /\ UNCHANGED <<device, locals, outcome, store, phone>>

(* What a batch has found out goes with it.                                *)
Forget == tries' = 0 /\ accepted' = 0 /\ result' = <<>> /\ next' = 1

(* failureOutcome of a failed program, for persistFailure to write down.   *)
FailWith(infrastructure) ==
  Goto("persist") /\ outcome' = infrastructure /\ Forget /\ UNCHANGED build

(* runBatch: the flow of a batch names its run, sources, mode and build.   *)
(* A flow file with other bytes is an "evidence" error, which comes before *)
(* the program whose failures are persisted.                               *)
WriteFlow ==
  /\ At("flow")
  /\ \E b \in BuildsOf[run] :
       \/ /\ flows[run] \in {None, b}
          /\ flows' = [flows EXCEPT ![run] = b]
          /\ Goto("install") /\ build' = b
       \/ /\ flows[run] # b \/ Faults
          /\ Goto("failed")
          /\ UNCHANGED <<build, flows>>
  /\ UNCHANGED <<device, command, batch, tries, accepted, result, next, outcome, late, records, phone>>

(* drivers.install: it ends the application; a physical device also loses  *)
(* the container, because the application is uninstalled first, unless the *)
(* uninstallation fails, which goes unnoticed.                             *)
Install ==
  /\ At("install")
  /\ \/ /\ app' = 0 /\ printed' = 0 /\ shown' = FALSE
        /\ file' \in {file} \cup (IF device = "physical" THEN {[r \in Runs |-> 0]} ELSE {})
        /\ \/ Goto("maestro") /\ UNCHANGED <<locals, outcome>>
           \/ FailWith("unavailable")
     \/ FailWith("unavailable") /\ UNCHANGED <<app, printed, shown, file>>
  /\ UNCHANGED <<device, command, batch, store, launches, log>>

(* runMaestroFlow: clearState empties the container, openLink launches the *)
(* application with the run. Physical devices launch it directly.          *)
StartFlow ==
  /\ At("maestro")
  /\ Len(launches) < MaxLaunches
  /\ \E size \in Sizes :
       launches' = Append(launches, [run |-> run, build |-> build, size |-> size])
  /\ app' = Len(launches) + 1 /\ printed' = 0 /\ shown' = FALSE
  /\ file' = IF device = "physical" THEN file ELSE [r \in Runs |-> 0]
  /\ Goto("running")
  /\ UNCHANGED <<device, command, batch, locals, outcome, store, log>>

(* Maestro has seen the completion; with devicectl, the launch worked.     *)
FlowPasses ==
  /\ At("running")
  /\ device = "physical" \/ shown
  /\ accepted' = Len(launches)
  /\ Goto("poll")
  /\ UNCHANGED <<device, command, batch, build, tries, result, next, outcome, store, phone>>

(* runMaestro: a flow that fails or exceeds its time, before or after the  *)
(* launch, is repeated once; then isAlive, which may fail itself and then  *)
(* counts as alive, tells a crash from a failure of the runner.            *)
FlowFails ==
  /\ pc \in {"maestro", "running"}
  /\ \/ /\ tries < maestroFlowRetries
        /\ tries' = tries + 1
        /\ Goto("maestro")
        /\ UNCHANGED <<build, accepted, result, next, outcome>>
     \/ tries = maestroFlowRetries /\ FailWith("runner-failed")
     \/ /\ tries = maestroFlowRetries /\ device # "physical" /\ app = 0
        /\ FailWith("unavailable")
  /\ UNCHANGED <<device, command, batch, store, phone>>

-----------------------------------------------------------------------------
(* The result                                                              *)

Size(l) == launches[l].size

(* resultFromLogChunks, of what is left of the log: a ring on Android, the *)
(* last five minutes on a simulator. The first chunk decides the total,    *)
(* chunks of another total are skipped ...                                 *)
Kept(first) ==
  {k \in first..Len(log[run]) : Size(log[run][k].launch) = Size(log[run][first].launch)}

(* Broken: a chunk that is there already is not replaced.                  *)
AssembledFirst(first) ==
  {parts \in [1..Size(log[run][first].launch) -> DOMAIN launches] :
     \A i \in DOMAIN parts : \E k \in Kept(first) :
       /\ log[run][k] = [launch |-> parts[i], part |-> i]
       /\ \A j \in Kept(first) : log[run][j].part = i => k <= j}

(* ... and of several with one index the last one counts. A text pieced    *)
(* together from several launches may or may not be JSON.                  *)
Assembled(first) ==
  {parts \in [1..Size(log[run][first].launch) -> DOMAIN launches] :
     \A i \in DOMAIN parts : \E k \in Kept(first) :
       /\ log[run][k] = [launch |-> parts[i], part |-> i]
       /\ \A j \in Kept(first) : log[run][j].part = i => j <= k}

(* drivers.result: the file of an iOS application; on the others, or if a  *)
(* simulator does not find the container, the log; then what the screen of *)
(* an Android application renders.                                         *)
InFile == IF device = "android" \/ file[run] = 0 THEN {} ELSE {<<file[run]>>}
InLog == IF device = "physical" THEN {} ELSE UNION {Assembled(k) : k \in DOMAIN log[run]}
OnScreen ==
  IF device = "android" /\ shown /\ launches[app].run = run THEN {<<app>>} ELSE {}

(* The polling ends when a result is there ...                             *)
Poll ==
  /\ At("poll")
  /\ result' \in InFile \cup InLog \cup OnScreen
  /\ Goto("validate")
  /\ UNCHANGED <<device, command, batch, build, tries, accepted, next, outcome, store, phone>>

(* ... or a driver fails, or there is none in time or often enough.        *)
PollFails ==
  /\ At("poll")
  /\ FailWith("unavailable")
  /\ UNCHANGED <<device, command, batch, store, phone>>

(* The head of the JSON names run, build and mode; validateBatch compares  *)
(* them with the request and closes the results over the sources, which    *)
(* the application may have failed to cover.                               *)
Validate ==
  /\ At("validate")
  /\ \/ launches[result[1]].build = build /\ Goto("look") /\ UNCHANGED <<locals, outcome>>
     \/ FailWith("unavailable")
  /\ UNCHANGED <<device, command, batch, store, phone>>

-----------------------------------------------------------------------------
(* The evidence                                                            *)

(* Broken: writeBytes does not look at what is there.                      *)
Overwrite ==
  /\ At("look")
  /\ Goto("rename") /\ UNCHANGED <<locals, outcome>>
  /\ UNCHANGED <<device, command, batch, store, phone>>

(* Broken: a record that is there is as good as one just written.          *)
KeepRecorded ==
  /\ At("look")
  /\ \/ records[<<run, unit>>] = None /\ Goto("rename") /\ UNCHANGED <<locals, outcome>>
     \/ /\ records[<<run, unit>>] # None /\ next < Len(Units)
        /\ next' = next + 1 /\ UNCHANGED <<pc, build, tries, accepted, result, outcome>>
  /\ UNCHANGED <<device, command, batch, store, phone>>

(* Broken: what goes wrong while a unit is recorded is ignored.            *)
IgnoreErrors ==
  /\ At("look")
  /\ \/ records[<<run, unit>>] = None /\ Goto("rename") /\ UNCHANGED <<locals, outcome>>
     \/ /\ records[<<run, unit>>] # None \/ Faults
        /\ next < Len(Units)
        /\ next' = next + 1 /\ UNCHANGED <<pc, build, tries, accepted, result, outcome>>
  /\ UNCHANGED <<device, command, batch, store, phone>>

(* writeBytes: a record that is there has another hash. Here failurePhase  *)
(* makes an evidence error one of the device.                              *)
LookForRecord ==
  /\ At("look")
  /\ \/ records[<<run, unit>>] = None /\ Goto("rename") /\ UNCHANGED <<locals, outcome>>
     \/ /\ records[<<run, unit>>] # None \/ Faults
        /\ FailWith("unavailable")
  /\ UNCHANGED <<device, command, batch, store, phone>>

(* The units are recorded one after the other, then the next batch begins  *)
(* (requireSuccessfulRun has only successes to look at).                   *)
RenameRecord ==
  /\ At("rename")
  /\ records' = [records EXCEPT ![<<run, unit>>] = Record("succeeded")]
  /\ \/ /\ next < Len(Units)
        /\ next' = next + 1 /\ Goto("look")
        /\ UNCHANGED <<batch, build, tries, accepted, result>>
     \/ /\ next = Len(Units) /\ batch < Len(plan)
        /\ batch' = batch + 1 /\ Goto("flow") /\ Forget /\ build' = None
     \/ /\ next = Len(Units) /\ batch = Len(plan)
        /\ Goto("done") /\ Forget /\ build' = None /\ UNCHANGED batch
  /\ UNCHANGED <<device, command, outcome, late, flows, phone>>

(* Broken: only the polling has a deadline.                                *)
PollDeadline ==
  /\ At("poll")
  /\ FailWith("unavailable")
  /\ UNCHANGED <<device, command, batch, store, phone>>

(* The total deadline interrupts the program wherever it is. A rename      *)
(* under way goes on without it.                                           *)
Deadline ==
  /\ pc \in Program
  /\ FailWith("unavailable")
  /\ late' = IF At("rename") THEN Record("succeeded") ELSE None
  /\ UNCHANGED <<device, command, batch, flows, records, phone>>

LateRename ==
  /\ late # None
  /\ \/ records' = [records EXCEPT ![<<late.run, late.unit>>] = late]
     \/ pc \in Ended /\ UNCHANGED records
  /\ late' = None
  /\ UNCHANGED <<device, command, batch, pc, locals, outcome, flows, phone>>

(* persistFailure: without results, under the identity of the batch;       *)
(* whatever goes wrong is ignored, so an older record stays.               *)
PersistFailure ==
  /\ At("persist")
  /\ \/ /\ records[<<run, Whole>>] = None
        /\ records' = [records EXCEPT ![<<run, Whole>>] = Record(outcome)]
     \/ /\ records[<<run, Whole>>] # None \/ Faults
        /\ UNCHANGED records
  /\ Goto("failed") /\ Forget /\ build' = None /\ outcome' = None
  /\ UNCHANGED <<device, command, batch, late, flows, phone>>

(* The command is killed; the rename it waits for happens or not.          *)
Die ==
  /\ Faults /\ pc \notin Ended
  /\ \/ At("rename") /\ records' = [records EXCEPT ![<<run, unit>>] = Record("succeeded")]
     \/ UNCHANGED records
  /\ Goto("dead") /\ Forget /\ build' = None /\ outcome' = None
  /\ UNCHANGED <<device, command, batch, late, flows, phone>>

-----------------------------------------------------------------------------
(* The application                                                         *)

(* The application runs on by itself, also between two commands. What it   *)
(* does while nobody can see it (validate, look, ...) it may as well do    *)
(* later, so these steps are taken at stages before the next look at it;   *)
(* a crash shows in isAlive only, else it is printing no more.             *)
Watched == {"flow", "install", "maestro", "running", "poll"}

(* CompatibilityRunner.run logs its result chunk by chunk when all sources *)
(* are through ...                                                         *)
PrintChunk ==
  /\ pc \in Watched /\ app # 0 /\ printed < Size(app)
  /\ printed' = printed + 1
  /\ log' = [log EXCEPT ![launches[app].run] = Append(@, [launch |-> app, part |-> printed + 1])]
  /\ UNCHANGED <<device, command, batch, pc, locals, outcome, store, launches, app, shown, file>>

(* ... then publishResult writes the file on iOS, and the screen says so.  *)
ShowComplete ==
  /\ pc \in Watched /\ app # 0 /\ printed = Size(app) /\ ~shown
  /\ file' = IF device = "android" THEN file ELSE [file EXCEPT ![launches[app].run] = app]
  /\ shown' = TRUE
  /\ UNCHANGED <<device, command, batch, pc, locals, outcome, store, launches, app, printed, log>>

Crash ==
  /\ app # 0 /\ pc \in {"maestro", "running"}
  /\ app' = 0 /\ printed' = 0 /\ shown' = FALSE
  /\ UNCHANGED <<device, command, batch, pc, locals, outcome, store, launches, log, file>>

-----------------------------------------------------------------------------
Supervise ==
  \/ WriteFlow \/ Install \/ StartFlow \/ FlowPasses \/ FlowFails \/ Poll \/ PollFails
  \/ Validate \/ LookForRecord \/ RenameRecord \/ Deadline \/ PersistFailure

Next ==
  \/ Start \/ Supervise \/ LateRename \/ Die
  \/ PrintChunk \/ ShowComplete \/ Crash

(* Effect's clock runs, and a write or an interrupted command ends; what   *)
(* the drivers and the application do need not happen.                     *)
Fairness ==
  /\ WF_vars(WriteFlow) /\ WF_vars(Deadline) /\ WF_vars(PersistFailure)

Spec == Init /\ [][Next]_vars /\ Fairness

-----------------------------------------------------------------------------
(* compare-runs                                                            *)

(* load, and the records of the selected sources.                          *)
Loaded(r, sources) ==
  {records[k] : k \in {k \in {r} \X (Sources \cup {Whole}) :
                         records[k] # None /\ records[k].unit \in sources}}

(* compare lets a failed runner pass, recordIssues no record without       *)
(* results.                                                                *)
Issue(record) == record.infrastructure = "unavailable" \/ record.parts = <<>>

(* What compare asks of either side: no issue, every source, one build.    *)
Complete(r, sources) ==
  /\ \A record \in Loaded(r, sources) : ~Issue(record)
  /\ {record.unit : record \in Loaded(r, sources)} = sources
  /\ Cardinality({record.build : record \in Loaded(r, sources)}) = 1

-----------------------------------------------------------------------------
(* Properties                                                              *)

Stages == Ended \cup Program \cup {"flow", "persist"}

Launches == [run : Runs, build : Builds, size : Sizes]

ChunksOf(launched) == [launch : launched, part : Nat]

CommandType ==
  /\ device \in Devices /\ execution \in Nat
  /\ plan \in Plans /\ batch \in DOMAIN plan
  /\ pc \in Stages
  /\ build \in Builds \cup {None}
  /\ pc \in Program \cup {"persist"} => build \in Builds
  /\ tries \in Nat /\ accepted \in Nat
  /\ result \in Seq(Nat)
  /\ next \in DOMAIN Units
  /\ outcome \in {"runner-failed", "unavailable", None}
  /\ At("persist") => outcome # None

StoreType ==
  /\ late \in RecordType \cup {None}
  /\ flows \in [Runs -> Builds \cup {None}]
  /\ records \in [RecordKeys -> RecordType \cup {None}]

PhoneType ==
  /\ launches \in Seq(Launches)
  /\ app \in 0..Len(launches)
  /\ printed \in Nat /\ shown \in BOOLEAN
  /\ shown => app # 0
  /\ log \in [Runs -> Seq(ChunksOf(1..Len(launches)))]
  /\ file \in [Runs -> 0..Len(launches)]

(* The single type invariant.                                              *)
TypeOK == CommandType /\ StoreType /\ PhoneType

Succeeded ==
  {records[k] : k \in {k \in RecordKeys :
                         records[k] # None /\ records[k].infrastructure = "succeeded"}}

Ran(r) == {l \in DOMAIN launches : launches[l].run = r}

(* Whatever was killed, timed out and repeated: the records of a run       *)
(* identity that succeeded were made by one execution from one JSON, and   *)
(* all of it was printed by launches of this run and of the recorded build.*)
OneObservation ==
  \A s, t \in Succeeded : s.run = t.run =>
    /\ s.execution = t.execution /\ s.parts = t.parts /\ s.build = t.build
    /\ \A i \in DOMAIN s.parts :
         launches[s.parts[i]].run = s.run /\ launches[s.parts[i]].build = s.build

(* PlatformDrivers.ts:164-165: chunks "form a contiguous sequence. This    *)
(* prevents stale or interleaved logs becoming run evidence". It does for  *)
(* results of one size: off physical devices the evidence is then what     *)
(* the launch printed whose flow passed, never what a failed one left.     *)
EvidenceOfAccepted ==
  \A s \in Succeeded :
    (device # "physical" /\ \A l, m \in Ran(s.run) : Size(l) = Size(m))
      => \A i \in DOMAIN s.parts : s.parts[i] = s.accepted

(* The same without that condition.                                        *)
NoStaleEvidence ==
  \A s \in Succeeded : \A i \in DOMAIN s.parts : s.parts[i] = s.accepted

(* A command that ends well leaves every batch with evidence a comparison  *)
(* takes as complete, made by this command; only the failure an earlier    *)
(* command with the same identity has left stands against it.              *)
SuccessIsComparable ==
  At("done") => \A i \in DOMAIN plan :
    /\ \A s \in Succeeded : s.run = plan[i] => s.execution = execution
    /\ records[<<plan[i], Whole>>] = None => Complete(plan[i], Sources)
    /\ records[<<plan[i], Whole>>] # None => records[<<plan[i], Whole>>].execution < execution

(* EvidenceStore.ts:43-46: records are immutable, also under a rename that *)
(* lands late and a command that reuses an identity.                       *)
ImmutableEvidence ==
  [][\A k \in RecordKeys : records[k] # None => records'[k] = records[k]]_vars

(* Every command ends, whatever Maestro, device and application do.        *)
CommandEnds == (pc \notin Ended) ~> (pc \in Ended)
=============================================================================
