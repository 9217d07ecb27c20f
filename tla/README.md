# Verification of better-native

TLA+ models, TLC runs and TLAPS proofs for [better-native](../src/README.md): Effect services over
Expo modules, and the tooling that builds, runs and compares the compatibility suites and evaluates
coding agents. Every definition is translated from the source; `PROJECT.json` maps each one to its
lines.

## 1. The system

| part | source | state | operations | what is hard about it |
|---|---|---|---|---|
| keep-awake leases | `packages/keep-awake` | count per tag, generated-tag counter, a semaphore | open and close a scope, manual activate and deactivate | native calls that fail in the middle of a count, scopes that overlap, the manual API beside the leases |
| native build lock | `tooling/compatibility-harness/src/artifacts` | one directory in the user's temporary directory, `owner.json` in it | acquire (poll, recover), release | processes that share nothing but a file system; crashes at any call; stale reads |
| artifact lifecycle | same file, called by `build/AppBuildExecutor.ts` | `.artifacts`: a lock directory per workspace, workspaces, caches | acquire, build, publish, release, prune, clean | a prune decides and deletes at different times; crashes; recovery of stale locks |
| native artifact cache, Pods cache | `tooling/compatibility-harness/src/build` | cache entries, indexes, lock files | restore, publish | partial writes and removals, a lock left behind by a crash |
| native runs | `tooling/compatibility-harness/src/supervision`, `protocol`, `evidence`, `comparison`; `apps/compatibility-suite` | flow file, device log, result file, screen, immutable records | install, launch, poll, retry, record, compare | deadlines, kills and repeated flows while the application prints on; identities used again |
| process supervision | `supervision/ProcessSupervisor.ts` | pipes, bounded observations, a process group | start, run, terminate, clean up | exits before the pipes are drained, timeouts, descendants that hold the pipes |
| sqlite client and migrator | `packages/sqlite` | one native connection, a semaphore, open transactions | statements, transactions, streams, migrations | a connection shared by fibers; interruption; two migrators |
| battery, network, location | `packages/*` | listeners, their queues, latest state | subscribe, merge a snapshot, events, watch | a snapshot that arrives after newer events; scopes that close while a registration is unanswered |
| agent loop, budgets, trial evidence | `tooling/dx-evals/src` | usage, reservations, transcript, evidence directories | turn, tool call, compaction, reserve, settle, persist | accounting across failures and concurrent trials; identities used again |
| notifications, background tasks, task manager, secure store, clipboard | `packages/*` | registrations | subscribe, deduplicate, register | check-then-act on a native registry |
| cli, metro, catalog, registry, commands, reports, landing page | rest | none or files | generate, scan, print | little state |

Parts meet at these places. `AppBuildExecutor.execute` prunes, locks a workspace, restores from or
publishes to the native cache, compiles under the machine-wide lock, which is where the Pods cache is
used, publishes the product and prunes again: `WorkspaceLifecycle`, `NativeArtifactCache` with
`NativeBuild`, and `NativeBuildLock` are three views of that sequence, each with the files it is about.
A built product is imported and launched by a `NativeRun`, whose Maestro flows and commands are
children of a `ProcessSupervisor`. A trial of `dx-evals` reserves from the campaign's budget, runs the
agent loop, settles, and publishes its evidence: `CampaignBudget` relies of the loop only on
`LoopPromise`, `AgentLoop` is shown to keep it, and `TrialEvidence` has the rest of the trial around
it. The loop asks for compaction without looking into the prompt; `ContextCompaction` has the prompt.

## 2. The modules

Every action stands for a whole handler or for the stretch between two calls another actor can see
(a file-system call, a native call, an `await`). Definitions marked "Broken" are not part of a
specification; each is a plausible bug of the definition behind it, and `PROJECT.json` ("mutants")
says which property notices it.

### KeepAwake, KeepAwakePromise (packages/keep-awake)

`counts` is the `Map` inside the `SynchronizedRef`, `mutex` the semaphore `modifyEffect` holds across
the native call, `generated` the counter of `nextTag`, `pc` and `tag` the fiber of each scope, `native`
what Expo keeps awake. Opening a lease: `Open`, `Unavailable` / `AvailableExplicit` /
`AvailableGenerated`, then `ShareLease` or `StartActivate` with `ActivateOk` / `ActivateFail`; closing:
`Close`, `DropShare` or `StartDeactivate` with `DeactivateOk` / `DeactivateFail`. `lost` is history: tags
whose native release failed. `KeepAwakePromise` knows no counts, semaphore or native calls;
`ImplementsPromise` maps its holders to the scopes between grant and end of finalizer.

### NativeBuildLock (artifacts/ArtifactLifecycle.ts, acquireNativeBuild)

`exists`, `owner`, `young` are the directory at the path, `owner.json` in it, and its mtime against the
grace of a minute. Each builder is a process; its `pc` names its next file-system call. `AlreadyExists`,
`ReadOwner`, `StatLock`, `Recover`, `Poll` are the waiter's loop; `WriteFails`, `UndoMake` the failed
claim; `VerifyToken`, `RenameReleased` the finalizer. The environment kills processes (`Die`) and lets
time pass (`Age`); with `Stalls` false a live process does not sleep a minute between two calls.

### WorkspaceLifecycle (same file: workspaces, prune, clean; AppBuildExecutor.execute)

The disk is `made`/`owner`/`young` (lock directories), `trees` (workspaces) and `caches`. A prune lists
the locks (`ListLocks`), judges them one by one (`JudgeLock`), plans (`PlanDeletions`) and deletes path
by path (`DeleteLock`, `DeleteCache`, `DeleteTree`); `doomed` is its plan. What another process removes
while a prune looks at it makes the prune fail (`JudgeLock`, `PlanFails`). `resume` tells a build's two
prunes and a command's prune apart. `calm` never changes and says of the environment that nobody dies or
stalls and nobody cleans all. `held` is history: the builds on record when a prune began to read
the locks, and ever since.

### NativeArtifactCache (build/NativeArtifactCache.ts, AppBuildExecutor.executeBuild)

`lock` and `orphaned` are the file beside the entry (with whose token, or without one), `entry` its record
and artifact, of which only the maker and wholeness are kept (that is what a hash tells apart). Restore:
`RestoreLocked`, `LookUp`, `Hash`, `Repack`; publication: `PublishLocked`, `CopyBeside` (into `copy`),
`RemoveOld`, `Removed`, `Rename`, `Stamp`; either ends with `ReadToken` and `RemoveLockFile`, and goes on
at `after`. In between are `Decide`, `EnterCompiler`, `Compile`. `Fail` is any command or file-system call
that fails, `Die` the death of the process. The compilers' semaphore is taken to keep its promise here.

A prune is a process beside the builds: it lists the active ones (`ListLocks`), goes on unless one of
these still lives and then chooses from the cache's directory (`PlanDeletions`), and deletes later and
piece by piece (`DeleteEntry`, `DeleteLockFile`, `DeleteCopy`), whatever has begun since; it may end or die
anywhere (`PruneEnds`). To a prune a lock file, or a copy beside an entry, is an entry like any other.
`disturbed` is history: builds whose entry a prune tore between hash and repack, and those that had not
ended when it deleted a live build's lock file.

### NativeBuild (build/PodsCache.ts inside AppBuildExecutor.executeBuild)

Extends `NativeArtifactCache` by what an iOS build does while it has the compilers' semaphore: `step` is
where that build is, `tree` its Pods and their lock. `podsLock` and `podsOrphaned` are the cache's lock
file, `index` the entry that the inputs point to, `entries` the Pods and the lock file of each. Restore:
`LockPods`, `ReadIndex`, `CheckPods`, `CopyPods`, with `wanted` the lock hash read; `Install` is `pod
install`, external; publication: `LockPods`, `CheckEntry`, `RemoveEntry`, `EntryRemoved`, `RenameEntry`
(of `beside`), `DropIndex`, `PointIndex`. `BuildFails` and `Die` end a build at any of them. A prune's plan
(`PlanPods`) also has entries, copies and the index of this cache, and is worked off in `DeletePods`,
`DeletePodsCopy` and `DeleteIndex`, after the native cache's part. Pods are `whole`, a `part`, or `torn`:
the last two are one to the code, and `torn` remembers that it was a prune that began to delete.

### NativeRun (commands/NativeCommands.ts, supervision/NativeSupervisor.ts and its drivers, apps/compatibility-suite, evidence/EvidenceStore.ts, comparison/RunComparison.ts)

A command (`execution`, `plan`, `batch`) goes through its batches: `WriteFlow`, `Install`, `StartFlow`,
then `FlowPasses` or `FlowFails` and the one retry, `Poll` for the result, `Validate`, and for each unit
`LookForRecord` and `RenameRecord`. The device goes on by itself: `PrintChunk`, `ShowComplete`, `Crash`;
`log`, `file` and the screen are the result's three ways out, and outlive command and application.
`Assembled` is how the driver pieces a result together from chunks of the log. `Deadline` interrupts the
command anywhere, and a rename that is under way lands later (`LateRename`); `PersistFailure` records
the failure; `Die` kills the command, and another may be given the same identities. `Complete` is what
`compare` asks of either side. `launches` is history.

### ProcessSupervisor (supervision/ProcessSupervisor.ts)

`pc` is the caller (a plain command, Maestro with its watchdog, the web server), `child` and `helpers` the
process and what it has left in its group, `pipe`, `drain`, `pending` and `buffer` the output on its way
into bounded observations. `Read` and `DrainEnds` are the drains, `TimesOut`, `Watchdog`, `Finish`,
`Interrupt` and `Finalize` the ways to `stop`, `GraceEnds` the kill behind a SIGTERM, `KillFails` a group
that cannot be signalled. `written` and `unkilled` are history.

### NativeStreams (packages/battery, packages/network, packages/location)

`native` counts the values of each source, `fiber`, `listening` and `queue` are its listener, `read` and
`captured` the snapshot the native module is asked for (it reads the fields one by one), `shown` what the
stream emitted last. `Subscribe`, `Register`, `Registered` start a listener (for a watch, with a promise
in between), `Deliver` takes from its queue, `ApplySnapshot` merges the answer, `Interrupt`, `Release`,
`Close` end the stream. `fresh` is history.

### SqliteConnection (packages/sqlite: SqliteClient.make, SqliteMigrator.make)

`permit` is the semaphore, `calls` the native calls under way (prepare, step, and so on, in order of
arrival), `open`, `outer`, `inner`, `disk` what SQLite has begun, written and committed. Plain
statements return the permit before their first native call; a transaction holds it until its scope
closes. Interrupted fibers leave their statement's calls behind. BEGIN, SAVEPOINT, ROLLBACK and COMMIT,
and the order they are sent in, belong to Effect's SqlClient: external, modelled from its use in
`SqliteClient.ts`.

### CampaignBudget, TrialEvidence, LoopPromise, AgentLoop (tooling/dx-evals)

`CampaignBudget`: trials of one controller read the key's remaining limit (`ReadKey`), check
(`Validate`), reserve (`Reserve`), work (`Ask`, `Answer`, `Limit`, `TimeOut`) and settle or keep
(`Settle`, `Fail`). `reservations` is the `Ref`; `recorded`, `known` the loop's usage; `spent`,
`charged` are history: what the provider charged. `TrialEvidence` extends it by the runner around it:
`Submit`, `Verify`, then `LookForDirectory`, `Claim`, `WriteTemporary`, `PublishEvidence`, with `Abandon`
for failures, interruptions and deaths; `Unpaid` are the trials of other adapters and processes that
publish under the same identities. `LoopPromise` is the loop as the budget sees it.
`AgentLoop` is `AgentLoop.ts` with the workspace and completion guidance: the limits before a turn
(`Begin`), compaction (`Summarized`), the request and its response, the tools one by one (`RunTool`),
and what ends the loop (`Exit`, `Decide`, `LoopTimesOut`, `LoopFails`).

### ContextCompaction (tooling/dx-evals, Compaction.ts)

`prompt` is a sequence of messages, each a role, a turn and an estimate of tokens. `RecentStart` and
`Fit` are the pure functions `recentStart` and `fitRecentMessages`; `Prepare` compacts when the trigger
is reached, `AddTurn` is the agent's request, its calls and their results.

## 3. What TLC checks

| run | instance | result |
|---|---|---|
| keepawake | three scopes, a private tag, one the manual API shares, one generated | leases overlap, fail and share; the promise is kept, and every request settles |
| nativelock | two builders, both mortal | one compiles at a time, no live builder loses its lock, none is left behind, waiters are served |
| nativelock_exclusion | three builders, none dies | **violated**: two compile at once |
| workspace_shared | troubled: two builds in workspaces of their own, deaths, failing writes, stalls, a web build, a clean-up; calm: two builds of one workspace and a pruner | what belongs to a build on record since the locks were read is spared; when calm, one build in a workspace, on record all along |
| native_cache | three builds of one native entry; two iOS builds of both caches; two and a prune beside them, on either cache; one build may die, one may rebuild | the evidence names the shell in the product, with two exceptions; Pods compiled and cached for complete are whole unless a prune began to delete from them; a lock left behind holds nobody up |
| native_run | two commands, the second with the identities of the first, one or two batches of two units, on each kind of device | a success is one observation of the recorded build, comparable, never replaced; every command ends |
| process_supervisor | a command, a Maestro flow, a web server, each with a helper that may hold its pipes | every byte of output is kept or counted as omitted, nothing is left running, the call returns |
| native_streams | a stream of two fields, one of one, a watch | only the snapshot takes a shown value back, the last change arrives, no listener is left |
| sqlite | a plain fiber, a nested transaction, two migrators of two versions | transactions are exclusive, abandoned statements leave nothing, migrations on record ran |
| campaign_reused | three trials of one budget, or two of one identity and an unpaid one that compete for evidence | one paid trial per identity; within the allocation unless a trial crosses its stop or is cut off; evidence stands |
| agent | three turns, two candidates, responses of up to two calls | submissions passed their last check; the limits and the promise hold; the loop ends |
| context | four turns of small and large messages | results follow calls, recent turns are a suffix of whole turns, compaction meets its target |

### Bounds

- Locks and leases: the races need one actor inside, one leaving and one arriving. Three scopes give
  that for leases. With two builders and crashes the build lock holds; its hole needs exactly three live
  ones.
- `workspace_shared` (737,303 states) is two instances told apart in the initial state, because deaths
  and stalls on the one hand, and two builds in one workspace on the other, multiply. Workspaces and
  caches are judged one by one, so that one cache and one or two workspaces show what a prune can do.
- `native_cache` (548,736 states) is four instances. A prune multiplies with everything, so it gets two
  iOS builds, whose artifacts can be torn, and one cache: the other is then busy from before, which is a
  state a dead process leaves. Three builds, of the native cache alone, and two builds of both caches go
  without. One prune is enough, because a second could only do once more what one does at any time and
  any number of times; the theorems have any number. One `Podfile.lock` (`Locks`) is enough for whole and
  torn trees.
- `native_run` (1,329,965 states): a repeated flow needs two launches and the next command a third;
  two units make one batch fail between its records; sizes 1 and 2 tell a chunk that completes a result
  from one that does not.
- `process_supervisor` (188,926 states): chunks of 1 and 3 against a limit of 3 bytes and 2 lines fall
  below, on and above the limit; one helper is enough to hold a pipe behind its parent.
- `native_streams` (22,899 states): a queue of one makes every second undelivered value slide. Network
  has three fields; the merge treats each alone, and three with one change each were checked by hand.
- `sqlite`: a third migrator could only repeat what the second does; `TwoVersions` makes one version skip
  an id of the other.
- `campaign_reused` (490,332 states): `publishing` in the initial state chooses between the competition
  for the budget and that for the evidence. `Stop`, `KeyLimit`, `Maximum`, and in `agent` `MaxTurns`,
  `MaxOutput` and `MaxTotal` are such that each limit is met by some behaviours and missed by others.
- `context`: `Trigger`, `Keep`, `Target` and the sizes let a turn exceed the target alone, together with
  a checkpoint, or not at all.
- `MaxGenerated`, `MaxRequests`, `MaxExecutions`, `MaxLaunches`, `MaxChunks`, `MaxChanges` only bound
  counters.

Runs with `CHECK_DEADLOCK FALSE` have actors that finish for good; when all have, the system stops.

### Fairness

| module | assumed to go on | why |
|---|---|---|
| KeepAwake | native calls settle (`SF`), the semaphore serves its waiters | promises of the native module; Effect's semaphore is a queue. Nobody has to open or close |
| NativeBuildLock | a live process continues, compilers end, time passes (`SF` on `Age`) | compilers have timeouts; a directory that stays does get old |
| NativeArtifactCache, NativeBuild | live processes continue, the compilers' semaphore serves its waiters | the latter is `WaitersServed` of `NativeBuildLock` |
| SqliteConnection | the native queue and fibers that can continue | Expo's module works off its queue |
| AgentLoop | the duration limit alone | `Effect.timeout`; the provider may never answer |
| NativeRun | the supervisor's own steps and the deadlines | Effect's clock; drivers, device and application need do nothing |
| ProcessSupervisor | fibers, timers, the kill behind the grace | no process has to end, write or close a pipe by itself |
| NativeStreams | fibers, and the native module's answers | no source has to change, no scope has to close |

## 4. What TLAPS proves

All theorems hold for any values of the constants that meet the named assumptions of the modules (sets
finite or disjoint, fresh null values, positive limits).

- `KeepAwakeProofs`: the inductive invariant `IInv` adds to the types that the holder of the semaphore is
  the one fiber inside, that each stage has a tag of its kind, that `counts` is the number of holders
  plus a share per failed release (`CountsAreHolders`), and that `native` agrees with the counts except
  while a call is in flight. Without the counts nothing follows for the last scope to leave. From it:
  `HeldAwake`, `ReleasedAsleep`, `NativeSerialized`, and with a separate invariant for the counter
  `GeneratedTagsIsolated`. `Refinement` maps each step to a `Take`, a `Leave` or a stutter.
- `NativeBuildLockProofs`: `OwnersCompile`, `LocksHaveMakers` for any deaths and stalls. What may rename
  a live lock away is only the window between judging a lock and renaming it:
  `ExclusionWithAtomicRecovery` and `LiveLocksWithAtomicRecovery` allow every rename that meets the lock
  it judged, for any number of builders and deaths, but no stalls. The
  invariant gives the directory to the one builder inside it (`OwnDirectory`), and keeps a directory
  without a record young as long as its maker lives (`MakersAreYoung`). The behaviours they speak of are
  those of the code less that window; the run `nativelock_exclusion` shows that it exists.
- `WorkspaceLifecycleProofs`: `HeldBuildsSafe`, from an invariant that says at which stage a prune owes
  each held build what: still to be judged, already active, or absent from the plan. `ScopesRecorded`,
  for calm environments: a directory without a record has a maker that is about to write one and keeps
  it young (`WriterWaits`, `OwnedOrWritten`), so nobody judges a lock stale, no prune plans to delete
  one (`NoneStale`, `NoneDoomed`), and a build in its scope owns its lock (`ScopeLocked`). None of these
  is inductive without the others.
- `NativeArtifactCacheProofs`: `EvidenceCorrect`. Its invariant: a build that no prune disturbed and that is
  between taking and releasing the lock file has its token in it (`LockHeld`, so that at most one such
  build is), the entry at a repack is what the hash saw, what a build carries from there is in its
  product, and evidence comes last (`Sure`). Prunes take any step at any time; the two in which they break
  this are what `disturbed` records. `Composed`: each step of `NativeBuild` is a step of
  `NativeArtifactCache` or leaves its variables alone, so the evidence is right under Pods as well
  (`EvidenceOfBuilds`). `PodsWhole`: neither what is installed, nor a copy beside an entry, nor an entry
  that passes for valid is ever a part of a tree, because what a publication removes is not valid until
  its copy is renamed in, and an entry a prune deletes from stays torn (`PodsInv`).
- `NativeRunProofs`: `ObservedOnce`, `EvidenceImmutable`. The invariant follows a result's way: the
  application launched as it was asked (`LaunchedAsAsked`), chunks and files come from launches of
  their run (`PrintedByRun`), what the supervisor holds from them (`ResultOfRun`), records from what it
  holds (`RecordsSound`), units are recorded in order, and a rename under way targets an absent record.
  `AcceptedRecorded` adds where in the log the last launch's chunks are (`PrintsLast`) and what the screen
  tells (`ShowsRun`): results of one size, off physical devices, are the accepted launch's. Both
  conditions are part of the property, because the code is wrong without them (section 5).
  `SuccessCompares` counts batches and units (`BatchesRecorded`), and dates the failures on record
  (`FailuresEarlier`).
- `NativeStreamsProofs`: `OnlySnapshotBack`, because queues are in order and ahead of what is shown, and
  `ClosedDeaf`: a stream whose scope is closed listens to nothing, whatever registration was under way.
- `SqliteConnectionProofs`: `PermitGuards`. What opens or closes a transaction is never abandoned; its
  invariant (`Tidy`) says that a fiber has at most one such statement in the native queue, and that it
  waits for it and for nothing else. `NothingLeft`, `RecordsAreTrue` and `OnlyForwards` need two more:
  that a statement its fiber has abandoned comes before the fiber's ROLLBACK in the queue, whose calls
  all go to the end (`Ordered`: it has fewer calls left, or is nearer to the head), and what is written
  at which stage of the transaction and of the migrator (`Contents`). They assume that fibers are
  not called as the marks of what is written (`MarksFresh`).
- `LimitsProofs` has the four components that count and bound something, because they rest on the same
  lemmas: what `MapThenSumSet` yields over sets and `FoldLeft` over sequences. A sum over a set is
  the cardinality of its units (`SumIsUnits`), so that sums are compared by injections and the library's
  theorems on finite sets, and a sum over a sequence is additive (`TotalConcat`, `TotalCut`).
  - CampaignBudget, TrialEvidence: `PaidOnce`, `Covered`; `WithinAllocation`, from the books of each trial
    and `Accounts` (what was charged is the sum of what trials spent, what is reserved is within the
    allocation as long as all are in order), for finitely many trials (`CampaignFinite`);
    `TrialsImplement`: the runner around a trial does to the budget only what `CampaignBudget` allows,
    hence `TrialsPaidOnce`; `EvidenceOfTrials`: published evidence stands, because whoever is behind a
    claim is alone there.
  - AgentLoop: `SubmissionChecked`, from what the last mark of transcript and results together says of the
    candidate (`CheckedNow`); `LastRequestTold`; `TokensLimited`, because requests start below the limits
    and are clamped (`Tokens`); `LoopRefines`: each step is one of `LoopPromise` or leaves it alone.
  - ContextCompaction: `WholeTurnsSeen`, from an invariant on the whole prompt (`Shape`: calls beside their
    results, turns that ascend, no gap, all after what was summarized); `CompactionFits`, because the
    estimate is additive, for every policy.
  - ProcessSupervisor: `OutputKept`, because at every moment each byte is in a pipe, in an unfinished line,
    in the buffer, or counted as omitted (`Balance`), and `NoneLeft`, from what each stage of the caller
    says of the drains (`Draining`) and of the processes (`CallerStages`, `Stopping`).
- Type correctness of each of these modules.

So every invariant and action property of a passing run is stated by a theorem for all values of the
constants; those of the build lock with the proviso above.

Only model-checked:

- liveness, which needs fairness and ENABLED: `RequestsSettle`, `WaitersServed`, `BuildsEnd`,
  `FibersEnd`, `Ends`, `CommandEnds`, `CallEnds`, `ChangesArrive`, `ListenersRemoved`;
- `MutualExclusion` and `LiveLockKept` with the recovery as the code has it, which hold of two builders
  and fail of three: they are no statement about every value of the constants. The run `nativelock`
  goes through all the states of two.

## 5. Disagreements with the documentation

With a run (`PROJECT.json`, "findings"): in `nativelock_exclusion` a waiter that finds a lock directory
vanished, because its builder released it or undid a claim it could not record, treats it as stale and
renames the next builder's lock away; two compilers run (docs/testing.md:368-371).

With a configuration that is not among the runs; TLC finds each violated:

| configuration, module | violated | what happens |
|---|---|---|
| `WorkspaceLifecycle_active.cfg`, `MCWorkspaceLifecycle` | `ActiveLocksProtect` | prune reads the locks once (ArtifactLifecycle.ts:442) and deletes later (757-761), so a build that locks in between loses caches, or its workspace (docs/architecture.md:322-324) |
| `CampaignBudget_allocation.cfg`, `MCCampaignBudget` | `AllocationNeverExceeded` | a request cut off by the duration limit is settled as free, and later trials reserve what is already spent (docs/evals.md:791-792) |
| `NativeRun_stale.cfg`, `MCNativeRun` | `NoStaleEvidence` | a repeated flow has the failed one's run identity; the first total in the log wins, so a launch that failed becomes evidence (PlatformDrivers.ts:164-165) |

Met while modelling, and kept out of the properties:

- A native deactivation that fails leaves the count one too high, and the last close of that tag never
  deactivates again (KeepAwake.ts:139; packages/keep-awake/README.md:55-57).
- After a crash, the slower of two builds that recover one workspace lock removes the lock the faster
  has just recorded (ArtifactLifecycle.ts:351; docs/architecture.md:322-323).
- A plain statement whose native calls are overtaken by another fiber's BEGIN runs inside that
  transaction and is undone by its ROLLBACK (SqliteClient.ts:257; packages/sqlite/README.md:62).
- A compaction may cross the cost stop, and the agent's request still goes out (AgentLoop.ts:335;
  tooling/dx-evals/README.md:289-290); its output is not clamped to the output that is left
  (AgentLoop.ts:263; README.md:288, docs/evals.md:1060), which is why `LimitsHold` adds `MaxSummary`.
- A turn kept as recent that does not fit is dropped without being summarized (Compaction.ts:214;
  docs/evals.md:570-571), and the selection goes past `keepRecentTokens` to the start of a turn
  (Compaction.ts:179; README.md:158).
- docs/architecture.md:313-314 says that a failed repack falls through to a full build;
  `ensureNativeRebuildAllowed` (BuildModel.ts:70-82) stops it unless the request allows it, which is
  what docs/testing.md:362 and `Decide` say.
- Battery.ts:407-409 describes the first read, then events; the code also applies events before the read
  answers, and the read then replaces them (Battery.ts:394), also with fields it had read before a change.
- CacheLayout.ts:1 speaks of complete CocoaPods trees. An entry in which a prune died keeps its Pods
  directory and lock, passes for complete, and every later publication keeps it. A prune that goes by
  locks listed before also tears an entry while a build copies or checks it (PodsCache.ts:150-158,
  199-202), and the build goes on with what it copied. A Pods lock file left by
  a dead process makes the cache busy for good: no prune looks at it.
- docs/architecture.md:311 promises a validated artifact. The same late prune can tear an entry of the
  native cache between its hash and the repack (NativeArtifactCache.ts:362-387), or delete the lock file of
  a live build, which lies among the entries, so that two builds work on one entry; `EvidenceIsTrue`
  excepts the builds concerned.
- An uninstallation that fails on a physical device goes unnoticed (PlatformDrivers.ts:444-453), and the
  result file of an earlier launch stays: another reason why `EvidenceOfAccepted` is not about those.
- A trial that dies between its claim and the rename (Evidence.ts:198) leaves its identity refused for
  ever. A paid trial whose identity another process has used learns of it behind its last paid request.

Limits of what the properties say: `HeldBuildsSpared` is about the builds on record before a prune or the
emergency clean-up read the locks; a build that locks behind that has no protection (first row above, and
for the clean-up ArtifactLifecycle.ts:793-807). Of two commands that record one unit at one time, the later rename
replaces the earlier record (EvidenceStore.ts:108), while `ImmutableEvidence` is about one command at a
time. With `--source`, comparison leaves out a batch's failure record unless it lies with the first
unit. A command that is repeated with the identity of a failed one can succeed, but is not accepted. The
attempt on record is always the first. A descendant that ignores SIGTERM and holds a pipe
behind a child that obeyed keeps a call waiting past its timeout, because only a surviving child brings
on the kill; nothing is cleaned up after a command that failed by itself.

## 6. What is not modelled, and the plan

`PROJECT.json` lists every component with its reason. The models map few of the repository's lines
because most lines hold no state that steps could get wrong: about 66,000 of its 106,000 are
generated registry metadata, and most of the rest are thin wrappers of native calls, catalogs and
generators, command-line plumbing, schemas, suites of assertions, and pages.

Left out of the modelled parts: the event streams and atoms of keep-awake; symbolic links, sizes and the
choice of what to evict in prune; keys, signing and web builds in the native cache; streams, reactivity
and failing COMMITs in sqlite; the text of everything an agent says; in native runs, a single unit's run,
the web's page, the external runners' protocol, the same identity with other units selected, and how
`compare` classifies test cases; in process supervision, line terminators and the count of omitted lines.

Simplified where nothing depends on it: reading `owner.json` and probing its process are one step of
`NativeBuildLock`; raw statements inside a transaction go through the same calls as others; an application
that lives counts as alive, whatever its probe's exit code; a stream's queue does not fail; a process
that was sent SIGTERM starts no others; the caller waits for a termination that is under way.

What would come next:

1. Two commands that record one identity at the same time, in `NativeRun`.
2. Notifications, background tasks and the task manager: registrations and what arrives before them.
3. A campaign: its sequence of trials over `TrialEvidence`.
4. Pure algorithms against reference definitions: the prune plan, comparison, the order of plans.
5. Proofs: that each step of `SqliteConnection` is one of a connection that runs transactions one at a
   time, and of `NativeArtifactCache` one of a map that restores what was published.
