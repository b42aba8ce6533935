# A verification project for rstest

rstest (`src/`) is a test framework on top of Rspack/Rsbuild: a host process plans
the test files of one or more projects, bundles them, and runs each of them in a
worker process, a thread or a browser page; a watch session repeats that on
every rebuild and key press. The code is TypeScript: each process is one
JavaScript thread, and what is hard about it is what happens between two
`await`s, in another process, or after a timer.

This directory holds TLA+ modules of the parts in which that matters, the TLC
configurations that check them on small instances, theorems that TLAPS proves
for all instances, and `PROJECT.json`, which maps every definition to the source
lines it stands for, names the hazards of the code and, for each property, a
plausible bug ("mutant") that the property notices.

Contents: [1 The system](#1-the-system) ·
[2 The modules](#2-the-modules) · [3 The runs](#3-the-runs) ·
[4 The proofs](#4-the-proofs) · [5 Findings and known gaps](#5-findings-and-known-gaps) ·
[6 What is not modelled](#6-what-is-not-modelled) · [7 Plan](#7-plan)

To check: `tlc -config <run>.cfg <module>` for the pairs of section 3, and
`tlapm <module>.tla` for `CollectionLemmas` and the modules whose names end in `_proofs`.

## 1 The system

### 1.1 How a run goes

```
 cli ──> config ──> planner ──> runTests ──┬──> node executor ──> dev server (Rsbuild)
                                           │         └──> createPool ──> Pool ──> PoolRunner ══ worker
                                           └──> browser executor ──> scheduler ──> pages     (test runner)
 watch: rebuilds, keys ──> watch cycle driver ──> executor.runCycle ──> finalize
 results: worker ──RPC──> runner event sink ──> stateManager (counts, bail) ──> reporters
 editor: VS Code extension ══ its own worker process ──> core ──> reports back
```

* **calls**: `runTests` drives executors; the watch driver drives the same
  executors, one cycle at a time; an executor calls `createPool().runTests`,
  which calls `Pool.dispatch` once per test file.
* **messages**: `PoolRunner` and its worker exchange requests and responses over
  an IPC channel; a worker's events (a test began, a test failed, how many have
  failed) travel over an RPC channel on top of it; the browser host and its pages
  use `postMessage` and web sockets; the editor extension and its worker use birpc.
* **shared state**: one `stateManager` and one `snapshotManager` for a whole
  session, reset per cycle; one `globalTeardownCallbacks` list per process; one
  baseline of the incremental build per environment; one results cache per root.
* **callbacks**: compile hooks, `exit`/`error` of children, timers (start, clean-up,
  kill, memory poll, browser deadlines), signals and key presses.

### 1.2 Components

For each component: the state it keeps, its operations, what is hard, and when it is
right. Names in `code` are those of the source, names in the last column modules of
this project.

| component | state | operations | what is hard | correct when | here |
|---|---|---|---|---|---|
| Worker pool `pool/pool.ts` | active, idle, stopping runners; parked callers; ids in use; stop errors | dispatch, acquire, release, background stop, drain, close | callers resume in any order; runners go stale while idle; close during anything | at most `maxWorkers` processes, distinct ids, one task per runner, no lost wake-up, close leaves nothing | `WorkerPool` |
| Memory gate `pool/memoryGate.ts` | samples, poll timer | canSpawn, poll, dispose | defers a caller when no one is left to wake it | never parks for ever; first worker always admitted | in `WorkerPool` (its verdict is nondeterministic) |
| Pool runner `pool/poolRunner.ts` | state, current task, deferreds, timers, `operationChain` | start, run, clean up, stop | exits, errors, time-outs and late messages in any order | every start, task, stop and clean-up settles; a busy or poisoned worker is never offered again | `PoolRunner`, `RunnerContract` |
| Transports `pool/workers/*` | child, exited, kill timer | start, send, terminate | a child that never spawns; SIGTERM ignored; a channel cut before the exit | what the runner believes of its child is true | the process transport in `PoolRunner` |
| Worker entry `runtime/worker/*` | current task, dying flag; environment, listeners | start, run, clean-up requests; fatal handlers | an uncaught error belongs to nobody; clean-up under a task | one file at a time; every request answered or the process dies | `PoolRunner` (requests), `WorkerFiles` (one file after another) |
| Dispatch `pool/index.ts` | gates per file, `Promise.all` | runTests | order of slots while assets load; a crash is replayed; a rejected run leaves files running | each file dispatched in order, each gate released, each result counted once | `TestDispatch` |
| Run state, sink `stateManager.ts`, `runnerEventSink.ts` | counts, running modules | on test events | events of a file that crashed; bail counts | counts are exact, one cycle's own | `TestDispatch`, `WatchDriver` |
| Watch cycle driver `core/watchSession.ts` | queue tail, pending cycle per executor, settled executors | runCycle, fold, begin, finalize | a trigger at any time; shared managers; a failing cycle | no request skipped or answered by another's cycle; no two cycles share the managers; everyone answered | `WatchDriver`, `BatchedRequests` |
| Shortcuts `watchSession.ts`, `watchState.ts` | file filters, results | a, f, p, u, t, q | keys during a cycle | the files a key names are the right ones | `WatchRebuild` (t, fan-out, prompts left out) |
| Node executor `executors/nodeExecutor.ts` | resources memo, compile hook, results | runCycle, close, onAfterDevCompile | the pull advances the baseline it diffs against | no edit goes unrun; reported = latest run | `WatchRebuild`, `WatchTeardown` |
| Session startup and teardown `runTests.ts`, `watchSession.ts` | tracked startup phase, owners, teardown | startup, close | a close at any await of the startup or a cycle | nothing outlives the close; it returns | `WatchTeardown` |
| Global setup `core/globalSetup.ts` | claimed setups, teardown callbacks | claim, run, register, drain | a drain while a setup runs | tests only between setup and teardown | `WatchTeardown` |
| Restart `core/restart.ts` | cleaner registry, debounce | watch config, restart | a change before a cleaner exists | one session at a time | — |
| Finalization `rstest.ts`, `finalizeRun.ts`, `mergeReports.ts` | reporter results, exit code, blobs | finalize, merge | shards whose parts are judged before the whole | the merged run is judged as the whole would be | `ShardedRuns`, `Reports`; merge per cycle in `WatchRebuild` |
| Planner `planner.ts`, `projectPlan.ts`, `environment*.ts`, `shard.ts` | cached globs, partitions | plan, glob, partition, shard | hooks that change the configuration in between | each file once, by one shard, in its environment, in the project that sets it up | `Planning`; the cached glob in `WatchRebuild` |
| Selection, order `testFiles.ts`, `related.ts`, `onlyFailures.ts`, `testSequencer.ts`, `resultsCache.ts` | results cache | filter, relate, sort | cycles of imports; runs that are killed; files that change in between | related = reaches a source; known failures are kept and run first | `RelatedTests`, `FailureHistory` |
| Bundler `rsbuild.ts`, `watchInvalidation.ts`, `plugins/*` | baseline | getRsbuildStats, applyWatchInvalidation | filters against a baseline | a diff of what changed | `WatchRebuild` |
| Test runner `runtime/runner/runner.ts`, `task.ts` | tree of the file, limiter's queue, errors of suites, attempts of a case | suites, cases, hooks, retry, repeat, bail | concurrent siblings at several depths; the limiter; the host's count read before a case begins | hooks surround their cases; results are earned; limits hold; the file ends | `TestRunner` |
| Fixtures `runtime/runner/fixtures.ts` | instances, dependents, clean-ups of two scopes | resolve, clean up | shared set-up by concurrent tests; a set-up that outlives its test; failures | what is registered is cleaned up, in reverse order, and it ends | `FixtureScopes` |
| Collection `runtime/runner/runtime.ts` | stack of suites | describe, it, each, for | nested modes, `only`, names given by `each` | the tree of the file | `TestCollection` |
| Runtime API `runtime/api/*`, `mockRuntimeCode.js` | mocks, stubs, clocks, the module registry | mock, stub, spy, poll | scopes disposed in any order; real and faked timers | what is faked is restored; a poll settles when it is due | `ModuleMocks`, `ScopedStubs`, `Spies`, `Polling` |
| Module loading, environment `runtime/worker/loadModule*`, `env/*` | module caches, globals | load, set up, tear down | files of several projects and builds in one process | each file finds its modules and globals | `WorkerFiles` |
| Reporters `reporter/*` | results and logs collected | on events, at the end | several cycles; projects that share a path | reports agree with the run | `Reports`; blobs in `ShardedRuns` |
| Coverage `coverage*`, `coverage-v8` | ranges, maps | normalize, walk, merge, report | ranges nested and split; partial entries | a count is what was executed | `V8Coverage`, `ShardedRuns` |
| Browser host, schedulers `browser/src/*` | run tokens, registry, deadlines | run, cancel, dispatch, settle | stale dispatches; crash; deadlines | a run settles exactly once | `HeadlessRuns`, `HeadedRuns` |
| Browser watch signals `watchSignals.ts`, `browserRsbuild.ts` | baselines, pending files | compile, plan, signal, interrupt | a compile during a run; chunks compiled on demand | every edit reaches a page | `BrowserRebuilds` |
| Browser executor `browserExecutor.ts` | runtime, in-flight cycle | runCycle, close | close waits for the cycle | runtime gone after close | `WatchTeardown` |
| Browser container `browser-ui`, client `client/runner.ts` | file set, leases, documents | render, adopt, report | an effect of an older set; a frozen page | the frame of a run has its lease | `HeadedRuns`, `HeadlessRuns` |
| Playwright `playwright/src/fixture.ts`, `expect.ts` | cached browsers, contexts, traces | launch, retain, close, record | a launch that several tests share; failures ask for a close | a browser outlives its users and no more | `PlaywrightFixtures`, `Polling` |
| VS Code extension `vscode/src/*` | projects, tree, runs | scan, load, list, run, report | listings and edits out of order; a worker that dies | what is shown is on disk; results reach their items; requests end | `EditorProjects`, `EditorRuns`, `EditorReports` |
| React helpers, adapters, command line and configuration | — | — | sequential | — | filters in `RelatedTests` |

`PROJECT.json` lists them all with their files, their status and the reason, and
under `hazards` what is hard to test in each, at its line.

## 2 The modules

```
 RunnerContract  <── refined by ── PoolRunner       <── PoolRunner_proofs
       │ the view of a runner WorkerPool is written against
 WorkerPool  <── WorkerPool_proofs   ── CollectionLemmas
             <── MCWorkerPool, MCSettles
 TestDispatch <── TestDispatch_proofs ── CollectionLemmas
              <── MCEditor
 BatchedRequests <── refined by ── WatchDriver
                                      ├── WatchRebuild
                                      └── WatchTeardown <── WatchSession_proofs, MCWatch
 HeadedRuns <── HeadedRuns_proofs, MCHeadedRuns
 HeadlessRuns <── HeadlessRuns_proofs, MCCycles
 FixtureScopes <── FixtureScopes_proofs, MCSettles
 MCSettles   WorkerPool (one worker) | FixtureScopes | TestRunner | Polling
 MCMachines  WatchRebuild | BrowserRebuilds | FailureHistory | ShardedRuns | ModuleMocks
             | ScopedStubs | Spies | PlaywrightFixtures | WorkerFiles
 MCWatch     WatchDriver | WatchTeardown | Reports
 MCEditor    EditorProjects | EditorRuns | EditorReports | TestDispatch
 MCAlgorithms  Planning | RelatedTests | TestCollection | V8Coverage
```

A `|` separates machines that a run puts side by side: a variable `part` (or
`subject`) that `Init` chooses and nothing changes says which of them a behaviour is
of. They do not interact; one run stands for several.

Conventions. A JavaScript callback runs to its next `await` without interruption,
so a callback with the promise continuations it releases is one action; where the
code awaits something, the continuation is an action of its own and every other
callback may come between. A definition whose comment begins with "Mutant" is wrong
on purpose: it is a plausible bug in the definition that follows it, and
`PROJECT.json` names the property that notices it. A variable called "history" in
its comment is not in the code and only observes. Everything the code decides
from data the properties do not need (paths, options, wording) is a model value or a
nondeterministic choice. `Lists` has the array operations of JavaScript that several
modules use.

### 2.1 WorkerPool — `packages/core/src/pool/pool.ts`

A runner is named by the task that spawned it (a task spawns at most one).
`active`, `idle`, `stopping`, `slotWaiters`, `slotInUse` and `stopErrors` are the
fields of `Pool`. `ready` are parked callers whose promise was resolved but whose
continuation has not run, the window in which everything else may happen. The loop
of `acquireRunner` is the one piece of code that is several actions without an
`await` between them; `turn` keeps other callbacks out until it has claimed or
parked.

| code | actions |
|---|---|
| `dispatch`, `acquireRunner` | `Dispatch`, `Resume`, `AcquireReuse`, `AcquireDropStale`, `AcquireParkFull`, `AcquireDefer`, `AcquireSpawn`, `StartOk`, `StartFail` |
| `releaseRunner`, on a result or a rejection | `TaskResolves`, `TaskRejects` |
| `disposeRunnerInBackground` | `Dispose` in the above, `RunnerExits`, `StopSettles` |
| `cleanupWorkerFixtures`, `drainWorkerStopErrors` | `DrainBegin`, `DrainWatch`, `DrainOneShot` |
| `close` | `CloseBegin`, `CloseStopped`, `CloseEnd` |
| the gate's timer | `GatePoll` |
| a worker that fails or dies of its own accord | `RunnerPoisoned`, `RunnerExits` |

`MaxWorkers`, `MinWorkers` and `EnvOf` are the pool's options. The switches
`isolate`, `gated` and `watch` are fields of the variable `options`, which `Init`
takes from the constant `Options` and no action changes, so that one run checks
several kinds of pool and the proofs speak of all of them. `watch` tells a session, whose drains collect stop errors between
cycles and whose pool may be closed at any time, from a one-shot run, which
closes after its drain. The gate's verdict after its first sample is any answer.

### 2.2 PoolRunner — `pool/poolRunner.ts`, `pool/workers/forksPoolWorker.ts`, `runtime/worker/index.ts`

The host side of one worker, the child process and the worker's request loop, with
a FIFO pipe in each direction. `op` and `queued` are `operationChain`; `startWait`
and `cleanWait` are the pending deferreds (and their timers); `answer` is what
became of each task; `phase` is how far `runInPool` has come with a test file, whose
messages (`fileCleanupStarted` with a provisional result, ...) arm and disarm the
host's fixture timer. Every event handler, timer and worker step is an action; a
process may die at any time and what it wrote last may be lost. The pool's calls
(`CallStart`, `CallRun`, `CallDispose`, `CallClose`, `CallDrain`) are part of the
module and made in every order the pool can make them. `isolate` is a variable that
never changes, so both kinds of runner are in every run and every theorem.

`RunnerContract` says in 86 lines what the pool relies on: a runner is usable until
the first sign of trouble and never again, takes one task at a time and only while
usable, answers each once, and is gone when a `stop()` returns. `PoolRunner`
implements it (`ImplementsContract`, with `ContractPhase` as the mapping);
`WorkerPool` is written against the same view.

### 2.3 WatchDriver — `createWatchCycleDriver` of `core/watchSession.ts`

A cycle is identified by the call of `runCycle` that queued it. `RunCycle` folds
into the cycle its executor queued last or queues one behind `tail`; `Begin`,
`Notified`, `Ran`, `Finalized` and `Fail` are the continuations of `runOne`; `Event`
is a result that reaches the shared managers. `BatchedRequests` is what the loop
promises whoever asks: requests are served in batches that agree on what is asked,
one batch at a time, the oldest request first, each batch begun after the last of
its requests was made and covering exactly their files. `WatchDriver` implements it
(`ServesInBatches`).

### 2.4 WatchRebuild — the driver with the node executor behind it

`EXTENDS WatchDriver` and adds the disk, the dev server's last stats, the held compile
hook, the baseline of `applyWatchInvalidation` and the results. A version of a file
stands for the chunk hashes of its entry. `Compile` is `onAfterDevCompile`, `Pull`
is `getRsbuildStats` (which filters, diffs and advances the baseline), `Run` is the
cycle with its merge into the session's results; `KeyAll`, `KeyFilter`, `KeyFailed`
and `KeyUpdate` are the `a`, `p`, `f` and `u` keys. `Planned` are the files the
planner's cached glob found; `Edit` may also create others.

### 2.5 WatchTeardown — how a session starts and ends

`EXTENDS WatchDriver` and adds the startup of `runTests`, both executors' resources,
the global setups and the close. `boot` is the await the startup is at, `closer` the
one the close is at, `work[e]` the one the cycle of executor `e` is at; a close may
be requested at every state, from a key, a signal or a config change.
`CloseIn` names three windows in which the close has nobody to clean up after it:
`notify`, `setup` and `install` (section 5); `CloseMayArrive` admits a close in a
window only when `CloseIn` has it.

### 2.6 FixtureScopes — `FixtureScopeManager` of `runtime/runner/fixtures.ts`

The file- and worker-scoped fixtures that the tests of a file share. `instances`,
`status`, `dependents` and `registered` are the fields of a manager and of its
instances (one manager per scope, told apart by `Scope`); `step` is how far the
asynchronous set-up of an instance has come through its dependencies; `cleanups` is
the state of the promise `cleanupInstance` memoises.

| code | actions |
|---|---|
| `resolve`, `resolveTestFixtures`, a test that ends or times out | `Ask`, `TestEnds`, `TestTimesOut` |
| `getFixture` and the set-up it starts | `Start`, `Link`, `SetupResumes`, `DependencyFails`, `OnCleanup`, `SetupSettles` |
| `cleanup`, `cleanupInstance` | `FileCleanupBegins`, `WorkerCleanupBegins`, `CleanupInstance`, `CleanupCalled`, `CleanupSettles`, `CleanupEnds` |

A test that times out stops waiting and leaves its set-ups running
(`timedOut`); timers fire only when no continuation is pending
(`ContinuationPending`), which is how the event loop orders them.

### 2.7 TestRunner — `runtime/runner/runner.ts`, `task.ts`, the bail of `stateManager.ts`

A file is a tree (`Children`) of suites and cases. `phase[n]` is the await the
`runTest` of node `n` is at; `started[s]` how many of its children the `runTests` of
suite `s` has begun; `running` and `queue` are `limitConcurrency`; `retries`,
`repeats` and `verdict` are the locals of the retry loop; `failures` and `others` are
what `getCountOfFailedTests` of the host answers from.

| code | actions |
|---|---|
| `runTest` of any node: the question to the host, with `bail` | `Ask`, `Refused`, `OtherFails` |
| `runTest` of a suite, `runTests`, `markAllTestAsSkipped` | `SuiteBegins`, `BeforeAllEnds`, `NextGroup`, `ChildrenEnd`, `AfterAllEnds` |
| `runTestsCase`: fixtures, `beforeEach`, body, `afterEach`, clean-ups | `CaseBegins`, `CaseSkipped`, `FixturesEnd`, `BeforeEachEnds`, `BodyEnds`, `AfterEachEnds`, `CleanupsEnd` |
| the retry and repeat loop, `onTestCaseResult` | `AttemptEnds`, `Reports` (part of `CleanupsEnd`) |
| `limitConcurrency` | `NextGroup` (enters), `FreesSlot` (part of whatever ends a node) |

Every hook, fixture, body and clean-up may fail. `history` records what became of
the attempts of a case, independently of `verdict`.

### 2.8 TestDispatch — `pool/index.ts`, `stateManager.ts`, `runnerEventSink.ts`

The files of a cycle from `runTests` to their report. `at[f]` is the await the task
of a file is at, on either side of the RPC; `runningModules` and `testModules` are
the fields of `TestStateManager`, with the cases' results under their ids (two
projects that run one path share them). `BuildTask`, `Enqueue` and `StartTask` are the
preparation and the dispatch gate; `AskBail`, `StartCase`, `EndCase`, `StartFile`,
`EndFile` the messages of a worker; `Crash`, `Replay`, `ReplayThrows` and `ReportFile` what
the host makes of a worker that is lost; `NextCycle` the reset.

### 2.9 HeadlessRuns and HeadedRuns — the browser's schedulers

`HeadlessRuns` (`headlessScheduler.ts`, `runSession.ts`, parts of `hostController.ts`
and `client/runner.ts`): a slot is a worker of a run, with a page for its next file
or batch. Its `mail` is the queue of messages the host handles one at a time, `token`
and `active` are `RunSessionLifecycle`, `timer` and `overdue` the deadline that is
armed or has passed. A rebuild interrupts the run under way (`Interrupt`), and pages
crash, go fatal or hang in their clean-up. `FailedTests` is `getCountOfFailedTests`, which
`bail` asks: the failed cases of the files under way (`running`), those of the results
recorded, and one for a failed file whose result has no case. With `bail` a page also
reports its file's start and each failed case (`Event`, `CaseFails`), which count
before the file is over. A file can fail and count for nothing, its cases having passed
(`Counts`).

`HeadedRuns` (`headedScheduler.ts`, `headedRunRegistry.ts`, `containerRpc.ts`,
`browser-ui`): `runs` is the registry, each run with its phase, its transport's epoch and
the deadlines it has; `files` and `version` the file set the host committed, `acked`
what the container has acknowledged; `down` and `up` the two wires; `set`,
`shown`, `dirty`, `effects` the container's state, its render and its effects;
`lease` and `doc` the frames. Transports drop or are replaced, the page reloads,
documents fail, hang or reload, and timers are late.

### 2.10 BrowserRebuilds — how an edit reaches the browser

Each project's compiler and the hook at its end (`Compile`, `AfterDevCompile`), the
planning of a rerun (`ReadEntries`, `Plan`), and the cycle that runs it (`CycleStarts`,
`LoadChunk`, `RunFile`, `CycleEnds`). `baseline` is what `browserRsbuild.ts` compares
the next stats with; headed sessions compile a chunk when a page asks for it. `lost`
records the files a trigger consumed and no cycle ran, at the places where the code
is known to lose them (section 5), so that the property is about all others.

### 2.11 What a worker process goes through

* `WorkerFiles` (`runInPool.ts`, both loaders, `moduleCacheControl.ts`): test files of
  several projects and builds one after another in one process; what is installed,
  which chunks and modules are cached, kept and flushed, how a file fails, and what
  is undone.
* `Polling` (`poll.ts`, `utilities.ts`, `playwright/src/expect.ts`): the retry loops;
  a check takes time and samples the world when it ends.
* `ModuleMocks` (`mockRuntimeCode.js`), `ScopedStubs` (`utilities.ts`, `fakeTimers.ts`) and
  `Spies` (`spy.ts`): any sequence of the synchronous calls of a test file, against
  what the documentation says a call restores or returns.
* `PlaywrightFixtures` (`playwright/src/fixture.ts`): concurrent tests share cached
  browsers; one that failed asks for them to be closed once nobody uses them; traces
  are kept or dropped by the verdict of an attempt.
* `TestCollection` (`runtime.ts`, `task.ts`): the tree that the calls of a file make
  and the modes its nodes get, as a function of the calls.

### 2.12 Runs across runs

* `FailureHistory` (`resultsCache.ts`, `testSequencer.ts`, `onlyFailures.ts`): runs that
  read and write one cache, are killed in between, and files that change.
* `ShardedRuns` (`reporter/blob.ts`, `finalizeRun.ts`, `mergeReports.ts`, `coverage/*`):
  shards that end in any order, their blobs, their merge; coverage and thresholds.
* `Reports` (`reporter/*`, the results of `rstest.ts`): what the markdown, JSON,
  JUnit, GitHub and summary reporters make of one snapshot of results and logs.
* `Planning` (`planner.ts`, `projectPlan.ts`, `environment*.ts`, `shard.ts`),
  `RelatedTests` (`testFiles.ts`, `related.ts`, `watchRerunPlanner.ts`) and `V8Coverage`
  (`coverage-v8`): pure algorithms.

### 2.13 The editor

`EditorProjects` (`project.ts`, `projectCoverage.ts`, `master.ts`): config files found,
watched, loaded and hidden, test files listed and watched, each await in any order.
`EditorRuns` (`extension.ts`, `master.ts`, `testRunReporter.ts`, `worker/*`): a request, the
worker process of each target, messages, cancellation, death and the time-out of a call. A
failure is written in a step of its own, when its errors have been created: `creating` holds
those that wait, while the messages behind them are handled. `EditorReports`
(`testTree.ts`, `testRunReporter.ts`, `errorStore.ts`): which item of the tree a result is
written to while the tree is updated, and what is kept of a failure, again once its
errors are created (`storing`).

## 3 The runs

| run | module | distinct states | question |
|---|---|---|---|
| `pool` | MCWorkerPool | 1,199,997 | two slots, three files of two environments, drains, closes, four kinds of pool: does every promise of the pool hold in every interleaving? |
| `runner` | PoolRunner | 48,846 | does a runner, isolated or reused for a second file, keep its contract and settle everything, whatever crashes or times out? |
| `watch` | MCWatch | 427,308 | three calls by any triggers of two executors; node, browser and mixed sessions closed at any await; the reports of two cycles |
| `settles` | MCSettles | 135,248 | what a test file waits for: a slot, its fixtures, its hooks and cases, the loops that poll |
| `machines` | MCMachines | 2,039,688 | edits and keys of a node and of a browser session, the history of failures, shards, mocks, stubs, spies, browsers, the files of a worker |
| `cycles` | MCCycles | 532,457 | two files in headless pages, with and without isolation and `bail`, that crash, hang or are superseded: is each recorded once, do runs keep apart, does every cycle end? |
| `headed` | MCHeadedRuns | 414,435 | two paths, two rebuilds, transports that drop, documents that hang: is every run settled once, can it complete, does the cycle end? |
| `editor` | MCEditor | 751,271 | config files that aggregate each other, requests that are cancelled or die, items whose names repeat; two files dispatched to two workers with crashes and a second cycle |
| `algorithms` | MCAlgorithms | 77,869 | plans, selections, collected trees and coverage against reference definitions |
| `planning`, `headed_frozen`, `mocks_original` | | 7, 4,648, 2,229 | the findings of section 5, as counterexamples |

### 3.1 What is checked

* **pool** (`pool.ts`). `WorkersAreAccountedFor`: at most `MaxWorkers` processes, distinct ids, a
  runner works on one task, of its own environment. `NobodyIsStranded`: whoever is
  parked has a runner that works or stops, or the gate's poll, to wake it; after a
  close there is no process, no caller, and no stop error that was not handed over
  once. `DrainCollects`: a drain that returns has waited for every stop of its cycle.
* **runner**. `RunnerIsSound` (types; a `stop()` that returned leaves no process),
  `TasksNeverOverlap` (never two test files in one process), `FilesAreServedWhole`
  (fixtures outlive the file that uses them; an answer is about the file's own
  tests), `ImplementsContract`, and as liveness `CallsSettle`.
* **watch**. `CyclesKeepApart`: nobody is answered by a cycle that skips their files or
  has other options, and bail and verdict count one cycle's failures.
  `ServesInBatches`, the refinement. `SessionIsContained`: nothing outlives a close, tests
  run only between setup and teardown, the browser's setups go first.
  `ReportsAreTrue`: reports agree on the verdict, name all that failed, add up, and
  point at the user's code. `CallSettles` and `CloseReturns` as liveness.
* **settles**. `CasesRunAsDeclared`: a case runs only while every `beforeAll` above it
  has succeeded and no `afterAll` has begun; cases overlap only in one row of
  concurrent siblings, at most `maxConcurrency`; a pass is a clean attempt of every
  repeat, a failure has used up its retries; `bail` bounds the failures.
  `CleanupIsOrdered`: of the instances that exist when a clean-up begins none that
  registers a clean-up is forgotten, and they go in reverse order across scopes, as
  long as no test gave up on a set-up. `VerdictIsDue`: a loop gives up when it is due, and what it
  returns came in time. `PoolSettles`, `FilesSettle` as liveness.
* **machines**. `RebuildsAreRight`: every edit of a planned file is run and what is
  reported is its latest run, in node and browser sessions. `HistorySelects`: known
  failures are kept and run first. `MergedIsTheRun`: the merged run reports and is judged as the
  whole. `DoublesAreTrue`: mocks, stubs, clocks and spies do, and restore, what the
  latest call said. `BrowsersServeTests`: a browser outlives its users and no more, and
  a trace is kept for the attempts its mode asks for. `FilesAreServedApart`: modules are
  evaluated as often as they should be and each file finds the globals it should.
* **cycles**. `EachFileOnce`: a file is recorded at most once in a run, and a run that nothing
  cut short has recorded every file, those that `bail` skips included. `RunsKeepApart`:
  a run that ended or was superseded is silent, its pages are closed before others are
  opened, and `bail` bounds the files that fail in a case or for want of one. `CyclesEnd`
  as liveness.
* **headed**. `RunsAreSettledOnce`: one settler, one report, one live run.
  `OpenRunsCanComplete`: an open run is of a committed file and has its frame's lease
  once it was delivered. `CyclesEnd` as liveness.
* **editor**. `EditorIsTrue` (what is shown is on disk, once), `ResultsAreKept` (what a
  cycle reports comes while the reporter has that cycle's TestRun and before this ends; a
  failure can be written to it until the end of the cycle is received; a result
  reaches the item of its test, and what is kept of it is of its last result); of the dispatch in the process a
  request starts, `EnqueuedInOrder` and `AccountsAreExact` (a case is counted once, under
  its file, crashes included; `bail` is asked of an exact count); and `RequestsEnd` as liveness,
  of requests and of dispatched files.
* **algorithms**. `PlansAreRight`, `SelectionIsRight`, `CollectionIsRight`, `CoverageIsTrue`.

### 3.2 Bounds, and why they are enough

* `pool`: two slots and three files, the third of another environment, are the
  least with a full pool that has both a runner to reuse and one to retire, and a
  parked caller besides; ids and wake-ups concern two callers at a
  time. The four pools are: reusing in a watch session, the same with a gate, isolating with a gate,
  and reusing in a one-shot run. What does not depend on bounds is proved.
* `runner`: two tasks, so that a late message of the first meets the second.
  Pipes and the number of stops are bounded by the calls the pool makes. An isolated
  runner is given one of them, as in the code.
* `watch`: three calls (`MaxCalls`) are a cycle that runs, one queued behind it and one
  that folds; nine calls that do and do not fold, of two executors. In a session,
  three leave one for the launch and two for rebuilds; every combination of node and
  browser sides is an initial state. Reports: three test files, two of which share a
  path, three outcomes, two cycles and one log.
* `settles`: one worker and two environments, the tightest case of a wake-up (every
  idle runner is the wrong one). A worker-scoped fixture below two file-scoped ones,
  below a third, and one asked for last. A row of a concurrent case and a concurrent
  suite of two cases, then a sequential, repeated case, hooks on two levels;
  `maxConcurrency` 1 and 2, with and without a retry, `bail` 0, 1 and 2, and one
  failure of another file.
* `machines`: three calls, two versions of a file and of the setup file (an edit
  before, during and after the cycle that should run it), three files of which two are
  planned. In the browser two edits, one fault, three files of two projects. Two shards.
  Three projects with four entries, three tasks, two builds and one fault in a worker.
* `cycles`: two files, each of which may fail in one case where there is `bail`. In pages of
  their own: two at a time, without `bail` and one fault, and with `bail` 1; one at a time with
  `bail` 1, with one fault and with a second cycle. Sharing contexts: two at a time with one
  fault, and a batch of both in one page with a rebuild that supersedes it and two faults. For
  other numbers of files, cases, workers, runs and faults the safety properties are proved.
* `headed`: two runs, two rebuilds, three epochs of the transport, two faults and
  together at most three rebuilds and faults (`MaxTrouble`).
* `editor`: two config files, one test file, two edits, five loads; one request of
  each kind, two targets, two cycles, two messages under way, one fault or time-out; sources of
  three and four tests, two runs, one update between them, one failure at a time whose
  errors are being created (which the next run can overtake). Of the dispatch two files, one with
  concurrent cases, a second cycle, two workers, `bail` 0 and 1.
* `algorithms`: every input of the sets of `MCAlgorithms`, chosen so that each branch
  of an algorithm is taken.

`CHECK_DEADLOCK FALSE` is set where the system rests: a stopped runner, a closed
session, a file that is over, an input that was chosen. The `pool` run checks deadlock, with
`Finished` as the only resting state.

### 3.3 Fairness, and why the code justifies it

* Continuations and loops that have the thread run on; the event loop delivers what
  is queued and fires timers that are armed.
* Pool: a start is acknowledged, fails or times out (`PoolRunner` checks its half);
  a test file that runs ends; a worker that is being stopped exits
  (SIGKILL follows SIGTERM); a lost task is rejected. Nothing makes callers
  dispatch, runners crash, the pool close, or the gate answer yes.
* Runner: **nothing** makes a worker's bootstrap or a fixture's clean-up end:
  those are the cases its timers are for, and the liveness properties hold without.
  Test bodies end (they have time-outs of their own); a killed or dying process dies.
* Driver and session: what a cycle awaits settles (reporters' hooks, the executor,
  finalization, user-written global setups and teardowns, the start of a server,
  successfully or not). Those are promises the code awaits without a time-out, so
  a reporter that never returns does hang a session. Rebuilds, keys and closes are
  never forced.
* Fixtures, tests and polls: the event loop runs every continuation; hooks and bodies have
  time-outs. Functions and clean-ups of fixtures end: where they do not, the host's
  fixture timer fires and the worker is killed, which is `PoolRunner`'s half. A
  polled callback returns.
* Dispatch: while a file is under way something goes on (every behaviour of a cycle is finite); no crash and
  no failed preparation is forced.
* Browser: an operation of the driver ends, be it by its time-out. In headed runs
  something that is under way goes on (`GoesOn`, the deadlines included); no fault and
  no rebuild is forced.
* Editor: what was begun goes on; nobody has to cancel, edit or change a file.

## 4 The proofs

All theorems hold for every value of the constants that satisfies the named
assumptions `PoolAssumption`, `RunnerAssumption`, `DriverAssumption`,
`TeardownAssumption`, `DispatchAssumption`, `HeadedAssumption`, `HeadlessAssumption` and
`FixtureAssumption`. They say no more than the types of the options: any set of tasks, any number of workers, any
environments, sessions, calls, test files, rebuilds, transports, fixtures, tests and faults.
`FixtureAssumption` also says that fixtures do not depend on each other in a circle, and that
a fixture of the worker depends on none of the file: the code rejects both before a test runs
(`fixtures.ts:472`, `:139`). `HeadlessAssumption` says that the files of a run are different ones,
as the planner makes them, and that none has the name of a mark the model uses. TLC evaluates each on
every run of its module. Eight modules hold the proofs; `PROJECT.json` lists 37 theorems.

| property of a run | theorem | module |
|---|---|---|
| `WorkersAreAccountedFor` | `Accounts` | WorkerPool_proofs |
| `NobodyIsStranded` | `Stranded` | WorkerPool_proofs |
| `DrainCollects` | `Drained` | WorkerPool_proofs |
| `RunnerIsSound` | `Sound` | PoolRunner_proofs |
| `TasksNeverOverlap` | `OneFileAtATime` | PoolRunner_proofs |
| `FilesAreServedWhole` | `ServedWhole` | PoolRunner_proofs |
| `ImplementsContract` | `KeepsContract` | PoolRunner_proofs |
| `CyclesKeepApart` | `Apart`, `SessionApart` | WatchSession_proofs |
| `ServesInBatches` | `InBatches` | WatchSession_proofs |
| `SessionIsContained` | `Contained` | WatchSession_proofs |
| `EnqueuedInOrder` | `DispatchIsInOrder` | TestDispatch_proofs |
| `AccountsAreExact` | `AccountsOfTheRun` | TestDispatch_proofs |
| `RunsAreSettledOnce` | `SettledOnce` | HeadedRuns_proofs |
| `OpenRunsCanComplete` | `CanComplete` | HeadedRuns_proofs |
| `CleanupIsOrdered` | `CleanedInOrder` | FixtureScopes_proofs |
| `EachFileOnce` | `FilesOnce` | HeadlessRuns_proofs |
| `RunsKeepApart` | `RunsApart` | HeadlessRuns_proofs |

Every property of the runs `pool`, `runner`, `headed` and `cycles` except liveness is a theorem,
and so is every one of `watch` except liveness and `ReportsAreTrue`, the two of `editor` about
`TestDispatch`, and the one of `settles` about `FixtureScopes`. The inductive
invariants were checked by TLC, on instances at least as large as those of the runs,
before they were proved.

**`WorkerPool_proofs`**. `CapacityRespected` counts processes while the code counts
collections, and `acquireWorkerId` looks at a third thing, the ids. `IInv` ties them together:

* `QueuesInv`: a parked caller is in `slotWaiters` or `ready`, once;
* `TurnInv`: the acquire loop runs only in an open pool;
* `PoolInv`: the three collections are disjoint and `idle` has no duplicates, so
  `inFlightCount` is the cardinality of `InFlight` (`InFlightCountIsCardinality`);
* `RunnersInv`: a worker process belongs to a runner in flight;
* `ServesInv`, `RunnerServesOneTask`: a task owns its runner until it releases it;
* `IdsInv`: until the pool is closed, `slotInUse` is exactly the ids of the runners in
  flight, all different, so an id is free whenever a slot is (`FreeIdExists`);
* `CapacityInv`, and `ClosingInv`: what `close()` has already waited for, which gives
  the first properties after the close, when the collections are cleared.

`WakingInv` adds what the lost wake-up needs: `ParkedHasWaker` itself (inductive
given the rest: every way a runner leaves `active` or `stopping` wakes a caller),
`ErrorsInv` (the error of a failed clean-up is in `stopErrors` until it is reported, and
reported once) and `DrainInv` (a drain that waits has no task under way and waits
for every runner that stops). There is one lemma per action and lemmas for the
helpers they share (`WakeOneFacts`, `ReleaseFacts`, `DisposePreserves`). `CollectionLemmas` proves
what `RemoveAt`, `Tail`, `Append` and concatenation do to the range and injectivity of
a queue, and what a step does to a sum over a finite set. Proving `ParkedHasWaker` for gated pools corrected the invariant: with a gate
and reuse the only waker may be the gate's poll (section 5).

**`PoolRunner_proofs`**: `Invariance`, `Sound`, `StopLeavesNothing`, `NoOperationInside`
(the `STOPPING` branch of `stop()` is never taken), `BusyNotOffered`, and from it the action property
`OneFileAtATime`. The strengthening is about what is in the pipes: a `run` request on
its way finds an idle worker and is for the current task unless the runner is
unusable (`RequestInv`), and a task that is reported finished is neither running nor
about to run (`ReportInv`), so a late `runFinished` can never free a runner whose
worker is busy.

Its second half is the refinement: each step of `PoolRunner` is a step of `RunnerContract` or
none (`KeepsContract`), and `ServedWhole`. `KeptInv` strengthens the invariant above by
what the mapping hides: how far the life of the runner and the calls of the pool have
come (`LifeInv`, `CallsInv`), that an answer still awaited is about the current task
(`AnswerInv`), that a fatal worker's runner is poisoned once the host has read it
(`FatalInv`), whose clean-up is under way (`CleaningInv`) and what a provisional result
came from (`ResultInv`).

**`WatchSession_proofs`**, the driver: `Invariance`, `Apart`, `InBatches`. `IInv` says that the queue is the
sequence of cycles not yet over (`QueueInv`), one runs at most (`OrderInv`), a cycle's
scope is what its callers asked (`ScopeIsWhatWasAsked`), and that managers and
summaries are of the cycle that runs (`StateInv`, `SummaryInv`,
`SummaryOnePerExecutor`). `InBatches` maps a step of the loop to a step of
`BatchedRequests`: `Begin` is a batch's beginning, `RunCycle` a request.

The session: every step of a session is a step of the driver or none
(`SessionDrives`), hence `SessionApart`, by the theorem on the driver; `SessionInvariance` and
`Contained` for a session that is not closed in the three windows `CloseIn` names:
their hypothesis is `CloseIn = {}`, the value the run checks, because the code does leak
there. `SessionDrives` and `SessionApart` hold without it. `SessionInv` relates the boot phase to what it has acquired
(`BootInv`), cycles to their executor's resources (`WorkInv`), global setups to who
claimed them (`SetupInv`, `BrowserSetupFirst`) and the close to what it has already
taken down (`CloseInv`).

**`TestDispatch_proofs`**: `DispatchInvariant`, `DispatchIsInOrder`, `AccountsOfTheRun`. `IInv`
holds in every run:

* `LifeInv`, `CutInv`: how far a file has come agrees with its task, its worker and its cases,
  and a cycle that was cut short leaves a file that failed;
* `GateInv`: a gate is released at most once and only after the entry before it was
  dispatched or failed. `DispatchIsInOrder` follows from the greatest entry that was
  not dispatched between two that were (`GatesOrder`);
* `ToldInv`, `SlotsInv`: reporters were told of every case that ended; no more files are with
  workers, and no more cases run at once, than there are slots for them.

`AInv` adds what the accounts need. `ModulesInv` says what the state manager holds for every
path: what the worker of its file has reported, until the file's result is recorded.
`ReplayInv` says what a replay after a crash has still to send. Both need one file per path
and cycle, hence the hypothesis `PathsApart`. It is not a convenience: with two projects that run
one path at once TLC finds `AccountsAreExact` violated (section 5). `BailInv` bounds
the failures counted by `bail - 1` and the cases that were admitted before the limit was
reached; TLC refuted the first form of `BailBoundsTheRun`, without `Undisturbed`, when the proof
asked for it: a cycle that was cut short still has files running, whose end deletes what
the next cycle counts under their path. The counts are sums over sets of files and cases. The
induction over finite sets that they rest on is not cited with an operator as its parameter:
`Smallest` derives, from the well-foundedness of the strict subset relation, that a family
of finite sets has a minimal member, and each lemma on sums refutes a minimal counterexample.

**`HeadedRuns_proofs`**: `RegistryInvariance`, `SettledOnce`,
`WireInvariance`, `CanComplete`. `RegistryInv` is host-side: a record is consistent
(`SoundInv`), run numbers are minted in order (`MintedInv`), one run is live at a time and
it is the one the cycle waits for (`OneAtATime`), and an open run is of the current transport and
the committed set unless the settling of it is under way (`AttachedInv`). `WireInv` relates host, wires
and page: file sets on the way are ordered by version (`SetsInv`, `DownInv`) and an
acknowledgement never runs ahead of what the container has applied (`UpInv`). Only
with both is `LeasedInv` inductive: no effect of an older set that is still to run can
take the lease of a run that was minted in time.

**`FixtureScopes_proofs`**: `FixtureInvariance`, `CleanedInOrder`. That a fixture is cleaned up
before those it depends on is not inductive: it rests on how the set-ups of a file are nested. `IInv`:

* `KnownInv`, `SetupInv`: a manager knows what has been started until it has cleaned it up; what a
  set-up has asked for was started, and made a dependency of it; only a function that ran
  has registered a clean-up;
* `AwaitInv`: as long as no test gave up, a test or another set-up waits for every set-up under way;
* `QuietInv`: hence, when the tests are over and none of them gave up, nothing is being set up.
  Otherwise some pending set-up is asked for by no other pending one, `Deps` being
  acyclic, and only a test could wait for it (`NobodyPending`);
* `SnapshotInv`, `CleanInv`, `OrderInv`: what a clean-up took when it began is what its manager
  had, and whoever has had its turn waited for all its dependents; the worker's turn comes
  after the file's.

**`HeadlessRuns_proofs`** (the largest, 4,400 lines): `HeadlessInvariance`, `FilesOnce`, `RunsApart`. That
a file is recorded once is not inductive: a file is in a queue, then in a worker's batch, then
in a page, then in a message, then being handled, and the page's message, two deadlines and the skipping of what `bail` left may record it. `IInv`:

* `TokensInv`, `CoreInv`, `RunsInv`: tokens grow with the runs that have begun; a superseded
  run's token is stale; a run that has begun and is no longer running is settled,
  hence silent (`SupersededIsSilent`), except for a worker that was rejected and deadlines that are late;
* `SlotsInv`: what a worker's stage says of its page, its timers, its batch and who has ended it;
* `QueueInv`: a file is in one place, the queue of the run or one batch, and one that is in the
  queue was not recorded. `MailInv`, `OverdueInv`: a file of a batch that was not sent, or
  was sent and not handled, was not recorded, and one that was recorded is marked as completed or is
  being handled. So the deadline, which records the first file that is not marked, and a
  message, which is about one that is not recorded, never record a file twice (`RecordedOnce`);
* `CleanInv`: while nothing has cut the run short, a file that left the queue is in a batch or
  was recorded, and a page that says it is done has sent all its files; from it `EveryFileRecorded`;
* `RecordInv`, `BailInv`: the files that failed in the count of `bail`, together with those under way,
  are no more than `bail - 1` and the number of workers: a worker takes a file only while fewer
  failed than `bail`, and has one at a time. What the code compares with `bail` is a sum,
  of failed cases and of files without any; that it is no less than the number of files
  that contribute is `SumOfPositives` (`CollectionLemmas`), and what is still counted of
  the files under way only adds to it.

The proof changed the model in three places: `Pending` takes the first file that is not completed by its index; a run has
one slot per file, which is what `runFilesWithPool` never exceeds, instead of a constant of the
instance; and `BailBoundsTheFiles` counts the results of the current cycle, since without that it
is false (section 5).

**Only model-checked.** Liveness (`CallsSettle`, `CallSettles`, `CloseReturns`, `PoolSettles`,
`FilesSettle`, `CyclesEnd`, `RequestsEnd`): fairness and ENABLED are outside the prover's
reach. `PlansAreRight`, `SelectionIsRight`, `CollectionIsRight`, `CoverageIsTrue`,
`MergedIsTheRun`, `HistorySelects`, `ReportsAreTrue` are about what recursive
definitions and folds compute, which needs an induction the installed provers cannot
instantiate; the sums of `TestDispatch` are the exception, since they do not
depend on an order. The other invariants of `settles`, `machines` and `editor`
are not proved (section 7).

## 5 Findings and known gaps

Three places where the code does not do what it, or the documentation, says, each
with a run that shows it (`PROJECT.json`, `findings`):

1. **Nobody runs the global setup** (`environmentPartitions.ts:263`, run `planning`).
   When plugin hooks change a project's files, the partition that owned the global
   setup may be left without files; no other takes it over.
2. **A rebuild that waits for a frozen page** (`headedScheduler.ts:712`, run
   `headed_frozen`). A commit drops the file whose clean-up blocks the page, and with
   it the deadline that would end it; the container's answer never comes and watch
   mode is silently dead.
3. **`importActual` yields a mock** (`mockRuntimeCode.js:292`, run `mocks_original`).
   Mocking a module again after its first mock was imported saves that mock as the
   original.

Known gaps: places where the code can go wrong that the passing runs step around. A
gap is excluded by a constant, a history variable or the statement of a property, as
said here or in the comment of the property.

*Pool, runner, dispatch.*
* A child that emits `error` and never `exit` leaves `stop()` waiting for ever
  (`poolRunner.ts:259`; `SpawnErrors = FALSE` in the run, the safety theorems hold with it).
* A caller the memory gate defers while the only other runners are idle ones of
  another environment waits until memory recovers, although one could be retired
  (`pool.ts:169-179`); only the gate's poll wakes it.
* `Promise.all` rejects a cycle while other files of it run on; their events reach
  the next cycle's state (`runnerEventSink.ts:149`, `pool/index.ts:447`;
  `LateEvents = FALSE` where counts are checked).
* Two projects that run one path in the same cycle share an entry of `runningModules`: the
  first result deletes what the other file's worker has reported, so `bail` counts less and a
  crash reports fewer cases (`stateManager.ts:22`, `:78`; `PathsApart` in the theorem, and
  no two files of the run's cycle have one path).
* Setup files that throw stay in the bundler's module cache, so later files of that
  build in a reused worker skip them; errors raised while a worker swaps its
  listeners, or during worker fixture clean-up, are not counted; the promise of an
  environment module stays cached when it is rejected.

*Watch sessions.*
* A close in three windows (`CloseIn`): while reporters are told of a cycle
  (`watchSession.ts:248`), during a node global setup, whose teardown is registered after
  the drain, and while a node-only session installs its shortcuts.
* A `u`, `f` or `p` cycle drops entries outside its list before the diff and forgets
  their failures (`rsbuild.ts:548`); the changes a rejected cycle pulled are run by no
  later one (`nodeExecutor.ts:346`); the glob of test files is cached for the session
  (`projectPlan.ts:109`), so a file created while it watches never becomes an entry;
  overlapping `u` presses (`watchSession.ts:501`) are not modelled.

*Test files.*
* `cleanup()` takes the fixture instances there are when it begins: a set-up whose test
  timed out may start its next dependency after that (`fixtures.ts:343`).
* Ids are not unique for a `describe.todo` without a callback followed by a hook and a
  case (`types/api.ts:19`).
* `expect.poll` and `waitFor` never settle if the callback never returns; overlapping
  callbacks of `withImplementation` restore each other's implementation; mocks that
  are kept carry the call orders of earlier files.
* A Playwright browser may be launched while its predecessor is still closing.

*Plans and selection.*
* A glob and a file filter that mixes paths with patterns; entry names that collide
  (`a/b.test.ts`, `a_b.test.ts`); a negated `--project` pattern without an end anchor, several
  of them OR-ed (`testFiles.ts:125`).
* Two processes that write one results cache (`resultsCache.ts:95`).

*Reports and coverage.*
* Stale blobs are merged and a missing shard is not noticed; `runTests.ts:61` cleans
  blobs in the reports' directory; the exit code of a global teardown is not in the blob.
* Setup files come back as untested files where `coverage.include` matches them
  (`generate.ts:223`).
* Two projects that run one path: the last result survives, and a failure of the
  other file is in no report although the exit code is 1; JUnit shows a file that failed to
  load as an empty passing suite; results of a path are dropped only if the new run
  has test results (`rstest.ts:307-312`).
* `coverage-v8`: functions and conditionals inside a nested logical expression are left
  out; a missing `else` gets the whole count when the consequent has no location; a
  consequent of one character is counted with its surroundings; an operand that is
  a function is counted by its calls; hits are added by index without checking the
  template; an older payload may be resolved with a newer source (`browserV8Coverage.ts:197`).

*Browser.*
* Headless: a run one of whose workers was rejected ends while its other workers go on, and a late
  deadline of theirs may add a failed file to what the next cycle has recorded (`headlessScheduler.ts:319`;
  `bail` bounds the results of a cycle's own run). A file that fails although its cases passed,
  by a clean-up that timed out (`headlessScheduler.ts:452-460`) or failed, a suite's hook or an error nobody
  caught, counts for nothing (`stateManager.ts:63-75`): any number of files may fail like that
  without a bail, and `BailBoundsTheFiles` is about the others. A file's late hook may end after its deadline recorded it
  (`headlessScheduler.ts:633-639`); reruns are not serialised, so a stale planning pass may
  commit an older file set; an interrupt drops files of the cut cycle that had not run.
* Headed: a file whose frame goes while its coverage session starts is granted a run
  nobody can serve (`headedScheduler.ts:391-397`); a run minted before the container
  acknowledged the set loses its lease and waits for its boot deadline (`when` in the model);
  a frame-set time-out or a fatal error loses the scope that was drained.
* An edit compiled during the first browser run stays pending until the next trigger
  (`hostController.ts:1155`); a file that goes and comes back is "first seen" and not affected.
* Boot: a `WebSocketServer` error leaves dev servers open; a dev server whose `listen()`
  throws is not closed; a rejected `listBrowserTests` leaves its runtime.

*Editor.*
* A coverage run of failing tests never ends (`testRunReporter.ts:265`); a continuous
  rerun's TestRun is not ended when the run is cancelled in the middle; a call that
  rejects leaves the worker process (`master.ts:221-241`).
* Listings and reads may be applied out of order, and one that lands after a deletion
  re-creates the file; changes between a listing and its watcher are missed; a project
  suppressed while it loads and shown before it has loaded watches nothing
  (`project.ts:340-358`); two configs of one directory with equal footprints are both
  shown. `gaps` in `EditorProjects` records these.
* Results under a second suite of one name go to the first suite's items.
* A failure is written after an await, to the TestRun the reporter has by then
  (`testRunReporter.ts:203-206`), and the worker waits for no report (`worker/reporter.ts:15-23`): when
  the end of its cycle is received meanwhile, and the TestRun ends, the failure is lost, and when
  the next cycle's start is, it goes to that one's TestRun. `ResultsAreKept` says how far it may
  go astray. Likewise the errors and diagnostics of a failure may be stored after the next
  run has cleared them, and after the test has passed in it (`:207-213`; `late` in `EditorReports`).

## 6 What is not modelled

Within the modelled components: the once-per-key environment warning of the pool;
captured stderr and the RPC channel of a runner; thread workers; percentiles and
readings of the memory gate; build ids, traces and the ready banner of the watch
loop; the `t` key, the fan-out of keys to the browser, prompts and the counted hold of
the snapshot flag (`watchSession.ts:481-519`); steps of a teardown that throw (they are
reported and skipped); test-scoped fixtures and clean-ups environments register with
the worker; what a body that timed out goes on to do while its retry or the next test
runs (`runner.ts:701`, a hazard without a property), tests that are expected to fail and the
clean-ups hooks return; the layout of reports, the reporters that print while tests
run, the status window and the non-TTY notifier; the shape of automatic mocks; the
servers of the browser host, its list command and source maps; test-name patterns and
clicks of the browser UI; rendering, parsing and coverage of the editor.

Components left out and why: adapters, configuration merging and scaffolding format
or translate and share no state between steps; React helpers of browser mode are about
React's scheduler; matchers, DOM environments, the virtual clock and snapshot
files are libraries; `restart.ts` is on the plan.

## 7 Plan

1. Proofs: the limiter's bound and the hooks of
   `TestRunner`.
2. `Restart` on top of `WatchTeardown`: the cleaner registry, the debounced watcher
   and the next session; bodies that run on after their time-out in `TestRunner`;
   test-scoped fixtures in `FixtureScopes`.
3. The rest of the browser host (its servers and boot), the one-shot half of
   `runTests` and `list`.
