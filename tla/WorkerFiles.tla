----------------------------- MODULE WorkerFiles -----------------------------
(***************************************************************************)
(* A worker process that serves one test file after another                *)
(* (runtime/worker/runInPool.ts): what it installs on the globals of the   *)
(* process, the test environment, and the caches of its two module loaders *)
(* (loadModule.ts, loadEsModule.ts, interop.ts) with those of the runtime  *)
(* chunks they load (core/plugins/moduleCacheControl.ts).                  *)
(*                                                                         *)
(* A project has a runtime chunk, a setup file and test files, which       *)
(* import modules; a test file may be imported itself.  A module that      *)
(* throws stays in the bundler's cache, as is its default.  An isolated    *)
(* worker serves one file.  Builds are numbered; a cycle has one.          *)
(***************************************************************************)
EXTENDS Integers, FiniteSets

CONSTANTS
  Projects,       \* [name -> [format, globals, federation]]
  Entries,        \* test file -> [project, imports]
  Configs,        \* [isolate, dom]: what the pool's workers may be for
  MaxTasks, MaxBuilds, MaxFaults,   \* bounds
  None

VARIABLES
  config,         \* never changes
  build,          \* the build of the current cycle
  n, at, task,    \* how many tasks were begun; where in runInPool; which one
  lastBuildId,
  exitOf, consoleOf, apiOf, listeners,  \* who owns what of the process
  isTeardown,
  activeEnvironmentKey,  \* the environment is pinned
  dom,            \* the task that set up the environment that is installed
  envModule,      \* the cached load of its package
  cleanups,       \* what teardown() is to undo
  chunks, kept,   \* of each loader: cached chunks, and the runtimes to keep
  runtimes,       \* of each project: its runtime chunk, once evaluated
  hook, retained, \* the fallback of dynamic imports: visible, put aside
  fixtures,       \* builds whose worker fixtures are alive
  unhandled,      \* errors of the current task that were caught
  result,         \* of the current task
  evaluated,      \* history: [task, build, project, id]
  threw,          \* history: <<build, project>> whose setup file threw
  faults

taskVars == <<config, build, n, task>>
globalVars == <<exitOf, consoleOf, apiOf, listeners, isTeardown>>
envVars == <<activeEnvironmentKey, dom, envModule>>
loaderVars == <<chunks, kept, runtimes, hook, retained, evaluated, threw>>
vars == <<taskVars, at, lastBuildId, globalVars, envVars, cleanups, loaderVars,
          fixtures, unhandled, result, faults>>

Formats == {"esm", "cjs"}
P == DOMAIN Projects
Runtime(p) == <<"runtime", p>>
Setup(p) == <<"setup", p>>
Entry(e) == <<"entry", e>>

Init ==
  /\ config \in Configs
  /\ build = 1 /\ n = 0 /\ at = "idle" /\ task = None
  /\ lastBuildId = 0
  /\ exitOf = 0 /\ consoleOf = 0 /\ apiOf = 0 /\ listeners = {}
  /\ isTeardown = FALSE
  /\ activeEnvironmentKey = FALSE /\ dom = 0 /\ envModule = "none"
  /\ cleanups = {}
  /\ chunks = [f \in Formats |-> {}] /\ kept = [f \in Formats |-> {}]
  /\ runtimes = [p \in P |-> None] /\ hook = FALSE /\ retained = FALSE
  /\ fixtures = {} /\ unhandled = 0 /\ result = None
  /\ evaluated = {} /\ threw = {} /\ faults = 0

Fault == faults < MaxFaults /\ faults' = faults + 1
Project == Projects[task.project]

-----------------------------------------------------------------------------
(* A cycle begins with a build of its own (watchSession.ts).                 *)
Rebuild ==
  /\ at = "idle" /\ build < MaxBuilds /\ n > 0 /\ ~config.isolate
  /\ build' = build + 1
  /\ UNCHANGED <<config, n, task, at, lastBuildId, globalVars, envVars,
                 cleanups, loaderVars, fixtures, unhandled, result, faults>>

Begin(e, kind) ==
  /\ at = "idle" /\ n < MaxTasks /\ (config.isolate => n = 0)
  /\ n' = n + 1
  /\ task' = [entry |-> e, project |-> Entries[e].project, kind |-> kind]
  /\ at' = IF ~config.isolate /\ lastBuildId # 0 /\ lastBuildId # build
           THEN "flush" ELSE "prepare"
  /\ isTeardown' = FALSE /\ unhandled' = 0 /\ result' = None
  /\ cleanups' = {}
  /\ UNCHANGED <<config, build, lastBuildId, exitOf, consoleOf, apiOf,
                 listeners, envVars, loaderVars, fixtures, faults>>

(* Mutant of flushAllLoaderCaches: the loader of this task only.             *)
flushOwnLoaderCache ==
  /\ chunks' = [chunks EXCEPT ![Project.format] = {}]
  /\ kept' = [kept EXCEPT ![Project.format] = {}]

flushAllLoaderCaches ==
  /\ chunks' = [f \in Formats |-> {}] /\ kept' = [f \in Formats |-> {}]

(* The first file of a build: worker fixtures are cleaned up, then every     *)
(* loader is flushed.                                                        *)
Flush ==
  /\ at = "flush" /\ at' = "prepare"
  /\ fixtures' = {}
  /\ flushAllLoaderCaches
  /\ UNCHANGED <<taskVars, lastBuildId, globalVars, envVars, cleanups,
                 runtimes, hook, retained, evaluated, threw, unhandled,
                 result, faults>>

(* ... a clean-up that fails is fatal for the worker.                        *)
FlushFails ==
  /\ at = "flush" /\ Fault
  /\ at' = "dead"
  /\ UNCHANGED <<taskVars, lastBuildId, globalVars, envVars, cleanups,
                 loaderVars, fixtures, unhandled, result>>

-----------------------------------------------------------------------------
(* setFederationDynamicImportOrigin: the fallback is for federation files.   *)
setFederation(federation) ==
  IF federation
  THEN hook' = (hook \/ retained) /\ UNCHANGED retained
  ELSE hook' = FALSE /\ retained' = (retained \/ hook)

(* Mutant of globalCleanups: the globals of the last file stay.              *)
globalCleanupsOfConsole == [console |-> 0, api |-> apiOf, listeners |-> {}]

(* What the last file has installed is undone when the next one begins.      *)
globalCleanups == [console |-> 0, api |-> 0, listeners |-> {}]

Prepare ==
  /\ at = "prepare" /\ at' = "environment"
  /\ lastBuildId' = build
  /\ exitOf' = n
  /\ consoleOf' = n
  /\ listeners' = globalCleanups.listeners \cup {n}
  /\ apiOf' = globalCleanups.api
  /\ cleanups' = {"exit"}
  /\ setFederation(Project.federation)
  /\ UNCHANGED <<taskVars, isTeardown, envVars, chunks, kept, runtimes,
                 evaluated, threw, fixtures, unhandled, result, faults>>

-----------------------------------------------------------------------------
(* The environment.  Its package is loaded once: from its bundle, or else    *)
(* natively.                                                                 *)
loadTestEnvironmentModule ==
  \/ envModule # "none" /\ UNCHANGED <<envModule, faults>>
  \/ envModule = "none" /\ envModule' = "bundled" /\ UNCHANGED faults
  \/ envModule = "none" /\ Fault /\ envModule' \in {"native", "failed"}

Needed == config.dom /\ ~activeEnvironmentKey
Then(step) == at' = step

Pin(isSetUp) ==
  activeEnvironmentKey' =
    (activeEnvironmentKey \/ (isSetUp /\ ~config.isolate))

InstallApis == apiOf' = IF Project.globals THEN n ELSE apiOf

EnvironmentSetUp ==
  /\ at = "environment" /\ Then("prepared")
  /\ IF Needed
     THEN loadTestEnvironmentModule /\ envModule' # "failed" /\ dom' = n
     ELSE UNCHANGED <<dom, envModule, faults>>
  /\ Pin(TRUE)
  /\ InstallApis
  /\ UNCHANGED <<taskVars, lastBuildId, exitOf, consoleOf, listeners,
                 isTeardown, cleanups, loaderVars, fixtures, unhandled,
                 result>>

(* Its package does not load, or its options are refused: the file fails.    *)
EnvironmentFails ==
  /\ at = "environment" /\ Needed /\ Then("end")
  /\ \/ loadTestEnvironmentModule /\ envModule' = "failed"
     \/ Fault /\ envModule \notin {"none", "failed"} /\ UNCHANGED envModule
  /\ result' = "fail"
  /\ Pin(FALSE)
  /\ UNCHANGED <<taskVars, lastBuildId, globalVars, dom, cleanups, loaderVars,
                 fixtures, unhandled>>

(* Enough tests have failed elsewhere, or coverage does not start: the       *)
(* environment stays, as no clean-up is registered yet.                      *)
EndsEarly(r) ==
  /\ at = "prepared" /\ task.kind = "run" /\ Then("end")
  /\ Fault
  /\ result' = r
  /\ UNCHANGED <<taskVars, lastBuildId, globalVars, envVars, cleanups,
                 loaderVars, fixtures, unhandled>>

(* Every runtime chunk drops its setup modules, and the entry if it is its.  *)
CleanersRun(p, e) ==
  IF runtimes[p] = None THEN None
  ELSE [runtimes[p] EXCEPT
          !.cache = (@ \ runtimes[p].setups) \ (runtimes[p].entries \cap {e}),
          !.setups = {}]

Assets ==
  /\ at = "prepared" /\ Then("setup")
  /\ cleanups' = cleanups \cup (IF config.dom /\ config.isolate THEN {"dom"}
                                ELSE {})
  /\ runtimes' = IF config.isolate THEN runtimes
                 ELSE [p \in P |-> CleanersRun(p, task.entry)]
  /\ UNCHANGED <<taskVars, lastBuildId, globalVars, envVars, chunks, kept,
                 hook, retained, evaluated, threw, fixtures, unhandled,
                 result, faults>>

-----------------------------------------------------------------------------
(* Loading.  A chunk that is cached is not evaluated again; a runtime chunk  *)
(* that is evaluated has a module cache of its own.                          *)
Cached == chunks[Project.format]
NewRuntime == [build |-> build, cache |-> {}, setups |-> {}, entries |-> {}]
LoadedRuntime ==
  IF Runtime(task.project) \in Cached THEN runtimes[task.project]
  ELSE NewRuntime

Evaluations(ids) ==
  {[task |-> n, build |-> LoadedRuntime.build, project |-> task.project,
    id |-> i] : i \in ids \ LoadedRuntime.cache}

Load(chunk, ids, setups, entries) ==
  /\ chunks' = [chunks EXCEPT ![Project.format] =
                  @ \cup {Runtime(task.project), chunk}]
  /\ runtimes' = [runtimes EXCEPT ![task.project] =
       [LoadedRuntime EXCEPT
          !.cache = @ \cup ids,
          !.setups = @ \cup (IF chunk \in Cached THEN {} ELSE setups),
          !.entries = @ \cup (IF chunk \in Cached THEN {} ELSE entries)]]
  /\ evaluated' = evaluated \cup
       (IF chunk \in Cached THEN {} ELSE Evaluations(ids))
  /\ hook' = (hook \/ Project.federation)
  /\ UNCHANGED <<kept, retained>>

LoadSetup ==
  /\ at = "setup" /\ Then("entry")
  /\ Load(Setup(task.project), {"setup"}, {"setup"}, {})
  /\ UNCHANGED <<taskVars, lastBuildId, globalVars, envVars, cleanups, threw,
                 fixtures, unhandled, result, faults>>

(* The registration that ends a setup file is not reached.                   *)
SetupThrows ==
  /\ at = "setup" /\ Then("end") /\ Fault
  /\ "setup" \notin LoadedRuntime.cache
  /\ Load(Setup(task.project), {"setup"}, {}, {})
  /\ threw' = threw \cup {<<build, task.project>>}
  /\ result' = "fail"
  /\ UNCHANGED <<taskVars, lastBuildId, globalVars, envVars, cleanups,
                 fixtures, unhandled>>

LoadEntry ==
  /\ at = "entry" /\ Then("tests")
  /\ Load(Entry(task.entry), Entries[task.entry].imports \cup {task.entry}, {},
          {task.entry} \cup (Entries[task.entry].imports \cap DOMAIN Entries))
  /\ UNCHANGED <<taskVars, lastBuildId, globalVars, envVars, cleanups, threw,
                 fixtures, unhandled, result, faults>>

-----------------------------------------------------------------------------
(* The tests run, and may set up worker fixtures.  What is thrown out of     *)
(* them is caught by the listeners.                                          *)
SetUpFixture ==
  /\ at = "tests" /\ task.kind = "run"
  /\ fixtures' = fixtures \cup {runtimes[task.project].build}
  /\ UNCHANGED <<taskVars, at, lastBuildId, globalVars, envVars, cleanups,
                 loaderVars, unhandled, result, faults>>

Raises ==
  /\ at \in {"environment", "prepared", "setup", "entry", "tests"}
  /\ n \in listeners /\ Fault
  /\ unhandled' = unhandled + 1
  /\ UNCHANGED <<taskVars, at, lastBuildId, globalVars, envVars, cleanups,
                 loaderVars, fixtures, result>>

(* Mutant of TestsEnd: only what the runner reports.                         *)
TestsEndAsReported(r) ==
  /\ at = "tests" /\ Then("end")
  /\ result' = r
  /\ UNCHANGED <<taskVars, lastBuildId, globalVars, envVars, cleanups,
                 loaderVars, fixtures, unhandled, faults>>

(* A test or an async leak fails the file, or an error nobody handled.       *)
TestsEnd(r) ==
  /\ at = "tests" /\ Then("end")
  /\ result' = IF unhandled > 0 THEN "fail" ELSE r
  /\ UNCHANGED <<taskVars, lastBuildId, globalVars, envVars, cleanups,
                 loaderVars, fixtures, unhandled, faults>>

-----------------------------------------------------------------------------

(* clearModuleCache of this file's loader.                                   *)
clearModuleCache(format, p) ==
  /\ kept' = [kept EXCEPT ![format] = @ \cup {Runtime(p)}]
  /\ chunks' = [chunks EXCEPT ![format] =
                  @ \cap (kept[format] \cup {Runtime(p)})]

FixturesCleaned ==
  \/ fixtures' = (IF config.isolate THEN {} ELSE fixtures)
       /\ UNCHANGED <<result, faults>>
  \/ /\ config.isolate /\ Fault
     /\ fixtures' = {} /\ result' = "fail"

(* finally: an isolated worker is over.                                      *)
TearDown ==
  /\ at = "end"
  /\ FixturesCleaned
  /\ exitOf' = IF "exit" \in cleanups THEN 0 ELSE exitOf
  /\ dom' = IF "dom" \in cleanups THEN 0 ELSE dom
  /\ IF config.isolate THEN UNCHANGED <<chunks, kept>>
     ELSE clearModuleCache(Project.format, task.project)
  /\ isTeardown' = TRUE
  /\ cleanups' = {}
  /\ at' = "idle"
  /\ UNCHANGED <<taskVars, lastBuildId, consoleOf, apiOf, listeners,
                 activeEnvironmentKey, envModule, runtimes, hook, retained,
                 evaluated, threw, unhandled>>

Next ==
  \/ Rebuild
  \/ \E e \in DOMAIN Entries, kind \in {"run", "collect"} : Begin(e, kind)
  \/ Flush \/ FlushFails \/ Prepare \/ EnvironmentSetUp \/ EnvironmentFails
  \/ \E r \in {"skip", "fail"} : EndsEarly(r)
  \/ Assets \/ LoadSetup \/ SetupThrows \/ LoadEntry
  \/ SetUpFixture \/ Raises
  \/ \E r \in {"pass", "fail"} : TestsEnd(r)
  \/ TearDown

Spec == Init /\ [][Next]_vars

-----------------------------------------------------------------------------
(* Properties.                                                               *)
TypeOK ==
  /\ at \in {"idle", "flush", "prepare", "environment", "prepared", "setup",
             "entry", "tests", "end", "dead"}
  /\ \A f \in Formats : kept[f] \subseteq {Runtime(p) : p \in P}
  /\ \A x \in evaluated : x.task <= n /\ x.build <= build

Of(project, id) ==
  {x \in evaluated : x.project = project /\ x.id = id}
Threw == <<build, task.project>> \in threw

(* Test files and setup files are evaluated again for each file, but for a   *)
(* setup file that once threw; what they import once for each build, however *)
(* the files of several projects follow each other, unless it is a test      *)
(* file; and nothing of an earlier build is served.                          *)
ModulesAreRight ==
  /\ at = "tests" =>
       /\ \E x \in Of(task.project, task.entry) : x.task = n
       /\ Threw \/ \E x \in Of(task.project, "setup") : x.task = n
       /\ runtimes[task.project].build = build
  /\ \A x, y \in evaluated :
       (/\ x.project = y.project /\ x.id = y.id /\ x.build = y.build
        /\ x.task # y.task)
       => x.id \in DOMAIN Entries \cup {"setup"}

(* The tests of a file see the environment, set up once for a reused worker, *)
(* its own APIs or none, the federation fallback only if they are for it,    *)
(* and no fixture of an earlier build.  process.exit is native again         *)
(* whenever a file is over.                                                  *)
GlobalsAreItsOwn ==
  /\ at = "tests" =>
       /\ config.dom <=> dom # 0
       /\ apiOf = (IF Project.globals THEN n ELSE 0)
       /\ hook <=> Project.federation
       /\ fixtures \subseteq {build}
       /\ listeners = {n} /\ consoleOf = n
  /\ at = "idle" => exitOf = 0
  /\ activeEnvironmentKey => (config.dom <=> dom # 0)

(* An error nobody handled fails the file whose tests were running, as does  *)
(* a clean-up of its worker's fixtures.                                      *)
ErrorsCount == at \in {"end", "idle"} /\ unhandled > 0 => result # "pass"

FilesAreServedApart ==
  TypeOK /\ ModulesAreRight /\ GlobalsAreItsOwn /\ ErrorsCount
=============================================================================
