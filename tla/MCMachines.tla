----------------------------- MODULE MCMachines -----------------------------
(* The small state machines of the project for TLC, side by side: `part`     *)
(* says which of them a behavior is of. They share the variables v1 to v26,  *)
(* which each takes in the order of its own; those it has no use for are 0.  *)
EXTENDS Integers, Sequences, TLC

CONSTANTS f1, f2, f3, None

VARIABLES part, v1, v2, v3, v4, v5, v6, v7, v8, v9, v10, v11, v12, v13, v14,
          v15, v16, v17, v18, v19, v20, v21, v22, v23, v24, v25, v26

From25 == <<v25, v26>>
From20 == <<v20, v21, v22, v23, v24, From25>>
From11 == <<v11, v12, v13, v14, v15, v16, v17, v18, v19, From20>>
From10 == <<v10, From11>>
From7 == <<v7, v8, v9, From10>>
From6 == <<v6, From7>>
vars == <<part, v1, v2, v3, v4, v5, From6>>

Zero25 == /\ v25 = 0 /\ v26 = 0
Zero20 == /\ v20 = 0 /\ v21 = 0 /\ v22 = 0 /\ v23 = 0 /\ v24 = 0 /\ Zero25
Zero11 == /\ v11 = 0 /\ v12 = 0 /\ v13 = 0 /\ v14 = 0 /\ v15 = 0 /\ v16 = 0
          /\ v17 = 0 /\ v18 = 0 /\ v19 = 0 /\ Zero20
Zero10 == /\ v10 = 0 /\ Zero11
Zero7 == /\ v7 = 0 /\ v8 = 0 /\ v9 = 0 /\ Zero10
Zero6 == /\ v6 = 0 /\ Zero7

-----------------------------------------------------------------------------
(* A session of three calls: f3 is created while it watches.                 *)
TestFiles == {f1, f2, f3}
AllCalls ==
  [executor : {"node"},
   trigger : {"none", "invalidation", "run-all", "run-failed",
              "update-snapshot"},
   mode : {"all", "on-demand"}, update : {"session", "all"},
   listed : BOOLEAN, files : SUBSET TestFiles]

Rebuild == INSTANCE WatchRebuild WITH
  Executors <- {"node"}, node <- "node", Files <- TestFiles, Planned <- {f1,
  f2}, Calls <- AllCalls, MaxCalls <- 3, LateEvents <- FALSE,
  MaxVersion <- 2, MaxSetup <- 2, disk <- v1, setupDisk <- v2, built <- v3,
  setupBuilt <- v4, hook <- v5, nodeFileFilters <- v6, baseline <- v7,
  pulled <- v8, selected <- v9, deleted <- v10, results <- v11, last <- v12,
  ran <- v13, ranSetup <- v14, calls <- v15, cycleOf <- v16, phase <- v17,
  scope <- v18, pending <- v19, settled <- v20, closing <- v21, state <- v22,
  summary <- v23, late <- v24

-----------------------------------------------------------------------------
(* Three runs of two covered files and a browser file, which is not.         *)
HistoryFiles == {<<"n", 1>>, <<"n", 2>>, <<"b", 3>>}
RunFlags ==
  {{}, {"onlyFailures"}, {"onlyFailures", "pattern"},
   {"onlyFailures", "bail"}, {"related"}, {"watch"}}

History == INSTANCE FailureHistory WITH
  Files <- HistoryFiles, Covered <- {"n"}, Durations <- {2, 9},
  Flags <- RunFlags, MaxAge <- 1, MaxRuns <- 3, present <- v1, cache <- v2,
  now <- v3, run <- v4, failedAt <- v5

-----------------------------------------------------------------------------
(* Two shards of three test files: two projects share a path, a source of    *)
(* each kind coverage tells apart.                                           *)
K1 == <<"p", "x">>
K2 == <<"q", "x">>
K3 == <<"p", "y">>
ShardKeys == {K1, K2, K3}
ShardOf == [k \in ShardKeys |-> IF k = K3 THEN 2 ELSE 1]
Sources ==
  [a |-> {"included"}, b |-> {"included"}, u |-> {"included"},
   s |-> {"setup"}, x |-> {"external", "included"}, o |-> {}]
Covers ==
  [k \in ShardKeys |->
     CASE k = K1 -> [a |-> {1}, s |-> {1}]
       [] k = K2 -> [a |-> {2}, x |-> {1}]
       [] k = K3 -> [b |-> {1}, o |-> {1, 2}]]
AtLeast(value) ==
  [kind |-> "global", files |-> {}, perFile |-> FALSE, value |-> value]
OfGlob(files, perFile, value) ==
  [kind |-> "glob", files |-> files, perFile |-> perFile, value |-> value]
Reported ==
  [changed |-> DOMAIN Sources, coverage |-> TRUE, deferrable |-> TRUE,
   reportOnFailure |-> FALSE, include |-> TRUE, allowExternal |-> FALSE,
   passWithNoTests |-> FALSE, clean |-> TRUE, cleanup |-> TRUE,
   layout |-> "inside", thresholds |-> {AtLeast(-3)}]
ShardConfigs ==
  {Reported, [Reported EXCEPT !.coverage = FALSE],
   [Reported EXCEPT !.changed = {"a", "u"}],
   [Reported EXCEPT !.include = FALSE, !.reportOnFailure = TRUE,
                    !.thresholds = {AtLeast(75), OfGlob({"a"}, FALSE, 100)},
                    !.layout = "same", !.allowExternal = TRUE],
   [Reported EXCEPT !.deferrable = FALSE, !.cleanup = FALSE,
                    !.layout = "around",
                    !.thresholds = {OfGlob({"b", "u"}, TRUE, 50)}],
   [Reported EXCEPT !.clean = FALSE, !.layout = "apart",
                    !.thresholds = {OfGlob({"none"}, FALSE, 0)}]}

Sharded == INSTANCE ShardedRuns WITH
  Shards <- {1, 2}, Keys <- ShardKeys, ShardOf <- ShardOf,
  Events <- <<"start", "case">>, Covers <- Covers, Sources <- Sources,
  Lines <- {1, 2}, Configs <- ShardConfigs, config <- v1, done <- v2,
  outcome <- v3, shard <- v4, disk <- v5, merge <- v6

-----------------------------------------------------------------------------
Modules == INSTANCE ModuleMocks WITH
  Ids <- {"a", "d"}, Static <- "a", Manual <- "m", MaxCalls <- 6,
  None <- None, factories <- v1, cache <- v2, originals <- v3,
  captured <- v4, alias <- v5, made <- v6, mocked <- v7, seen <- v8,
  calls <- v9

-----------------------------------------------------------------------------
Stubs == INSTANCE ScopedStubs WITH
  Names <- {"x"}, Values <- {"1", None}, Options <- {"all"}, MaxCalls <- 5,
  None <- None, value <- v1, stacks <- v2, timers <- v3, timerStack <- v4,
  scopes <- v5, config <- v6, kept <- v7, base <- v8, live <- v9,
  calls <- v10

-----------------------------------------------------------------------------
ProjectOfMock == [m \in {"f", "g"} |-> IF m = "f" THEN "p" ELSE "q"]

Spied == INSTANCE Spies WITH
  Mocks <- {"f", "g"}, ProjectOf <- ProjectOfMock, Shared <- {"f"},
  Impls <- {"one", "two"}, MaxCalls <- 6, None <- None, mock <- v1,
  registry <- v2, alive <- v3, project <- v4, order <- v5, scopes <- v6,
  own <- v7, ran <- v8, calls <- v9

-----------------------------------------------------------------------------
Browsers == INSTANCE PlaywrightFixtures WITH
  Tests <- {"t1", "t2"}, KeyOf <- [t \in {"t1", "t2"} |-> "k"],
  UsesContext <- {"t1"}, Modes <- {"on-first-retry", "retain-on-failure"},
  Retries <- 1, MaxFaults <- 1, None <- None, mode <- v1, browser <- v2,
  cache <- v3, count <- v4, requested <- v5, closing <- v6, test <- v7,
  disk <- v8, over <- v9, faults <- v10

-----------------------------------------------------------------------------
(* Four test files of three projects; a1 imports a2, which is itself a test  *)
(* file.                                                                     *)
ProjectWith(format, globals, federation) ==
  [format |-> format, globals |-> globals, federation |-> federation]
WorkerProjects ==
  [a |-> ProjectWith("esm", TRUE, TRUE), b |-> ProjectWith("esm", FALSE, FALSE),
   c |-> ProjectWith("cjs", FALSE, FALSE)]
EntryOf(project, imports) == [project |-> project, imports |-> imports]
WorkerEntries ==
  [a1 |-> EntryOf("a", {"m", "a2"}), a2 |-> EntryOf("a", {"m"}),
   b1 |-> EntryOf("b", {"m"}), c1 |-> EntryOf("c", {"m"})]
WorkerConfigs ==
  {[isolate |-> FALSE, dom |-> TRUE], [isolate |-> TRUE, dom |-> TRUE],
   [isolate |-> FALSE, dom |-> FALSE]}

Files == INSTANCE WorkerFiles WITH
  Projects <- WorkerProjects, Entries <- WorkerEntries,
  Configs <- WorkerConfigs, MaxTasks <- 3, MaxBuilds <- 2, MaxFaults <- 1,
  None <- None, config <- v1, build <- v2, n <- v3, at <- v4, task <- v5,
  lastBuildId <- v6, exitOf <- v7, consoleOf <- v8, apiOf <- v9,
  listeners <- v10, isTeardown <- v11, activeEnvironmentKey <- v12,
  dom <- v13, envModule <- v14, cleanups <- v15, chunks <- v16, kept <- v17,
  runtimes <- v18, hook <- v19, retained <- v20, fixtures <- v21,
  unhandled <- v22, result <- v23, evaluated <- v24, threw <- v25,
  faults <- v26

-----------------------------------------------------------------------------
(* Three test files of two projects; b does not exist when it starts.        *)
BrowserProjectOf == [a |-> "p", b |-> "p", c |-> "q"]

Reruns == INSTANCE BrowserRebuilds WITH
  Projects <- {"p", "q"}, ProjectOf <- BrowserProjectOf, Initial <- {"a",
  "c"}, MaxEdits <- 2, MaxRequests <- 0, MaxFaults <- 1, headed <- v1,
  disk <- v2, setupDisk <- v3, bundle <- v4, loaded <- v5, hook <- v6,
  baseline <- v7, pending <- v8, hooksEnabled <- v9, lastTestFiles <- v10,
  planned <- v11, dispatches <- v12, queued <- v13, left <- v14, ran <- v15,
  lost <- v16, edits <- v17, requests <- v18, faults <- v19

ASSUME InstancesAreLegal == Rebuild!RebuildAssumption

-----------------------------------------------------------------------------
Init ==
  \/ part = "rebuild" /\ Rebuild!InitRebuild /\ Zero25
  \/ part = "history" /\ History!Init /\ Zero6
  \/ part = "sharded" /\ Sharded!Init /\ Zero7
  \/ part = "mocks" /\ Modules!Init /\ Zero10
  \/ part = "stubs" /\ Stubs!Init /\ Zero11
  \/ part = "spies" /\ Spied!Init /\ Zero10
  \/ part = "browsers" /\ Browsers!Init /\ Zero11
  \/ part = "files" /\ Files!Init
  \/ part = "reruns" /\ Reruns!Init /\ Zero20

Next ==
  \/ /\ part = "rebuild" /\ Rebuild!NextRebuild
     /\ UNCHANGED <<part, From25>>
  \/ /\ part = "history" /\ History!Next
     /\ UNCHANGED <<part, From6>>
  \/ /\ part = "sharded" /\ Sharded!Next
     /\ UNCHANGED <<part, From7>>
  \/ /\ part = "mocks" /\ Modules!Next
     /\ UNCHANGED <<part, From10>>
  \/ /\ part = "stubs" /\ Stubs!Next
     /\ UNCHANGED <<part, From11>>
  \/ /\ part = "spies" /\ Spied!Next
     /\ UNCHANGED <<part, From10>>
  \/ /\ part = "browsers" /\ Browsers!Next
     /\ UNCHANGED <<part, From11>>
  \/ /\ part = "files" /\ Files!Next
     /\ UNCHANGED part
  \/ /\ part = "reruns" /\ Reruns!Next
     /\ UNCHANGED <<part, From20>>

Spec == Init /\ [][Next]_vars

Symmetry == Permutations({f1, f2})

-----------------------------------------------------------------------------
(* A watch session (WatchRebuild): no edit goes unrun, and what is reported  *)
(* of a file is its latest run.                                              *)
(* Edits in a browser watch session (BrowserRebuilds): when all is quiet     *)
(* each test file was run as it is.                                          *)
RebuildsAreRight ==
  /\ part = "rebuild" => Rebuild!RebuildsAreRight
  /\ part = "reruns" => Reruns!BrowserIsUpToDate

(* Runs that share a results cache (FailureHistory): `onlyFailures` runs     *)
(* every file known to have failed, and a run starts with them.              *)
HistorySelects == part = "history" => History!HistorySelects

(* Shards and merge-reports (ShardedRuns): the merged run reports, and is    *)
(* judged, as the whole would have been.                                     *)
MergedIsTheRun == part = "sharded" => Sharded!MergedIsTheRun

(* Module mocks (ModuleMocks): what a test file imports is the latest mock   *)
(* of the module.                                                            *)
(* Stubs and fake timers (ScopedStubs): disposing of the scopes, in whatever *)
(* order, leaves what was there before.                                      *)
(* Mock functions (Spies): a call runs what the mock was last told to run.   *)
DoublesAreTrue ==
  /\ part = "mocks" => Modules!ImportsAreTheLatestMock
  /\ part = "stubs" => Stubs!ScopesUnwind
  /\ part = "spies" => Spied!RunsWhatItWasTold

(* Playwright fixtures (PlaywrightFixtures): a browser outlives the tests    *)
(* that use it, and no longer than the worker.                               *)
(* ... and a trace is kept for the attempts the mode asks for.               *)
BrowsersServeTests ==
  /\ part = "browsers" => Browsers!BrowsersAreReleased
  /\ part = "browsers" => Browsers!TracesFollowTheVerdict

(* Test files one after another in a worker process (WorkerFiles): modules   *)
(* are evaluated as often as they should be, and each file finds the globals *)
(* it should.                                                                *)
FilesAreServedApart == part = "files" => Files!FilesAreServedApart

=============================================================================
