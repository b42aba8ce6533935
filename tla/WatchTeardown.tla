---------------------------- MODULE WatchTeardown ----------------------------
(***************************************************************************)
(* How a watch session starts and ends: the startup of core/runTests.ts,   *)
(* the shared teardown of core/watchSession.ts, and what they start and    *)
(* close: the node executor's dev server and pool, the browser executor's  *)
(* runtime, the global setups.  Cycles are the watch driver's.  A close    *)
(* may arrive at any await: from `q`, a signal or a restart of the session *)
(* on a config change, after which the process runs the next session.      *)
(*                                                                         *)
(* Starts once the teardown exists.  Test files, traces, reruns asked for  *)
(* with a key and the steps of a close that throw (reported, and skipped)  *)
(* are left out.                                                           *)
(***************************************************************************)
EXTENDS WatchDriver

CONSTANTS
  node, browser,
  Sessions,       \* the sets of executors a session may have tests for
  GlobalSetups,   \* the executors whose projects have a globalSetup
  Shortcuts,      \* enableCliShortcuts
  CloseIn         \* windows in which a close may arrive, see CloseMayArrive

(* What the launch and the rebuilds ask of the driver.                       *)
Options(e, trigger) ==
  [executor |-> e, trigger |-> trigger,
   mode |-> IF trigger = "none" THEN "all" ELSE "on-demand",
   update |-> "session", listed |-> FALSE, files |-> {}]

ASSUME TeardownAssumption ==
  /\ node # browser /\ Executors = {node, browser}
  /\ Sessions \subseteq SUBSET Executors \ {{}}
  /\ GlobalSetups \subseteq Executors
  /\ Shortcuts \in BOOLEAN
  /\ CloseIn \subseteq {"install", "notify", "setup"}
  /\ \A e \in Executors : \A trigger \in {"none", "invalidation"} :
       Options(e, trigger) \in Calls

VARIABLES
  sides,       \* the executors with tests to run
  boot,        \* what the startup awaits
  closer,      \* what the close awaits
  awaited,     \* the startup phase it found tracked
  owners,      \* process-level owners held: signal handlers, stdin
  server,      \* runResources: the dev server and the worker pool
  runtime,     \* the browser's watch runtime is up
  work,        \* what the cycle of each executor awaits
  setup,       \* the global setup of each executor
  callbacks    \* globalTeardownCallbacks

sessionVars == <<sides, boot, closer, awaited, owners, server, runtime, work,
                 setup, callbacks>>
tvars == <<vars, sessionVars>>

StartupPhases ==
  {"installing", "validating", "staging", "starting", "awaiting", "failing",
   "leaving", "over"}

InitTeardown ==
  /\ Init
  /\ sides \in Sessions
  /\ boot = "installing"
  /\ closer = "none" /\ awaited = "none"
  /\ owners = {"signals"}
  /\ server = "none" /\ runtime = FALSE
  /\ work = [e \in Executors |-> "idle"]
  /\ setup = [e \in Executors |-> "none"]
  /\ callbacks = {}

HasSetup(e) == e \in GlobalSetups \cap sides

-----------------------------------------------------------------------------
(* watchTeardown.close(): the first call begins the close, with the startup  *)
(* phase tracked at that moment.                                             *)
CloseSession ==
  IF closer # "none" THEN UNCHANGED <<closing, closer, awaited>>
  ELSE /\ closing' = TRUE
       /\ closer' = "pending"
       /\ awaited' = IF boot \in {"validating", "staging"} THEN boot
                     ELSE "none"

(* A cycle is telling the reporters.                                         *)
Notifying == \E c \in Ids : phase[c] = "notifying"

(* A node cycle has yet to begin its global setup, or is at it.              *)
NodeSetupAhead ==
  /\ HasSetup(node) /\ setup[node] \in {"none", "running"}
  /\ \E c \in Ids : calls[c].executor = node /\ phase[c] = "running"

CloseMayArrive ==
  /\ boot = "installing" =>
       Shortcuts /\ (browser \in sides \/ "install" \in CloseIn)
  /\ Notifying => "notify" \in CloseIn
  /\ NodeSetupAhead => "setup" \in CloseIn

RequestClose ==
  /\ closer = "none"
  /\ CloseMayArrive
  /\ CloseSession
  /\ UNCHANGED <<queueVars, phase, settled, state, summary, late, sides, boot,
                 owners, server, runtime, work, setup, callbacks>>

-----------------------------------------------------------------------------
(* ensureRunResources: the start of the dev server and the pool is memoized; *)
(* one that failed is not tried again.                                       *)
EnsureRunResources == server' = IF server = "none" THEN "starting" ELSE server

ServerSettles ==
  /\ server = "starting"
  /\ server' \in {"up", "failed"}
  /\ UNCHANGED <<vars, sides, boot, closer, awaited, owners, runtime, work,
                 setup, callbacks>>

(* A browser global setup is claimed and run by the stage.                   *)
EnterStage ==
  /\ boot' = "staging"
  /\ setup' = [setup EXCEPT ![browser] = IF HasSetup(browser) THEN "running"
                                         ELSE @]
  /\ UNCHANGED server

EnterStarting ==
  /\ boot' = "starting"
  /\ EnsureRunResources
  /\ UNCHANGED setup

Enter(next) == boot' = next /\ UNCHANGED <<server, setup>>

bootRest == <<vars, sides, closer, awaited, runtime, work, callbacks>>

(* addCleanup: what is added after the close is released at once.            *)
AddCleanup(owner) ==
  owners' = IF closer = "closed" THEN owners ELSE owners \cup {owner}

(* The shortcuts are installed.  A session without a browser side asks      *)
(* nothing before it starts the server.                                      *)
Installed ==
  /\ boot = "installing"
  /\ IF Shortcuts THEN AddCleanup("stdin") ELSE UNCHANGED owners
  /\ IF browser \notin sides THEN EnterStarting
     ELSE IF node \in sides THEN Enter("validating")
     ELSE IF closing THEN Enter("over")
     ELSE EnterStage
  /\ UNCHANGED bootRest

(* validateRunDependencies                                                   *)
Validated ==
  /\ boot = "validating"
  /\ \/ IF closing THEN Enter("over") ELSE EnterStage
     \/ Enter("failing")
  /\ UNCHANGED <<bootRest, owners>>

(* The first browser cycle is the launch of the host.                        *)
Launch ==
  /\ IF browser \in sides THEN RunCycle(Options(browser, "none"))
     ELSE UNCHANGED vars
  /\ boot' = IF browser \in sides /\ node \notin sides THEN "awaiting"
             ELSE "over"
  /\ UNCHANGED server

(* runBrowserGlobalSetupStage                                                *)
Staged ==
  /\ boot = "staging"
  /\ \/ /\ setup' = [setup EXCEPT ![browser] = IF @ = "running" THEN "done"
                                               ELSE @]
        /\ callbacks' = callbacks \cup {e \in {browser} : HasSetup(e)}
        /\ IF ~closing /\ node \notin sides THEN Launch
           ELSE /\ UNCHANGED vars
                /\ IF closing THEN boot' = "leaving" /\ UNCHANGED server
                   ELSE boot' = "starting" /\ EnsureRunResources
     \/ /\ HasSetup(browser)
        /\ boot' = "failing"
        /\ setup' = [setup EXCEPT ![browser] = "failed"]
        /\ UNCHANGED <<vars, callbacks, server>>
  /\ UNCHANGED <<sides, closer, awaited, owners, runtime, work>>

Started ==
  /\ boot = "starting"
  /\ server # "starting"
  /\ IF server # "failed" /\ ~closing THEN Launch
     ELSE /\ boot' = IF server = "failed" THEN "failing" ELSE "leaving"
          /\ UNCHANGED <<vars, server>>
  /\ UNCHANGED <<sides, closer, awaited, owners, runtime, work, setup,
                 callbacks>>

Launched ==
  /\ boot = "awaiting"
  /\ phase[1] \in {"done", "failed"}
  /\ Enter(IF phase[1] = "failed" THEN "failing" ELSE "over")
  /\ UNCHANGED <<bootRest, owners>>

(* The catch clause of the startup, and its early returns, await the close.  *)
StartupFails ==
  /\ boot = "failing"
  /\ Notifying => "notify" \in CloseIn
  /\ boot' = "leaving"
  /\ CloseSession
  /\ UNCHANGED <<queueVars, phase, settled, state, summary, late, sides,
                 owners, server, runtime, work, setup, callbacks>>

Left ==
  /\ boot = "leaving"
  /\ closer = "closed"
  /\ Enter("over")
  /\ UNCHANGED <<bootRest, owners>>

BootStep == Installed \/ Validated \/ Staged \/ Started \/ Launched
              \/ StartupFails \/ Left

-----------------------------------------------------------------------------
closerRest == <<vars, sides, boot, awaited, work, setup>>

(* Mutant: a close waits for the end of the startup.                         *)
StartupOver ==
  /\ closer = "pending"
  /\ boot = "over"
  /\ closer' = "browser"
  /\ UNCHANGED <<closerRest, owners, server, runtime, callbacks>>

(* The tracked phase has settled.                                            *)
PendingSettled ==
  /\ closer = "pending"
  /\ boot # awaited
  /\ closer' = "browser"
  /\ UNCHANGED <<closerRest, owners, server, runtime, callbacks>>

Running(e) == \E c \in Ids : calls[c].executor = e /\ phase[c] = "running"

(* browserExecutor.close: waits for the cycle in flight.                     *)
CloseBrowser ==
  /\ closer = "browser"
  /\ ~Running(browser)
  /\ runtime' = FALSE
  /\ closer' = "node"
  /\ UNCHANGED <<closerRest, owners, server, callbacks>>

(* Mutant: a start in flight is not settled first.                           *)
CloseStartedNode ==
  /\ closer = "node"
  /\ server' = IF server = "up" THEN "none" ELSE server
  /\ closer' = "draining"
  /\ UNCHANGED <<closerRest, owners, runtime, callbacks>>

(* nodeExecutor.close: waits for a start in flight, not for its cycle.       *)
CloseNode ==
  /\ closer = "node"
  /\ server # "starting"
  /\ server' = IF server = "up" THEN "none" ELSE server
  /\ closer' = "draining"
  /\ UNCHANGED <<closerRest, owners, runtime, callbacks>>

(* runGlobalTeardown: drains the callbacks there are now.                    *)
Drain ==
  /\ closer = "draining"
  /\ callbacks' = {}
  /\ closer' = "drained"
  /\ UNCHANGED <<closerRest, owners, server, runtime>>

Closed ==
  /\ closer = "drained"
  /\ owners' = {}
  /\ closer' = "closed"
  /\ UNCHANGED <<closerRest, server, runtime, callbacks>>

CloserStep == PendingSettled \/ CloseBrowser \/ CloseNode \/ Drain \/ Closed

-----------------------------------------------------------------------------
cycleRest == <<sides, boot, closer, awaited, owners>>
At(c, what) ==
  phase[c] = "running" /\ work[calls[c].executor] = what

(* A rebuild signals: the dev server's, or the browser host's.  The bound on *)
(* the calls leaves one for the launch.                                      *)
Rebuild(e) ==
  /\ boot \notin {"awaiting", "over"} => Len(calls) + 1 < MaxCalls
  /\ IF e = node THEN server \in {"starting", "up"} ELSE runtime
  /\ RunCycle(Options(e, "invalidation"))
  /\ UNCHANGED sessionVars

DriverStep(c) ==
  /\ Begin(c) \/ Finalized(c)
  /\ UNCHANGED sessionVars

(* The executor's runCycle is called: whether it was closed is not asked.    *)
StartCycle(c) ==
  /\ Notified(c)
  /\ \/ /\ calls[c].executor = node
        /\ work' = [work EXCEPT ![node] = "resources"]
        /\ EnsureRunResources
        /\ UNCHANGED runtime
     \/ /\ calls[c].executor = browser
        /\ work' = [work EXCEPT ![browser] = "tests"]
        /\ runtime' = TRUE
        /\ UNCHANGED server
  /\ UNCHANGED <<cycleRest, setup, callbacks>>

(* claimGlobalSetupOnce: a setup that was tried is not tried again.          *)
ClaimsSetup == HasSetup(node) /\ setup[node] = "none"

(* The node cycle has its resources.  Its stats are pulled even from a dev   *)
(* server that is closed by then.                                            *)
GotResources(c) ==
  /\ At(c, "resources")
  /\ server \in {"up", "none"}
  /\ work' = [work EXCEPT ![node] = IF ClaimsSetup THEN "setup" ELSE "tests"]
  /\ setup' = [setup EXCEPT ![node] = IF ClaimsSetup THEN "running" ELSE @]
  /\ UNCHANGED <<vars, cycleRest, server, runtime, callbacks>>

(* runGlobalSetup: its teardown is registered when it has succeeded.         *)
SetupSettles(c) ==
  /\ At(c, "setup")
  /\ \/ /\ setup' = [setup EXCEPT ![node] = "done"]
        /\ callbacks' = callbacks \cup {node}
        /\ work' = [work EXCEPT ![node] = "tests"]
     \/ /\ setup' = [setup EXCEPT ![node] = "failed"]
        /\ work' = [work EXCEPT ![node] = "errors"]
        /\ UNCHANGED callbacks
  /\ UNCHANGED <<vars, cycleRest, server, runtime>>

CycleRan(c) ==
  /\ At(c, "tests") \/ At(c, "errors")
  /\ Ran(c)
  /\ work' = [work EXCEPT ![calls[c].executor] = "idle"]
  /\ UNCHANGED <<cycleRest, server, runtime, setup, callbacks>>

(* A cycle that was rejected; the browser host cleans up a failed launch.    *)
CycleFails(c) ==
  /\ ~At(c, "setup")
  /\ At(c, "resources") => server # "starting"
  /\ Fail(c)
  /\ work' = [work EXCEPT ![calls[c].executor] = "idle"]
  /\ runtime' = (runtime /\ (calls[c].executor = node \/ browser \in settled))
  /\ UNCHANGED <<cycleRest, server, setup, callbacks>>

CycleNext(c) == DriverStep(c) \/ StartCycle(c) \/ GotResources(c)
                  \/ SetupSettles(c) \/ CycleRan(c) \/ CycleFails(c)

-----------------------------------------------------------------------------
NextTeardown ==
  \/ RequestClose \/ ServerSettles
  \/ BootStep \/ CloserStep
  \/ \E e \in Executors : Rebuild(e)
  \/ \E c \in Ids : CycleNext(c)

SpecTeardown == InitTeardown /\ [][NextTeardown]_tvars

(* What the startup, the close and a cycle await settles, user code (global  *)
(* setups and their teardowns, tests) included.                              *)
FairSpecTeardown ==
  /\ SpecTeardown
  /\ WF_tvars(ServerSettles) /\ WF_tvars(BootStep) /\ WF_tvars(CloserStep)
  /\ WF_tvars(\E c \in Ids : CycleNext(c))

-----------------------------------------------------------------------------
TypeOKTeardown ==
  /\ TypeOK
  /\ sides \in Sessions
  /\ boot \in StartupPhases
  /\ closer \in {"none", "pending", "browser", "node", "draining", "drained",
                 "closed"}
  /\ awaited \in {"none", "validating", "staging"}
  /\ owners \subseteq {"signals", "stdin"}
  /\ server \in {"none", "starting", "up", "failed"}
  /\ runtime \in BOOLEAN
  /\ work \in [Executors -> {"idle", "resources", "setup", "tests", "errors"}]
  /\ setup \in [Executors -> {"none", "running", "done", "failed"}]
  /\ callbacks \subseteq Executors

(* When the close has returned, and what was under way has come to its end,  *)
(* nothing the session started is left for the next session to start on top  *)
(* of: no server, runtime, process-level owner or undrained global setup.    *)
NothingOutlivesClose ==
  /\ closer = "closed" /\ boot = "over"
  /\ \A c \in Ids : phase[c] \in Over
  => /\ server \in {"none", "failed"} /\ ~runtime
     /\ owners = {} /\ callbacks = {}

Testing(e) == /\ work[e] = "tests"
              /\ IF e = node THEN server = "up" ELSE runtime

(* Test files of an executor run only between its global setup and the       *)
(* teardown of it (a setup that failed is not tried again).                  *)
TestsWithinSetup ==
  \A e \in Executors :
    HasSetup(e) /\ Testing(e) => setup[e] = "failed" \/ e \in callbacks

(* The dev server's pool reads the environment the browser's global setup    *)
(* changes: it is never started before that setup is done.                   *)
BrowserSetupFirst ==
  HasSetup(browser) /\ server # "none" => setup[browser] = "done"

(* The three together, and the typing they rest on.                          *)
SessionIsContained ==
  /\ TypeOKTeardown /\ NothingOutlivesClose
  /\ TestsWithinSetup /\ BrowserSetupFirst

(* A close that was asked for returns, and so does the startup.              *)
CloseReturns == <>[](closing => closer = "closed" /\ boot = "over")
==============================================================================
