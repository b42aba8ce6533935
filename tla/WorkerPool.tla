----------------------------- MODULE WorkerPool -----------------------------
(***************************************************************************)
(* The worker pool of packages/core/src/pool/pool.ts: callers of           *)
(* `dispatch` compete for at most MaxWorkers worker processes, park in     *)
(* `slotWaiters` when none can be had, reuse idle runners (isolate: false) *)
(* or retire them in the background, and are all turned away by `close`.   *)
(*                                                                         *)
(* The pool runs in one JavaScript thread.  A callback runs to its next    *)
(* await without interruption, so a callback is one action.  The loop of   *)
(* `acquireRunner` is the exception: each of its iterations is an action,  *)
(* and `turn` keeps every other callback out until the loop has claimed a  *)
(* runner or parked.  Resolving a parked caller's promise only queues its  *)
(* continuation (`ready`): other callbacks may run before it does.         *)
(*                                                                         *)
(* A runner is spawned on behalf of a task and a task spawns at most one   *)
(* runner, so a runner is named by the task that spawned it.               *)
(***************************************************************************)
EXTENDS Integers, Sequences, FiniteSets, SequencesExt

CONSTANTS
  Tasks,        \* the dispatched test files, and the names of their runners
  EnvOf,        \* environmentKey of a task, and of the runner it spawns
  None,         \* no task, no runner
  MaxWorkers,   \* options.maxWorkers
  MinWorkers,   \* options.minWorkers
  Options       \* the kinds of pools there are, see `options`

ASSUME PoolAssumption ==
  /\ IsFiniteSet(Tasks)
  /\ None \notin Tasks
  /\ MaxWorkers \in Nat \ {0}
  /\ MinWorkers \in Nat
  /\ Options \subseteq [isolate : BOOLEAN, gated : BOOLEAN, watch : BOOLEAN]

VARIABLES
  options,      \* what kind of pool this is: it never changes
  call,         \* progress of each task's dispatch
  serves,       \* the runner a task was handed
  slotWaiters,  \* this.slotWaiters
  ready,        \* waiters resolved, continuation still queued
  turn,         \* the task whose acquireRunner loop is executing
  active,       \* this.activeRunners
  idle,         \* this.idleRunners
  stopping,     \* this.stoppingRunners (and stoppingPromises)
  runner,       \* state of each runner and of its worker process
  workerId,     \* runner.workerId, 0 before it is spawned
  slotInUse,    \* this.slotInUse
  sampled,      \* the gate holds a memory sample
  polling,      \* the gate's pollTimer is armed
  cleanup,      \* worker fixture cleanup the host asked of each runner
  stopErrors,   \* this.workerStopErrors, as the runners they come from
  reports,      \* how often an error of each runner was handed to a caller
  drain,        \* progress of cleanupWorkerFixtures / drainWorkerStopErrors
  drainWaits,   \* the stop promises that drain awaits
  closing,      \* progress of close()
  closeWaits    \* the stop promises that close awaits

callVars  == <<call, serves, turn>>
queueVars == <<slotWaiters, ready>>
poolVars  == <<active, idle, stopping>>
procVars  == <<runner, workerId, slotInUse>>
gateVars  == <<sampled, polling>>
errVars   == <<cleanup, stopErrors, reports>>
drainVars == <<drain, drainWaits>>
closeVars == <<closing, closeWaits>>
vars == <<options, callVars, queueVars, poolVars, procVars, gateVars, errVars,
          drainVars, closeVars>>

(* options.isolate; options.memoryGate is present (the forks transport);     *)
(* watch mode, in which the pool outlives a run.                             *)
Isolate == options.isolate
Gated == options.gated
Watch == options.watch

-----------------------------------------------------------------------------
CallStates == {"idle", "acquiring", "parked", "starting", "running", "lost",
               "resolved", "rejected"}

(* "usable" is PoolRunner.isUsable(); "unusable" is a runner whose worker is *)
(* alive but crashed, poisoned or never acknowledged its start; "exited" has *)
(* no live worker.                                                           *)
RunnerStates == {"none", "starting", "usable", "unusable", "exited"}

TypeOK ==
  /\ options \in Options
  /\ call \in [Tasks -> CallStates]
  /\ serves \in [Tasks -> Tasks \cup {None}]
  /\ slotWaiters \in Seq(Tasks)
  /\ ready \in Seq(Tasks)
  /\ turn \in Tasks \cup {None}
  /\ active \in SUBSET Tasks
  /\ idle \in Seq(Tasks)
  /\ stopping \in SUBSET Tasks
  /\ runner \in [Tasks -> RunnerStates]
  /\ workerId \in [Tasks -> 0..MaxWorkers]
  /\ slotInUse \in SUBSET (1..MaxWorkers)
  /\ sampled \in BOOLEAN
  /\ polling \in BOOLEAN
  /\ cleanup \in [Tasks -> {"none", "asked", "done", "failed"}]
  /\ stopErrors \in SUBSET Tasks
  /\ reports \in [Tasks -> Nat]
  /\ drain \in {"none", "waiting", "done"}
  /\ drainWaits \in SUBSET Tasks
  /\ closing \in {"open", "stopping", "draining", "closed"}
  /\ closeWaits \in SUBSET Tasks

Init ==
  /\ options \in Options
  /\ call = [t \in Tasks |-> "idle"]
  /\ serves = [t \in Tasks |-> None]
  /\ slotWaiters = <<>>
  /\ ready = <<>>
  /\ turn = None
  /\ active = {}
  /\ idle = <<>>
  /\ stopping = {}
  /\ runner = [t \in Tasks |-> "none"]
  /\ workerId = [t \in Tasks |-> 0]
  /\ slotInUse = {}
  /\ sampled = FALSE
  /\ polling = FALSE
  /\ cleanup = [t \in Tasks |-> "none"]
  /\ stopErrors = {}
  /\ reports = [t \in Tasks |-> 0]
  /\ drain = "none"
  /\ drainWaits = {}
  /\ closing = "open"
  /\ closeWaits = {}

-----------------------------------------------------------------------------
(* Definitions whose comment starts with "Mutant" are wrong on purpose: each *)
(* is a plausible bug in the definition that follows it, listed in           *)
(* PROJECT.json with the property that notices it.                           *)

(* this.inFlightCount                                                        *)
InFlightCount == Cardinality(active) + Len(idle) + Cardinality(stopping)

(* canSpawnNewWorker: what the gate may answer.  It always admits the first  *)
(* worker and never defers before its first sample; afterwards the answer is *)
(* a reading of the machine's memory, which is not modelled.                 *)
GateAnswers ==
  IF Gated /\ sampled /\ InFlightCount > 0 THEN BOOLEAN ELSE {TRUE}

(* Mutant: any idle runner is a candidate for reuse.                         *)
IdleForAny(e) == 1..Len(idle)

(* Idle runners that already hold environment e: the candidates for reuse.   *)
IdleFor(e) == {i \in 1..Len(idle) : EnvOf[idle[i]] = e}

(* The most recently returned one of them, if any (findLastIndex).           *)
NewestIdleFor(e) == {i \in IdleFor(e) : \A j \in IdleFor(e) : j <= i}

(* Mutant: only runners that work on a task reserve their id.                *)
FreeIdsOfInactive == (1..MaxWorkers) \ {workerId[r] : r \in active}

(* Ids `acquireWorkerId` can still hand out, and the one it does hand out.   *)
FreeIds == (1..MaxWorkers) \ slotInUse
LowestFreeId == {id \in FreeIds : \A j \in FreeIds : id <= j}

(* Mutant: the wakeup is missing.                                            *)
WakeNobody == UNCHANGED queueVars

(* `this.slotWaiters.shift()?.()`                                            *)
WakeOne ==
  IF slotWaiters = <<>>
  THEN UNCHANGED queueVars
  ELSE /\ slotWaiters' = Tail(slotWaiters)
       /\ ready' = Append(ready, Head(slotWaiters))

(* What PoolRunner.stop asks of a runner it finds healthy and without a      *)
(* task: run the worker fixture cleanup first, unless the host already had.  *)
AskCleanup(rs) ==
  cleanup' = [r \in Tasks |->
                IF r \in rs /\ runner[r] \in {"usable", "starting"}
                            /\ cleanup[r] = "none"
                THEN "asked" ELSE cleanup[r]]

(* disposeRunnerInBackground, up to the settling of the stop promise.        *)
Dispose(r) ==
  /\ stopping' = stopping \cup {r}
  /\ AskCleanup({r})

(* `await new Promise(resolve => slotWaiters.push(resolve))`                 *)
Park(t) ==
  /\ call' = [call EXCEPT ![t] = "parked"]
  /\ turn' = None
  /\ slotWaiters' = Append(slotWaiters, t)
  /\ UNCHANGED <<serves, ready>>

(* Mutant: the `isClosing` checks are missing.                               *)
EnterAnyway(t) == call' = [call EXCEPT ![t] = "acquiring"] /\ turn' = t

(* Entering the acquireRunner loop, or `throw` when the pool is closing.     *)
Enter(t) ==
  IF closing = "open"
  THEN call' = [call EXCEPT ![t] = "acquiring"] /\ turn' = t
  ELSE call' = [call EXCEPT ![t] = "rejected"] /\ turn' = None

-----------------------------------------------------------------------------
(* dispatch: callers come one run at a time, so no task is dispatched while  *)
(* the previous run drains its stop errors (nodeExecutor.runCycle awaits it).*)
Dispatch(t) ==
  /\ turn = None
  /\ call[t] = "idle"
  /\ drain = "none"
  /\ Enter(t)
  /\ UNCHANGED <<options, serves, queueVars, poolVars, procVars, gateVars,
                 errVars, drainVars, closeVars>>

(* The continuation of a parked caller: it throws when the pool is closing,  *)
(* otherwise it goes around the acquireRunner loop again.                    *)
Resume ==
  /\ turn = None
  /\ ready # <<>>
  /\ Enter(Head(ready))
  /\ ready' = Tail(ready)
  /\ UNCHANGED <<options, serves, slotWaiters, poolVars, procVars, gateVars,
                 errVars, drainVars, closeVars>>

(* acquireRunner, idle runner of this environment: the most recently         *)
(* returned one is taken, and claimed if it is still usable.                 *)
AcquireReuse(t) ==
  /\ turn = t
  /\ \E i \in NewestIdleFor(EnvOf[t]) :
       /\ runner[idle[i]] = "usable"
       /\ idle' = RemoveAt(idle, i)
       /\ active' = active \cup {idle[i]}
       /\ serves' = [serves EXCEPT ![t] = idle[i]]
  /\ call' = [call EXCEPT ![t] = "running"]
  /\ turn' = None
  /\ UNCHANGED <<options, queueVars, stopping, procVars, gateVars, errVars,
                 drainVars, closeVars>>

(* ... or disposed of when it went stale while idle; the loop goes around.   *)
AcquireDropStale(t) ==
  /\ turn = t
  /\ \E i \in NewestIdleFor(EnvOf[t]) :
       /\ runner[idle[i]] # "usable"
       /\ idle' = RemoveAt(idle, i)
       /\ Dispose(idle[i])
  /\ UNCHANGED <<options, callVars, queueVars, active, procVars, gateVars,
                 stopErrors, reports, drainVars, closeVars>>

(* Mutant: no idle runner makes room for the caller that parks.              *)
ShedNothing == UNCHANGED <<idle, stopping, cleanup>>

(* Retire the idle runner that was returned first, if there is one.          *)
ShedColdest ==
  IF idle = <<>>
  THEN UNCHANGED <<idle, stopping, cleanup>>
  ELSE idle' = Tail(idle) /\ Dispose(Head(idle))

(* acquireRunner, no candidate and no capacity: retire the coldest idle      *)
(* runner, whose environment is another one, and park.                       *)
AcquireParkFull(t) ==
  /\ turn = t
  /\ IdleFor(EnvOf[t]) = {}
  /\ InFlightCount >= MaxWorkers
  /\ ShedColdest
  /\ Park(t)
  /\ UNCHANGED <<options, active, procVars, gateVars, stopErrors, reports,
                 drainVars, closeVars>>

(* acquireRunner, capacity but the memory gate defers the spawn: arm the     *)
(* poll timer and park.                                                      *)
AcquireDefer(t) ==
  /\ turn = t
  /\ IdleFor(EnvOf[t]) = {}
  /\ InFlightCount < MaxWorkers
  /\ FALSE \in GateAnswers
  /\ polling' = TRUE
  /\ Park(t)
  /\ UNCHANGED <<options, poolVars, procVars, sampled, errVars, drainVars,
                 closeVars>>

(* acquireRunner, a new runner: lowest free id, slot claimed before start.   *)
AcquireSpawn(t) ==
  /\ turn = t
  /\ IdleFor(EnvOf[t]) = {}
  /\ InFlightCount < MaxWorkers
  /\ TRUE \in GateAnswers
  /\ \E id \in LowestFreeId :
       /\ workerId' = [workerId EXCEPT ![t] = id]
       /\ slotInUse' = slotInUse \cup {id}
  /\ runner' = [runner EXCEPT ![t] = "starting"]
  /\ active' = active \cup {t}
  /\ call' = [call EXCEPT ![t] = "starting"]
  /\ turn' = None
  /\ UNCHANGED <<options, serves, queueVars, idle, stopping, gateVars,
                 errVars, drainVars, closeVars>>

-----------------------------------------------------------------------------
(* runner.start() resolves: the caller sends its task.                       *)
StartOk(t) ==
  /\ turn = None
  /\ call[t] = "starting"
  /\ runner' = [runner EXCEPT ![t] = "usable"]
  /\ call' = [call EXCEPT ![t] = "running"]
  /\ serves' = [serves EXCEPT ![t] = t]
  /\ UNCHANGED <<options, turn, queueVars, poolVars, workerId, slotInUse,
                 gateVars, errVars, drainVars, closeVars>>

(* runner.start() rejects, with the worker gone (fork failed, early exit) or *)
(* still alive (start timeout, transport error): the slot moves to the       *)
(* background stop and the caller fails.  A worker that is gone is never     *)
(* asked for a cleanup close() may have planned.                             *)
StartFail(t) ==
  /\ turn = None
  /\ call[t] = "starting"
  /\ \E s \in {"unusable", "exited"} :
       /\ runner' = [runner EXCEPT ![t] = s]
       /\ cleanup' = IF s = "exited"
                     THEN [cleanup EXCEPT ![t] = "none"] ELSE cleanup
  /\ active' = active \ {t}
  /\ stopping' = stopping \cup {t}
  /\ call' = [call EXCEPT ![t] = "rejected"]
  /\ UNCHANGED <<options, serves, turn, queueVars, idle, workerId, slotInUse,
                 gateVars, stopErrors, reports, drainVars, closeVars>>

(* releaseRunner keeps the runner for reuse when somebody is parked, or when *)
(* its environment is below the idle floor.                                  *)
Keeps(r) ==
  /\ ~Isolate
  /\ closing = "open"
  /\ \/ slotWaiters # <<>>
     \/ Cardinality(IdleFor(EnvOf[r])) < MinWorkers

(* releaseRunner(r), `ok` being runner.isUsable().                           *)
Release(r, ok) ==
  /\ active' = active \ {r}
  /\ IF ok /\ Keeps(r)
     THEN /\ idle' = Append(idle, r)
          /\ WakeOne
          /\ UNCHANGED <<stopping, cleanup>>
     ELSE /\ stopping' = stopping \cup {r}
          /\ IF ok THEN AskCleanup({r}) ELSE UNCHANGED cleanup
          /\ UNCHANGED <<idle, queueVars>>

(* The task's result arrives.  The worker reports memory with it, and may    *)
(* have been poisoned by a failed or timed-out fixture cleanup.              *)
TaskResolves(t) ==
  /\ turn = None
  /\ call[t] = "running"
  /\ runner[serves[t]] = "usable"
  /\ call' = [call EXCEPT ![t] = "resolved"]
  /\ \E ok \in BOOLEAN :
       /\ runner' = IF ok THEN runner
                    ELSE [runner EXCEPT ![serves[t]] = "unusable"]
       /\ Release(serves[t], ok)
  /\ sampled' = Gated
  /\ UNCHANGED <<options, serves, turn, workerId, slotInUse, polling,
                 stopErrors, reports, drainVars, closeVars>>

(* The rejection of a task whose runner was lost, delivered once stderr has  *)
(* settled: well after the runner changed state.                             *)
TaskRejects(t) ==
  /\ turn = None
  /\ call[t] = "lost"
  /\ call' = [call EXCEPT ![t] = "rejected"]
  /\ Release(serves[t], FALSE)
  /\ UNCHANGED <<options, serves, turn, procVars, gateVars, stopErrors,
                 reports, drainVars, closeVars>>

(* The task r is working on loses its runner.                                *)
LoseTaskOf(r) ==
  call' = [t \in Tasks |-> IF call[t] = "running" /\ serves[t] = r
                           THEN "lost" ELSE call[t]]

(* fatal_error or a transport error: the runner is crashed, its worker may   *)
(* live on for a while.  PoolRunner ignores errors once it is STOPPING.      *)
RunnerPoisoned(r) ==
  /\ turn = None
  /\ runner[r] = "usable"
  /\ r \in active \cup Range(idle)
  /\ runner' = [runner EXCEPT ![r] = "unusable"]
  /\ LoseTaskOf(r)
  /\ UNCHANGED <<options, serves, turn, queueVars, poolVars, workerId,
                 slotInUse, gateVars, errVars, drainVars, closeVars>>

(* A stop() of r is under way.                                               *)
StopAsked(r) == r \in stopping \/ (closing = "stopping" /\ r \in closeWaits)

(* The worker of r exits, killed by a stop() or of its own accord.  If the   *)
(* stop asked for a fixture cleanup, this is also where the outcome of that  *)
(* cleanup is known and a failure recorded.                                  *)
RunnerExits(r) ==
  /\ turn = None
  /\ runner[r] \in {"usable", "unusable"}
  /\ runner' = [runner EXCEPT ![r] = "exited"]
  /\ LoseTaskOf(r)
  /\ \/ /\ cleanup[r] = "asked"
        /\ \E failed \in BOOLEAN :
             /\ cleanup' = [cleanup EXCEPT ![r] = IF failed THEN "failed"
                                                           ELSE "done"]
             /\ stopErrors' = IF failed THEN stopErrors \cup {r}
                                        ELSE stopErrors
     \/ /\ cleanup[r] # "asked"
        /\ UNCHANGED <<cleanup, stopErrors>>
  /\ UNCHANGED <<options, serves, turn, queueVars, poolVars, workerId,
                 slotInUse, gateVars, reports, drainVars, closeVars>>

(* Mutant: the background stop does not await the worker's exit.             *)
StopDoneAtOnce(r) == r \in stopping

(* A background stop of r has settled: its worker is gone.                   *)
StopDone(r) == r \in stopping /\ runner[r] = "exited"

(* The `finally` of a background stop: the slot and its id are free again.   *)
StopSettles(r) ==
  /\ turn = None
  /\ StopDone(r)
  /\ stopping' = stopping \ {r}
  /\ slotInUse' = slotInUse \ {workerId[r]}
  /\ IF closing = "closed" THEN UNCHANGED queueVars ELSE WakeOne
  /\ UNCHANGED <<options, callVars, active, idle, runner, workerId, gateVars,
                 errVars, drainVars, closeVars>>

(* A tick of the gate's poll timer: tryWakeGateWaiter, and dispose when it   *)
(* reports that nobody is parked.                                            *)
GatePoll ==
  /\ turn = None
  /\ polling
  /\ IF slotWaiters = <<>> \/ closing # "open"
     THEN polling' = FALSE /\ UNCHANGED queueVars
     ELSE /\ TRUE \in GateAnswers
          /\ WakeOne
          /\ UNCHANGED polling
  /\ UNCHANGED <<options, callVars, poolVars, procVars, sampled, errVars,
                 drainVars, closeVars>>

-----------------------------------------------------------------------------
Settled(t) == call[t] \in {"resolved", "rejected"}

(* The errors rs are handed to a caller; none is kept for a later one.       *)
ReportErrors(rs) ==
  /\ reports' = [r \in Tasks |-> IF r \in rs THEN reports[r] + 1
                                             ELSE reports[r]]
  /\ stopErrors' = {}

(* Mutant: a drain does not wait for the background stops.                   *)
DrainAwaitedNothing == drain = "waiting"

(* A drain has awaited the background stops it found.                        *)
DrainAwaited == drain = "waiting" /\ drainWaits \cap stopping = {}

(* cleanupWorkerFixtures / drainWorkerStopErrors, called when every dispatch *)
(* of a run has settled; isolate: true returns at once.                      *)
DrainBegin ==
  /\ turn = None
  /\ ~Isolate
  /\ Watch \/ closing = "open"
  /\ drain = "none"
  /\ \E t \in Tasks : Settled(t)
  /\ \A t \in Tasks : Settled(t) \/ call[t] = "idle"
  /\ drain' = "waiting"
  /\ drainWaits' = stopping
  /\ UNCHANGED <<options, callVars, queueVars, poolVars, procVars, gateVars,
                 errVars, closeVars>>

(* Watch mode only collects the stop errors and lets the next run dispatch.  *)
DrainWatch ==
  /\ turn = None
  /\ Watch
  /\ DrainAwaited
  /\ ReportErrors(stopErrors)
  /\ drain' = "none"
  /\ drainWaits' = {}
  /\ UNCHANGED <<options, callVars, queueVars, poolVars, procVars, gateVars,
                 cleanup, closeVars>>

(* A one-shot run also has every idle runner that still can clean up its     *)
(* worker fixtures; a runner that fails to is crashed.                       *)
DrainOneShot ==
  /\ turn = None
  /\ ~Watch
  /\ DrainAwaited
  /\ LET asked == {r \in Range(idle) : runner[r] = "usable"
                                       /\ cleanup[r] = "none"} IN
     \E failed \in SUBSET asked :
       /\ runner' = [r \in Tasks |-> IF r \in failed THEN "unusable"
                                                     ELSE runner[r]]
       /\ cleanup' = [r \in Tasks |-> IF r \in failed THEN "failed"
                                      ELSE IF r \in asked THEN "done"
                                      ELSE cleanup[r]]
       /\ ReportErrors(stopErrors \cup failed)
  /\ drain' = "done"
  /\ drainWaits' = {}
  /\ UNCHANGED <<options, callVars, queueVars, poolVars, workerId, slotInUse,
                 gateVars, closeVars>>

(* close(), first part: turn the parked callers away and stop every active   *)
(* and idle runner.  Its one caller closes a pool once (nodeExecutor.close   *)
(* is idempotent), and after a one-shot run has finished its drain.          *)
CloseBegin ==
  /\ turn = None
  /\ closing = "open"
  /\ Watch \/ drain # "waiting"
  /\ closing' = "stopping"
  /\ polling' = FALSE
  /\ ready' = ready \o slotWaiters
  /\ slotWaiters' = <<>>
  /\ closeWaits' = active \cup Range(idle)
  /\ AskCleanup(Range(idle) \cup {r \in active : runner[r] = "starting"})
  /\ UNCHANGED <<options, callVars, poolVars, procVars, sampled, stopErrors,
                 reports, drainVars>>

(* close(), those stops have settled: await the background stops.            *)
CloseStopped ==
  /\ turn = None
  /\ closing = "stopping"
  /\ \A r \in closeWaits : runner[r] = "exited"
  /\ closing' = "draining"
  /\ closeWaits' = stopping
  /\ UNCHANGED <<options, callVars, queueVars, poolVars, procVars, gateVars,
                 errVars, drainVars>>

(* close(), everything awaited has settled.                                  *)
CloseEnd ==
  /\ turn = None
  /\ closing = "draining"
  /\ closeWaits \cap stopping = {}
  /\ idle' = <<>>
  /\ active' = {}
  /\ closing' = "closed"
  /\ closeWaits' = {}
  /\ ReportErrors(stopErrors)
  /\ UNCHANGED <<options, callVars, queueVars, stopping, procVars, gateVars,
                 cleanup, drainVars>>

(* Nothing is left to do: the pool is closed and every caller was answered.  *)
Finished ==
  /\ closing = "closed"
  /\ stopping = {}
  /\ \A t \in Tasks : Settled(t) \/ call[t] = "idle"
  /\ UNCHANGED vars

Acquire(t) ==
  \/ AcquireReuse(t)
  \/ AcquireDropStale(t)
  \/ AcquireParkFull(t)
  \/ AcquireDefer(t)
  \/ AcquireSpawn(t)

Next ==
  \/ \E t \in Tasks :
       \/ Dispatch(t)
       \/ Acquire(t)
       \/ StartOk(t)
       \/ StartFail(t)
       \/ TaskResolves(t)
       \/ TaskRejects(t)
       \/ RunnerPoisoned(t)
       \/ RunnerExits(t)
       \/ StopSettles(t)
  \/ Resume
  \/ GatePoll
  \/ DrainBegin
  \/ DrainWatch
  \/ DrainOneShot
  \/ CloseBegin
  \/ CloseStopped
  \/ CloseEnd
  \/ Finished

Spec == Init /\ [][Next]_vars

(* Queued continuations and loops that have the thread run on; a start is    *)
(* acknowledged, fails or times out; a test file that runs ends one way or   *)
(* the other; a worker being stopped is killed in the end; a lost task is    *)
(* rejected.  No fairness for dispatching, crashing or closing, nor for the  *)
(* answers of the gate.  `turn` suspends the other callbacks, but only the   *)
(* poll of a gate makes it do so for ever, so without a gate weak fairness   *)
(* is enough.                                                                *)
Fairness ==
  /\ \A t \in Tasks :
       /\ WF_vars(Acquire(t))
       /\ WF_vars(StartOk(t) \/ StartFail(t))
       /\ WF_vars(TaskResolves(t))
       /\ WF_vars(TaskRejects(t))
       /\ WF_vars(StopAsked(t) /\ RunnerExits(t))
       /\ WF_vars(StopSettles(t))
  /\ WF_vars(Resume)
  /\ WF_vars(GatePoll)
  /\ WF_vars(DrainWatch \/ DrainOneShot)
  /\ WF_vars(CloseStopped)
  /\ WF_vars(CloseEnd)

FairSpec == Spec /\ Fairness

-----------------------------------------------------------------------------
(* Worker processes that exist.                                              *)
Alive == {r \in Tasks : runner[r] \in {"starting", "usable", "unusable"}}

(* Capacity (pool.ts:20-26): however spawning, reuse and background stops    *)
(* interleave, no more than MaxWorkers worker processes exist at once.       *)
CapacityRespected == Cardinality(Alive) <= MaxWorkers

(* Worker ids (pool.ts:31-38): two workers that exist at the same time never *)
(* share an id, so test files can partition resources by RSTEST_WORKER_ID.   *)
WorkerIdsDistinct ==
  \A r1, r2 \in Alive : workerId[r1] = workerId[r2] => r1 = r2

(* The throw of acquireWorkerId (pool.ts:229-241) is unreachable: a caller   *)
(* that gets past the capacity check always finds a free id.                 *)
IdAlwaysAvailable == turn # None /\ InFlightCount < MaxWorkers => FreeIds # {}

(* Reuse (pool.ts:131-149): a runner works on one task at a time, and only   *)
(* on tasks of the environment it was spawned for.                           *)
RunnerServesOneTask ==
  \A t \in Tasks : call[t] \in {"running", "lost"} =>
    /\ EnvOf[serves[t]] = EnvOf[t]
    /\ serves[t] \notin Range(idle) \cup stopping
    /\ \A u \in Tasks \ {t} :
         call[u] \in {"running", "lost"} => serves[u] # serves[t]

(* The accounts of the pool: these hold together, and rest on one another.   *)
WorkersAreAccountedFor ==
  /\ TypeOK /\ CapacityRespected /\ WorkerIdsDistinct
  /\ IdAlwaysAvailable /\ RunnerServesOneTask

(* No lost wakeup (pool.ts:151-179, 244-296, 316-325): while callers are     *)
(* parked and none of them is about to run, some runner is working or being  *)
(* stopped, and its release wakes a caller.  Idle runners alone wake nobody, *)
(* unless the memory gate deferred a caller because of them (pool.ts:169):   *)
(* then its poll goes on.                                                    *)
ParkedHasWaker ==
  slotWaiters # <<>> /\ ready = <<>> /\ turn = None
    => active \cup stopping # {} \/ (polling /\ idle # <<>>)

(* close() (pool.ts:329-359): once it has returned, no worker process is     *)
(* left, no caller is parked or queued to spawn one, and every stop error    *)
(* was handed to somebody.                                                   *)
CloseLeavesNothing ==
  closing = "closed" =>
    /\ Alive = {}
    /\ slotWaiters = <<>>
    /\ \A t \in Tasks : call[t] # "starting"
    /\ \A r \in Tasks : cleanup[r] = "failed" => reports[r] = 1

(* Nobody is left waiting, before a close or after it.                       *)
NobodyIsStranded == ParkedHasWaker /\ CloseLeavesNothing

(* Draining (pool.ts:63-92): when a drain returns, no runner retired during  *)
(* the run is still stopping and no stop error of the run is left behind for *)
(* a later run to report.                                                    *)
DrainCollects ==
  [][drain = "waiting" /\ drain' # "waiting" /\ closing = "open"
       => stopping' = {} /\ stopErrors' = {}]_vars

(* Every dispatched task is answered: resolved, rejected with its runner, or *)
(* rejected by close(); and close() returns, whatever the runners were doing *)
(* when it was called.                                                       *)
PoolSettles ==
  <>[](/\ \A t \in Tasks : call[t] = "idle" \/ Settled(t)
       /\ closing \in {"open", "closed"})

=============================================================================
