----------------------------- MODULE PoolRunner -----------------------------
(***************************************************************************)
(* One worker of the pool: the host's PoolRunner (pool/poolRunner.ts), its *)
(* transport (pool/workers/forksPoolWorker.ts) and the worker process      *)
(* (runtime/worker/index.ts), which talk over two FIFO pipes.              *)
(*                                                                         *)
(* The host is one JavaScript thread: an event callback and the promise    *)
(* continuations it releases are one action.  start() and stop() are       *)
(* serialized by `operationChain`.  The pool's use of the runner is part   *)
(* of the model: it starts the runner for a task, reuses it while it is    *)
(* usable, disposes of it, and may close at any time.                      *)
(***************************************************************************)
EXTENDS Integers, Sequences

CONSTANTS
  MaxTasks,       \* bound: tasks handed to the runner in its life
  SpawnErrors     \* fork() may return a child that fails to spawn later

ASSUME RunnerAssumption ==
  /\ MaxTasks \in Nat \ {0}
  /\ SpawnErrors \in BOOLEAN

Tasks == 1..MaxTasks   \* task ids, in the order nextTaskSeq hands them out
NoTask == 0

VARIABLES
  (* the host's PoolRunner *)
  state,        \* this.state
  crashed,      \* this.crashed
  task,         \* id of this.currentTask
  provisional,  \* this.currentTask.provisionalResult is set
  startWait,    \* this.startDeferred is pending (and startTimer armed)
  cleanWait,    \* this.cleanupDeferred is pending (and cleanupTimer armed)
  cleaned,      \* this.workerCleanupCompleted
  fixtureTimer, \* this.fixtureCleanupTimer is armed
  queued,       \* stops queued on this.operationChain
  op,           \* the operation under way, and what it awaits
  (* its callers *)
  answer,       \* what became of each task
  returned,     \* calls of stop() that have returned
  calls,        \* which calls the pool has made
  drain,        \* the pool's call of cleanupWorkerFixtures
  (* the transport and the worker process *)
  proc,         \* the child process
  exited,       \* its exit event has been handled
  killed,       \* it was sent a signal
  toWorker,     \* requests in the pipe
  toHost,       \* responses in the pipe
  wtask,        \* currentTaskId of the worker
  phase,        \* how far runInPool has come with it
  wcleaning,    \* cleanupWorker() is running
  dying,        \* dyingFromFatal
  isolate       \* runtimeConfig.isolate: never changes

taskVars == <<task, provisional, fixtureTimer>>
cleanVars == <<cleanWait, cleaned>>
opVars == <<queued, op>>
callVars == <<returned, calls, drain>>
procVars == <<proc, exited, killed>>
pipeVars == <<toWorker, toHost>>
workerVars == <<wtask, phase, wcleaning, dying, isolate>>
hostVars == <<state, crashed, taskVars, startWait, cleanVars, opVars, answer,
              callVars>>
vars == <<hostVars, procVars, pipeVars, workerVars>>

-----------------------------------------------------------------------------
States == {"IDLE", "STARTING", "STARTED", "START_FAILURE", "STOPPING",
           "STOPPED"}
Phases == {"idle", "load", "flush", "loaded", "fileCleanup", "retryCleanup",
           "cleaned", "workerCleanup"}

Requests ==
  [type : {"start", "cleanup"}] \cup [type : {"run"}, id : Tasks]

Responses ==
  [type : {"started", "fatal_error"}]
    \cup [type : {"cleanupFinished"}, ok : BOOLEAN]
    \cup [type : {"workerCleanupStarted", "fileCleanupFinished",
                  "runFinished"}, id : Tasks]
    \cup [type : {"workerCleanupFinished"}, id : Tasks, ok : BOOLEAN]
    \cup [type : {"fileCleanupStarted"}, id : Tasks, result : BOOLEAN]

TypeOK ==
  /\ state \in States
  /\ crashed \in BOOLEAN
  /\ task \in Tasks \cup {NoTask}
  /\ provisional \in BOOLEAN
  /\ startWait \in BOOLEAN
  /\ cleanWait \in BOOLEAN
  /\ cleaned \in BOOLEAN
  /\ fixtureTimer \in BOOLEAN
  /\ queued \in Seq({"stop", "force"})
  /\ op \in {"none", "start", "stopCleanup", "stopKill"}
  /\ answer \in [Tasks -> {"unsent", "sent", "lost", "resolved", "rejected"}]
  /\ returned \in Nat
  /\ calls \in SUBSET {"start", "dispose", "close"}
  /\ drain \in {"none", "waiting", "done", "failed"}
  /\ proc \in {"none", "live", "dead", "unspawned"}
  /\ exited \in BOOLEAN
  /\ killed \in BOOLEAN
  /\ toWorker \in Seq(Requests)
  /\ toHost \in Seq(Responses)
  /\ wtask \in Tasks \cup {NoTask}
  /\ phase \in Phases
  /\ wcleaning \in BOOLEAN
  /\ dying \in BOOLEAN
  /\ isolate \in BOOLEAN

Init ==
  /\ state = "IDLE"
  /\ crashed = FALSE
  /\ task = NoTask
  /\ provisional = FALSE
  /\ startWait = FALSE
  /\ cleanWait = FALSE
  /\ cleaned = FALSE
  /\ fixtureTimer = FALSE
  /\ queued = <<>>
  /\ op = "none"
  /\ answer = [t \in Tasks |-> "unsent"]
  /\ returned = 0
  /\ calls = {}
  /\ drain = "none"
  /\ proc = "none"
  /\ exited = FALSE
  /\ killed = FALSE
  /\ toWorker = <<>>
  /\ toHost = <<>>
  /\ wtask = NoTask
  /\ phase = "idle"
  /\ wcleaning = FALSE
  /\ dying = FALSE
  /\ isolate \in BOOLEAN

-----------------------------------------------------------------------------
(* worker.hasLiveChild(): as far as the host knows.                          *)
HasLiveChild == proc # "none" /\ ~exited

(* Mutant: the state alone decides.                                          *)
isStarted == state = "STARTED"

isUsable == state = "STARTED" /\ ~crashed

Send(request) == toWorker' = Append(toWorker, request)

(* The pool hands task t to the runner; ids are handed out in order.         *)
NextTask(t) ==
  /\ answer[t] = "unsent"
  /\ \A u \in Tasks : u < t => answer[u] # "unsent"

HandTask(t) ==
  /\ task' = t
  /\ answer' = [answer EXCEPT ![t] = "sent"]
  /\ UNCHANGED <<provisional, fixtureTimer>>

(* Mutant: the provisional result outlives the task.                         *)
EndTaskKeepingResult(o) ==
  /\ task' = NoTask
  /\ fixtureTimer' = FALSE
  /\ answer' = IF task = NoTask THEN answer ELSE [answer EXCEPT ![task] = o]
  /\ UNCHANGED provisional

(* The current task, if any, leaves the runner with the outcome o.           *)
EndTask(o) ==
  /\ task' = NoTask
  /\ provisional' = FALSE
  /\ fixtureTimer' = FALSE
  /\ answer' = IF task = NoTask THEN answer ELSE [answer EXCEPT ![task] = o]

(* Mutant: stop() returns once the signal is sent.                           *)
TerminateInBackground(live) ==
  /\ state' = "STOPPED"
  /\ op' = "none"
  /\ returned' = returned + 1
  /\ killed' = (killed \/ live)

(* stop(), past the fixture cleanup: terminate the child if there is one.    *)
TerminateOr(live) ==
  IF live
  THEN /\ state' = "STOPPING"
       /\ op' = "stopKill"
       /\ killed' = TRUE
       /\ UNCHANGED returned
  ELSE /\ state' = "STOPPED"
       /\ op' = "none"
       /\ returned' = returned + 1
       /\ UNCHANGED killed

(* What a cleanup that settles is for the drain that waits for it.           *)
DrainSettled(ok) ==
  IF drain # "waiting" THEN drain ELSE IF ok THEN "done" ELSE "failed"

(* The pending worker cleanup settles, for a stop() and for a drain.         *)
CleanupSettles(ok) ==
  /\ cleanWait' = FALSE
  /\ crashed' = (crashed \/ ~ok)
  /\ drain' = DrainSettled(ok)
  /\ IF op = "stopCleanup"
     THEN TerminateOr(HasLiveChild)
     ELSE UNCHANGED <<state, op, killed, returned>>

-----------------------------------------------------------------------------
(* The pool calls start(): the operation begins at once.  fork() throws, or  *)
(* returns a child; a child may yet fail to spawn, which the host hears of   *)
(* as an error event, without an exit event.                                 *)
CallStart ==
  /\ calls = {}
  /\ calls' = {"start"}
  /\ \/ /\ state' = "STARTING"
        /\ startWait' = TRUE
        /\ op' = "start"
        /\ \/ proc' = "live" /\ Send([type |-> "start"])
           \/ SpawnErrors /\ proc' = "unspawned" /\ UNCHANGED toWorker
     \/ /\ state' = "START_FAILURE"
        /\ UNCHANGED <<startWait, op, proc, toWorker>>
  /\ UNCHANGED <<crashed, taskVars, cleanVars, queued, answer, returned, drain,
                 exited, killed, toHost, workerVars>>

(* The pool reuses the idle runner.                                          *)
CallRun(t) ==
  /\ ~isolate /\ isUsable
  /\ calls = {"start"}
  /\ drain = "none"
  /\ NextTask(t)
  /\ \A u \in Tasks : answer[u] \notin {"sent", "lost"}
  /\ task = NoTask
  /\ HandTask(t)
  /\ Send([type |-> "run", id |-> t])
  /\ UNCHANGED <<state, crashed, startWait, cleanVars, opVars, callVars,
                 procVars, toHost, workerVars>>

(* The pool disposes of the runner, which failed its start (force) or has    *)
(* nothing left to answer.                                                   *)
CallDispose ==
  /\ "start" \in calls /\ "dispose" \notin calls
  /\ op # "start" /\ drain # "waiting"
  /\ \A t \in Tasks : answer[t] \notin {"sent", "lost"}
  /\ calls' = calls \cup {"dispose"}
  /\ queued' = Append(queued, IF answer[1] = "unsent" THEN "force" ELSE "stop")
  /\ UNCHANGED <<state, crashed, taskVars, startWait, cleanVars, op, answer,
                 returned, drain, procVars, pipeVars, workerVars>>

(* The pool closes while the runner is active or idle.                       *)
CallClose ==
  /\ calls = {"start"}
  /\ calls' = {"start", "close"}
  /\ queued' = Append(queued, "stop")
  /\ UNCHANGED <<state, crashed, taskVars, startWait, cleanVars, op, answer,
                 returned, drain, procVars, pipeVars, workerVars>>

(* cleanupWorkerFixtures(), of an idle runner at the end of a one-shot run.  *)
CallDrain ==
  /\ ~isolate
  /\ calls = {"start"}
  /\ drain = "none"
  /\ answer[1] # "unsent"
  /\ \A t \in Tasks : answer[t] \notin {"sent", "lost"}
  /\ IF cleaned \/ crashed \/ ~HasLiveChild
     THEN drain' = "done" /\ UNCHANGED <<cleanWait, toWorker>>
     ELSE /\ drain' = "waiting"
          /\ cleanWait' = TRUE
          /\ Send([type |-> "cleanup"])
  /\ UNCHANGED <<state, crashed, taskVars, startWait, cleaned, opVars, answer,
                 returned, calls, procVars, toHost, workerVars>>

(* Mutant: a crashed runner is cleaned up too.                               *)
CleansFirstIfIdle(kind) ==
  kind = "stop" /\ task = NoTask /\ ~cleaned

(* Whether a stop() first has the worker clean up its fixtures.              *)
CleansFirst(kind) ==
  kind = "stop" /\ task = NoTask /\ ~crashed /\ ~cleaned

(* A queued stop() begins.  A cleanup that is already pending is shared.     *)
BeginStop ==
  /\ op = "none"
  /\ queued # <<>>
  /\ queued' = Tail(queued)
  /\ \/ /\ state = "STOPPED"
        /\ returned' = returned + 1
        /\ UNCHANGED <<state, op, killed, cleanWait, toWorker>>
     \/ /\ state # "STOPPED"
        /\ ~(HasLiveChild /\ CleansFirst(Head(queued)))
        /\ TerminateOr(HasLiveChild)
        /\ UNCHANGED <<cleanWait, toWorker>>
     \/ /\ state # "STOPPED"
        /\ HasLiveChild /\ CleansFirst(Head(queued))
        /\ op' = "stopCleanup"
        /\ cleanWait' = TRUE
        /\ IF cleanWait THEN UNCHANGED toWorker ELSE Send([type |-> "cleanup"])
        /\ UNCHANGED <<state, killed, returned>>
  /\ UNCHANGED <<crashed, taskVars, startWait, cleaned, answer, calls, drain,
                 proc, exited, toHost, workerVars>>

-----------------------------------------------------------------------------
(* handleResponse, by the type of the message.                               *)
Got(type) ==
  /\ toHost # <<>>
  /\ Head(toHost).type = type
  /\ toHost' = Tail(toHost)

(* The acknowledgement ends start(); its caller sends the first task.  A     *)
(* close() queued meanwhile comes before that: it asks for the cleanup.      *)
GotStarted ==
  /\ Got("started")
  /\ \/ /\ ~startWait
        /\ UNCHANGED <<state, startWait, taskVars, answer, cleanWait, opVars,
                       toWorker>>
     \/ /\ startWait
        /\ startWait' = FALSE
        /\ state' = "STARTED"
        /\ HandTask(1)
        /\ IF queued = <<>>
           THEN /\ op' = "none"
                /\ Send([type |-> "run", id |-> 1])
                /\ UNCHANGED <<queued, cleanWait>>
           ELSE /\ op' = "stopCleanup"
                /\ queued' = Tail(queued)
                /\ cleanWait' = TRUE
                /\ toWorker' = toWorker \o <<[type |-> "cleanup"],
                                            [type |-> "run", id |-> 1]>>
  /\ UNCHANGED <<crashed, cleaned, callVars, procVars, workerVars>>

GotCleanupFinished ==
  /\ Got("cleanupFinished")
  /\ cleaned' = (cleaned \/ Head(toHost).ok)
  /\ IF cleanWait
     THEN CleanupSettles(Head(toHost).ok)
     ELSE UNCHANGED <<cleanWait, crashed, drain, state, op, killed, returned>>
  /\ UNCHANGED <<taskVars, startWait, queued, answer, calls, proc, exited,
                 toWorker, workerVars>>

(* Mutant: only the cleanup of a file is timed.                              *)
GotCleanupStartedUntimed ==
  /\ \/ /\ Got("fileCleanupStarted")
        /\ provisional' = IF task = Head(toHost).id THEN Head(toHost).result
                          ELSE provisional
        /\ fixtureTimer' = (fixtureTimer \/ task = Head(toHost).id)
     \/ /\ Got("workerCleanupStarted")
        /\ UNCHANGED <<provisional, fixtureTimer>>
  /\ UNCHANGED <<state, crashed, task, startWait, cleanVars, opVars, answer,
                 callVars, procVars, toWorker, workerVars>>

(* Cleanups of a file or of the worker's fixtures around it: they arm and    *)
(* disarm the timer of the task they belong to.                              *)
GotCleanupStarted ==
  /\ \/ /\ Got("fileCleanupStarted")
        /\ provisional' = IF task = Head(toHost).id THEN Head(toHost).result
                          ELSE provisional
     \/ /\ Got("workerCleanupStarted")
        /\ UNCHANGED provisional
  /\ fixtureTimer' = (fixtureTimer \/ task = Head(toHost).id)
  /\ UNCHANGED <<state, crashed, task, startWait, cleanVars, opVars, answer,
                 callVars, procVars, toWorker, workerVars>>

GotCleanupEnded ==
  /\ \/ /\ Got("fileCleanupFinished")
        /\ UNCHANGED crashed
     \/ /\ Got("workerCleanupFinished")
        /\ crashed' = (crashed \/ (task = Head(toHost).id /\ ~Head(toHost).ok))
  /\ fixtureTimer' = (fixtureTimer /\ task # Head(toHost).id)
  /\ UNCHANGED <<state, task, provisional, startWait, cleanVars, opVars,
                 answer, callVars, procVars, toWorker, workerVars>>

GotFinished ==
  /\ Got("runFinished")
  /\ IF task = Head(toHost).id
     THEN EndTask("resolved")
     ELSE UNCHANGED <<taskVars, answer>>
  /\ UNCHANGED <<state, crashed, startWait, cleanVars, opVars, callVars,
                 procVars, toWorker, workerVars>>

(* Mutant: the task is rejected, the runner kept.                            *)
GotFatalKeepingRunner ==
  /\ Got("fatal_error")
  /\ EndTask("lost")
  /\ UNCHANGED <<state, crashed, startWait, cleanVars, opVars, callVars,
                 procVars, toWorker, workerVars>>

GotFatal ==
  /\ Got("fatal_error")
  /\ crashed' = TRUE
  /\ EndTask("lost")
  /\ UNCHANGED <<state, startWait, cleanVars, opVars, callVars, procVars,
                 toWorker, workerVars>>

-----------------------------------------------------------------------------
(* handleExit: everything that is pending is rejected.  The exit event may   *)
(* overtake messages that are still in the pipe.                             *)
HostExit ==
  /\ proc = "dead" /\ ~exited
  /\ exited' = TRUE
  /\ state' = "STOPPED"
  /\ startWait' = FALSE
  /\ cleanWait' = FALSE
  /\ crashed' = (crashed \/ cleanWait)
  /\ drain' = DrainSettled(FALSE)
  /\ EndTask("lost")
  /\ op' = "none"
  /\ returned' = IF op \in {"stopCleanup", "stopKill"} THEN returned + 1
                 ELSE returned
  /\ UNCHANGED <<cleaned, queued, calls, proc, killed, pipeVars, workerVars>>

(* handleError, for an error event on the child: the spawn failed, or the    *)
(* transport did.                                                            *)
HostError ==
  /\ proc \in {"live", "unspawned"}
  /\ state \in {"STARTING", "STARTED"}
  /\ proc = "unspawned" => startWait
  /\ startWait' = FALSE
  /\ EndTask("lost")
  /\ \/ /\ cleanWait
        /\ CleanupSettles(FALSE)
     \/ /\ ~cleanWait
        /\ crashed' = TRUE
        /\ state' = IF startWait THEN "START_FAILURE" ELSE state
        /\ op' = IF startWait THEN "none" ELSE op
        /\ UNCHANGED <<cleanWait, drain, killed, returned>>
  /\ UNCHANGED <<cleaned, queued, calls, proc, exited, pipeVars, workerVars>>

(* The start timer fires.                                                    *)
StartTimeout ==
  /\ startWait
  /\ startWait' = FALSE
  /\ state' = "START_FAILURE"
  /\ op' = "none"
  /\ UNCHANGED <<crashed, taskVars, cleanVars, queued, answer, callVars,
                 procVars, pipeVars, workerVars>>

(* Mutant: only a drain has a timer.                                         *)
CleanupTimeoutOfDrain ==
  /\ cleanWait /\ drain = "waiting"
  /\ CleanupSettles(FALSE)
  /\ UNCHANGED <<taskVars, startWait, cleaned, queued, answer, calls, proc,
                 exited, pipeVars, workerVars>>

(* The worker cleanup timer fires.                                           *)
CleanupTimeout ==
  /\ cleanWait
  /\ CleanupSettles(FALSE)
  /\ UNCHANGED <<taskVars, startWait, cleaned, queued, answer, calls, proc,
                 exited, pipeVars, workerVars>>

(* The fixture cleanup timer fires: the task is answered with what it had    *)
(* already produced, or lost.                                                *)
FixtureTimeout ==
  /\ fixtureTimer
  /\ crashed' = TRUE
  /\ EndTask(IF provisional THEN "resolved" ELSE "lost")
  /\ UNCHANGED <<state, startWait, cleanVars, opVars, callVars, procVars,
                 pipeVars, workerVars>>

(* A lost task is rejected, once stderr has settled.                         *)
RejectLost(t) ==
  /\ answer[t] = "lost"
  /\ answer' = [answer EXCEPT ![t] = "rejected"]
  /\ UNCHANGED <<state, crashed, taskVars, startWait, cleanVars, opVars,
                 callVars, procVars, pipeVars, workerVars>>

-----------------------------------------------------------------------------
(* The worker process.                                                       *)
Alive == proc = "live" /\ ~dying

Reply(responses) == toHost' = toHost \o responses

(* A request of the host is taken from the pipe.  A task begins by loading   *)
(* its modules; a reused worker first retires the fixtures of an older       *)
(* build.                                                                    *)
WorkerReceives ==
  /\ Alive
  /\ toWorker # <<>>
  /\ toWorker' = Tail(toWorker)
  /\ LET request == Head(toWorker)
     IN  \/ /\ request.type = "start"
            /\ Reply(<<[type |-> "started"]>>)
            /\ UNCHANGED <<wtask, phase, wcleaning>>
         \/ /\ request.type = "cleanup"
            /\ wcleaning' = TRUE
            /\ UNCHANGED <<toHost, wtask, phase>>
         \/ /\ request.type = "run"
            /\ wtask' = request.id
            /\ UNCHANGED wcleaning
            /\ \/ phase' = "load" /\ UNCHANGED toHost
               \/ /\ ~isolate /\ request.id > 1
                  /\ phase' = "flush"
                  /\ Reply(<<[type |-> "workerCleanupStarted",
                              id |-> request.id]>>)
  /\ UNCHANGED <<hostVars, isolate, procVars, dying>>

(* A step of the running task, up to the phase p.                            *)
Step(from, p, responses) ==
  /\ Alive
  /\ wtask # NoTask
  /\ phase = from
  /\ phase' = p
  /\ Reply(responses)
  /\ wtask' = IF p = "idle" THEN NoTask ELSE wtask
  /\ UNCHANGED <<hostVars, isolate, procVars, toWorker, wcleaning, dying>>

FileCleanupStarted(result) ==
  [type |-> "fileCleanupStarted", id |-> wtask, result |-> result]
FileCleanupFinished == [type |-> "fileCleanupFinished", id |-> wtask]
WorkerCleanupFinished(ok) ==
  [type |-> "workerCleanupFinished", id |-> wtask, ok |-> ok]

(* Mutant: the task id is read once it has been cleared.                     *)
RunFinishedOfNone == [type |-> "runFinished", id |-> NoTask]

RunFinished == [type |-> "runFinished", id |-> wtask]

Flushed == Step("flush", "loaded", <<WorkerCleanupFinished(TRUE)>>)

(* The tests have run, or none could be loaded and the result says so.       *)
TestsRun ==
  \E from \in {"load", "loaded"} :
    \/ \E result \in BOOLEAN :
         Step(from, "fileCleanup", <<FileCleanupStarted(result)>>)
    \/ Step(from, "cleaned", <<>>)

(* The file's fixtures are cleaned up.  When that fails it is announced and  *)
(* tried once more, without a result.                                        *)
FileCleaned ==
  \/ Step("fileCleanup", "cleaned", <<FileCleanupFinished>>)
  \/ Step("retryCleanup", "cleaned", <<FileCleanupFinished>>)
  \/ Step("fileCleanup", "retryCleanup",
          <<FileCleanupFinished, FileCleanupStarted(FALSE)>>)

(* An isolated worker retires its own fixtures with its only file.           *)
Finish ==
  \/ /\ isolate
     /\ Step("cleaned", "workerCleanup",
             <<[type |-> "workerCleanupStarted", id |-> wtask]>>)
  \/ /\ ~isolate
     /\ Step("cleaned", "idle", <<RunFinished>>)

WorkerCleaned ==
  \E ok \in BOOLEAN :
    Step("workerCleanup", "idle", <<WorkerCleanupFinished(ok), RunFinished>>)

(* runInPool rejects: its set-up or teardown threw, or the flush failed.     *)
WorkerFatal ==
  /\ Alive
  /\ wtask # NoTask
  /\ phase \in {"load", "loaded", "cleaned", "flush"}
  /\ Reply(IF phase = "flush"
           THEN <<WorkerCleanupFinished(FALSE), [type |-> "fatal_error"]>>
           ELSE <<[type |-> "fatal_error"]>>)
  /\ wtask' = NoTask
  /\ phase' = "idle"
  /\ dying' = TRUE
  /\ UNCHANGED <<hostVars, isolate, procVars, toWorker, wcleaning>>

(* An error of earlier test code surfaces while no task runs.                *)
WorkerUncaught ==
  /\ Alive
  /\ wtask = NoTask
  /\ dying' = TRUE
  /\ Reply(<<[type |-> "fatal_error"]>>)
  /\ UNCHANGED <<hostVars, isolate, procVars, toWorker, wtask, phase,
                 wcleaning>>

(* cleanupWorker() has finished.                                             *)
FixturesCleaned ==
  /\ Alive
  /\ wcleaning
  /\ wcleaning' = FALSE
  /\ \E ok \in BOOLEAN : Reply(<<[type |-> "cleanupFinished", ok |-> ok]>>)
  /\ UNCHANGED <<hostVars, isolate, procVars, toWorker, wtask, phase, dying>>

(* The process ends: it was signalled, is dying, or crashes.  What it wrote  *)
(* last may be lost.                                                         *)
WorkerDies ==
  /\ proc = "live"
  /\ proc' = "dead"
  /\ \E kept \in 0..Len(toHost) : toHost' = SubSeq(toHost, 1, kept)
  /\ toWorker' = <<>>
  /\ wtask' = NoTask
  /\ phase' = "idle"
  /\ wcleaning' = FALSE
  /\ dying' = FALSE
  /\ UNCHANGED <<hostVars, isolate, exited, killed>>

-----------------------------------------------------------------------------
HandleResponse ==
  \/ GotStarted \/ GotCleanupFinished \/ GotCleanupStarted
  \/ GotCleanupEnded \/ GotFinished \/ GotFatal

PoolCalls ==
  \/ CallStart \/ CallDispose \/ CallClose \/ CallDrain
  \/ \E t \in Tasks : CallRun(t)

Host ==
  \/ BeginStop \/ HandleResponse \/ HostExit \/ HostError
  \/ StartTimeout \/ CleanupTimeout \/ FixtureTimeout
  \/ \E t \in Tasks : RejectLost(t)

Worker ==
  \/ WorkerReceives \/ Flushed \/ TestsRun \/ FileCleaned \/ Finish
  \/ WorkerCleaned \/ WorkerFatal \/ WorkerUncaught \/ FixturesCleaned
  \/ WorkerDies

Next == PoolCalls \/ Host \/ Worker

Spec == Init /\ [][Next]_vars

(* The event loop delivers events and fires timers; a process that is dying  *)
(* or was signalled (SIGKILL follows a SIGTERM it survives) dies; a child    *)
(* that cannot be spawned is reported; test files end.  Nothing makes the    *)
(* bootstrap of a worker or the clean-up of a fixture end, nor the pool call.*)
Fairness ==
  /\ WF_vars(BeginStop) /\ WF_vars(HandleResponse) /\ WF_vars(HostExit)
  /\ WF_vars(StartTimeout) /\ WF_vars(CleanupTimeout)
  /\ WF_vars(FixtureTimeout)
  /\ WF_vars(\E t \in Tasks : RejectLost(t))
  /\ WF_vars(proc = "unspawned" /\ HostError)
  /\ WF_vars(~startWait /\ WorkerReceives)
  /\ WF_vars(TestsRun) /\ WF_vars(Finish)
  /\ WF_vars((dying \/ killed) /\ WorkerDies)

FairSpec == Spec /\ Fairness

-----------------------------------------------------------------------------
(* Properties.                                                               *)

(* A task that was answered before its worker was done with it (a fixture    *)
(* cleanup timed out, the channel broke) leaves a runner that is not usable: *)
(* isUsable() is what keeps the pool from handing such a worker a new task.  *)
BusyWorkerNotUsable == wtask # NoTask /\ wtask # task => ~isUsable

(* So the worker never starts a task while another one still runs in it,     *)
(* which would interleave two test files in one process.                     *)
TasksNeverOverlap == [][wtask # NoTask => wtask' \in {wtask, NoTask}]_vars

(* cleanupWorker() is never run under a test file, which would lose its      *)
(* fixtures, unless the pool closes while the file is being handed over.     *)
FixturesOutliveTask == wcleaning /\ wtask # NoTask => "close" \in calls

(* A task is resolved only with a result of its own tests: one that is       *)
(* answered early, by the fixture timer, is past them.                       *)
ResolvedByItsTests ==
  [][\A t \in Tasks :
       /\ answer[t] = "sent" /\ answer'[t] = "resolved"
       /\ wtask = t
       => phase \notin {"load", "flush", "loaded"}]_vars

(* When a stop() has returned, the process is gone: close() leaves no worker *)
(* behind.                                                                   *)
StoppedIsGone == returned > 0 => proc # "live"

(* Between two operations the runner is never STARTING nor STOPPING, so a    *)
(* second stop() never finds the first one under way.                        *)
OperationsSerialized == op = "none" => state \notin {"STARTING", "STOPPING"}

(* What the pool relies on when it hands out a runner, or closes it.         *)
RunnerIsSound ==
  TypeOK /\ StoppedIsGone /\ OperationsSerialized /\ BusyWorkerNotUsable

(* What a test file relies on: its fixtures outlive it, and its answer is    *)
(* about its own tests.                                                      *)
FilesAreServedWhole == []FixturesOutliveTask /\ ResolvedByItsTests

(* Every task the runner accepts is answered: whatever the worker, its       *)
(* process, the timers and a stop() do to one another.                       *)
TaskSettles ==
  \A t \in Tasks : answer[t] = "sent" ~> answer[t] \in {"resolved", "rejected"}

(* Every stop() returns, so that close() can drain its disposals.            *)
StopSettles == queued # <<>> ~> queued = <<>> /\ op = "none"

(* So do a start(), one way or the other, and the pool's                     *)
(* cleanupWorkerFixtures().                                                  *)
StartSettles == op = "start" ~> op # "start"
DrainSettles == drain = "waiting" ~> drain \in {"done", "failed"}
CallsSettle == TaskSettles /\ StopSettles /\ StartSettles /\ DrainSettles

(* The runner's view of itself as its contract has it.                       *)
ContractPhase ==
  CASE state = "IDLE" -> "new"
    [] state = "STARTING" -> "starting"
    [] state = "STOPPED" -> "gone"
    [] isUsable -> "usable"
    [] OTHER -> "unusable"

Contract == INSTANCE RunnerContract WITH phase <- ContractPhase

(* The runner, its transport and its worker together keep the contract the   *)
(* pool relies on.                                                           *)
ImplementsContract == Contract!Spec

=============================================================================
