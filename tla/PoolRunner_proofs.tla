-------------------------- MODULE PoolRunner_proofs --------------------------
(* Theorems about PoolRunner, for any number of tasks, with and without      *)
(* isolation and spawn errors: the runner is sound, runs one file at a time, *)
(* keeps the contract the pool relies on and serves a file whole.            *)
EXTENDS PoolRunner, TLAPS

(* The inductive invariant, in parts.                                        *)

(* Before its start a runner has no process, no task and nothing pending.    *)
StartInv ==
  /\ calls = {} => /\ state = "IDLE" /\ op = "none" /\ proc = "none"
                   /\ queued = <<>> /\ returned = 0
                   /\ ~startWait /\ ~cleanWait
  /\ startWait => state = "STARTING" /\ op = "start"
  /\ state \in {"IDLE", "STARTING"} =>
       task = NoTask /\ \A t \in Tasks : answer[t] = "unsent"

(* The host takes a runner for stopped only when its process is gone.        *)
ProcInv ==
  /\ exited => proc = "dead"
  /\ state = "STOPPED" => proc # "live"
  /\ StoppedIsGone

(* A request to run a task that is on its way finds an idle worker, and is   *)
(* for the current task unless the runner is out of use.                     *)
RequestInv ==
  \A i \in 1..Len(toWorker) : toWorker[i].type = "run" =>
    /\ wtask = NoTask
    /\ answer[toWorker[i].id] # "unsent"
    /\ toWorker[i].id = task \/ ~isUsable
    /\ \A j \in 1..Len(toWorker) : toWorker[j].type = "run" => i = j

(* A task that is reported finished is neither running nor to be run.        *)
ReportInv ==
  \A i \in 1..Len(toHost) : toHost[i].type = "runFinished" =>
    /\ answer[toHost[i].id] # "unsent"
    /\ toHost[i].id # wtask
    /\ \A j \in 1..Len(toWorker) :
         toWorker[j].type = "run" => toWorker[j].id # toHost[i].id

RunningInv == wtask # NoTask => answer[wtask] # "unsent"

IInv ==
  /\ TypeOK
  /\ StartInv
  /\ ProcInv
  /\ OperationsSerialized
  /\ RunningInv
  /\ RequestInv
  /\ ReportInv
  /\ BusyWorkerNotUsable

-----------------------------------------------------------------------------
(* Pipes.                                                                    *)

LEMMA TakeFacts ==
  ASSUME NEW S, NEW s \in Seq(S), s # <<>>
  PROVE  /\ Tail(s) \in Seq(S)
         /\ Head(s) \in S
         /\ 1 \in 1..Len(s) /\ Head(s) = s[1]
         /\ \A i \in 1..Len(Tail(s)) :
              i + 1 \in 1..Len(s) /\ Tail(s)[i] = s[i + 1]
  OBVIOUS

LEMMA SendFacts ==
  ASSUME NEW S, NEW s \in Seq(S), NEW e \in S
  PROVE  /\ Append(s, e) \in Seq(S)
         /\ \A i \in 1..Len(Append(s, e)) :
              \/ i \in 1..Len(s) /\ Append(s, e)[i] = s[i]
              \/ i = Len(s) + 1 /\ Append(s, e)[i] = e
  OBVIOUS

LEMMA ReplyFacts ==
  ASSUME NEW S, NEW s \in Seq(S), NEW u \in Seq(S)
  PROVE  /\ s \o u \in Seq(S)
         /\ \A i \in 1..Len(s \o u) :
              \/ i \in 1..Len(s) /\ (s \o u)[i] = s[i]
              \/ i - Len(s) \in 1..Len(u) /\ (s \o u)[i] = u[i - Len(s)]
  OBVIOUS

LEMMA CutFacts ==
  ASSUME NEW S, NEW s \in Seq(S), NEW k \in 0..Len(s)
  PROVE  /\ SubSeq(s, 1, k) \in Seq(S)
         /\ \A i \in 1..Len(SubSeq(s, 1, k)) :
              i \in 1..Len(s) /\ SubSeq(s, 1, k)[i] = s[i]
  OBVIOUS

(* What a response of each type carries.                                     *)
LEMMA ResponseFields ==
  ASSUME NEW r \in Responses
  PROVE  /\ r.type \in {"workerCleanupStarted", "fileCleanupFinished",
                        "runFinished", "workerCleanupFinished",
                        "fileCleanupStarted"} => r.id \in Tasks
         /\ r.type = "fileCleanupStarted" => r.result \in BOOLEAN
         /\ r.type \in {"cleanupFinished", "workerCleanupFinished"} =>
              r.ok \in BOOLEAN
  BY DEF Responses

LEMMA RequestFields ==
  ASSUME NEW r \in Requests
  PROVE  r.type = "run" => r.id \in Tasks
  BY DEF Requests

(* What the worker writes: it takes steps with its task, of which only the   *)
(* last one reports it finished, or ends, or writes something else.          *)
TaskStep(p, u) ==
  /\ wtask # NoTask
  /\ phase' = p
  /\ toHost' = toHost \o u
  /\ wtask' = IF p = "idle" THEN NoTask ELSE wtask
  /\ UNCHANGED <<hostVars, isolate, procVars, toWorker, wcleaning, dying>>

LEMMA TaskSteps ==
  ASSUME TypeOK,
         Flushed \/ TestsRun \/ FileCleaned \/ Finish \/ WorkerCleaned
  PROVE  \E p \in Phases, u \in Seq(Responses) :
           /\ TaskStep(p, u)
           /\ p \notin {"load", "flush"} /\ (p = "loaded" => phase = "flush")
           /\ \A i \in 1..Len(u) :
                /\ u[i].type \notin {"fatal_error", "started"}
                /\ u[i].type = "runFinished" => p = "idle" /\ u[i].id = wtask
                /\ u[i].type = "fileCleanupStarted" =>
                     p # "loaded" /\ u[i].id = wtask
<1> DEFINE Says(p, u) ==
             /\ p \in Phases
             /\ u \in Seq(Responses)
             /\ TaskStep(p, u)
             /\ p \notin {"load", "flush"} /\ (p = "loaded" => phase = "flush")
             /\ \A i \in 1..Len(u) :
                  /\ u[i].type \notin {"fatal_error", "started"}
                  /\ u[i].type = "runFinished" =>
                       p = "idle" /\ u[i].id = wtask
                  /\ u[i].type = "fileCleanupStarted" =>
                       p # "loaded" /\ u[i].id = wtask
<1> SUFFICES \E p, u : Says(p, u)
  OBVIOUS
<1>1. wtask \in Tasks \cup {NoTask}
  BY DEF TypeOK
<1>2. CASE Flushed
  <2>1. Says("loaded", <<WorkerCleanupFinished(TRUE)>>)
    BY <1>1, <1>2 DEF Flushed, Step, TaskStep, Reply, WorkerCleanupFinished,
                      Responses, Phases
  <2> HIDE DEF Says
  <2> QED BY <2>1
<1>3. CASE TestsRun
  <2>1. PICK from \in {"load", "loaded"} :
          \/ \E result \in BOOLEAN :
               Step(from, "fileCleanup", <<FileCleanupStarted(result)>>)
          \/ Step(from, "cleaned", <<>>)
    BY <1>3 DEF TestsRun
  <2>2. ASSUME NEW result \in BOOLEAN,
               Step(from, "fileCleanup", <<FileCleanupStarted(result)>>)
        PROVE  Says("fileCleanup", <<FileCleanupStarted(result)>>)
    BY <1>1, <2>2 DEF Step, TaskStep, Reply, FileCleanupStarted, Responses,
                      Phases
  <2>3. ASSUME Step(from, "cleaned", <<>>)
        PROVE  Says("cleaned", <<>>)
    BY <1>1, <2>3 DEF Step, TaskStep, Reply, Phases
  <2> HIDE DEF Says
  <2> QED BY <2>1, <2>2, <2>3
<1>4. CASE FileCleaned
  <2> DEFINE twice == <<FileCleanupFinished, FileCleanupStarted(FALSE)>>
  <2>1. ASSUME NEW from, Step(from, "cleaned", <<FileCleanupFinished>>)
        PROVE  Says("cleaned", <<FileCleanupFinished>>)
    BY <1>1, <2>1 DEF Step, TaskStep, Reply, FileCleanupFinished, Responses,
                      Phases
  <2>2. ASSUME Step("fileCleanup", "retryCleanup", twice)
        PROVE  Says("retryCleanup", twice)
    BY <1>1, <2>2 DEF Step, TaskStep, Reply, FileCleanupFinished,
                      FileCleanupStarted, Responses, Phases
  <2> HIDE DEF Says
  <2> QED BY <1>4, <2>1, <2>2 DEF FileCleaned
<1>5. CASE Finish
  <2> DEFINE started == [type |-> "workerCleanupStarted", id |-> wtask]
  <2>1. ASSUME Step("cleaned", "workerCleanup", <<started>>)
        PROVE  Says("workerCleanup", <<started>>)
    BY <1>1, <2>1 DEF Step, TaskStep, Reply, Responses, Phases
  <2>2. ASSUME Step("cleaned", "idle", <<RunFinished>>)
        PROVE  Says("idle", <<RunFinished>>)
    BY <1>1, <2>2 DEF Step, TaskStep, Reply, RunFinished, Responses, Phases
  <2> HIDE DEF Says
  <2> QED BY <1>5, <2>1, <2>2 DEF Finish
<1>6. CASE WorkerCleaned
  <2>1. PICK ok \in BOOLEAN :
          Step("workerCleanup", "idle",
               <<WorkerCleanupFinished(ok), RunFinished>>)
    BY <1>6 DEF WorkerCleaned
  <2>2. Says("idle", <<WorkerCleanupFinished(ok), RunFinished>>)
    BY <1>1, <2>1 DEF Step, TaskStep, Reply, WorkerCleanupFinished,
                      RunFinished, Responses, Phases
  <2> HIDE DEF Says
  <2> QED BY <2>2
<1> QED BY <1>2, <1>3, <1>4, <1>5, <1>6

-----------------------------------------------------------------------------
(* Every step keeps the variables' types: the flags apart from the others.   *)
FlagsOK ==
  /\ crashed \in BOOLEAN /\ provisional \in BOOLEAN
  /\ startWait \in BOOLEAN /\ cleanWait \in BOOLEAN
  /\ cleaned \in BOOLEAN /\ fixtureTimer \in BOOLEAN
  /\ exited \in BOOLEAN /\ killed \in BOOLEAN
  /\ wcleaning \in BOOLEAN /\ dying \in BOOLEAN
  /\ isolate \in BOOLEAN

ValuesOK ==
  /\ state \in States
  /\ task \in Tasks \cup {NoTask}
  /\ queued \in Seq({"stop", "force"})
  /\ op \in {"none", "start", "stopCleanup", "stopKill"}
  /\ answer \in [Tasks -> {"unsent", "sent", "lost", "resolved", "rejected"}]
  /\ returned \in Nat
  /\ calls \in SUBSET {"start", "dispose", "close"}
  /\ drain \in {"none", "waiting", "done", "failed"}
  /\ proc \in {"none", "live", "dead", "unspawned"}
  /\ toWorker \in Seq(Requests)
  /\ toHost \in Seq(Responses)
  /\ wtask \in Tasks \cup {NoTask}
  /\ phase \in Phases

LEMMA TypeParts == TypeOK <=> FlagsOK /\ ValuesOK
  BY DEF TypeOK, FlagsOK, ValuesOK

LEMMA TypeNext ==
  ASSUME TypeOK, [Next]_vars
  PROVE  TypeOK'
<1> USE RunnerAssumption
<1> USE DEF vars, hostVars, taskVars, cleanVars, opVars, callVars, procVars,
            pipeVars, workerVars
<1> SUFFICES FlagsOK' /\ ValuesOK'
  BY DEF TypeOK, FlagsOK, ValuesOK
<1> FlagsOK /\ ValuesOK
  BY TypeParts
<1>0. ASSUME toHost # <<>>
      PROVE  /\ Tail(toHost) \in Seq(Responses)
             /\ Head(toHost) \in Responses
  BY <1>0, TakeFacts DEF ValuesOK
<1>a. ASSUME toHost # <<>>, Head(toHost).type = "fileCleanupStarted"
      PROVE  Head(toHost).result \in BOOLEAN
  BY <1>0, <1>a, ResponseFields
<1>b. /\ [type |-> "start"] \in Requests
      /\ [type |-> "cleanup"] \in Requests
      /\ \A t \in Tasks : [type |-> "run", id |-> t] \in Requests
      /\ 1 \in Tasks
  BY DEF Requests, Tasks, RunnerAssumption
<1>c. \A r \in Requests : Append(toWorker, r) \in Seq(Requests)
  BY DEF ValuesOK
<1>d. \A r1, r2 \in Requests : toWorker \o <<r1, r2>> \in Seq(Requests)
  BY DEF ValuesOK
<1>e. ASSUME toWorker # <<>>
      PROVE  /\ Tail(toWorker) \in Seq(Requests)
             /\ Head(toWorker) \in Requests
             /\ Head(toWorker).type = "run" => Head(toWorker).id \in Tasks
  BY <1>e, TakeFacts, RequestFields DEF ValuesOK
<1>f. /\ \A r \in Responses : toHost \o <<r>> \in Seq(Responses)
      /\ \A r1, r2 \in Responses :
           toHost \o <<r1, r2>> \in Seq(Responses)
  BY DEF ValuesOK
<1>g. /\ [type |-> "started"] \in Responses
      /\ [type |-> "fatal_error"] \in Responses
      /\ \A t \in Tasks : [type |-> "workerCleanupStarted", id |-> t]
                            \in Responses
      /\ wtask # NoTask => WorkerCleanupFinished(FALSE) \in Responses
  BY DEF Responses, WorkerCleanupFinished, ValuesOK
<1>h. queued # <<>> => Tail(queued) \in Seq({"stop", "force"})
  BY DEF ValuesOK
<1>1. CASE CallStart
  <2>1. ValuesOK'
    BY <1>b, <1>c, <1>1
    DEF ValuesOK, States, CallStart, Send
  <2>2. FlagsOK'
    BY <1>1, ZenonT(60) DEF FlagsOK, CallStart
  <2> QED BY <2>1, <2>2
<1>2. CASE \E t \in Tasks : CallRun(t)
  <2>1. ValuesOK'
    BY <1>b, <1>c, <1>2
    DEF ValuesOK, States, CallRun, HandTask, Send
  <2>2. FlagsOK'
    BY <1>2, Zenon DEF FlagsOK, CallRun, HandTask
  <2> QED BY <2>1, <2>2
<1>3. CASE CallDispose
  <2>1. ValuesOK'
    BY <1>3
    DEF ValuesOK, States, Tasks, NoTask, CallDispose
  <2>2. FlagsOK'
    BY <1>3, ZenonT(60) DEF FlagsOK, CallDispose
  <2> QED BY <2>1, <2>2
<1>4. CASE CallClose
  <2>1. ValuesOK'
    BY <1>4
    DEF ValuesOK, States, Tasks, NoTask, CallClose
  <2>2. FlagsOK'
    BY <1>4, ZenonT(60) DEF FlagsOK, CallClose
  <2> QED BY <2>1, <2>2
<1>5. CASE CallDrain
  <2>1. ValuesOK'
    BY <1>b, <1>c, <1>5
    DEF ValuesOK, States, CallDrain, Send
  <2>2. FlagsOK'
    BY <1>5, Zenon DEF FlagsOK, CallDrain
  <2> QED BY <2>1, <2>2
<1>6. CASE BeginStop
  <2>1. ValuesOK'
    <3>1. toWorker' \in Seq(Requests)
      BY <1>b, <1>c, <1>6, Zenon DEF ValuesOK, BeginStop, Send
    <3>2. queued' \in Seq({"stop", "force"})
      BY <1>h, <1>6 DEF BeginStop
    <3>3. /\ state' \in States
          /\ op' \in {"none", "start", "stopCleanup", "stopKill"}
          /\ returned' \in Nat
      BY <1>6 DEF ValuesOK, States, BeginStop, TerminateOr
    <3> QED BY <1>6, <3>1, <3>2, <3>3, Zenon DEF ValuesOK, BeginStop
  <2>2. FlagsOK'
    BY <1>6, ZenonT(60) DEF FlagsOK, BeginStop, TerminateOr
  <2> QED BY <2>1, <2>2
<1>7. CASE GotStarted
  <2>1. ValuesOK'
    <3>1. toWorker' \in Seq(Requests)
      BY <1>b, <1>c, <1>d, <1>7, ZenonT(60) DEF ValuesOK, GotStarted, Send
    <3>2. toHost' \in Seq(Responses)
      BY <1>0, <1>7 DEF GotStarted, Got
    <3>3. queued' \in Seq({"stop", "force"})
      BY <1>h, <1>7, Zenon DEF ValuesOK, GotStarted
    <3>4. /\ state' \in States
          /\ op' \in {"none", "start", "stopCleanup", "stopKill"}
          /\ task' \in Tasks \cup {NoTask}
          /\ answer' \in [Tasks -> {"unsent", "sent", "lost", "resolved",
                                   "rejected"}]
      BY <1>b, <1>7 DEF ValuesOK, States, GotStarted, HandTask
    <3> QED
      BY <1>7, <3>1, <3>2, <3>3, <3>4, Zenon DEF ValuesOK, GotStarted
  <2>2. FlagsOK'
    BY <1>7, ZenonT(60) DEF FlagsOK, GotStarted, HandTask
  <2> QED BY <2>1, <2>2
<1>8. CASE GotCleanupFinished
  <2>1. ValuesOK'
    BY <1>0, <1>8
    DEF ValuesOK, States, Tasks, NoTask, GotCleanupFinished, Got,
        CleanupSettles,
        DrainSettled, TerminateOr
  <2>2. FlagsOK'
    BY <1>8, Zenon DEF FlagsOK, GotCleanupFinished, CleanupSettles, TerminateOr
  <2> QED BY <2>1, <2>2
<1>9. CASE GotCleanupStarted
  <2>1. ValuesOK'
    <3>1. toHost' \in Seq(Responses)
      BY <1>0, <1>9 DEF GotCleanupStarted, Got
    <3> QED BY <1>9, <3>1, ZenonT(60) DEF ValuesOK, GotCleanupStarted
  <2>2. FlagsOK'
    BY <1>a, <1>9, ZenonT(60) DEF FlagsOK, GotCleanupStarted, Got
  <2> QED BY <2>1, <2>2
<1>10. CASE GotCleanupEnded
  <2>1. ValuesOK'
    <3>1. toHost' \in Seq(Responses)
      BY <1>0, <1>10 DEF GotCleanupEnded, Got
    <3> QED BY <1>10, <3>1, ZenonT(60) DEF ValuesOK, GotCleanupEnded
  <2>2. FlagsOK'
    BY <1>10, ZenonT(60) DEF FlagsOK, GotCleanupEnded
  <2> QED BY <2>1, <2>2
<1>11. CASE GotFinished
  <2>1. ValuesOK'
    BY <1>0, <1>11
    DEF ValuesOK, States, Tasks, NoTask, GotFinished, Got, EndTask
  <2>2. FlagsOK'
    BY <1>11, ZenonT(60) DEF FlagsOK, GotFinished, EndTask
  <2> QED BY <2>1, <2>2
<1>12. CASE GotFatal
  <2>1. ValuesOK'
    BY <1>0, <1>12
    DEF ValuesOK, States, Tasks, NoTask, GotFatal, Got, EndTask
  <2>2. FlagsOK'
    BY <1>12, Zenon DEF FlagsOK, GotFatal, EndTask
  <2> QED BY <2>1, <2>2
<1>13. CASE HostExit
  <2>1. ValuesOK'
    BY <1>13
    DEF ValuesOK, States, Tasks, NoTask, HostExit, EndTask, DrainSettled
  <2>2. FlagsOK'
    BY <1>13, Zenon DEF FlagsOK, HostExit, EndTask
  <2> QED BY <2>1, <2>2
<1>14. CASE HostError
  <2>1. ValuesOK'
    BY <1>14
    DEF ValuesOK, States, Tasks, NoTask, HostError, EndTask, CleanupSettles,
        DrainSettled, TerminateOr
  <2>2. FlagsOK'
    BY <1>14, Zenon
    DEF FlagsOK, HostError, EndTask, CleanupSettles, TerminateOr
  <2> QED BY <2>1, <2>2
<1>15. CASE StartTimeout
  <2>1. ValuesOK'
    BY <1>15
    DEF ValuesOK, States, Tasks, NoTask, StartTimeout
  <2>2. FlagsOK'
    BY <1>15, Zenon DEF FlagsOK, StartTimeout
  <2> QED BY <2>1, <2>2
<1>16. CASE CleanupTimeout
  <2>1. ValuesOK'
    BY <1>16
    DEF ValuesOK, States, Tasks, NoTask, CleanupTimeout, CleanupSettles,
        DrainSettled,
        TerminateOr
  <2>2. FlagsOK'
    BY <1>16, Zenon DEF FlagsOK, CleanupTimeout, CleanupSettles, TerminateOr
  <2> QED BY <2>1, <2>2
<1>17. CASE FixtureTimeout
  <2>1. ValuesOK'
    BY <1>17
    DEF ValuesOK, States, Tasks, NoTask, FixtureTimeout, EndTask
  <2>2. FlagsOK'
    BY <1>17, Zenon DEF FlagsOK, FixtureTimeout, EndTask
  <2> QED BY <2>1, <2>2
<1>18. CASE \E t \in Tasks : RejectLost(t)
  <2>1. ValuesOK'
    BY <1>18
    DEF ValuesOK, States, Tasks, NoTask, RejectLost
  <2>2. FlagsOK'
    BY <1>18, ZenonT(60) DEF FlagsOK, RejectLost
  <2> QED BY <2>1, <2>2
<1>19. CASE Flushed \/ TestsRun \/ FileCleaned \/ Finish \/ WorkerCleaned
  <2>0. PICK p \in Phases, u \in Seq(Responses) : TaskStep(p, u)
    BY <1>19, TaskSteps
  <2>1. ValuesOK'
    BY <2>0
    DEF ValuesOK, States, Tasks, NoTask, TaskStep
  <2>2. FlagsOK'
    BY <2>0, ZenonT(60) DEF FlagsOK, TaskStep
  <2> QED BY <2>1, <2>2
<1>20. CASE WorkerReceives
  <2>1. ValuesOK'
    <3>1. toHost' \in Seq(Responses)
      BY <1>e, <1>f, <1>g, <1>20, Zenon DEF ValuesOK, WorkerReceives, Reply
    <3>2. toWorker' \in Seq(Requests)
      BY <1>e, <1>20 DEF WorkerReceives
    <3>3. wtask' \in Tasks \cup {NoTask} /\ phase' \in Phases
      BY <1>e, <1>20, Zenon DEF ValuesOK, WorkerReceives, Phases
    <3> QED BY <1>20, <3>1, <3>2, <3>3, Zenon DEF ValuesOK, WorkerReceives
  <2>2. FlagsOK'
    BY <1>20, ZenonT(60) DEF FlagsOK, WorkerReceives
  <2> QED BY <2>1, <2>2
<1>21. CASE WorkerFatal
  <2>1. ValuesOK'
    <3> DEFINE fatal == [type |-> "fatal_error"]
               u == IF phase = "flush" THEN <<WorkerCleanupFinished(FALSE),
                   fatal>>
                                       ELSE <<fatal>>
    <3>1. toHost \o u \in Seq(Responses)
      BY <1>f, <1>g, <1>21 DEF WorkerFatal
    <3>2. toHost' \in Seq(Responses)
      BY <1>21, <3>1, Zenon DEF WorkerFatal, Reply
    <3>3. wtask' \in Tasks \cup {NoTask} /\ phase' \in Phases
      BY <1>21, Zenon DEF WorkerFatal, Phases
    <3> QED BY <1>21, <3>2, <3>3, Zenon DEF ValuesOK, WorkerFatal
  <2>2. FlagsOK'
    BY <1>21, Zenon DEF FlagsOK, WorkerFatal
  <2> QED BY <2>1, <2>2
<1>22. CASE WorkerUncaught
  <2>1. ValuesOK'
    BY <1>22
    DEF ValuesOK, States, Tasks, NoTask, WorkerUncaught, Reply, Responses
  <2>2. FlagsOK'
    BY <1>22, Zenon DEF FlagsOK, WorkerUncaught
  <2> QED BY <2>1, <2>2
<1>23. CASE FixturesCleaned
  <2>1. ValuesOK'
    BY <1>23
    DEF ValuesOK, States, Tasks, NoTask, FixturesCleaned, Reply, Responses
  <2>2. FlagsOK'
    BY <1>23, Zenon DEF FlagsOK, FixturesCleaned
  <2> QED BY <2>1, <2>2
<1>24. CASE WorkerDies
  <2>1. ValuesOK'
    BY <1>24
    DEF ValuesOK, States, Tasks, NoTask, WorkerDies, Phases
  <2>2. FlagsOK'
    BY <1>24, Zenon DEF FlagsOK, WorkerDies
  <2> QED BY <2>1, <2>2
<1>25. CASE UNCHANGED vars
  <2>1. ValuesOK'
    BY <1>25
    DEF ValuesOK
  <2>2. FlagsOK'
    BY <1>25, ZenonT(60) DEF FlagsOK
  <2> QED BY <2>1, <2>2
<1> QED
  BY <1>1, <1>2, <1>3, <1>4, <1>5, <1>6, <1>7, <1>8, <1>9, <1>10, <1>11,
      <1>12, <1>13,
     <1>14, <1>15, <1>16, <1>17, <1>18, <1>19, <1>20, <1>21, <1>22, <1>23,
         <1>24, <1>25
  DEF Next, PoolCalls, Host, HandleResponse, Worker

-----------------------------------------------------------------------------
(* The host's side of the invariant: its start, its process and its    *)
(* operations.                                                               *)
LEMMA SettleFacts ==
  ASSUME NEW ok, CleanupSettles(ok)
  PROVE  /\ cleanWait' = FALSE
         /\ \/ UNCHANGED <<state, op, returned>>
            \/ /\ op = "stopCleanup" /\ proc # "none" /\ ~exited
               /\ state' = "STOPPING" /\ op' = "stopKill"
               /\ UNCHANGED returned
            \/ /\ op = "stopCleanup" /\ (proc = "none" \/ exited)
               /\ state' = "STOPPED" /\ op' = "none"
               /\ returned' = returned + 1
  BY Zenon DEF CleanupSettles, TerminateOr, HasLiveChild

LEMMA HostNext ==
  ASSUME TypeOK, StartInv, ProcInv, OperationsSerialized, [Next]_vars
  PROVE  StartInv' /\ ProcInv' /\ OperationsSerialized'
<1> USE DEF StartInv, ProcInv, StoppedIsGone, OperationsSerialized, vars,
            hostVars, taskVars, cleanVars, opVars, callVars, procVars,
            pipeVars, workerVars
<1>0. /\ returned \in Nat
      /\ answer \in [Tasks -> {"unsent", "sent", "lost", "resolved",
                              "rejected"}]
      /\ task \in Tasks \cup {NoTask}
  BY DEF TypeOK
<1>1. CASE CallStart
  BY <1>0, <1>1 DEF CallStart
<1>2. CASE \E t \in Tasks : CallRun(t)
  BY <1>0, <1>2 DEF CallRun, HandTask, isUsable
<1>3. CASE CallDispose
  BY <1>0, <1>3 DEF CallDispose
<1>4. CASE CallClose
  BY <1>0, <1>4 DEF CallClose
<1>5. CASE CallDrain
  BY <1>0, <1>5 DEF CallDrain
<1>6. CASE BeginStop
  BY <1>0, <1>6 DEF BeginStop, TerminateOr, HasLiveChild
<1>7. CASE GotStarted
  BY <1>0, <1>7 DEF GotStarted, HandTask
<1>8. CASE GotCleanupFinished
  <2>1. CASE cleanWait
    <3>1. CleanupSettles(Head(toHost).ok)
      BY <1>8, <2>1, Zenon DEF GotCleanupFinished
    <3>2. calls # {} /\ UNCHANGED <<startWait, task, answer, exited, proc,
        calls>>
      BY <1>8, <2>1 DEF GotCleanupFinished
    <3> HIDE <1>8
    <3> QED BY <1>0, <2>1, <3>1, <3>2, SettleFacts
  <2>2. CASE ~cleanWait
    BY <1>8, <2>2 DEF GotCleanupFinished
  <2> QED BY <2>1, <2>2
<1>9. CASE GotCleanupStarted
  BY <1>0, <1>9 DEF GotCleanupStarted
<1>10. CASE GotCleanupEnded
  BY <1>0, <1>10 DEF GotCleanupEnded
<1>11. CASE GotFinished
  BY <1>0, <1>11 DEF GotFinished, EndTask
<1>12. CASE GotFatal
  BY <1>0, <1>12 DEF GotFatal, EndTask
<1>13. CASE HostExit
  BY <1>0, <1>13 DEF HostExit, EndTask
<1>14. CASE HostError
  BY <1>0, <1>14 DEF HostError, EndTask, CleanupSettles, TerminateOr,
      HasLiveChild
<1>15. CASE StartTimeout
  BY <1>0, <1>15 DEF StartTimeout
<1>16. CASE CleanupTimeout
  <2>1. CleanupSettles(FALSE)
    BY <1>16, Zenon DEF CleanupTimeout
  <2>2. calls # {} /\ UNCHANGED <<startWait, task, answer, exited, proc,
      calls>>
    BY <1>16 DEF CleanupTimeout
  <2> QED BY <1>0, <2>1, <2>2, SettleFacts
<1>17. CASE FixtureTimeout
  BY <1>0, <1>17 DEF FixtureTimeout, EndTask
<1>18. CASE \E t \in Tasks : RejectLost(t)
  BY <1>0, <1>18 DEF RejectLost
<1>19. CASE Flushed \/ TestsRun \/ FileCleaned \/ Finish \/ WorkerCleaned
  <2>1. PICK p \in Phases, u \in Seq(Responses) : TaskStep(p, u)
    BY <1>19, TaskSteps
  <2> QED BY <2>1 DEF TaskStep
<1>20. CASE WorkerReceives
  BY <1>20 DEF WorkerReceives
<1>21. CASE WorkerFatal
  BY <1>21 DEF WorkerFatal
<1>22. CASE WorkerUncaught
  BY <1>22 DEF WorkerUncaught
<1>23. CASE FixturesCleaned
  BY <1>23 DEF FixturesCleaned
<1>24. CASE WorkerDies
  BY <1>24 DEF WorkerDies
<1>25. CASE UNCHANGED vars
  BY <1>25
<1> QED
  BY <1>1, <1>2, <1>3, <1>4, <1>5, <1>6, <1>7, <1>8, <1>9, <1>10, <1>11,
      <1>12, <1>13,
     <1>14, <1>15, <1>16, <1>17, <1>18, <1>19, <1>20, <1>21, <1>22, <1>23,
         <1>24, <1>25
  DEF Next, PoolCalls, Host, HandleResponse, Worker

-----------------------------------------------------------------------------
(* The pipes' side of the invariant.                                         *)
TasksInv == RunningInv /\ RequestInv /\ ReportInv /\ BusyWorkerNotUsable

LEMMA PipeTypes ==
  ASSUME TypeOK
  PROVE  /\ toWorker \in Seq(Requests) /\ toHost \in Seq(Responses)
         /\ \A i \in 1..Len(toWorker) :
              toWorker[i].type = "run" => toWorker[i].id \in Tasks
         /\ \A i \in 1..Len(toHost) :
              toHost[i].type = "runFinished" => toHost[i].id \in Tasks
         /\ wtask \in Tasks \cup {NoTask} /\ NoTask \notin Tasks
<1>1. toWorker \in Seq(Requests) /\ toHost \in Seq(Responses)
  BY DEF TypeOK
<1>2. \A i \in 1..Len(toWorker) : toWorker[i] \in Requests
  BY <1>1
<1>3. \A i \in 1..Len(toHost) : toHost[i] \in Responses
  BY <1>1
<1> QED
  BY <1>1, <1>2, <1>3, RequestFields, ResponseFields DEF TypeOK, Tasks, NoTask

(* A step in which the host sends no task, and the worker does nothing,      *)
(* keeps it if the runner stays usable only with the task it has, or after   *)
(* the worker has finished that one.                                         *)
LEMMA HostKeeps ==
  ASSUME TypeOK, TasksInv, wtask' = wtask,
         \A i \in 1..Len(toWorker') : toWorker'[i].type = "run" =>
           i \in 1..Len(toWorker) /\ toWorker'[i] = toWorker[i],
         \A i \in 1..Len(toHost') :
           \E j \in 1..Len(toHost) : toHost'[i] = toHost[j],
         \A t \in Tasks : answer[t] # "unsent" => answer'[t] # "unsent",
         isUsable' => /\ isUsable
                      /\ \/ task' = task
                         \/ /\ wtask # task
                            /\ \A i \in 1..Len(toWorker) :
                                 toWorker[i].type = "run" =>
                                   toWorker[i].id # task
  PROVE  TasksInv'
<1> USE PipeTypes
<1>1. RunningInv'
  BY DEF TasksInv, RunningInv
<1>2. RequestInv'
  BY DEF TasksInv, RequestInv
<1>3. ReportInv'
  BY DEF TasksInv, ReportInv
<1>4. BusyWorkerNotUsable'
  BY DEF TasksInv, BusyWorkerNotUsable
<1> QED BY <1>1, <1>2, <1>3, <1>4 DEF TasksInv

(* The worker takes a step with the task it has, if any, or writes something *)
(* that reports no task.                                                     *)
LEMMA WorkerKeeps ==
  ASSUME TypeOK, TasksInv, NEW u \in Seq(Responses),
         UNCHANGED <<task, answer, state, crashed, toWorker>>,
         toHost' = toHost \o u,
         wtask' = wtask \/ wtask' = NoTask,
         \A i \in 1..Len(u) : u[i].type = "runFinished" =>
           wtask # NoTask /\ wtask' = NoTask /\ u[i].id = wtask
  PROVE  TasksInv'
<1> USE PipeTypes
<1>1. isUsable' = isUsable
  BY Zenon DEF isUsable
<1>2. RunningInv' /\ BusyWorkerNotUsable' /\ RequestInv'
  BY <1>1 DEF TasksInv, RunningInv, BusyWorkerNotUsable, RequestInv
<1>3. \A i \in 1..Len(toHost') : toHost'[i].type = "runFinished" =>
        \/ i \in 1..Len(toHost) /\ toHost'[i] = toHost[i]
        \/ wtask # NoTask /\ wtask' = NoTask /\ toHost'[i].id = wtask
  BY ReplyFacts
<1>4. ReportInv'
  BY <1>3 DEF TasksInv, RunningInv, RequestInv, ReportInv
<1> QED BY <1>2, <1>4 DEF TasksInv

(* Every step keeps it.                                                      *)
LEMMA TasksNext ==
  ASSUME TypeOK, StartInv, TasksInv, [Next]_vars
  PROVE  TasksInv'
<1> USE DEF vars, hostVars, taskVars, cleanVars, opVars, callVars, procVars,
            pipeVars, workerVars
<1> USE PipeTypes
<1>a. answer \in [Tasks -> {"unsent", "sent", "lost", "resolved", "rejected"}]
  BY DEF TypeOK
<1>b. ASSUME NEW o \in {"lost", "resolved"}, EndTask(o)
      PROVE  /\ task' = NoTask
             /\ \A t \in Tasks : answer[t] # "unsent" => answer'[t] # "unsent"
  BY <1>a, <1>b DEF EndTask
(* What the host does to the pipes in a step that sends no task.             *)
<1> DEFINE SendsNoRun ==
             \A i \in 1..Len(toWorker') : toWorker'[i].type = "run" =>
               i \in 1..Len(toWorker) /\ toWorker'[i] = toWorker[i]
           ReadsOnly ==
             \A i \in 1..Len(toHost') :
               \E j \in 1..Len(toHost) : toHost'[i] = toHost[j]
           AnswersStay ==
             \A t \in Tasks : answer[t] # "unsent" => answer'[t] # "unsent"
<1>c. toWorker' = toWorker => SendsNoRun
  OBVIOUS
<1>d. ASSUME NEW type \in {"start", "cleanup"}, Send([type |-> type])
      PROVE  SendsNoRun
  <2>1. [type |-> type] \in Requests
    BY DEF Requests
  <2> QED BY <1>d, <2>1, SendFacts DEF Send
<1>e. toHost' = toHost => ReadsOnly
  OBVIOUS
<1>f. ASSUME NEW type, Got(type)
      PROVE  ReadsOnly /\ Head(toHost) = toHost[1] /\ 1 \in 1..Len(toHost)
  BY <1>f, TakeFacts DEF Got
<1>g. UNCHANGED answer => AnswersStay
  OBVIOUS
<1> HIDE DEF SendsNoRun, ReadsOnly, AnswersStay
<1>h. ASSUME wtask' = wtask, SendsNoRun, ReadsOnly, AnswersStay,
             isUsable' => isUsable /\ task' = task
      PROVE  TasksInv'
  BY <1>h, HostKeeps DEF SendsNoRun, ReadsOnly, AnswersStay
<1>1. CASE CallStart
  <2>1. wtask' = wtask /\ SendsNoRun
    BY <1>1, <1>c, <1>d DEF CallStart
  <2>2. ReadsOnly
    BY <1>1, <1>e DEF CallStart
  <2>3. AnswersStay
    BY <1>1, <1>g DEF CallStart
  <2>4. isUsable' => isUsable /\ task' = task
    BY <1>1, Zenon DEF CallStart, isUsable
  <2> QED BY <1>h, <2>1, <2>2, <2>3, <2>4
<1>2. CASE \E t \in Tasks : CallRun(t)
  <2>1. PICK t \in Tasks : CallRun(t)
    BY <1>2
  <2> DEFINE run == [type |-> "run", id |-> t]
  <2>2. /\ isUsable /\ task = NoTask /\ answer[t] = "unsent"
        /\ toHost' = toHost /\ wtask' = wtask
        /\ task' = t /\ answer' = [answer EXCEPT ![t] = "sent"]
        /\ toWorker' = Append(toWorker, run)
    BY <2>1 DEF CallRun, NextTask, HandTask, Send
  <2>3. /\ wtask = NoTask
        /\ \A i \in 1..Len(toWorker) : toWorker[i].type # "run"
    BY <2>2 DEF TasksInv, RequestInv, BusyWorkerNotUsable
  <2>4. run \in Requests
    BY DEF Requests
  <2>5. \A i \in 1..Len(toWorker') :
          toWorker'[i].type = "run" =>
            i = Len(toWorker) + 1 /\ toWorker'[i] = run
    BY <2>2, <2>3, <2>4, SendFacts
  <2>6. RunningInv' /\ BusyWorkerNotUsable'
    BY <2>2, <2>3 DEF RunningInv, BusyWorkerNotUsable
  <2>7. RequestInv'
    BY <1>a, <2>2, <2>3, <2>5 DEF RequestInv
  <2>8. ReportInv'
    BY <1>a, <2>2, <2>3, <2>5 DEF ReportInv, TasksInv
  <2> QED BY <2>6, <2>7, <2>8 DEF TasksInv
<1>3. CASE CallDispose
  <2>1. wtask' = wtask /\ SendsNoRun
    BY <1>3, <1>c DEF CallDispose
  <2>2. ReadsOnly
    BY <1>3, <1>e DEF CallDispose
  <2>3. AnswersStay
    BY <1>3, <1>g DEF CallDispose
  <2>4. isUsable' => isUsable /\ task' = task
    BY <1>3, Zenon DEF CallDispose, isUsable
  <2> QED BY <1>h, <2>1, <2>2, <2>3, <2>4
<1>4. CASE CallClose
  <2>1. wtask' = wtask /\ SendsNoRun
    BY <1>4, <1>c DEF CallClose
  <2>2. ReadsOnly
    BY <1>4, <1>e DEF CallClose
  <2>3. AnswersStay
    BY <1>4, <1>g DEF CallClose
  <2>4. isUsable' => isUsable /\ task' = task
    BY <1>4, Zenon DEF CallClose, isUsable
  <2> QED BY <1>h, <2>1, <2>2, <2>3, <2>4
<1>5. CASE CallDrain
  <2>1. wtask' = wtask /\ SendsNoRun
    BY <1>5, <1>c, <1>d DEF CallDrain
  <2>2. ReadsOnly
    BY <1>5, <1>e DEF CallDrain
  <2>3. AnswersStay
    BY <1>5, <1>g DEF CallDrain
  <2>4. isUsable' => isUsable /\ task' = task
    BY <1>5, Zenon DEF CallDrain, isUsable
  <2> QED BY <1>h, <2>1, <2>2, <2>3, <2>4
<1>6. CASE BeginStop
  <2>1. wtask' = wtask /\ SendsNoRun
    BY <1>6, <1>c, <1>d DEF BeginStop
  <2>2. ReadsOnly
    BY <1>6, <1>e DEF BeginStop
  <2>3. AnswersStay
    BY <1>6, <1>g DEF BeginStop
  <2>4. isUsable' => isUsable /\ task' = task
    BY <1>6, Zenon DEF BeginStop, TerminateOr, isUsable
  <2> QED BY <1>h, <2>1, <2>2, <2>3, <2>4
<1>7. CASE GotStarted
  <2>1. ReadsOnly /\ wtask' = wtask
    BY <1>7, <1>f DEF GotStarted
  <2>2. CASE ~startWait
    <3>1. SendsNoRun /\ AnswersStay /\ UNCHANGED <<state, crashed, task>>
      BY <1>7, <1>c, <1>g, <2>2 DEF GotStarted
    <3>2. isUsable' => isUsable /\ task' = task
      BY <3>1, Zenon DEF isUsable
    <3> QED BY <1>h, <2>1, <3>1, <3>2
  <2>3. CASE startWait
    <3> DEFINE run == [type |-> "run", id |-> 1]
               clean == [type |-> "cleanup"]
    <3>1. \A t \in Tasks : answer[t] = "unsent"
      BY <2>3 DEF StartInv
    <3>2. /\ wtask = NoTask
          /\ \A i \in 1..Len(toWorker) : toWorker[i].type # "run"
          /\ \A i \in 1..Len(toHost) : toHost[i].type # "runFinished"
      BY <3>1 DEF TasksInv, RunningInv, RequestInv, ReportInv
    <3>3. /\ run \in Requests /\ clean \in Requests
          /\ 1 \in Tasks
      BY RunnerAssumption DEF Requests, Tasks
    <3>4. /\ task' = 1 /\ answer' = [answer EXCEPT ![1] = "sent"]
          /\ \/ toWorker' = Append(toWorker, run)
             \/ toWorker' = toWorker \o <<clean, run>>
      BY <1>7, <2>3 DEF GotStarted, HandTask, Send
    <3>5. \A i \in 1..Len(toWorker') : toWorker'[i].type = "run" =>
            i = Len(toWorker') /\ toWorker'[i] = run
      <4>1. CASE toWorker' = Append(toWorker, run)
        BY <3>2, <3>3, <4>1, SendFacts
      <4>2. CASE toWorker' = toWorker \o <<clean, run>>
        <5>1. <<clean, run>> \in Seq(Requests)
          BY <3>3
        <5> QED BY <3>2, <3>3, <4>2, <5>1, ReplyFacts
      <4> QED BY <3>4, <4>1, <4>2
    <3>6. RunningInv' /\ BusyWorkerNotUsable'
      BY <2>1, <3>2 DEF RunningInv, BusyWorkerNotUsable
    <3>7. RequestInv'
      BY <1>a, <2>1, <3>2, <3>3, <3>4, <3>5 DEF RequestInv
    <3>8. ReportInv'
      BY <2>1, <3>2 DEF ReportInv, ReadsOnly
    <3> QED BY <3>6, <3>7, <3>8 DEF TasksInv
  <2> QED BY <2>2, <2>3
<1>8. CASE GotCleanupFinished
  <2>1. wtask' = wtask /\ SendsNoRun
    BY <1>8, <1>c DEF GotCleanupFinished
  <2>2. ReadsOnly
    BY <1>8, <1>f DEF GotCleanupFinished
  <2>3. AnswersStay
    BY <1>8, <1>g DEF GotCleanupFinished
  <2>4. isUsable' => isUsable /\ task' = task
    BY <1>8, Zenon DEF GotCleanupFinished, CleanupSettles, TerminateOr,
        isUsable
  <2> QED BY <1>h, <2>1, <2>2, <2>3, <2>4
<1>9. CASE GotCleanupStarted
  <2>1. wtask' = wtask /\ SendsNoRun
    BY <1>9, <1>c DEF GotCleanupStarted
  <2>2. ReadsOnly
    BY <1>9, <1>f DEF GotCleanupStarted
  <2>3. AnswersStay
    BY <1>9, <1>g DEF GotCleanupStarted
  <2>4. isUsable' => isUsable /\ task' = task
    BY <1>9, Zenon DEF GotCleanupStarted, isUsable
  <2> QED BY <1>h, <2>1, <2>2, <2>3, <2>4
<1>10. CASE GotCleanupEnded
  <2>1. wtask' = wtask /\ SendsNoRun
    BY <1>10, <1>c DEF GotCleanupEnded
  <2>2. ReadsOnly
    BY <1>10, <1>f DEF GotCleanupEnded
  <2>3. AnswersStay
    BY <1>10, <1>g DEF GotCleanupEnded
  <2>4. isUsable' => isUsable /\ task' = task
    BY <1>10, Zenon DEF GotCleanupEnded, isUsable
  <2> QED BY <1>h, <2>1, <2>2, <2>3, <2>4
<1>11. CASE GotFinished
  <2>1. wtask' = wtask /\ SendsNoRun
    BY <1>11, <1>c DEF GotFinished
  <2>2. ReadsOnly /\ Head(toHost) = toHost[1] /\ 1 \in 1..Len(toHost)
    BY <1>11, <1>f DEF GotFinished
  <2>3. AnswersStay
    BY <1>11, <1>b, <1>g DEF GotFinished, AnswersStay
  <2>4. isUsable' => isUsable
    BY <1>11, Zenon DEF GotFinished, isUsable
  <2>5. CASE task = Head(toHost).id
    <3>1. /\ wtask # task
          /\ \A i \in 1..Len(toWorker) :
               toWorker[i].type = "run" => toWorker[i].id # task
      BY <1>11, <2>2, <2>5 DEF GotFinished, Got, TasksInv, ReportInv
    <3> QED
      BY <2>1, <2>2, <2>3, <2>4, <3>1, HostKeeps
      DEF SendsNoRun, ReadsOnly, AnswersStay
  <2>6. CASE task # Head(toHost).id
    <3>1. task' = task
      BY <1>11, <2>6 DEF GotFinished
    <3> QED BY <1>h, <2>1, <2>2, <2>3, <2>4, <3>1
  <2> QED BY <2>5, <2>6
<1>12. CASE GotFatal
  <2>1. wtask' = wtask /\ SendsNoRun
    BY <1>12, <1>c DEF GotFatal
  <2>2. ReadsOnly
    BY <1>12, <1>f DEF GotFatal
  <2>3. AnswersStay
    BY <1>12, <1>b DEF GotFatal, AnswersStay
  <2>4. isUsable' => isUsable /\ task' = task
    BY <1>12, Zenon DEF GotFatal, isUsable
  <2> QED BY <1>h, <2>1, <2>2, <2>3, <2>4
<1>13. CASE HostExit
  <2>1. wtask' = wtask /\ SendsNoRun
    BY <1>13, <1>c DEF HostExit
  <2>2. ReadsOnly
    BY <1>13, <1>e DEF HostExit
  <2>3. AnswersStay
    BY <1>13, <1>b DEF HostExit, AnswersStay
  <2>4. isUsable' => isUsable /\ task' = task
    BY <1>13, Zenon DEF HostExit, isUsable
  <2> QED BY <1>h, <2>1, <2>2, <2>3, <2>4
<1>14. CASE HostError
  <2>1. wtask' = wtask /\ SendsNoRun
    BY <1>14, <1>c DEF HostError
  <2>2. ReadsOnly
    BY <1>14, <1>e DEF HostError
  <2>3. AnswersStay
    BY <1>14, <1>b DEF HostError, AnswersStay
  <2>4. isUsable' => isUsable /\ task' = task
    BY <1>14, Zenon DEF HostError, CleanupSettles, TerminateOr, isUsable
  <2> QED BY <1>h, <2>1, <2>2, <2>3, <2>4
<1>15. CASE StartTimeout
  <2>1. wtask' = wtask /\ SendsNoRun
    BY <1>15, <1>c DEF StartTimeout
  <2>2. ReadsOnly
    BY <1>15, <1>e DEF StartTimeout
  <2>3. AnswersStay
    BY <1>15, <1>g DEF StartTimeout
  <2>4. isUsable' => isUsable /\ task' = task
    BY <1>15, Zenon DEF StartTimeout, isUsable
  <2> QED BY <1>h, <2>1, <2>2, <2>3, <2>4
<1>16. CASE CleanupTimeout
  <2>1. wtask' = wtask /\ SendsNoRun
    BY <1>16, <1>c DEF CleanupTimeout
  <2>2. ReadsOnly
    BY <1>16, <1>e DEF CleanupTimeout
  <2>3. AnswersStay
    BY <1>16, <1>g DEF CleanupTimeout
  <2>4. isUsable' => isUsable /\ task' = task
    BY <1>16, Zenon DEF CleanupTimeout, CleanupSettles, TerminateOr, isUsable
  <2> QED BY <1>h, <2>1, <2>2, <2>3, <2>4
<1>17. CASE FixtureTimeout
  <2>1. wtask' = wtask /\ SendsNoRun
    BY <1>17, <1>c DEF FixtureTimeout
  <2>2. ReadsOnly
    BY <1>17, <1>e DEF FixtureTimeout
  <2>3. AnswersStay
    BY <1>17, <1>b DEF FixtureTimeout, AnswersStay
  <2>4. isUsable' => isUsable /\ task' = task
    BY <1>17, Zenon DEF FixtureTimeout, isUsable
  <2> QED BY <1>h, <2>1, <2>2, <2>3, <2>4
<1>18. CASE \E t \in Tasks : RejectLost(t)
  <2>1. wtask' = wtask /\ SendsNoRun /\ ReadsOnly
    BY <1>18, <1>c, <1>e DEF RejectLost
  <2>2. AnswersStay
    BY <1>18, <1>a DEF RejectLost, AnswersStay
  <2>3. UNCHANGED <<state, crashed, task>>
    BY <1>18 DEF RejectLost
  <2>4. isUsable' => isUsable /\ task' = task
    BY <2>3, Zenon DEF isUsable
  <2> QED BY <1>h, <2>1, <2>2, <2>4
<1>19. CASE Flushed \/ TestsRun \/ FileCleaned \/ Finish \/ WorkerCleaned
  <2>1. PICK p \in Phases, u \in Seq(Responses) :
          /\ TaskStep(p, u)
          /\ \A i \in 1..Len(u) :
               u[i].type = "runFinished" => p = "idle" /\ u[i].id = wtask
    BY <1>19, TaskSteps
  <2> QED BY <2>1, WorkerKeeps DEF TaskStep
<1>20. CASE WorkerReceives
  <2>1. /\ UNCHANGED <<task, answer, state, crashed>>
        /\ toWorker # <<>> /\ toWorker' = Tail(toWorker)
    BY <1>20 DEF WorkerReceives
  <2>2. isUsable' = isUsable
    BY <2>1, Zenon DEF isUsable
  <2>3. /\ Head(toWorker) = toWorker[1] /\ 1 \in 1..Len(toWorker)
        /\ \A i \in 1..Len(toWorker') :
             i + 1 \in 1..Len(toWorker) /\ toWorker'[i] = toWorker[i + 1]
    BY <2>1, TakeFacts
  <2>4. PICK u \in Seq(Responses) :
          /\ toHost' = toHost \o u
          /\ \A i \in 1..Len(u) : u[i].type # "runFinished"
    <3>1. CASE Head(toWorker).type = "start"
      <4> DEFINE u == <<[type |-> "started"]>>
      <4>1. /\ u \in Seq(Responses)
            /\ \A i \in 1..Len(u) : u[i].type # "runFinished"
        BY DEF Responses
      <4>2. toHost' = toHost \o u
        BY <1>20, <3>1 DEF WorkerReceives, Reply
      <4> HIDE DEF u
      <4> QED BY <4>1, <4>2
    <3>2. CASE Head(toWorker).type = "cleanup"
      <4> DEFINE u == <<>>
      <4>1. /\ u \in Seq(Responses)
            /\ \A i \in 1..Len(u) : u[i].type # "runFinished"
        OBVIOUS
      <4>2. toHost' = toHost \o u
        BY <1>20, <3>2 DEF WorkerReceives
      <4> HIDE DEF u
      <4> QED BY <4>1, <4>2
    <3>3. CASE Head(toWorker).type = "run"
      <4> DEFINE begin == [type |-> "workerCleanupStarted",
                           id |-> Head(toWorker).id]
             u == IF toHost' = toHost THEN <<>> ELSE <<begin>>
      <4>1. /\ u \in Seq(Responses)
            /\ \A i \in 1..Len(u) : u[i].type # "runFinished"
        <5>1. begin \in Responses /\ begin.type # "runFinished"
          BY <2>3, <3>3 DEF Responses
        <5> QED BY <5>1
      <4>2. toHost' = toHost \o u
        BY <1>20, <3>3, SMTT(60) DEF WorkerReceives, Reply
      <4> HIDE DEF u
      <4> QED BY <4>1, <4>2
    <3> QED BY <1>20, <3>1, <3>2, <3>3 DEF WorkerReceives
  <2>5. \A i \in 1..Len(toHost') : toHost'[i].type = "runFinished" =>
          i \in 1..Len(toHost) /\ toHost'[i] = toHost[i]
    BY <2>4, ReplyFacts
  <2>6. CASE Head(toWorker).type # "run"
    <3>1. wtask' = wtask
      BY <1>20, <2>6 DEF WorkerReceives
    <3>2. RunningInv' /\ BusyWorkerNotUsable'
      BY <2>1, <2>2, <3>1 DEF TasksInv, RunningInv, BusyWorkerNotUsable
    <3>3. RequestInv'
      BY <2>1, <2>2, <2>3, <3>1 DEF TasksInv, RequestInv
    <3>4. ReportInv'
      BY <2>1, <2>3, <2>5, <3>1 DEF TasksInv, ReportInv
    <3> QED BY <3>2, <3>3, <3>4 DEF TasksInv
  <2>7. CASE Head(toWorker).type = "run"
    <3>1. wtask' = toWorker[1].id
      BY <1>20, <2>3, <2>7 DEF WorkerReceives
    <3>2. \A i \in 1..Len(toWorker') : toWorker'[i].type # "run"
      BY <2>3, <2>7 DEF TasksInv, RequestInv
    <3>3. RunningInv' /\ BusyWorkerNotUsable'
      BY <2>1, <2>2, <2>3, <2>7, <3>1
      DEF TasksInv, RequestInv, RunningInv, BusyWorkerNotUsable
    <3>4. RequestInv'
      BY <3>2 DEF RequestInv
    <3>5. ReportInv'
      BY <2>1, <2>3, <2>5, <2>7, <3>1, <3>2 DEF TasksInv, ReportInv
    <3> QED BY <3>3, <3>4, <3>5 DEF TasksInv
  <2> QED BY <2>6, <2>7
<1>21. CASE WorkerFatal
  <2> DEFINE fatal == [type |-> "fatal_error"]
             first == WorkerCleanupFinished(FALSE)
             u == IF phase = "flush" THEN <<first, fatal>> ELSE <<fatal>>
  <2>1. wtask \in Tasks
    BY <1>21 DEF WorkerFatal
  <2>2. /\ u \in Seq(Responses)
        /\ \A i \in 1..Len(u) : u[i].type # "runFinished"
    <3>1. /\ first \in Responses /\ first.type # "runFinished"
          /\ fatal \in Responses /\ fatal.type # "runFinished"
      BY <2>1 DEF Responses, WorkerCleanupFinished
    <3> HIDE DEF first, fatal
    <3>2. /\ <<first, fatal>> \in Seq(Responses)
          /\ \A i \in 1..Len(<<first, fatal>>) :
               <<first, fatal>>[i].type # "runFinished"
      BY <3>1
    <3>3. /\ <<fatal>> \in Seq(Responses)
          /\ \A i \in 1..Len(<<fatal>>) : <<fatal>>[i].type # "runFinished"
      BY <3>1
    <3> QED BY <3>2, <3>3
  <2>3. /\ UNCHANGED <<task, answer, state, crashed, toWorker>>
        /\ toHost' = toHost \o u
        /\ wtask' = NoTask
    BY <1>21 DEF WorkerFatal, Reply
  <2> HIDE DEF u
  <2> QED BY <2>2, <2>3, WorkerKeeps
<1>22. CASE WorkerUncaught
  <2> DEFINE u == <<[type |-> "fatal_error"]>>
  <2>1. /\ u \in Seq(Responses)
        /\ \A i \in 1..Len(u) : u[i].type # "runFinished"
    BY DEF Responses
  <2>2. /\ UNCHANGED <<task, answer, state, crashed, toWorker, wtask>>
        /\ toHost' = toHost \o u
    BY <1>22 DEF WorkerUncaught, Reply
  <2> HIDE DEF u
  <2> QED BY <2>1, <2>2, WorkerKeeps
<1>23. CASE FixturesCleaned
  <2>1. PICK ok \in BOOLEAN :
          toHost' = toHost \o <<[type |-> "cleanupFinished", ok |-> ok]>>
    BY <1>23 DEF FixturesCleaned, Reply
  <2> DEFINE u == <<[type |-> "cleanupFinished", ok |-> ok]>>
  <2>2. /\ u \in Seq(Responses)
        /\ \A i \in 1..Len(u) : u[i].type # "runFinished"
    BY DEF Responses
  <2>3. UNCHANGED <<task, answer, state, crashed, toWorker, wtask>>
    BY <1>23 DEF FixturesCleaned
  <2> HIDE DEF u
  <2> QED BY <2>1, <2>2, <2>3, WorkerKeeps DEF u
<1>24. CASE WorkerDies
  <2>1. /\ UNCHANGED <<task, answer, state, crashed>>
        /\ wtask' = NoTask /\ toWorker' = <<>>
    BY <1>24 DEF WorkerDies
  <2>2. PICK kept \in 0..Len(toHost) : toHost' = SubSeq(toHost, 1, kept)
    BY <1>24 DEF WorkerDies
  <2>3. \A i \in 1..Len(toHost') :
          i \in 1..Len(toHost) /\ toHost'[i] = toHost[i]
    BY <2>2, CutFacts
  <2>4. RunningInv' /\ BusyWorkerNotUsable' /\ RequestInv'
    BY <2>1 DEF RunningInv, BusyWorkerNotUsable, RequestInv
  <2>5. ReportInv'
    BY <2>1, <2>3 DEF TasksInv, ReportInv
  <2> QED BY <2>4, <2>5 DEF TasksInv
<1>25. CASE UNCHANGED vars
  <2>1. wtask' = wtask /\ SendsNoRun /\ ReadsOnly /\ AnswersStay
    BY <1>25, <1>c, <1>e, <1>g
  <2>2. isUsable' => isUsable /\ task' = task
    BY <1>25, Zenon DEF isUsable
  <2> QED BY <1>h, <2>1, <2>2
<1> QED
  BY <1>1, <1>2, <1>3, <1>4, <1>5, <1>6, <1>7, <1>8, <1>9, <1>10, <1>11,
      <1>12, <1>13,
     <1>14, <1>15, <1>16, <1>17, <1>18, <1>19, <1>20, <1>21, <1>22, <1>23,
         <1>24, <1>25
  DEF Next, PoolCalls, Host, HandleResponse, Worker

-----------------------------------------------------------------------------
(* The theorems.                                                             *)

(* The inductive invariant holds in every reachable state.                   *)
THEOREM Invariance == Spec => []IInv
<1>1. Init => IInv
  <2> SUFFICES ASSUME Init PROVE IInv
    OBVIOUS
  <2>1. ValuesOK
    BY DEF Init, ValuesOK, Tasks, NoTask, States, Phases
  <2>2. FlagsOK
    BY Zenon DEF Init, FlagsOK
  <2>3. StartInv /\ ProcInv /\ OperationsSerialized
    BY DEF Init, StartInv, ProcInv, StoppedIsGone, OperationsSerialized
  <2>4. RunningInv /\ RequestInv /\ ReportInv /\ BusyWorkerNotUsable
    BY DEF Init, RunningInv, RequestInv, ReportInv, BusyWorkerNotUsable
  <2> QED BY <2>1, <2>2, <2>3, <2>4, TypeParts DEF IInv
<1>2. IInv /\ [Next]_vars => IInv'
  BY TypeNext, HostNext, TasksNext DEF IInv, TasksInv
<1> QED BY <1>1, <1>2, PTL DEF Spec

(* Type correctness of the runner and its worker.                            *)
THEOREM TypeCorrect == Spec => []TypeOK
  BY Invariance, PTL DEF IInv

(* A stop() that returns leaves no live process (PoolRunner.stop).           *)
THEOREM StopLeavesNothing == Spec => []StoppedIsGone
  BY Invariance, PTL DEF IInv, ProcInv

(* No operation of the runner ever finds another one under way               *)
(* (PoolRunner.runOperation).                                                *)
THEOREM NoOperationInside == Spec => []OperationsSerialized
  BY Invariance, PTL DEF IInv

(* A worker that still works on an answered task is not offered another one  *)
(* (PoolRunner.isUsable).                                                    *)
THEOREM BusyNotOffered == Spec => []BusyWorkerNotUsable
  BY Invariance, PTL DEF IInv

(* A runner is what the pool takes it for: typed, gone once it is stopped,   *)
(* in one operation at a time, and offered only when its worker is free.     *)
THEOREM Sound == Spec => []RunnerIsSound
  BY Invariance, PTL DEF IInv, ProcInv, RunnerIsSound

(* No worker ever runs two test files at once.                               *)
LEMMA WorkerTakesOne ==
  ASSUME IInv, [Next]_vars, wtask # NoTask
  PROVE  wtask' \in {wtask, NoTask}
<1> USE DEF vars, hostVars, taskVars, cleanVars, opVars, callVars, procVars,
            pipeVars, workerVars
<1>1. CASE PoolCalls
  BY <1>1 DEF PoolCalls, CallStart, CallRun, CallDispose, CallClose, CallDrain
<1>2. CASE Host
  BY <1>2 DEF Host, BeginStop, HandleResponse, GotStarted, GotCleanupFinished,
     GotCleanupStarted, GotCleanupEnded, GotFinished, GotFatal, HostExit,
     HostError, StartTimeout, CleanupTimeout, FixtureTimeout, RejectLost
<1>3. CASE Flushed \/ TestsRun \/ FileCleaned \/ Finish \/ WorkerCleaned
  BY <1>3, TaskSteps DEF IInv, TaskStep
<1>4. CASE WorkerReceives
  <2>1. Head(toWorker) = toWorker[1] /\ 1 \in 1..Len(toWorker)
    BY <1>4, TakeFacts DEF WorkerReceives, IInv, TypeOK
  <2>2. Head(toWorker).type # "run"
    BY <2>1 DEF IInv, RequestInv
  <2> QED BY <1>4, <2>2 DEF WorkerReceives
<1>5. CASE WorkerFatal \/ WorkerUncaught \/ FixturesCleaned \/ WorkerDies
  BY <1>5 DEF WorkerFatal, WorkerUncaught, FixturesCleaned, WorkerDies
<1>6. CASE UNCHANGED vars
  BY <1>6
<1> QED
  BY <1>1, <1>2, <1>3, <1>4, <1>5, <1>6 DEF Next, Worker

(* Two test files never run in one worker at once, whatever is lost, late or *)
(* failing (PoolRunner.runTaskInternal, handleResponse).                     *)
THEOREM OneFileAtATime == Spec => TasksNeverOverlap
<1>1. IInv /\ [Next]_vars
        => [wtask # NoTask => wtask' \in {wtask, NoTask}]_vars
  BY WorkerTakesOne
<1> QED BY <1>1, Invariance, PTL DEF Spec, TasksNeverOverlap

-----------------------------------------------------------------------------
(* The contract, which needs more of the host's bookkeeping, and of what is  *)
(* in the pipes, than IInv says.                                             *)

(* Where the runner stands in its life.                                      *)
LifeInv ==
  /\ state = "IDLE" => calls = {} /\ ~crashed
  /\ state = "STARTING" => startWait
  /\ state = "START_FAILURE" => \A t \in Tasks : answer[t] = "unsent"
  /\ state = "STOPPED" => exited \/ proc = "none"
  /\ exited => state = "STOPPED" /\ op = "none"
  /\ proc = "none" => /\ state \in {"IDLE", "START_FAILURE", "STOPPED"}
                      /\ toWorker = <<>> /\ toHost = <<>> /\ ~wcleaning
  /\ op \in {"stopCleanup", "stopKill"} => HasLiveChild
  /\ cleanWait => HasLiveChild /\ state \notin {"IDLE", "STARTING", "STOPPED"}

(* The calls that have been made: stops come of a dispose or a close, and a  *)
(* dispose waits for the start.                                              *)
CallsInv ==
  /\ queued # <<>> \/ op \in {"stopCleanup", "stopKill"}
       => calls \cap {"dispose", "close"} # {}
  /\ state = "STOPPING" => calls \cap {"dispose", "close"} # {}
  /\ startWait => "dispose" \notin calls

(* The answer that is awaited is that of the current task, and no other task *)
(* is open.                                                                  *)
AnswerInv ==
  /\ \A t \in Tasks : answer[t] = "sent" <=> task = t
  /\ \A t, u \in Tasks :
       answer[t] \in {"sent", "lost"} /\ answer[u] \in {"sent", "lost"}
         => t = u
  /\ task # NoTask => state \in {"STARTED", "STOPPING"}
  /\ fixtureTimer \/ provisional => task # NoTask

(* A worker that has reported a fatal error acknowledges no start any more.  *)
FatalInv ==
  /\ \A i \in 1..Len(toHost) : toHost[i].type = "fatal_error" =>
       /\ ~Alive
       /\ \A j \in 1..Len(toHost) : toHost[j].type = "started" => j < i
  /\ startWait /\ crashed =>
       ~Alive /\ \A i \in 1..Len(toHost) : toHost[i].type # "started"

(* The worker is asked to clean up its fixtures, or does so, when it has no  *)
(* file and will get none, unless the pool closes.                           *)
CleaningInv ==
  "close" \notin calls
    /\ (wcleaning \/ \E i \in 1..Len(toWorker) : toWorker[i].type = "cleanup")
    => /\ wtask = NoTask
       /\ \A i \in 1..Len(toWorker) : toWorker[i].type # "run"
       /\ drain # "none" \/ "dispose" \in calls
       /\ ~startWait

(* The tests of the task t are over, or will not be run.                     *)
PastTests(t) ==
  /\ wtask = t => phase \notin {"load", "flush", "loaded"}
  /\ \A i \in 1..Len(toWorker) : toWorker[i].type = "run" =>
       toWorker[i].id # t

(* A file whose clean-up is announced, or whose result the host has already, *)
(* is past its tests.                                                        *)
ResultInv ==
  /\ \A i \in 1..Len(toHost) : toHost[i].type = "fileCleanupStarted" =>
       answer[toHost[i].id] # "unsent" /\ PastTests(toHost[i].id)
  /\ provisional => PastTests(task)

KeptInv ==
  IInv /\ LifeInv /\ CallsInv /\ AnswerInv /\ FatalInv /\ CleaningInv
    /\ ResultInv

-----------------------------------------------------------------------------
(* The steps that send the worker nothing, and leave it alone.               *)
Quiet ==
  \/ CallDispose \/ CallClose
  \/ GotCleanupFinished \/ GotCleanupStarted \/ GotCleanupEnded
  \/ GotFinished \/ GotFatal
  \/ HostExit \/ HostError
  \/ StartTimeout \/ CleanupTimeout \/ FixtureTimeout
  \/ \E t \in Tasks : RejectLost(t)
  \/ UNCHANGED vars

Sending ==
  CallStart \/ (\E t \in Tasks : CallRun(t)) \/ CallDrain \/ BeginStop
    \/ GotStarted

OnTask == Flushed \/ TestsRun \/ FileCleaned \/ Finish \/ WorkerCleaned

(* The ways of a step.                                                       *)
LEMMA Ways ==
  ASSUME [Next]_vars
  PROVE  \/ Quiet \/ Sending \/ OnTask
         \/ WorkerReceives \/ WorkerFatal \/ WorkerUncaught
         \/ FixturesCleaned \/ WorkerDies
  BY Zenon DEF Next, PoolCalls, Host, HandleResponse, Worker, Quiet, Sending,
               OnTask

(* What every step of the worker leaves alone.                               *)
LEMMA WorkerFrame ==
  ASSUME \/ OnTask
         \/ WorkerReceives \/ WorkerFatal \/ WorkerUncaught
         \/ FixturesCleaned \/ WorkerDies
  PROVE  /\ UNCHANGED <<state, crashed, task, provisional, fixtureTimer,
                        startWait, cleanWait, queued, op, answer, returned,
                        calls, drain, exited>>
         /\ proc = "live" /\ proc' \in {"live", "dead"}
  BY DEF OnTask, Flushed, TestsRun, FileCleaned, Finish, WorkerCleaned,
         Step, WorkerReceives, WorkerFatal, WorkerUncaught, FixturesCleaned,
         WorkerDies, Alive, hostVars, taskVars, cleanVars, opVars, callVars,
         procVars

-----------------------------------------------------------------------------
(* The host's bookkeeping.                                                   *)
(* A task that ends was the one that was awaited.                            *)
LEMMA EndFacts ==
  ASSUME TypeOK, AnswerInv, NEW o \in {"lost", "resolved"}, EndTask(o)
  PROVE  /\ task' = NoTask /\ ~provisional' /\ ~fixtureTimer'
         /\ DOMAIN answer' = Tasks
         /\ answer' = [t \in Tasks |-> IF answer[t] = "sent" THEN o
                                       ELSE answer[t]]
<1>1. /\ answer \in [Tasks -> {"unsent", "sent", "lost", "resolved",
                              "rejected"}]
      /\ task \in Tasks \cup {NoTask} /\ NoTask \notin Tasks
  BY DEF TypeOK, Tasks, NoTask
<1>2. ~provisional' /\ ~fixtureTimer'
  BY Zenon DEF EndTask
<1> QED BY <1>1, <1>2 DEF EndTask, AnswerInv

LEMMA LifeNext ==
  ASSUME TypeOK, StartInv, ProcInv, OperationsSerialized, LifeInv, CallsInv,
         AnswerInv, [Next]_vars
  PROVE  LifeInv' /\ CallsInv'
<1> USE DEF StartInv, ProcInv, OperationsSerialized, HasLiveChild, LifeInv,
            CallsInv, vars, hostVars, taskVars, cleanVars, opVars, callVars,
            procVars, pipeVars, workerVars
<1>1. /\ answer \in [Tasks -> {"unsent", "sent", "lost", "resolved",
                              "rejected"}]
      /\ task \in Tasks \cup {NoTask}
      /\ queued \in Seq({"stop", "force"})
      /\ state \in States
      /\ op \in {"none", "start", "stopCleanup", "stopKill"}
  BY DEF TypeOK
<1>2. CASE CallStart
  BY <1>1, <1>2 DEF CallStart
<1>3. CASE \E t \in Tasks : CallRun(t)
  BY <1>1, <1>3 DEF CallRun, HandTask, isUsable
<1>4. CASE CallDispose
  BY <1>1, <1>4 DEF CallDispose
<1>5. CASE CallClose
  BY <1>1, <1>5 DEF CallClose
<1>6. CASE CallDrain
  BY <1>1, <1>6, RunnerAssumption DEF CallDrain, Tasks
<1>7. CASE BeginStop
  BY <1>1, <1>7 DEF BeginStop, TerminateOr
<1>8. CASE GotStarted
  BY <1>1, <1>8 DEF GotStarted, HandTask, Got
<1>9. CASE GotCleanupFinished
  <2>1. CASE cleanWait
    <3>1. CleanupSettles(Head(toHost).ok)
      BY <1>9, <2>1, Zenon DEF GotCleanupFinished
    <3>2. UNCHANGED <<startWait, queued, answer, exited, proc, calls, toWorker,
                      wcleaning>>
      BY <1>9 DEF GotCleanupFinished
    <3>3. toHost # <<>>
      BY <1>9 DEF GotCleanupFinished, Got
    <3> HIDE <1>9
    <3> QED BY <1>1, <2>1, <3>1, <3>2, <3>3, SettleFacts
  <2>2. CASE ~cleanWait
    BY <1>9, <2>2 DEF GotCleanupFinished, Got
  <2> QED BY <2>1, <2>2
<1>10. CASE GotCleanupStarted
  BY <1>1, <1>10 DEF GotCleanupStarted, Got
<1>11. CASE GotCleanupEnded
  BY <1>1, <1>11 DEF GotCleanupEnded, Got
<1>12. CASE GotFinished
  <2>1. \A t \in Tasks : answer[t] = "unsent" => answer'[t] = "unsent"
    BY <1>12, EndFacts DEF GotFinished
  <2> QED BY <1>1, <1>12, <2>1 DEF GotFinished, Got
<1>13. CASE GotFatal
  <2>1. \A t \in Tasks : answer[t] = "unsent" => answer'[t] = "unsent"
    BY <1>13, EndFacts DEF GotFatal
  <2> QED BY <1>1, <1>13, <2>1 DEF GotFatal, Got
<1>14. CASE HostExit
  BY <1>1, <1>14 DEF HostExit, EndTask
<1>15. CASE HostError
  <2>1. /\ proc \in {"live", "unspawned"} /\ ~startWait'
        /\ state \in {"STARTING", "STARTED"}
        /\ UNCHANGED <<queued, calls, proc, exited, toWorker, toHost,
                       wcleaning>>
        /\ \A t \in Tasks : answer[t] = "unsent" => answer'[t] = "unsent"
    BY <1>1, <1>15 DEF HostError, EndTask, AnswerInv
  <2>2. CASE cleanWait
    <3>1. CleanupSettles(FALSE)
      BY <1>15, <2>2, Zenon DEF HostError
    <3> QED BY <1>1, <2>1, <2>2, <3>1, SettleFacts
  <2>3. CASE ~cleanWait /\ startWait
    <3>1. /\ state' = IF startWait THEN "START_FAILURE" ELSE state
          /\ op' = IF startWait THEN "none" ELSE op
          /\ cleanWait' = cleanWait
      BY <1>15, <2>3 DEF HostError
    <3> QED BY <1>1, <2>1, <2>3, <3>1
  <2>4. CASE ~cleanWait /\ ~startWait
    <3>1. UNCHANGED <<state, op, cleanWait>>
      BY <1>15, <2>4 DEF HostError
    <3> QED BY <1>1, <2>1, <2>4, <3>1
  <2> QED BY <2>2, <2>3, <2>4
<1>16. CASE StartTimeout
  BY <1>1, <1>16 DEF StartTimeout
<1>17. CASE CleanupTimeout
  <2>1. CleanupSettles(FALSE)
    BY <1>17, Zenon DEF CleanupTimeout
  <2>2. cleanWait /\ UNCHANGED <<startWait, queued, answer, exited, proc,
                                 calls, toWorker, toHost, wcleaning>>
    BY <1>17 DEF CleanupTimeout
  <2> QED BY <1>1, <2>1, <2>2, SettleFacts
<1>18. CASE FixtureTimeout
  BY <1>1, <1>18 DEF FixtureTimeout, EndTask, AnswerInv
<1>19. CASE \E t \in Tasks : RejectLost(t)
  BY <1>1, <1>19 DEF RejectLost
<1>20. CASE UNCHANGED vars
  BY <1>20
<1>21. CASE \/ OnTask
            \/ WorkerReceives \/ WorkerFatal \/ WorkerUncaught
            \/ FixturesCleaned \/ WorkerDies
  BY <1>21, WorkerFrame
<1> QED
  BY Ways, <1>2, <1>3, <1>4, <1>5, <1>6, <1>7, <1>8, <1>9, <1>10, <1>11,
     <1>12, <1>13, <1>14, <1>15, <1>16, <1>17, <1>18, <1>19, <1>20, <1>21
  DEF Quiet, Sending

LEMMA AnswerNext ==
  ASSUME TypeOK, StartInv, LifeInv, AnswerInv, [Next]_vars
  PROVE  AnswerInv'
<1> USE DEF AnswerInv, vars, hostVars, taskVars, cleanVars, opVars, callVars,
            procVars, pipeVars, workerVars
<1>1. /\ answer \in [Tasks -> {"unsent", "sent", "lost", "resolved",
                              "rejected"}]
      /\ task \in Tasks \cup {NoTask} /\ NoTask \notin Tasks
  BY DEF TypeOK, Tasks, NoTask
(* The task ends, or it stays with a runner that stays in use.               *)
<1>2. ASSUME NEW o \in {"lost", "resolved"}, EndTask(o)
      PROVE  AnswerInv'
  BY <1>1, <1>2, EndFacts
<1>3. ASSUME UNCHANGED <<answer, task>>,
             fixtureTimer' \/ provisional' =>
               fixtureTimer \/ provisional \/ task # NoTask,
             task # NoTask => state' = state \/ state' = "STOPPING"
      PROVE  AnswerInv'
  BY <1>3
<1>4. ASSUME NEW ok, CleanupSettles(ok)
      PROVE  state' \in {state, "STOPPING", "STOPPED"}
                /\ (state' = "STOPPED" => state = "STOPPED" \/ exited
                                            \/ proc = "none")
  BY <1>4, SettleFacts
<1>5. task # NoTask => ~exited /\ proc # "none"
  BY DEF LifeInv
<1>6. CASE CallStart
  BY <1>6, <1>3 DEF CallStart, StartInv
<1>7. CASE \E t \in Tasks : CallRun(t)
  BY <1>1, <1>7 DEF CallRun, HandTask, isUsable
<1>8. CASE CallDispose \/ CallClose \/ CallDrain
  BY <1>8, <1>3 DEF CallDispose, CallClose, CallDrain
<1>9. CASE BeginStop
  BY <1>9, <1>3, <1>5 DEF BeginStop, TerminateOr, HasLiveChild
<1>10. CASE GotStarted
  <2>1. CASE ~startWait
    BY <1>10, <1>3, <2>1 DEF GotStarted
  <2>2. CASE startWait
    <3>1. /\ task = NoTask /\ \A t \in Tasks : answer[t] = "unsent"
          /\ 1 \in Tasks
      BY <2>2, RunnerAssumption DEF StartInv, Tasks
    <3>2. /\ task' = 1 /\ answer' = [answer EXCEPT ![1] = "sent"]
          /\ state' = "STARTED"
      BY <1>10, <2>2 DEF GotStarted, HandTask
    <3> QED BY <1>1, <3>1, <3>2
  <2> QED BY <2>1, <2>2
<1>11. CASE GotCleanupFinished
  <2>1. UNCHANGED <<answer, task, fixtureTimer, provisional>>
    BY <1>11 DEF GotCleanupFinished
  <2>2. task # NoTask => state' = state \/ state' = "STOPPING"
    BY <1>11, <1>4, <1>5, Zenon DEF GotCleanupFinished
  <2> QED BY <1>3, <2>1, <2>2
<1>12. CASE GotCleanupStarted
  <2>1. /\ UNCHANGED <<answer, task, state>>
        /\ fixtureTimer' => fixtureTimer \/ task = Head(toHost).id
        /\ provisional' => provisional \/ task = Head(toHost).id
        /\ Head(toHost) \in Responses
        /\ Head(toHost).type \in {"fileCleanupStarted",
                                  "workerCleanupStarted"}
    <3>1. Head(toHost) \in Responses
      BY <1>12, TakeFacts DEF TypeOK, GotCleanupStarted, Got
    <3>2. fixtureTimer' => fixtureTimer \/ task = Head(toHost).id
      BY <1>12, Zenon DEF GotCleanupStarted
    <3>3. task # Head(toHost).id => provisional' = provisional
      BY <1>12 DEF GotCleanupStarted
    <3> QED BY <1>12, <3>1, <3>2, <3>3 DEF GotCleanupStarted, Got
  <2>2. Head(toHost).id # NoTask
    BY <1>1, <2>1, ResponseFields
  <2> QED BY <1>3, <2>1, <2>2
<1>13. CASE GotCleanupEnded
  <2>1. UNCHANGED <<answer, task, state, provisional>>
    BY <1>13 DEF GotCleanupEnded
  <2>2. fixtureTimer' => fixtureTimer
    BY <1>13, Zenon DEF GotCleanupEnded
  <2> QED BY <1>3, <2>1, <2>2
<1>14. CASE GotFinished
  BY <1>14, <1>2, <1>3 DEF GotFinished
<1>15. CASE GotFatal \/ HostExit \/ HostError
  BY <1>15, <1>2 DEF GotFatal, HostExit, HostError
<1>16. CASE StartTimeout
  BY <1>16, <1>3 DEF StartTimeout, StartInv
<1>17. CASE CleanupTimeout
  <2>1. UNCHANGED <<answer, task, fixtureTimer, provisional>>
    BY <1>17 DEF CleanupTimeout
  <2>2. task # NoTask => state' = state \/ state' = "STOPPING"
    BY <1>17, <1>4, <1>5, Zenon DEF CleanupTimeout
  <2> QED BY <1>3, <2>1, <2>2
<1>18. CASE FixtureTimeout
  BY <1>18, <1>2 DEF FixtureTimeout
<1>19. CASE \E t \in Tasks : RejectLost(t)
  BY <1>1, <1>19 DEF RejectLost
<1>20. CASE UNCHANGED vars
  BY <1>20, <1>3
<1>21. CASE \/ OnTask
            \/ WorkerReceives \/ WorkerFatal \/ WorkerUncaught
            \/ FixturesCleaned \/ WorkerDies
  BY <1>21, <1>3, WorkerFrame
<1> QED
  BY Ways, <1>6, <1>7, <1>8, <1>9, <1>10, <1>11, <1>12, <1>13, <1>14, <1>15,
     <1>16, <1>17, <1>18, <1>19, <1>20, <1>21
  DEF Quiet, Sending

-----------------------------------------------------------------------------
(* The runner as its contract sees it.                                       *)
LEMMA PhaseNow ==
  ASSUME state \in States
  PROVE  ContractPhase = IF state = "IDLE" THEN "new"
                         ELSE IF state = "STARTING" THEN "starting"
                         ELSE IF state = "STOPPED" THEN "gone"
                         ELSE IF state = "STARTED" /\ ~crashed THEN "usable"
                         ELSE "unusable"
  BY Zenon DEF ContractPhase, isUsable

LEMMA PhaseNext ==
  ASSUME state' \in States
  PROVE  ContractPhase' = IF state' = "IDLE" THEN "new"
                          ELSE IF state' = "STARTING" THEN "starting"
                          ELSE IF state' = "STOPPED" THEN "gone"
                          ELSE IF state' = "STARTED" /\ ~crashed' THEN "usable"
                          ELSE "unusable"
  BY Zenon DEF ContractPhase, isUsable

(* A step that leaves the runner where it is, or loses its health, and       *)
(* answers nothing.                                                          *)
LEMMA Sickens ==
  ASSUME state \in States, UNCHANGED <<answer, returned>>,
         \/ state' = state
         \/ state \notin {"IDLE", "STOPPED"} /\ state' = "STOPPING",
         crashed => crashed'
  PROVE  Contract!Degrade \/ UNCHANGED <<ContractPhase, answer, returned>>
<1>1. state' \in States
  BY DEF States
<1>2. CASE ContractPhase' = ContractPhase
  BY <1>2
<1>3. CASE ContractPhase' # ContractPhase
  <2>1. /\ ContractPhase \notin {"new", "gone"}
        /\ ContractPhase' = "unusable"
    BY <1>1, <1>3, PhaseNow, PhaseNext, Zenon
  <2> QED BY <2>1 DEF Contract!Degrade
<1> QED BY <1>2, <1>3

(* A step that ends the task, with the runner.                               *)
LEMMA Loses ==
  ASSUME TypeOK, AnswerInv, EndTask("lost"),
         \/ /\ state \notin {"IDLE", "STOPPED"} /\ state' \in States
            /\ state' \notin {"IDLE", "STARTING", "STOPPED"}
            /\ crashed' /\ returned' = returned
         \/ /\ state # "IDLE" /\ state' = "STOPPED"
            /\ returned' \in {returned, returned + 1}
  PROVE  Contract!Degrade
<1>1. answer' = [t \in Tasks |-> IF answer[t] = "sent" THEN "lost"
                                 ELSE answer[t]]
  BY EndFacts
<1>2. state \in States /\ state' \in States
  BY DEF TypeOK, States
<1>3. CASE state' = "STOPPED"
  <2>1. ContractPhase # "new" /\ ContractPhase' = "gone"
    BY <1>2, <1>3, PhaseNow, PhaseNext, Zenon
  <2> QED BY <1>1, <1>3, <2>1 DEF Contract!Degrade
<1>4. CASE state' # "STOPPED"
  <2>1. /\ ContractPhase \notin {"new", "gone"}
        /\ ContractPhase' = "unusable"
    BY <1>2, <1>4, PhaseNow, PhaseNext, Zenon
  <2> QED BY <1>1, <1>4, <2>1 DEF Contract!Degrade
<1> QED BY <1>3, <1>4

(* A task that resolves.                                                     *)
LEMMA Resolves ==
  ASSUME TypeOK, AnswerInv, task # NoTask, EndTask("resolved"),
         UNCHANGED <<state, returned>>, crashed => crashed'
  PROVE  Contract!Resolve(task)
<1>1. /\ answer \in [Tasks -> {"unsent", "sent", "lost", "resolved",
                              "rejected"}]
      /\ state \in States
  BY DEF TypeOK
<1>2. answer[task] = "sent" /\ state \in {"STARTED", "STOPPING"}
  BY DEF TypeOK, AnswerInv
<1>3. answer' = [answer EXCEPT ![task] = "resolved"]
  BY DEF EndTask
<1>4. /\ ContractPhase \in {"usable", "unusable"}
      /\ ContractPhase' \in {ContractPhase, "unusable"}
  BY <1>1, <1>2, PhaseNow, PhaseNext, Zenon
<1> QED BY <1>2, <1>3, <1>4 DEF Contract!Resolve

(* What a cleanup that settles is to the contract.                           *)
LEMMA Settles ==
  ASSUME TypeOK, LifeInv, cleanWait, NEW ok, CleanupSettles(ok)
  PROVE  /\ returned' = returned
         /\ state' \in {state, "STOPPING"}
         /\ state \notin {"IDLE", "STARTING", "STOPPED"}
         /\ crashed => crashed'
         /\ ~ok => crashed'
<1>1. crashed' = (crashed \/ ~ok)
  BY Zenon DEF CleanupSettles
<1>2. proc # "none" /\ ~exited
  BY DEF LifeInv, HasLiveChild
<1>3. returned' = returned /\ state' \in {state, "STOPPING"}
  BY <1>2, SettleFacts
<1>4. (crashed => crashed') /\ (~ok => crashed')
  BY <1>1, Zenon
<1> QED BY <1>3, <1>4 DEF LifeInv

-----------------------------------------------------------------------------
(* Every step of the runner is one of its contract, or none.                 *)
LEMMA StepMaps ==
  ASSUME TypeOK, StartInv, ProcInv, OperationsSerialized, LifeInv, CallsInv,
         AnswerInv, FatalInv, [Next]_vars
  PROVE  [Contract!Next]_(Contract!vars)
<1> USE DEF vars, hostVars, taskVars, cleanVars, opVars, callVars, procVars,
            pipeVars, workerVars
<1>1. /\ answer \in [Tasks -> {"unsent", "sent", "lost", "resolved",
                              "rejected"}]
      /\ task \in Tasks \cup {NoTask} /\ NoTask \notin Tasks
      /\ state \in States /\ returned \in Nat
  BY DEF TypeOK, Tasks, NoTask
<1> DEFINE Same == UNCHANGED <<ContractPhase, answer, returned>>
<1>2. Contract!Degrade \/ Same => [Contract!Next]_(Contract!vars)
  BY DEF Contract!Next, Contract!vars
<1>3. ASSUME UNCHANGED <<answer, returned, state>>, crashed => crashed'
      PROVE  [Contract!Next]_(Contract!vars)
  BY <1>1, <1>2, <1>3, Sickens
<1>4. CASE CallStart
  <2>1. /\ state = "IDLE" /\ state' \in {"STARTING", "START_FAILURE"}
        /\ UNCHANGED <<answer, returned>>
    BY <1>4 DEF CallStart, StartInv
  <2>2. /\ ContractPhase = "new"
        /\ ContractPhase' \in {"starting", "unusable"}
    BY <2>1, PhaseNow, PhaseNext, Zenon DEF States
  <2> QED BY <2>1, <2>2 DEF Contract!Next, Contract!Start
<1>5. CASE \E t \in Tasks : CallRun(t)
  <2>1. PICK t \in Tasks : CallRun(t)
    BY <1>5
  <2>2. /\ state = "STARTED" /\ ~crashed
        /\ UNCHANGED <<state, crashed, returned>>
        /\ answer[t] = "unsent"
        /\ \A u \in Tasks : answer[u] \notin {"sent", "lost"}
        /\ answer' = [answer EXCEPT ![t] = "sent"]
    BY <2>1 DEF CallRun, isUsable, NextTask, HandTask
  <2>3. ContractPhase = "usable" /\ ContractPhase' = "usable"
    BY <2>2, PhaseNow, PhaseNext, Zenon DEF States
  <2> QED
    BY <2>2, <2>3 DEF Contract!Next, Contract!Reuse, Contract!Send
<1>6. CASE CallDispose \/ CallClose \/ CallDrain
  BY <1>6, <1>3 DEF CallDispose, CallClose, CallDrain
<1>7. CASE BeginStop
  <2>1. UNCHANGED <<answer, crashed>> /\ state # "IDLE"
    BY <1>7 DEF BeginStop, LifeInv, StartInv
  <2>2. CASE returned' = returned
    <3>1. state' = state \/ (state' = "STOPPING" /\ state # "STOPPED")
      BY <1>1, <1>7, <2>2 DEF BeginStop, TerminateOr
    <3> QED BY <1>1, <1>2, <2>1, <2>2, <3>1, Sickens
  <2>3. CASE returned' # returned
    <3>1. returned' = returned + 1 /\ state' = "STOPPED"
      BY <1>7, <2>3 DEF BeginStop, TerminateOr
    <3>2. CASE state = "STOPPED"
      <4>1. ContractPhase = "gone" /\ ContractPhase' = "gone"
        BY <3>1, <3>2, PhaseNow, PhaseNext, Zenon DEF States
      <4> QED
        BY <2>1, <3>1, <4>1 DEF Contract!Next, Contract!StopReturns
    <3>3. CASE state # "STOPPED"
      <4>1. exited \/ proc = "none"
        BY <1>7, <2>3, <3>3 DEF BeginStop, TerminateOr, HasLiveChild
      <4>2. \A t \in Tasks : answer[t] # "sent"
        BY <1>1, <3>3, <4>1 DEF LifeInv, AnswerInv
      <4>3. answer' = [t \in Tasks |-> IF answer[t] = "sent" THEN "lost"
                                       ELSE answer[t]]
        BY <1>1, <2>1, <4>2
      <4>4. ContractPhase # "new" /\ ContractPhase' = "gone"
        BY <1>1, <2>1, <3>1, PhaseNow, PhaseNext, Zenon DEF States
      <4>5. Contract!Degrade
        BY <3>1, <4>3, <4>4 DEF Contract!Degrade
      <4> QED BY <1>2, <4>5
    <3> QED BY <3>2, <3>3
  <2> QED BY <2>2, <2>3
<1>8. CASE GotStarted
  <2>1. CASE ~startWait
    BY <1>8, <1>3, <2>1 DEF GotStarted
  <2>2. CASE startWait
    <3>1. /\ state = "STARTING" /\ 1 \in Tasks
          /\ \A t \in Tasks : answer[t] = "unsent"
      BY <2>2, RunnerAssumption DEF StartInv, Tasks
    <3>2. /\ answer' = [answer EXCEPT ![1] = "sent"]
          /\ state' = "STARTED"
          /\ UNCHANGED <<crashed, returned>>
      BY <1>8, <2>2 DEF GotStarted, HandTask
    <3>3. ~crashed
      <4>1. 1 \in 1..Len(toHost) /\ toHost[1].type = "started"
        BY <1>8, TakeFacts DEF GotStarted, Got, TypeOK
      <4> QED BY <2>2, <4>1 DEF FatalInv
    <3>4. ContractPhase = "starting" /\ ContractPhase' = "usable"
      BY <3>1, <3>2, <3>3, PhaseNow, PhaseNext, Zenon DEF States
    <3> QED
      BY <3>1, <3>2, <3>4 DEF Contract!Next, Contract!Started, Contract!Send
  <2> QED BY <2>1, <2>2
<1>9. CASE GotCleanupFinished
  <2>1. UNCHANGED answer
    BY <1>9 DEF GotCleanupFinished
  <2>2. CASE cleanWait
    <3>1. CleanupSettles(Head(toHost).ok)
      BY <1>9, <2>2, Zenon DEF GotCleanupFinished
    <3> QED BY <1>1, <1>2, <2>1, <2>2, <3>1, Settles, Sickens
  <2>3. CASE ~cleanWait
    BY <1>9, <1>3, <2>3 DEF GotCleanupFinished
  <2> QED BY <2>2, <2>3
<1>10. CASE GotCleanupStarted
  BY <1>10, <1>3 DEF GotCleanupStarted
<1>11. CASE GotCleanupEnded
  <2>1. UNCHANGED <<answer, returned, state>>
    BY <1>11 DEF GotCleanupEnded
  <2>2. crashed => crashed'
    BY <1>11, Zenon DEF GotCleanupEnded
  <2> QED BY <1>3, <2>1, <2>2
<1>12. CASE GotFinished
  <2>1. UNCHANGED <<state, crashed, returned>>
    BY <1>12 DEF GotFinished
  <2>2. CASE task = Head(toHost).id
    <3>1. task # NoTask
      <4>1. Head(toHost) \in Responses /\ Head(toHost).type = "runFinished"
        BY <1>12, TakeFacts DEF GotFinished, Got, TypeOK
      <4> QED BY <1>1, <2>2, <4>1, ResponseFields
    <3>2. EndTask("resolved")
      BY <1>12, <2>2 DEF GotFinished
    <3>3. task \in Tasks /\ Contract!Resolve(task)
      BY <1>1, <2>1, <3>1, <3>2, Resolves
    <3> QED BY <3>3 DEF Contract!Next
  <2>3. CASE task # Head(toHost).id
    BY <1>12, <1>3, <2>1, <2>3 DEF GotFinished
  <2> QED BY <2>2, <2>3
<1>13. CASE GotFatal
  <2>1. UNCHANGED <<state, returned>> /\ crashed' /\ EndTask("lost")
    BY <1>13 DEF GotFatal
  <2>2. CASE task = NoTask
    BY <1>3, <2>1, <2>2 DEF EndTask
  <2>3. CASE task # NoTask
    BY <1>1, <1>2, <2>1, <2>3, Loses DEF AnswerInv
  <2> QED BY <2>2, <2>3
<1>14. CASE HostExit
  <2>1. /\ EndTask("lost") /\ state' = "STOPPED" /\ proc = "dead"
        /\ returned' \in {returned, returned + 1}
    BY <1>14 DEF HostExit
  <2>2. state # "IDLE"
    BY <2>1 DEF LifeInv, StartInv
  <2> QED BY <1>2, <2>1, <2>2, Loses
<1>15. CASE HostError
  <2>1. EndTask("lost") /\ state \in {"STARTING", "STARTED"}
    BY <1>15 DEF HostError
  <2>2. CASE cleanWait
    <3>1. CleanupSettles(FALSE)
      BY <1>15, <2>2, Zenon DEF HostError
    <3>2. /\ returned' = returned /\ crashed'
          /\ state' \in {"STARTED", "STOPPING"}
      BY <2>1, <2>2, <3>1, Settles
    <3> QED BY <1>2, <2>1, <3>2, Loses DEF States
  <2>3. CASE ~cleanWait
    <3>1. /\ returned' = returned /\ crashed'
          /\ state' = IF startWait THEN "START_FAILURE" ELSE state
      BY <1>15, <2>3 DEF HostError
    <3>2. state' \in {"STARTED", "START_FAILURE"}
      BY <2>1, <3>1 DEF LifeInv
    <3> QED BY <1>2, <2>1, <3>1, <3>2, Loses DEF States
  <2> QED BY <2>2, <2>3
<1>16. CASE StartTimeout
  <2>1. /\ state = "STARTING" /\ state' = "START_FAILURE"
        /\ UNCHANGED <<answer, returned>>
    BY <1>16 DEF StartTimeout, StartInv
  <2>2. ContractPhase = "starting" /\ ContractPhase' = "unusable"
    BY <2>1, PhaseNow, PhaseNext, Zenon DEF States
  <2> QED BY <1>2, <2>1, <2>2 DEF Contract!Degrade
<1>17. CASE CleanupTimeout
  <2>1. cleanWait /\ UNCHANGED answer /\ CleanupSettles(FALSE)
    BY <1>17, Zenon DEF CleanupTimeout
  <2> QED BY <1>1, <1>2, <2>1, Settles, Sickens
<1>18. CASE FixtureTimeout
  <2>1. /\ UNCHANGED <<state, returned>> /\ crashed' /\ task # NoTask
        /\ EndTask("resolved") \/ EndTask("lost")
    BY <1>18 DEF FixtureTimeout, AnswerInv
  <2>2. CASE EndTask("resolved")
    <3>1. task \in Tasks /\ Contract!Resolve(task)
      BY <1>1, <2>1, <2>2, Resolves
    <3> QED BY <3>1 DEF Contract!Next
  <2>3. CASE EndTask("lost")
    BY <1>1, <1>2, <2>1, <2>3, Loses DEF AnswerInv
  <2> QED BY <2>1, <2>2, <2>3
<1>19. CASE \E t \in Tasks : RejectLost(t)
  <2>1. PICK t \in Tasks : RejectLost(t)
    BY <1>19
  <2>2. /\ answer[t] = "lost" /\ answer' = [answer EXCEPT ![t] = "rejected"]
        /\ UNCHANGED <<state, crashed, returned>>
    BY <2>1 DEF RejectLost
  <2>3. ContractPhase' = ContractPhase
    BY <1>1, <2>2, PhaseNow, PhaseNext, Zenon
  <2> QED BY <2>2, <2>3 DEF Contract!Next, Contract!Reject
<1>20. CASE UNCHANGED vars
  BY <1>20, <1>3
<1>21. CASE \/ OnTask
            \/ WorkerReceives \/ WorkerFatal \/ WorkerUncaught
            \/ FixturesCleaned \/ WorkerDies
  BY <1>21, <1>3, WorkerFrame
<1> QED
  BY Ways, <1>4, <1>5, <1>6, <1>7, <1>8, <1>9, <1>10, <1>11, <1>12, <1>13,
     <1>14, <1>15, <1>16, <1>17, <1>18, <1>19, <1>20, <1>21
  DEF Quiet, Sending

-----------------------------------------------------------------------------
(* What a quiet step is to the pipes.                                        *)
LEMMA QuietFacts ==
  ASSUME TypeOK, StartInv, LifeInv, AnswerInv, Quiet
  PROVE  /\ UNCHANGED <<wtask, phase, wcleaning, dying, toWorker, proc>>
         /\ \/ toHost' = toHost
            \/ toHost # <<>> /\ toHost' = Tail(toHost)
         /\ calls \subseteq calls'
         /\ drain # "none" => drain' # "none"
         /\ startWait' => startWait
         /\ \A t \in Tasks : answer[t] # "unsent" <=> answer'[t] # "unsent"
<1> USE DEF vars, hostVars, taskVars, cleanVars, opVars, callVars, procVars,
            pipeVars, workerVars
<1>1. answer \in [Tasks -> {"unsent", "sent", "lost", "resolved", "rejected"}]
  BY DEF TypeOK
<1>2. ASSUME NEW o \in {"lost", "resolved"}, EndTask(o)
      PROVE  \A t \in Tasks : answer[t] # "unsent" <=> answer'[t] # "unsent"
  BY <1>1, <1>2, EndFacts
<1>3. ASSUME NEW ok, drain' = DrainSettled(ok)
      PROVE  drain # "none" => drain' # "none"
  BY <1>3 DEF DrainSettled
<1>4. ASSUME NEW ok, CleanupSettles(ok)
      PROVE  drain # "none" => drain' # "none"
  BY <1>3, <1>4 DEF CleanupSettles
<1>5. CASE CallDispose \/ CallClose
  BY <1>5 DEF CallDispose, CallClose
<1>6. CASE GotCleanupFinished
  <2>1. drain # "none" => drain' # "none"
    BY <1>6, <1>4 DEF GotCleanupFinished
  <2> QED BY <1>6, <2>1 DEF GotCleanupFinished, Got
<1>7. CASE GotCleanupStarted \/ GotCleanupEnded
  BY <1>7 DEF GotCleanupStarted, GotCleanupEnded, Got
<1>8. CASE GotFinished
  BY <1>8, <1>2 DEF GotFinished, Got
<1>9. CASE GotFatal
  BY <1>9, <1>2 DEF GotFatal, Got
<1>10. CASE HostExit
  BY <1>10, <1>2, <1>3 DEF HostExit
<1>11. CASE HostError
  <2>1. drain # "none" => drain' # "none"
    BY <1>11, <1>4 DEF HostError
  <2> QED BY <1>11, <1>2, <2>1 DEF HostError
<1>12. CASE StartTimeout
  BY <1>12 DEF StartTimeout
<1>13. CASE CleanupTimeout
  BY <1>13, <1>4 DEF CleanupTimeout
<1>14. CASE FixtureTimeout
  BY <1>14, <1>2 DEF FixtureTimeout
<1>15. CASE \E t \in Tasks : RejectLost(t)
  BY <1>1, <1>15 DEF RejectLost
<1>16. CASE UNCHANGED vars
  BY <1>16
<1> QED
  BY <1>5, <1>6, <1>7, <1>8, <1>9, <1>10, <1>11, <1>12, <1>13, <1>14, <1>15,
     <1>16
  DEF Quiet

(* A runner that starts loses its health only with a fatal error.            *)
LEMMA QuietHealth ==
  ASSUME TypeOK, StartInv, LifeInv, AnswerInv, Quiet, startWait', crashed'
  PROVE  crashed \/ GotFatal
<1> USE DEF vars, hostVars, taskVars, cleanVars, opVars, callVars, procVars,
            pipeVars, workerVars
<1>1. startWait /\ ~cleanWait /\ task = NoTask /\ ~fixtureTimer
  BY QuietFacts DEF StartInv, LifeInv, AnswerInv
<1>2. CASE CallDispose \/ CallClose
  BY <1>2 DEF CallDispose, CallClose
<1>3. CASE GotCleanupFinished
  BY <1>1, <1>3 DEF GotCleanupFinished
<1>4. CASE GotCleanupStarted
  BY <1>4 DEF GotCleanupStarted
<1>5. CASE GotCleanupEnded
  <2>1. /\ Head(toHost) \in Responses
        /\ Head(toHost).type \in {"fileCleanupFinished",
                                  "workerCleanupFinished"}
    BY <1>5, TakeFacts DEF TypeOK, GotCleanupEnded, Got
  <2>2. Head(toHost).id # task
    BY <1>1, <2>1, ResponseFields DEF Tasks, NoTask
  <2>3. task # Head(toHost).id
    BY <2>2
  <2> QED BY <1>5, <2>3, Zenon DEF GotCleanupEnded
<1>6. CASE GotFinished
  BY <1>6 DEF GotFinished
<1>7. CASE GotFatal
  BY <1>7
<1>8. CASE HostExit \/ HostError \/ StartTimeout
  BY <1>8, Zenon DEF HostExit, HostError, StartTimeout
<1>9. CASE CleanupTimeout \/ FixtureTimeout
  BY <1>1, <1>9 DEF CleanupTimeout, FixtureTimeout
<1>10. CASE \E t \in Tasks : RejectLost(t)
  BY <1>10 DEF RejectLost
<1>11. CASE UNCHANGED vars
  BY <1>11
<1> QED
  BY <1>2, <1>3, <1>4, <1>5, <1>6, <1>7, <1>8, <1>9, <1>10, <1>11
  DEF Quiet

(* What the other steps of the worker say.                                   *)
LEMMA OtherFacts ==
  ASSUME TypeOK,
         WorkerReceives \/ WorkerFatal \/ WorkerUncaught \/ FixturesCleaned
  PROVE  /\ Alive
         /\ \E u \in Seq(Responses) :
              /\ toHost' = toHost \o u
              /\ \A i \in 1..Len(u) :
                   /\ u[i].type # "fileCleanupStarted"
                   /\ u[i].type = "fatal_error" => dying' /\ i = Len(u)
                   /\ u[i].type = "started" => Len(u) = 1
<1> DEFINE Says(u) ==
             /\ u \in Seq(Responses)
             /\ \A i \in 1..Len(u) :
                  /\ u[i].type # "fileCleanupStarted"
                  /\ u[i].type = "fatal_error" => dying' /\ i = Len(u)
                  /\ u[i].type = "started" => Len(u) = 1
<1>1. Alive
  BY Zenon DEF WorkerReceives, WorkerFatal, WorkerUncaught, FixturesCleaned
<1> SUFFICES \E u : Says(u) /\ toHost' = toHost \o u
  BY <1>1
<1>2. toHost \in Seq(Responses) /\ toHost \o <<>> = toHost
  BY DEF TypeOK
<1>3. CASE WorkerReceives
  <2> DEFINE request == Head(toWorker)
             begin == [type |-> "workerCleanupStarted", id |-> request.id]
  <2>1. request \in Requests
    BY <1>3, TakeFacts DEF TypeOK, WorkerReceives
  <2>2. request.type = "run" => request.id \in Tasks
    BY <2>1, RequestFields
  <2>3. Says(<<>>) /\ Says(<<[type |-> "started"]>>)
    BY DEF Responses
  <2>4. request.type = "run" => Says(<<begin>>)
    BY <2>2 DEF Responses
  <2>5. \/ toHost' = toHost
        \/ toHost' = toHost \o <<[type |-> "started"]>>
        \/ request.type = "run" /\ toHost' = toHost \o <<begin>>
    BY <1>3 DEF WorkerReceives, Reply
  <2> HIDE DEF Says
  <2> QED BY <1>2, <2>3, <2>4, <2>5
<1>4. CASE WorkerFatal
  <2> DEFINE fatal == [type |-> "fatal_error"]
             first == WorkerCleanupFinished(FALSE)
  <2>1. wtask \in Tasks /\ dying'
    BY <1>4 DEF WorkerFatal, TypeOK
  <2>2. Says(<<fatal>>) /\ Says(<<first, fatal>>)
    BY <2>1 DEF Responses, WorkerCleanupFinished
  <2>3. toHost' = toHost \o <<fatal>> \/ toHost' = toHost \o <<first, fatal>>
    BY <1>4 DEF WorkerFatal, Reply
  <2> HIDE DEF Says
  <2> QED BY <2>2, <2>3
<1>5. CASE WorkerUncaught
  <2>1. dying' /\ toHost' = toHost \o <<[type |-> "fatal_error"]>>
    BY <1>5 DEF WorkerUncaught, Reply
  <2>2. Says(<<[type |-> "fatal_error"]>>)
    BY <2>1 DEF Responses
  <2> QED BY <2>1, <2>2
<1>6. CASE FixturesCleaned
  <2>1. PICK ok \in BOOLEAN :
          toHost' = toHost \o <<[type |-> "cleanupFinished", ok |-> ok]>>
    BY <1>6 DEF FixturesCleaned, Reply
  <2>2. Says(<<[type |-> "cleanupFinished", ok |-> ok]>>)
    BY DEF Responses
  <2> QED BY <2>1, <2>2
<1> QED BY <1>3, <1>4, <1>5, <1>6

-----------------------------------------------------------------------------
(* The host takes messages from the front of the pipe only.                  *)
LEMMA ReadFacts ==
  ASSUME TypeOK,
         \/ toHost' = toHost
         \/ toHost # <<>> /\ toHost' = Tail(toHost)
  PROVE  \E d \in {0, 1} : \A i \in 1..Len(toHost') :
           i + d \in 1..Len(toHost) /\ toHost'[i] = toHost[i + d]
<1>1. toHost \in Seq(Responses)
  BY DEF TypeOK
<1>2. CASE toHost' = toHost
  BY <1>1, <1>2
<1>3. CASE toHost # <<>> /\ toHost' = Tail(toHost)
  BY <1>1, <1>3, TakeFacts
<1> QED BY <1>2, <1>3

(* A fatal error is the last word of the worker about its start.             *)
LEMMA FatalRead ==
  ASSUME TypeOK, FatalInv, UNCHANGED <<proc, dying>>,
         \/ toHost' = toHost
         \/ toHost # <<>> /\ toHost' = Tail(toHost),
         startWait' => startWait,
         startWait' /\ crashed' =>
           crashed \/ (toHost # <<>> /\ Head(toHost).type = "fatal_error"
                         /\ toHost' = Tail(toHost))
  PROVE  FatalInv'
<1>1. Len(toHost) \in Nat /\ Len(toHost') \in Nat
  BY DEF TypeOK
<1>2. Alive' = Alive
  BY Zenon DEF Alive
<1>3. PICK d \in {0, 1} : \A i \in 1..Len(toHost') :
        i + d \in 1..Len(toHost) /\ toHost'[i] = toHost[i + d]
  BY ReadFacts
<1>4. ASSUME NEW i \in 1..Len(toHost'), toHost'[i].type = "fatal_error"
      PROVE  /\ ~Alive'
             /\ \A j \in 1..Len(toHost') : toHost'[j].type = "started" => j < i
  <2>1. i + d \in 1..Len(toHost) /\ toHost[i + d].type = "fatal_error"
    BY <1>3, <1>4
  <2>2. ASSUME NEW j \in 1..Len(toHost'), toHost'[j].type = "started"
        PROVE  j < i
    <3>1. j + d \in 1..Len(toHost) /\ toHost[j + d].type = "started"
      BY <1>3, <2>2
    <3>2. j + d < i + d
      BY <2>1, <3>1 DEF FatalInv
    <3> QED BY <1>1, <3>2
  <2> QED BY <1>2, <2>1, <2>2 DEF FatalInv
<1>5. ASSUME startWait', crashed'
      PROVE  ~Alive' /\ \A i \in 1..Len(toHost') : toHost'[i].type # "started"
  <2>1. CASE crashed
    BY <1>2, <1>3, <1>5, <2>1 DEF FatalInv
  <2>2. CASE toHost # <<>> /\ Head(toHost).type = "fatal_error"
               /\ toHost' = Tail(toHost)
    <3>1. 1 \in 1..Len(toHost) /\ toHost[1].type = "fatal_error"
      BY <2>2, TakeFacts DEF TypeOK
    <3>2. \A j \in 1..Len(toHost) : toHost[j].type # "started"
      BY <1>1, <3>1 DEF FatalInv
    <3>3. ~Alive
      BY <3>1 DEF FatalInv
    <3> QED BY <1>2, <1>3, <3>2, <3>3
  <2> QED BY <1>5, <2>1, <2>2
<1> QED BY <1>4, <1>5 DEF FatalInv

LEMMA FatalNext ==
  ASSUME TypeOK, StartInv, LifeInv, AnswerInv, FatalInv, [Next]_vars
  PROVE  FatalInv'
<1> USE DEF vars, hostVars, taskVars, cleanVars, opVars, callVars, procVars,
            pipeVars, workerVars
<1>1. toHost \in Seq(Responses) /\ Len(toHost) \in Nat
  BY DEF TypeOK
<1>2. CASE Quiet
  <2>1. startWait' /\ crashed' =>
          crashed \/ (toHost # <<>> /\ Head(toHost).type = "fatal_error"
                        /\ toHost' = Tail(toHost))
    <3> SUFFICES ASSUME startWait', crashed', ~crashed
                 PROVE  toHost # <<>> /\ Head(toHost).type = "fatal_error"
                          /\ toHost' = Tail(toHost)
      OBVIOUS
    <3>1. GotFatal
      BY <1>2, QuietHealth
    <3> QED BY <3>1 DEF GotFatal, Got
  <2> QED BY <1>2, <2>1, QuietFacts, FatalRead
<1>3. CASE CallStart
  <2>1. toHost = <<>> /\ ~crashed
    BY <1>3 DEF CallStart, StartInv, LifeInv
  <2>2. toHost' = <<>> /\ crashed' = crashed
    BY <1>3, <2>1 DEF CallStart
  <2> QED BY <2>1, <2>2 DEF FatalInv
<1>4. CASE (\E t \in Tasks : CallRun(t)) \/ CallDrain \/ BeginStop
  <2>1. UNCHANGED <<toHost, proc, dying, startWait, crashed>>
    BY <1>4 DEF CallRun, CallDrain, BeginStop
  <2> QED BY <2>1, FatalRead
<1>5. CASE GotStarted
  <2>1. UNCHANGED <<proc, dying, crashed>> /\ (startWait' => startWait)
    BY <1>5 DEF GotStarted
  <2> QED BY <1>5, <2>1, FatalRead DEF GotStarted, Got
<1>6. CASE OnTask
  <2>1. PICK p \in Phases, u \in Seq(Responses) :
          /\ TaskStep(p, u)
          /\ \A i \in 1..Len(u) : u[i].type \notin {"fatal_error", "started"}
    BY <1>6, TaskSteps DEF OnTask
  <2>2. /\ UNCHANGED <<proc, dying, startWait, crashed>>
        /\ toHost' = toHost \o u
    BY <2>1 DEF TaskStep
  <2>3. Alive' = Alive
    BY <2>2, Zenon DEF Alive
  <2>4. \A i \in 1..Len(toHost') :
          toHost'[i].type \in {"fatal_error", "started"} =>
            i \in 1..Len(toHost) /\ toHost'[i] = toHost[i]
    BY <1>1, <2>1, <2>2, ReplyFacts
  <2> QED BY <2>2, <2>3, <2>4 DEF FatalInv
<1>7. CASE WorkerReceives \/ WorkerFatal \/ WorkerUncaught \/ FixturesCleaned
  <2>1. Alive
    BY <1>7, OtherFacts
  <2>2. PICK u \in Seq(Responses) :
          /\ toHost' = toHost \o u
          /\ \A i \in 1..Len(u) :
               /\ u[i].type = "fatal_error" => dying' /\ i = Len(u)
               /\ u[i].type = "started" => Len(u) = 1
    BY <1>7, OtherFacts
  <2>3. /\ \A i \in 1..Len(toHost) : toHost[i].type # "fatal_error"
        /\ ~(startWait' /\ crashed')
    BY <1>7, <2>1, WorkerFrame DEF FatalInv
  <2>4. Len(u) \in Nat /\ Len(toHost') = Len(toHost) + Len(u)
    BY <1>1, <2>2
  <2>5. ASSUME NEW i \in 1..Len(toHost'), toHost'[i].type = "fatal_error"
        PROVE  i = Len(toHost') /\ dying'
    <3>1. i - Len(toHost) \in 1..Len(u)
            /\ toHost'[i] = u[i - Len(toHost)]
      BY <1>1, <2>2, <2>3, <2>5, ReplyFacts
    <3> QED BY <1>1, <2>2, <2>4, <2>5, <3>1
  <2>6. ASSUME NEW i \in 1..Len(toHost'), toHost'[i].type = "fatal_error",
               NEW j \in 1..Len(toHost'), toHost'[j].type = "started"
        PROVE  j < i
    BY <2>4, <2>5, <2>6
  <2>7. dying' => ~Alive'
    BY Zenon DEF Alive
  <2> QED BY <2>3, <2>5, <2>6, <2>7 DEF FatalInv
<1>8. CASE WorkerDies
  <2>1. /\ proc' = "dead" /\ UNCHANGED <<startWait, crashed>>
        /\ \E kept \in 0..Len(toHost) : toHost' = SubSeq(toHost, 1, kept)
    BY <1>8 DEF WorkerDies
  <2>2. ~Alive'
    BY <2>1 DEF Alive
  <2>3. \A i \in 1..Len(toHost') :
          i \in 1..Len(toHost) /\ toHost'[i] = toHost[i]
    BY <1>1, <2>1, CutFacts
  <2> QED BY <2>1, <2>2, <2>3 DEF FatalInv
<1> QED
  BY Ways, <1>2, <1>3, <1>4, <1>5, <1>6, <1>7, <1>8 DEF Sending

-----------------------------------------------------------------------------
(* The worker's own clean-up.                                                *)
Cleans ==
  wcleaning \/ \E i \in 1..Len(toWorker) : toWorker[i].type = "cleanup"

(* A step that asks for nothing keeps the invariant if the worker is as idle *)
(* as it was.                                                                *)
LEMMA CleaningKept ==
  ASSUME TypeOK, CleaningInv,
         Cleans' => Cleans, calls \subseteq calls',
         wtask' = wtask \/ wtask' = NoTask,
         \A i \in 1..Len(toWorker') : toWorker'[i].type = "run" =>
           \E j \in 1..Len(toWorker) : toWorker[j].type = "run",
         drain # "none" => drain' # "none",
         startWait' => startWait
  PROVE  CleaningInv'
  BY DEF CleaningInv, Cleans

(* The worker is asked to clean up by the pool that drains it or disposes of *)
(* it, when its runner has no task.                                          *)
LEMMA CleaningAsked ==
  ASSUME IInv, CallsInv, LifeInv, HasLiveChild, ~crashed, task = NoTask,
         state \notin {"IDLE", "STARTING", "STOPPING", "STOPPED"},
         UNCHANGED <<wtask, startWait>>,
         \/ toWorker' = toWorker
         \/ toWorker' = Append(toWorker, [type |-> "cleanup"]),
         drain' # "none" \/ "dispose" \in calls'
  PROVE  CleaningInv'
<1>1. /\ toWorker \in Seq(Requests) /\ state \in States
      /\ [type |-> "cleanup"] \in Requests
      /\ wtask \in Tasks \cup {NoTask} /\ NoTask \notin Tasks
      /\ ~startWait
  BY DEF IInv, TypeOK, Requests, Tasks, NoTask, StartInv
<1>2. \A i \in 1..Len(toWorker) :
        toWorker[i].type = "run" => toWorker[i].id \in Tasks
  BY PipeTypes DEF IInv
<1>3. wtask = NoTask /\ \A i \in 1..Len(toWorker) : toWorker[i].type # "run"
  <2>1. CASE state = "START_FAILURE"
    BY <1>1, <1>2, <2>1 DEF LifeInv, IInv, RunningInv, RequestInv
  <2>2. CASE state = "STARTED"
    <3>1. isUsable
      BY <2>2 DEF isUsable
    <3> QED
      BY <1>1, <1>2, <3>1 DEF IInv, BusyWorkerNotUsable, RequestInv
  <2> QED BY <1>1, <2>1, <2>2 DEF States
<1>4. \A i \in 1..Len(toWorker') : toWorker'[i].type # "run"
  BY <1>1, <1>3, SendFacts
<1> QED BY <1>1, <1>3, <1>4 DEF CleaningInv

LEMMA CleaningNext ==
  ASSUME IInv, LifeInv, CallsInv, AnswerInv, CleaningInv, [Next]_vars
  PROVE  CleaningInv'
<1> USE DEF vars, hostVars, taskVars, cleanVars, opVars, callVars, procVars,
            pipeVars, workerVars
<1>1. TypeOK /\ StartInv /\ ProcInv /\ OperationsSerialized
  BY DEF IInv
<1>2. /\ toWorker \in Seq(Requests)
      /\ [type |-> "cleanup"] \in Requests
      /\ \A t \in Tasks : [type |-> "run", id |-> t] \in Requests
      /\ 1 \in Tasks
  BY <1>1, RunnerAssumption DEF TypeOK, Requests, Tasks
<1>3. UNCHANGED <<wcleaning, toWorker>> => Cleans' = Cleans
  BY DEF Cleans
<1>4. CASE Quiet
  BY <1>1, <1>3, <1>4, QuietFacts, CleaningKept
<1>5. CASE CallStart
  <2>1. toWorker = <<>> /\ wtask' = wtask /\ wcleaning' = wcleaning
          /\ ~wcleaning
    BY <1>1, <1>5 DEF CallStart, StartInv, LifeInv
  <2>2. toWorker' = <<>> \/ toWorker' = <<[type |-> "start"]>>
    BY <1>5, <2>1 DEF CallStart, Send
  <2> QED BY <2>1, <2>2 DEF CleaningInv
<1>6. CASE \E t \in Tasks : CallRun(t)
  <2>1. PICK t \in Tasks : CallRun(t)
    BY <1>6
  <2> DEFINE run == [type |-> "run", id |-> t]
  <2>2. /\ drain = "none" /\ calls = {"start"}
        /\ UNCHANGED <<wtask, wcleaning, drain, calls, startWait>>
        /\ toWorker' = Append(toWorker, run)
    BY <2>1 DEF CallRun, Send
  <2>3. ~wcleaning /\ \A i \in 1..Len(toWorker) : toWorker[i].type # "cleanup"
    BY <2>2 DEF CleaningInv
  <2>4. \A i \in 1..Len(toWorker') : toWorker'[i].type # "cleanup"
    BY <1>2, <2>2, <2>3, SendFacts
  <2> QED BY <2>2, <2>3, <2>4 DEF CleaningInv
<1>7. CASE CallDrain
  <2>1. /\ calls = {"start"} /\ answer[1] # "unsent"
        /\ \A t \in Tasks : answer[t] \notin {"sent", "lost"}
        /\ UNCHANGED <<wtask, wcleaning, startWait, calls>>
    BY <1>7 DEF CallDrain
  <2>2. CASE toWorker' = toWorker
    <3>1. drain # "none" => drain' # "none"
      BY <1>7 DEF CallDrain
    <3> QED BY <1>1, <1>3, <2>1, <2>2, <3>1, CleaningKept
  <2>3. CASE toWorker' # toWorker
    <3>1. /\ HasLiveChild /\ ~crashed /\ drain' = "waiting"
          /\ toWorker' = Append(toWorker, [type |-> "cleanup"])
      BY <1>7, <2>3, Zenon DEF CallDrain, Send
    <3>2. task = NoTask
      BY <1>1, <2>1 DEF TypeOK, AnswerInv
    <3>3. state \notin {"IDLE", "STARTING", "STOPPING", "STOPPED"}
      BY <1>1, <1>2, <2>1, <3>1
      DEF StartInv, LifeInv, CallsInv, HasLiveChild
    <3> QED BY <2>1, <3>1, <3>2, <3>3, CleaningAsked
  <2> QED BY <2>2, <2>3
<1>8. CASE BeginStop
  <2>1. /\ UNCHANGED <<wtask, wcleaning, startWait, calls, drain, crashed>>
        /\ op = "none" /\ queued # <<>>
    BY <1>8 DEF BeginStop
  <2>2. CASE toWorker' = toWorker
    BY <1>1, <1>3, <2>1, <2>2, CleaningKept
  <2>3. CASE toWorker' # toWorker
    <3>1. /\ HasLiveChild /\ CleansFirst(Head(queued)) /\ state # "STOPPED"
          /\ toWorker' = Append(toWorker, [type |-> "cleanup"])
      BY <1>8, <2>3, Zenon DEF BeginStop, Send
    <3>2. ~crashed /\ task = NoTask
      BY <3>1 DEF CleansFirst
    <3>3. state \notin {"IDLE", "STARTING", "STOPPING", "STOPPED"}
      BY <1>1, <2>1, <3>1 DEF StartInv, LifeInv, OperationsSerialized
    <3>4. CASE "dispose" \in calls
      BY <2>1, <3>1, <3>2, <3>3, <3>4, CleaningAsked
    <3>5. CASE "dispose" \notin calls
      BY <2>1, <3>5 DEF CallsInv, CleaningInv
    <3> QED BY <3>4, <3>5
  <2> QED BY <2>2, <2>3
<1>9. CASE GotStarted
  <2>1. UNCHANGED <<wtask, wcleaning, calls, drain>>
    BY <1>9 DEF GotStarted
  <2>2. CASE ~startWait
    BY <1>1, <1>3, <1>9, <2>1, <2>2, CleaningKept DEF GotStarted
  <2>3. CASE startWait /\ queued # <<>>
    BY <2>1, <2>3 DEF CallsInv, CleaningInv
  <2>4. CASE startWait /\ queued = <<>>
    <3>1. toWorker' = Append(toWorker, [type |-> "run", id |-> 1])
      BY <1>9, <2>4 DEF GotStarted, Send
    <3>2. CASE "close" \in calls
      BY <2>1, <3>2 DEF CleaningInv
    <3>3. CASE "close" \notin calls
      <4>1. ~wcleaning
              /\ \A i \in 1..Len(toWorker) : toWorker[i].type # "cleanup"
        BY <2>4, <3>3 DEF CleaningInv
      <4>2. \A i \in 1..Len(toWorker') : toWorker'[i].type # "cleanup"
        BY <1>2, <3>1, <4>1, SendFacts
      <4> QED BY <2>1, <4>1, <4>2 DEF CleaningInv
    <3> QED BY <3>2, <3>3
  <2> QED BY <2>2, <2>3, <2>4
<1>10. CASE OnTask
  <2>1. PICK p \in Phases, u \in Seq(Responses) : TaskStep(p, u)
    BY <1>1, <1>10, TaskSteps DEF OnTask
  <2>2. /\ UNCHANGED <<toWorker, wcleaning, calls, drain, startWait>>
        /\ wtask' \in {wtask, NoTask}
    BY <2>1 DEF TaskStep
  <2> QED BY <1>1, <1>3, <2>2, CleaningKept
<1>11. CASE WorkerReceives
  <2>1. /\ UNCHANGED <<calls, drain, startWait>>
        /\ toWorker # <<>> /\ toWorker' = Tail(toWorker)
    BY <1>11 DEF WorkerReceives
  <2>2. /\ Head(toWorker) = toWorker[1] /\ 1 \in 1..Len(toWorker)
        /\ \A i \in 1..Len(toWorker') :
             i + 1 \in 1..Len(toWorker) /\ toWorker'[i] = toWorker[i + 1]
    BY <1>2, <2>1, TakeFacts
  <2>3. CASE Head(toWorker).type = "run"
    <3>1. wcleaning' = wcleaning
      BY <1>11, <2>3 DEF WorkerReceives
    <3>2. CASE "close" \in calls
      BY <2>1, <3>2 DEF CleaningInv
    <3>3. CASE "close" \notin calls
      <4>1. ~wcleaning
              /\ \A i \in 1..Len(toWorker) : toWorker[i].type # "cleanup"
        BY <2>2, <2>3, <3>3 DEF CleaningInv
      <4> QED BY <2>2, <3>1, <4>1 DEF CleaningInv
    <3> QED BY <3>2, <3>3
  <2>4. CASE Head(toWorker).type # "run"
    <3>1. wtask' = wtask /\ (wcleaning' => wcleaning
                               \/ Head(toWorker).type = "cleanup")
      BY <1>11, <2>4 DEF WorkerReceives
    <3>2. Cleans' => Cleans
      BY <2>2, <3>1 DEF Cleans
    <3> QED BY <1>1, <2>1, <2>2, <3>1, <3>2, CleaningKept
  <2> QED BY <2>3, <2>4
<1>12. CASE WorkerFatal \/ WorkerUncaught \/ FixturesCleaned
  <2>1. /\ UNCHANGED <<toWorker, calls, drain, startWait>>
        /\ wtask' \in {wtask, NoTask} /\ (wcleaning' => wcleaning)
    BY <1>12 DEF WorkerFatal, WorkerUncaught, FixturesCleaned
  <2>2. Cleans' => Cleans
    BY <2>1 DEF Cleans
  <2> QED BY <1>1, <2>1, <2>2, CleaningKept
<1>13. CASE WorkerDies
  <2>1. toWorker' = <<>> /\ ~wcleaning'
    BY <1>13 DEF WorkerDies
  <2> QED BY <2>1 DEF CleaningInv
<1> QED
  BY Ways, <1>4, <1>5, <1>6, <1>7, <1>8, <1>9, <1>10, <1>11, <1>12, <1>13
  DEF Sending

-----------------------------------------------------------------------------
(* What the host knows of a file's result.                                   *)

(* A task that has been sent is past its tests once, and for good.           *)
LEMMA PastKept ==
  ASSUME TypeOK, NEW t \in Tasks, PastTests(t),
         \/ UNCHANGED <<wtask, phase>>
         \/ wtask' = NoTask
         \/ /\ wtask' = wtask
            /\ phase' \notin {"load", "flush"}
            /\ phase' = "loaded" => phase = "flush",
         \A i \in 1..Len(toWorker') : toWorker'[i].type = "run" =>
           \/ toWorker'[i].id # t
           \/ \E j \in 1..Len(toWorker) : toWorker'[i] = toWorker[j]
  PROVE  PastTests(t)'
<1>1. NoTask \notin Tasks
  BY DEF Tasks, NoTask
<1>2. wtask' = t => phase' \notin {"load", "flush", "loaded"}
  BY <1>1 DEF PastTests
<1>3. \A i \in 1..Len(toWorker') :
        toWorker'[i].type = "run" => toWorker'[i].id # t
  BY DEF PastTests
<1> QED BY <1>2, <1>3 DEF PastTests

(* The host has a result for its task, if it has one, of the task itself.    *)
LEMMA QuietResult ==
  ASSUME TypeOK, AnswerInv, Quiet, provisional'
  PROVE  /\ task' = task
         /\ \/ provisional
            \/ /\ toHost # <<>> /\ Head(toHost).type = "fileCleanupStarted"
               /\ Head(toHost).id = task
<1> USE DEF vars, hostVars, taskVars, cleanVars, opVars, callVars, procVars,
            pipeVars, workerVars
<1>1. ASSUME NEW o \in {"lost", "resolved"}, EndTask(o)
      PROVE  FALSE
  BY <1>1, EndFacts
<1>2. CASE CallDispose \/ CallClose
  BY <1>2 DEF CallDispose, CallClose
<1>3. CASE GotCleanupFinished \/ GotCleanupEnded
  BY <1>3 DEF GotCleanupFinished, GotCleanupEnded
<1>4. CASE GotCleanupStarted
  BY <1>4 DEF GotCleanupStarted, Got
<1>5. CASE GotFinished
  BY <1>1, <1>5 DEF GotFinished
<1>6. CASE GotFatal \/ HostExit \/ HostError
  BY <1>1, <1>6 DEF GotFatal, HostExit, HostError
<1>7. CASE StartTimeout \/ CleanupTimeout
  BY <1>7 DEF StartTimeout, CleanupTimeout
<1>8. CASE FixtureTimeout
  BY <1>1, <1>8 DEF FixtureTimeout
<1>9. CASE \E t \in Tasks : RejectLost(t)
  BY <1>9 DEF RejectLost
<1>10. CASE UNCHANGED vars
  BY <1>10
<1> QED
  BY <1>2, <1>3, <1>4, <1>5, <1>6, <1>7, <1>8, <1>9, <1>10 DEF Quiet

LEMMA ResultNext ==
  ASSUME IInv, LifeInv, AnswerInv, ResultInv, [Next]_vars
  PROVE  ResultInv'
<1> USE DEF vars, hostVars, taskVars, cleanVars, opVars, callVars, procVars,
            pipeVars, workerVars
<1>1. TypeOK /\ StartInv /\ RequestInv /\ AnswerInv'
  BY AnswerNext DEF IInv
<1>2. /\ toWorker \in Seq(Requests) /\ toHost \in Seq(Responses)
      /\ answer \in [Tasks -> {"unsent", "sent", "lost", "resolved",
                              "rejected"}]
      /\ task \in Tasks \cup {NoTask} /\ NoTask \notin Tasks
      /\ 1 \in Tasks
      /\ [type |-> "start"] \in Requests /\ [type |-> "cleanup"] \in Requests
      /\ \A t \in Tasks : [type |-> "run", id |-> t] \in Requests
  BY <1>1, RunnerAssumption DEF TypeOK, Requests, Tasks, NoTask
<1>3. \A i \in 1..Len(toHost) : toHost[i].type = "fileCleanupStarted" =>
        toHost[i].id \in Tasks
  BY <1>2, ResponseFields
<1>4. provisional => task \in Tasks /\ answer[task] # "unsent"
  BY <1>2 DEF AnswerInv
(* A step keeps the invariant if the tasks that were past their tests are,   *)
(* and what the host takes for one is.                                       *)
<1>5. ASSUME \A t \in Tasks : answer[t] # "unsent" /\ PastTests(t) =>
               answer'[t] # "unsent" /\ PastTests(t)',
             \A i \in 1..Len(toHost') :
               toHost'[i].type = "fileCleanupStarted" =>
                 \/ \E j \in 1..Len(toHost) : toHost'[i] = toHost[j]
                 \/ \E t \in Tasks : /\ toHost'[i].id = t
                                     /\ answer'[t] # "unsent" /\ PastTests(t)',
             provisional' =>
               /\ task' = task
               /\ \/ provisional
                  \/ \E j \in 1..Len(toHost) :
                       toHost[j].type = "fileCleanupStarted"
                         /\ toHost[j].id = task
      PROVE  ResultInv'
  <2>1. ASSUME NEW i \in 1..Len(toHost'),
               toHost'[i].type = "fileCleanupStarted"
        PROVE  \E t \in Tasks : /\ toHost'[i].id = t
                                /\ answer'[t] # "unsent" /\ PastTests(t)'
    BY <1>3, <1>5, <2>1 DEF ResultInv
  <2>2. ASSUME provisional'
        PROVE  \E t \in Tasks : task' = t /\ PastTests(t)'
    BY <1>3, <1>4, <1>5, <2>2 DEF ResultInv
  <2> QED BY <2>1, <2>2 DEF ResultInv, PastTests
<1>6. ASSUME \/ toHost' = toHost
             \/ toHost # <<>> /\ toHost' = Tail(toHost)
      PROVE  \A i \in 1..Len(toHost') :
               \E j \in 1..Len(toHost) : toHost'[i] = toHost[j]
  BY <1>1, <1>6, ReadFacts
<1>7. CASE Quiet
  <2>1. \A t \in Tasks : answer[t] # "unsent" /\ PastTests(t) =>
          answer'[t] # "unsent" /\ PastTests(t)'
    BY <1>1, <1>7, QuietFacts, PastKept DEF IInv
  <2>2. toHost # <<>> => 1 \in 1..Len(toHost) /\ Head(toHost) = toHost[1]
    BY <1>2
  <2>3. \A i \in 1..Len(toHost') :
          \E j \in 1..Len(toHost) : toHost'[i] = toHost[j]
    BY <1>1, <1>6, <1>7, QuietFacts
  <2>4. provisional' =>
          /\ task' = task
          /\ \/ provisional
             \/ \E j \in 1..Len(toHost) :
                  toHost[j].type = "fileCleanupStarted" /\ toHost[j].id = task
    BY <1>1, <1>7, <2>2, QuietResult
  <2> QED BY <1>5, <2>1, <2>3, <2>4
<1>8. CASE Sending
  <2>1. /\ UNCHANGED <<wtask, phase>>
        /\ provisional' => provisional
        /\ \/ toHost' = toHost
           \/ toHost # <<>> /\ toHost' = Tail(toHost)
    <3>1. CASE CallStart \/ CallDrain \/ BeginStop
      BY <3>1 DEF CallStart, CallDrain, BeginStop
    <3>2. CASE \E t \in Tasks : CallRun(t)
      BY <3>2 DEF CallRun, HandTask
    <3>3. CASE GotStarted
      BY <3>3 DEF GotStarted, HandTask, Got
    <3> QED BY <1>8, <3>1, <3>2, <3>3 DEF Sending
  <2>2. \A i \in 1..Len(toHost') :
          \E j \in 1..Len(toHost) : toHost'[i] = toHost[j]
    BY <1>6, <2>1
(* What is sent is no task, or one that was not sent before.                 *)
  <2>3. /\ \A t \in Tasks : answer[t] # "unsent" => answer'[t] # "unsent"
        /\ provisional => task' = task
        /\ \A i \in 1..Len(toWorker') : toWorker'[i].type = "run" =>
             \/ answer[toWorker'[i].id] = "unsent"
             \/ \E j \in 1..Len(toWorker) : toWorker'[i] = toWorker[j]
    <3>1. CASE CallStart
      <4>1. UNCHANGED <<answer, task>>
        BY <3>1 DEF CallStart
      <4>2. toWorker' = toWorker
              \/ toWorker' = Append(toWorker, [type |-> "start"])
        BY <3>1 DEF CallStart, Send
      <4> QED BY <1>2, <4>1, <4>2, SendFacts
    <3>2. CASE \E t \in Tasks : CallRun(t)
      <4>1. PICK t \in Tasks : CallRun(t)
        BY <3>2
      <4>2. /\ answer[t] = "unsent" /\ task = NoTask
            /\ answer' = [answer EXCEPT ![t] = "sent"]
            /\ toWorker' = Append(toWorker, [type |-> "run", id |-> t])
        BY <4>1 DEF CallRun, NextTask, HandTask, Send
      <4>3. [type |-> "run", id |-> t] \in Requests
        BY <1>2
      <4> QED BY <1>2, <1>4, <4>2, <4>3, SendFacts
    <3>3. CASE CallDrain \/ BeginStop
      <4>1. UNCHANGED <<answer, task>>
        BY <3>3 DEF CallDrain, BeginStop
      <4>2. toWorker' = toWorker
              \/ toWorker' = Append(toWorker, [type |-> "cleanup"])
        BY <3>3, Zenon DEF CallDrain, BeginStop, Send
      <4> QED BY <1>2, <4>1, <4>2, SendFacts
    <3>4. CASE GotStarted /\ ~startWait
      BY <3>4 DEF GotStarted
    <3>5. CASE GotStarted /\ startWait
      <4> DEFINE run == [type |-> "run", id |-> 1]
                 clean == [type |-> "cleanup"]
      <4>1. task = NoTask /\ \A t \in Tasks : answer[t] = "unsent"
        BY <1>1, <3>5 DEF StartInv
      <4>2. \/ toWorker' = Append(toWorker, run)
            \/ toWorker' = toWorker \o <<clean, run>>
        BY <3>5 DEF GotStarted, Send
      <4>3. \A i \in 1..Len(toWorker') : toWorker'[i].type = "run" =>
              \/ toWorker'[i] = run
              \/ \E j \in 1..Len(toWorker) : toWorker'[i] = toWorker[j]
        <5>1. CASE toWorker' = Append(toWorker, run)
          BY <1>2, <5>1, SendFacts
        <5>2. CASE toWorker' = toWorker \o <<clean, run>>
          <6>1. <<clean, run>> \in Seq(Requests)
            BY <1>2
          <6> QED BY <1>2, <5>2, <6>1, ReplyFacts
        <5> QED BY <4>2, <5>1, <5>2
      <4> QED BY <1>2, <1>4, <4>1, <4>3
    <3> QED BY <1>8, <3>1, <3>2, <3>3, <3>4, <3>5 DEF Sending
  <2>4. \A t \in Tasks : answer[t] # "unsent" /\ PastTests(t) =>
          answer'[t] # "unsent" /\ PastTests(t)'
    BY <1>1, <2>1, <2>3, PastKept
  <2> QED BY <1>5, <2>1, <2>2, <2>3, <2>4
<1>9. CASE OnTask
  <2>1. PICK p \in Phases, u \in Seq(Responses) :
          /\ TaskStep(p, u)
          /\ p \notin {"load", "flush"} /\ (p = "loaded" => phase = "flush")
          /\ \A i \in 1..Len(u) : u[i].type = "fileCleanupStarted" =>
               p # "loaded" /\ u[i].id = wtask
    BY <1>1, <1>9, TaskSteps DEF OnTask
  <2>2. /\ UNCHANGED <<task, provisional, answer, toWorker>>
        /\ phase' = p /\ toHost' = toHost \o u
        /\ wtask \in Tasks /\ wtask' \in {wtask, NoTask}
    BY <1>1, <2>1 DEF TaskStep, TypeOK
  <2>3. \A t \in Tasks : answer[t] # "unsent" /\ PastTests(t) =>
          answer'[t] # "unsent" /\ PastTests(t)'
    BY <1>1, <2>1, <2>2, PastKept
  <2>4. ASSUME NEW i \in 1..Len(u), u[i].type = "fileCleanupStarted"
        PROVE  \E t \in Tasks : /\ u[i].id = t
                                /\ answer'[t] # "unsent" /\ PastTests(t)'
    <3>1. u[i].id = wtask /\ phase' \notin {"load", "flush", "loaded"}
      BY <2>1, <2>2, <2>4
    <3>2. answer[wtask] # "unsent"
      BY <1>2, <2>2 DEF IInv, RunningInv
    <3>3. \A j \in 1..Len(toWorker) :
            toWorker[j].type = "run" => toWorker[j].id # wtask
      BY <1>1, <1>2, <2>2 DEF RequestInv
    <3>4. PICK t \in Tasks : t = wtask
      BY <2>2
    <3>5. PastTests(t)'
      BY <2>2, <3>1, <3>3, <3>4 DEF PastTests
    <3> QED BY <2>2, <3>1, <3>2, <3>4, <3>5
  <2>5. \A i \in 1..Len(toHost') : toHost'[i].type = "fileCleanupStarted" =>
          \/ \E j \in 1..Len(toHost) : toHost'[i] = toHost[j]
          \/ \E t \in Tasks : /\ toHost'[i].id = t
                              /\ answer'[t] # "unsent" /\ PastTests(t)'
    BY <1>2, <2>2, <2>4, ReplyFacts
  <2> QED BY <1>5, <2>2, <2>3, <2>5
<1>10. CASE WorkerReceives \/ WorkerFatal \/ WorkerUncaught \/ FixturesCleaned
  <2>1. UNCHANGED <<task, provisional, answer>>
    BY <1>10, WorkerFrame
  <2>2. PICK u \in Seq(Responses) :
          /\ toHost' = toHost \o u
          /\ \A i \in 1..Len(u) : u[i].type # "fileCleanupStarted"
    BY <1>1, <1>10, OtherFacts
  <2>3. \A i \in 1..Len(toHost') : toHost'[i].type = "fileCleanupStarted" =>
          \E j \in 1..Len(toHost) : toHost'[i] = toHost[j]
    BY <1>2, <2>2, ReplyFacts
  <2>4. \A t \in Tasks : answer[t] # "unsent" /\ PastTests(t) =>
          answer'[t] # "unsent" /\ PastTests(t)'
    <3>1. CASE WorkerFatal \/ WorkerUncaught \/ FixturesCleaned
      <4>1. /\ toWorker' = toWorker
            /\ wtask' = NoTask \/ UNCHANGED <<wtask, phase>>
        BY <3>1 DEF WorkerFatal, WorkerUncaught, FixturesCleaned
      <4> QED BY <1>1, <2>1, <4>1, PastKept
    <3>2. CASE WorkerReceives
      <4>1. toWorker # <<>> /\ toWorker' = Tail(toWorker)
        BY <3>2 DEF WorkerReceives
      <4>2. /\ Head(toWorker) = toWorker[1] /\ 1 \in 1..Len(toWorker)
            /\ \A i \in 1..Len(toWorker') :
                 i + 1 \in 1..Len(toWorker) /\ toWorker'[i] = toWorker[i + 1]
        BY <1>2, <4>1, TakeFacts
      <4>3. CASE Head(toWorker).type # "run"
        <5>1. UNCHANGED <<wtask, phase>>
          BY <3>2, <4>3 DEF WorkerReceives
        <5> QED BY <1>1, <2>1, <4>2, <5>1, PastKept
      <4>4. CASE Head(toWorker).type = "run"
        <5>1. wtask' = Head(toWorker).id
          BY <3>2, <4>4 DEF WorkerReceives
        <5> QED BY <2>1, <4>2, <4>4, <5>1 DEF PastTests
      <4> QED BY <4>3, <4>4
    <3> QED BY <1>10, <3>1, <3>2
  <2> QED BY <1>5, <2>1, <2>3, <2>4
<1>11. CASE WorkerDies
  <2>1. /\ UNCHANGED <<task, provisional, answer>>
        /\ wtask' = NoTask /\ toWorker' = <<>>
        /\ \E kept \in 0..Len(toHost) : toHost' = SubSeq(toHost, 1, kept)
    BY <1>11 DEF WorkerDies
  <2>2. \A i \in 1..Len(toHost') :
          i \in 1..Len(toHost) /\ toHost'[i] = toHost[i]
    BY <1>2, <2>1, CutFacts
  <2>3. \A t \in Tasks : answer[t] # "unsent" /\ PastTests(t) =>
          answer'[t] # "unsent" /\ PastTests(t)'
    BY <1>1, <2>1, PastKept
  <2> QED BY <1>5, <2>1, <2>2, <2>3
<1> QED
  BY Ways, <1>7, <1>8, <1>9, <1>10, <1>11

-----------------------------------------------------------------------------
(* The theorems.                                                             *)

(* The strengthened invariant holds in every reachable state.                *)
THEOREM KeptInvariance == Spec => []KeptInv
<1>1. Init => LifeInv /\ CallsInv /\ AnswerInv /\ FatalInv /\ CleaningInv
                /\ ResultInv
  <2> SUFFICES ASSUME Init
               PROVE  /\ LifeInv /\ CallsInv /\ AnswerInv /\ FatalInv
                      /\ CleaningInv /\ ResultInv
    OBVIOUS
  <2>1. LifeInv /\ CallsInv
    BY DEF Init, LifeInv, CallsInv, HasLiveChild
  <2>2. AnswerInv
    BY DEF Init, AnswerInv, Tasks, NoTask
  <2>3. FatalInv /\ CleaningInv /\ ResultInv
    BY DEF Init, FatalInv, CleaningInv, ResultInv
  <2> QED BY <2>1, <2>2, <2>3
<1>2. IInv /\ Init => KeptInv
  BY <1>1 DEF KeptInv
<1>3. KeptInv /\ IInv' /\ [Next]_vars => KeptInv'
  BY LifeNext, AnswerNext, FatalNext, CleaningNext, ResultNext
  DEF KeptInv, IInv
<1> QED BY <1>2, <1>3, Invariance, PTL DEF Spec

(* The runner, its transport and its worker keep the contract that the pool  *)
(* relies on (PoolRunner, pool/poolRunner.ts; Pool, pool/pool.ts): usable    *)
(* from the start to the first sign of trouble, one task at a time, each     *)
(* answered at most once, and gone when a stop() returns.                    *)
THEOREM KeepsContract == Spec => ImplementsContract
<1>1. Init => Contract!Init
  BY PhaseNow DEF Init, Contract!Init, States
<1>2. KeptInv /\ [Next]_vars => [Contract!Next]_(Contract!vars)
  BY StepMaps DEF KeptInv, IInv
<1> QED
  BY <1>1, <1>2, KeptInvariance, PTL
  DEF Spec, ImplementsContract, Contract!Spec

(* A task resolves only when its own tests are over, even one that is        *)
(* answered early by the fixture timer.                                      *)
LEMMA ResolvesPast ==
  ASSUME KeptInv, [Next]_vars, NEW t \in Tasks, answer[t] = "sent",
         answer'[t] = "resolved", wtask = t
  PROVE  phase \notin {"load", "flush", "loaded"}
<1> USE DEF vars, hostVars, taskVars, cleanVars, opVars, callVars, procVars,
            pipeVars, workerVars
<1>1. /\ TypeOK /\ AnswerInv /\ ReportInv /\ ResultInv /\ task = t
      /\ answer \in [Tasks -> {"unsent", "sent", "lost", "resolved",
                              "rejected"}]
  BY DEF KeptInv, IInv, AnswerInv, TypeOK
<1>2. ASSUME EndTask("lost") PROVE FALSE
  BY <1>1, <1>2, EndFacts
<1>3. answer' # answer
  OBVIOUS
<1>4. CASE Quiet
  <2>1. CASE GotFinished
    <3>1. task = Head(toHost).id
      BY <1>3, <2>1 DEF GotFinished
    <3>2. 1 \in 1..Len(toHost) /\ Head(toHost) = toHost[1]
            /\ toHost[1].type = "runFinished"
      BY <1>1, <2>1, TakeFacts DEF GotFinished, Got, TypeOK
    <3> QED BY <1>1, <3>1, <3>2 DEF ReportInv
  <2>2. CASE FixtureTimeout
    <3>1. provisional
      BY <1>2, <2>2 DEF FixtureTimeout
    <3> QED BY <1>1, <3>1 DEF ResultInv, PastTests
  <2>3. CASE CallDispose \/ CallClose \/ GotCleanupFinished
               \/ GotCleanupStarted \/ GotCleanupEnded \/ StartTimeout
               \/ CleanupTimeout \/ UNCHANGED vars
    BY <1>3, <2>3
    DEF CallDispose, CallClose, GotCleanupFinished, GotCleanupStarted,
        GotCleanupEnded, StartTimeout, CleanupTimeout
  <2>4. CASE GotFatal \/ HostExit \/ HostError
    BY <1>2, <2>4 DEF GotFatal, HostExit, HostError
  <2>5. CASE \E v \in Tasks : RejectLost(v)
    BY <1>1, <2>5 DEF RejectLost
  <2> QED BY <1>4, <2>1, <2>2, <2>3, <2>4, <2>5 DEF Quiet
<1>5. CASE Sending
  BY <1>1, <1>3, <1>5, RunnerAssumption
  DEF Sending, CallStart, CallRun, HandTask, CallDrain, BeginStop, GotStarted,
      Tasks
<1>6. CASE \/ OnTask
           \/ WorkerReceives \/ WorkerFatal \/ WorkerUncaught
           \/ FixturesCleaned \/ WorkerDies
  BY <1>3, <1>6, WorkerFrame
<1> QED BY Ways, <1>4, <1>5, <1>6

(* A file is served whole: the worker's fixtures are not cleaned up under    *)
(* it, unless the pool closes while it is handed over, and its answer is     *)
(* about its own tests (PoolRunner.cleanupWorkerFixtures, stop,              *)
(* handleResponse; runInPool).                                               *)
THEOREM ServedWhole == Spec => FilesAreServedWhole
<1>1. KeptInv => FixturesOutliveTask
  BY DEF KeptInv, CleaningInv, FixturesOutliveTask
<1>2. KeptInv /\ [Next]_vars =>
        [\A t \in Tasks :
           /\ answer[t] = "sent" /\ answer'[t] = "resolved"
           /\ wtask = t
           => phase \notin {"load", "flush", "loaded"}]_vars
  BY ResolvesPast
<1> QED
  BY <1>1, <1>2, KeptInvariance, PTL
  DEF Spec, FilesAreServedWhole, ResolvedByItsTests

=============================================================================
