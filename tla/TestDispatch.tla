---------------------------- MODULE TestDispatch ----------------------------
(***************************************************************************)
(* The test files of a cycle, from their dispatch to the pool              *)
(* (pool/index.ts, createPool().runTests, once per project) to the report  *)
(* of their results (core/runnerEventSink.ts), with the count of failed    *)
(* tests the host keeps for `bail` (core/stateManager.ts) and what a       *)
(* worker asks and tells the host while it runs a file                     *)
(* (runtime/worker/runInPool.ts).                                          *)
(*                                                                         *)
(* A worker's messages arrive in order, and each takes effect on the state *)
(* when it arrives; what a crash loses on the way counts as not done.  In  *)
(* which order the pool serves its tasks is the concern of WorkerPool.     *)
(***************************************************************************)
EXTENDS Integers, Sequences, FiniteSets, FiniteSetsExt, Functions

CONSTANTS
  Files,        \* the test files that are run: one per entry of a cycle
  Paths,        \* their paths
  Entries,      \* of each runTests() call, the files in order
  Cycle,        \* the cycle of the session in which a file is run
  PathOf,       \* entryInfo.testPath
  CasesIn,      \* the number of test cases in a file
  AtOnce,       \* the cases of a file that may run together
  MaxWorkers,   \* pool.maxWorkers
  Bails,        \* the limits of failed tests; 0 is no limit
  MayThrow,     \* files whose buildTask or reporters' hooks may throw
  MayCrash      \* files whose worker may die

ASSUME DispatchAssumption ==
  /\ IsFiniteSet(Files) /\ IsFiniteSet(Paths)
  /\ \A q \in DOMAIN Entries : Entries[q] \in Seq(Files)
  /\ PathOf \in [Files -> Paths] /\ CasesIn \in [Files -> Nat]
  /\ Cycle \in [Files -> Nat \ {0}]
  /\ AtOnce \in [Files -> Nat \ {0}] /\ MaxWorkers \in Nat \ {0}
  /\ Bails \subseteq Nat
  /\ MayThrow \subseteq Files /\ MayCrash \subseteq Files

VARIABLES
  bail,        \* runtimeConfig.bail: never changes
  cycle,       \* the cycle the session is in
  at,          \* how far each file has come
  case,        \* how far each of its cases has come in the worker
  runningModules, testModules,     \* the TestStateManager
  result,      \* the TestFileResult of a file
  told         \* case results the reporters have been told of

stateVars == <<runningModules, testModules>>
vars == <<bail, cycle, at, case, stateVars, result, told>>

-----------------------------------------------------------------------------
CaseIds(f) == 1 .. CasesIn[f]
Ended == {"pass", "fail"}
InWorker == {"starting", "loading", "tests", "ended"}
Settled == {"done", "failed"}
None == [status |-> "none", cases |-> {}, error |-> FALSE]
Status == {"none", "pass", "fail", "skip"}

(* A test's id comes from its file's path and its place in the file, so     *)
(* projects that run the same file share it.                                *)
IdOf(f, k) == <<PathOf[f], k>>

CaseResult(f, k, s) == [id |-> IdOf(f, k), file |-> f, status |-> s]

Absent == [open |-> FALSE, running |-> {}, results |-> {}]
Fresh == [Absent EXCEPT !.open = TRUE]

TypeOK ==
  /\ bail \in Bails /\ cycle \in Nat
  /\ at \in [Files -> {"idle", "building", "gated", "queued",
                       "replaying", "reporting"} \cup InWorker \cup Settled]
  /\ \A f \in Files :
       /\ case[f] \in [CaseIds(f) ->
            {"todo", "admitted", "refused", "running"} \cup Ended]
       /\ result[f].status \in Status
  /\ runningModules \in [Paths ->
       [open : BOOLEAN, running : SUBSET (Paths \X Nat), results : SUBSET
          [id : Paths \X Nat, file : Files, status : Ended]]]
  /\ testModules \subseteq Files

Init ==
  /\ bail \in Bails
  /\ cycle = 1
  /\ at = [f \in Files |-> IF Cycle[f] = 1 THEN "building" ELSE "idle"]
  /\ case = [f \in Files |-> [k \in CaseIds(f) |-> "todo"]]
  /\ runningModules = [p \in Paths |-> Absent]
  /\ testModules = {}
  /\ result = [f \in Files |-> None]
  /\ told = {}

-----------------------------------------------------------------------------
(* The state manager.                                                        *)
FailedIn(results) == Cardinality({r \in results : r.status = "fail"})

CountOf(f) ==
  IF result[f].cases # {} THEN FailedIn(result[f].cases)
  ELSE IF result[f].status = "fail" THEN 1 ELSE 0

GetCountOfFailedTests ==
  SumFunction([p \in Paths |-> FailedIn(runningModules[p].results)])
    + SumFunction([f \in testModules |-> CountOf(f)])

OnTestFileStart(f) == [runningModules EXCEPT ![PathOf[f]] = Fresh]

OnTestCaseStart(f, k) ==
  LET module == runningModules[PathOf[f]]
  IN  [runningModules EXCEPT ![PathOf[f]] =
         [open |-> TRUE, running |-> module.running \cup {IdOf(f, k)},
          results |-> module.results]]

OnTestCaseResult(f, k, s) ==
  LET module == runningModules[PathOf[f]]
  IN  [runningModules EXCEPT ![PathOf[f]] =
         [open |-> TRUE, running |-> module.running \ {IdOf(f, k)},
          results |-> module.results \cup {CaseResult(f, k, s)}]]

(* Mutant: the entry of the running file is kept.                            *)
OnTestFileResultKept(f) ==
  testModules' = testModules \cup {f} /\ UNCHANGED runningModules

OnTestFileResult(f) ==
  /\ runningModules' = [runningModules EXCEPT ![PathOf[f]] = Absent]
  /\ testModules' = testModules \cup {f}

-----------------------------------------------------------------------------
(* Dispatch.  Every entry of a project's list prepares its task at once, but *)
(* awaits the gate of the entry before it.                                   *)
Previous(f) ==
  UNION {{Entries[q][i - 1] : i \in {i \in 2 .. Len(Entries[q]) :
                                       Entries[q][i] = f}} :
           q \in DOMAIN Entries}

(* Mutant: the gate is released as soon as the task is prepared.             *)
ReleasedOncePrepared(f) == at[f] \notin {"idle", "building"}

(* Mutant: no `finally` releases the gate.                                   *)
ReleasedByDispatch(f) ==
  at[f] \notin {"idle", "building", "gated", "failed"}

Released(f) == at[f] \notin {"idle", "building", "gated"}

BuildTask(f) ==
  /\ at[f] = "building"
  /\ \/ at' = [at EXCEPT ![f] = "gated"]
     \/ f \in MayThrow /\ at' = [at EXCEPT ![f] = "failed"]
  /\ UNCHANGED <<bail, cycle, case, stateVars, result, told>>

Enqueue(f) ==
  /\ at[f] = "gated"
  /\ \A e \in Previous(f) : Released(e)
  /\ at' = [at EXCEPT ![f] = "queued"]
  /\ UNCHANGED <<bail, cycle, case, stateVars, result, told>>

StartTask(f) ==
  /\ at[f] = "queued"
  /\ Cardinality({g \in Files : at[g] \in InWorker}) < MaxWorkers
  /\ at' = [at EXCEPT ![f] = "starting"]
  /\ UNCHANGED <<bail, cycle, case, stateVars, result, told>>

-----------------------------------------------------------------------------

Refuses == bail > 0 /\ GetCountOfFailedTests >= bail

(* The worker's answer settles the task, and the host records it at once.    *)
Answer(f, status, cases, error) ==
  /\ at' = [at EXCEPT ![f] = "reporting"]
  /\ result' =
       [result EXCEPT ![f] =
          [status |-> status, cases |-> cases, error |-> error]]
  /\ OnTestFileResult(f)
  /\ UNCHANGED <<bail, cycle, case, told>>

SkipFile(f) ==
  at[f] = "starting" /\ Refuses /\ Answer(f, "skip", {}, FALSE)

StartFile(f) ==
  /\ at[f] = "starting" /\ ~Refuses
  /\ at' = [at EXCEPT ![f] = "loading"]
  /\ UNCHANGED <<bail, cycle, case, stateVars, result, told>>

LoadFile(f) ==
  /\ at[f] = "loading"
  /\ at' = [at EXCEPT ![f] = "tests"]
  /\ runningModules' = OnTestFileStart(f)
  /\ UNCHANGED <<bail, cycle, case, testModules, result, told>>

LoadFails(f) ==
  /\ at[f] = "tests" /\ \A k \in CaseIds(f) : case[f][k] = "todo"
  /\ Answer(f, "fail", {}, TRUE)

AskBail(f, k) ==
  /\ at[f] = "tests" /\ case[f][k] = "todo"
  /\ \A j \in 1 .. k - 1 : case[f][j] # "todo"
  /\ Cardinality({j \in CaseIds(f) :
       case[f][j] \in {"admitted", "running"}}) < AtOnce[f]
  /\ case' =
       [case EXCEPT ![f][k] = IF Refuses THEN "refused" ELSE "admitted"]
  /\ UNCHANGED <<bail, cycle, at, stateVars, result, told>>

StartCase(f, k) ==
  /\ at[f] = "tests" /\ case[f][k] = "admitted"
  /\ case' = [case EXCEPT ![f][k] = "running"]
  /\ runningModules' = OnTestCaseStart(f, k)
  /\ UNCHANGED <<bail, cycle, at, testModules, result, told>>

EndCase(f, k) ==
  /\ at[f] = "tests" /\ case[f][k] = "running"
  /\ \E s \in Ended :
       /\ case' = [case EXCEPT ![f][k] = s]
       /\ runningModules' = OnTestCaseResult(f, k, s)
       /\ told' = told \cup {CaseResult(f, k, s)}
  /\ UNCHANGED <<bail, cycle, at, testModules, result>>

(* The file is over; a hook of it or an unhandled error may have failed it.  *)
Reported(f) == {CaseResult(f, k, case[f][k]) :
                  k \in {k \in CaseIds(f) : case[f][k] \in Ended}}

EndFile(f) ==
  /\ at[f] = "tests"
  /\ \A k \in CaseIds(f) : case[f][k] \in Ended \cup {"refused"}
  /\ \E error \in BOOLEAN :
       Answer(f,
         IF error \/ FailedIn(Reported(f)) > 0 THEN "fail"
         ELSE IF \E k \in CaseIds(f) : case[f][k] = "refused" THEN "skip"
         ELSE "pass",
         Reported(f), error)

-----------------------------------------------------------------------------
(* A worker that crashes, and what the host makes of it: the error goes to   *)
(* the cases the file's entry says are running or, if there is none, to the  *)
(* file.                                                                     *)
CrashedCases(f) ==
  {[id |-> id, file |-> f, status |-> "fail"] :
     id \in runningModules[PathOf[f]].running}

WorkerErrorToResult(f) ==
  [status |-> "fail",
   cases |-> runningModules[PathOf[f]].results \cup CrashedCases(f),
   error |-> CrashedCases(f) = {}]

Crash(f) ==
  /\ at[f] \in InWorker /\ f \in MayCrash
  /\ result' = [result EXCEPT ![f] = WorkerErrorToResult(f)]
  /\ IF CrashedCases(f) = {}
     THEN at' = [at EXCEPT ![f] = "reporting"] /\ OnTestFileResult(f)
     ELSE at' = [at EXCEPT ![f] = "replaying"] /\ UNCHANGED stateVars
  /\ UNCHANGED <<bail, cycle, case, told>>

(* The crashed cases are replayed to the reporters before the file's result. *)
Replay(f) ==
  /\ at[f] = "replaying"
  /\ at' = [at EXCEPT ![f] = "reporting"]
  /\ told' = told \cup result[f].cases
  /\ OnTestFileResult(f)
  /\ UNCHANGED <<bail, cycle, case, result>>

ReplayThrows(f) ==
  /\ at[f] = "replaying" /\ f \in MayThrow
  /\ at' = [at EXCEPT ![f] = "failed"]
  /\ result' = [result EXCEPT ![f] = None]
  /\ UNCHANGED <<bail, cycle, case, stateVars, told>>

(* The reporters' onTestFileResult hooks have run, or one has thrown.        *)
ReportFile(f) ==
  /\ at[f] = "reporting"
  /\ \/ at' = [at EXCEPT ![f] = "done"]
     \/ f \in MayThrow /\ at' = [at EXCEPT ![f] = "failed"]
  /\ UNCHANGED <<bail, cycle, case, stateVars, result, told>>

-----------------------------------------------------------------------------
(* A cycle ends when each of its files is done, or as soon as one has        *)
(* failed, since Promise.all does not wait for the others; the next one      *)
(* starts with a state manager that is reset.                                *)
Now(f) == Cycle[f] = cycle

NextCycle ==
  /\ \/ \A f \in Files : Now(f) => at[f] \in Settled
     \/ \E f \in Files : Now(f) /\ at[f] = "failed"
  /\ \E f \in Files : Cycle[f] = cycle + 1
  /\ cycle' = cycle + 1
  /\ at' =
       [f \in Files |-> IF Cycle[f] = cycle + 1 THEN "building" ELSE at[f]]
  /\ runningModules' = [p \in Paths |-> Absent] /\ testModules' = {}
  /\ UNCHANGED <<bail, case, result, told>>

Prepare(f) == BuildTask(f) \/ Enqueue(f) \/ StartTask(f)

RunCase(f) ==
  \E k \in CaseIds(f) : AskBail(f, k) \/ StartCase(f, k) \/ EndCase(f, k)

RunFile(f) ==
  SkipFile(f) \/ StartFile(f) \/ LoadFile(f) \/ LoadFails(f) \/ EndFile(f)

Report(f) == Crash(f) \/ Replay(f) \/ ReplayThrows(f) \/ ReportFile(f)

Next ==
  \/ \E f \in Files : Prepare(f) \/ RunCase(f) \/ RunFile(f) \/ Report(f)
  \/ NextCycle

Spec == Init /\ [][Next]_vars

(* Every await is of something that ends: the preparation of a task, a test  *)
(* (by its timeout), a reporter's hook.                                      *)
FairSpec == Spec /\ WF_vars(Next)

-----------------------------------------------------------------------------
(* Properties.                                                               *)

BuildFailed(f) ==
  at[f] = "failed" /\ result[f] = None
    /\ \A k \in CaseIds(f) : case[f][k] = "todo"

Dispatched(f) == Released(f) /\ ~BuildFailed(f)

(* The tasks of a project reach the pool in the order of its entries, though *)
(* they are prepared in any order (pool/index.ts, dispatchGate); only a task *)
(* that could not be prepared lets the ones behind it through.               *)
EnqueuedInOrder ==
  \A q \in DOMAIN Entries : \A i, j \in DOMAIN Entries[q] :
    i < j /\ Dispatched(Entries[q][j]) =>
      \/ Dispatched(Entries[q][i])
      \/ \E k \in i .. j - 1 : BuildFailed(Entries[q][k])

(* A file's worker died while these cases ran.                               *)
Died(f) == {k \in CaseIds(f) : at[f] \notin InWorker
                                 /\ case[f][k] = "running"}

Recorded(f) ==
  \/ at[f] \in {"reporting", "done"}
  \/ at[f] = "failed" /\ result[f] # None

Failures(f) ==
  Cardinality({k \in CaseIds(f) : case[f][k] = "fail"})
    + (IF ~Recorded(f) THEN 0
       ELSE IF result[f].status = "fail"
                 /\ \A k \in CaseIds(f) : case[f][k] \notin
                      Ended \cup {"running"}
       THEN 1 ELSE Cardinality(Died(f)))

(* No cycle before this one was cut short.                                   *)
Undisturbed == \A f \in Files : Cycle[f] < cycle => at[f] = "done"

FailuresOfCycle == SumFunction([f \in {f \in Files : Now(f)} |-> Failures(f)])

(* The count that `bail` consults is that of the cycle's failures: each      *)
(* failed case once, whether its file still runs, has ended or has crashed,  *)
(* and a file that failed without running a case as one failure              *)
(* (TestStateManager.getCountOfFailedTests); provided that no cycle before   *)
(* it was cut short.                                                         *)
CountIsExact ==
  Undisturbed => GetCountOfFailedTests = FailuresOfCycle

(* A test case that has started is in its file's result, and the reporters   *)
(* have been told of it before that result, as what it was or, if its worker *)
(* died under it, as failed; no other is (pool/index.ts,                     *)
(* workerErrorToResult); provided that no cycle before was cut short.        *)
CasesAccounted ==
  \A f \in Files : Undisturbed /\ Recorded(f) =>
    LET started == Reported(f) \cup {CaseResult(f, k, "fail") : k \in Died(f)}
    IN  result[f].cases = started /\ started \subseteq told

(* The most cases that may be under way.                                     *)
MostAtOnce ==
  Max({SumFunction([f \in S |-> AtOnce[f]]) :
         S \in {S \in SUBSET Files : Cardinality(S) <= MaxWorkers}})

(* With `bail`, the workers of the run report no more failed cases than the  *)
(* limit and what they had begun when it was reached (runInPool.ts and       *)
(* runner.ts, getCountOfFailedTests() >= bail); what the host makes of a     *)
(* crash comes on top.  Provided, as above, that no cycle before was cut     *)
(* short: the end of a file of it takes what is counted of its path away.    *)
BailBoundsTheRun ==
  Undisturbed /\ bail > 0 =>
    SumFunction([f \in {f \in Files : Now(f)} |-> FailedIn(Reported(f))])
      <= bail - 1 + MostAtOnce

(* What is counted and reported is what the workers did.                     *)
AccountsAreExact ==
  TypeOK /\ CountIsExact /\ CasesAccounted /\ BailBoundsTheRun

(* Every file that is dispatched comes to its end, even where the entry      *)
(* before it could not be prepared (pool/index.ts: "otherwise the whole      *)
(* chain would deadlock").                                                   *)
AllSettled == \A f \in Files : Cycle[f] <= cycle => at[f] \in Settled
=============================================================================
