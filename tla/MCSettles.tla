------------------------------ MODULE MCSettles ------------------------------
(* What a test file waits for, for TLC: a slot of the pool, the fixtures of  *)
(* its tests, its hooks and cases, and the loops that poll in them. `part`   *)
(* says which of the four moves; the others rest in an initial state.        *)
EXTENDS FixtureScopes, FiniteSets

CONSTANT None

VARIABLES
  part,
  options, call, serves, slotWaiters, ready, turn, active, idle, stopping,
  runner, workerId, slotInUse, sampled, polling, cleanup, stopErrors, reports,
  drain, drainWaits, closing, closeWaits,               \* of WorkerPool
  testOptions, phase, marked, started, errors, running, queue, hook, verdict,
  retries, repeats, history, reported, failures, others,   \* of TestRunner
  kind, isNot, now, world, checks, wake, expired, settled, how  \* of Polling

poolVars ==
  <<options, call, serves, slotWaiters, ready, turn, active, idle, stopping,
    runner, workerId, slotInUse, sampled, polling, cleanup, stopErrors,
    reports, drain, drainWaits, closing, closeWaits>>
fileVars ==
  <<testOptions, phase, marked, started, errors, running, queue, hook,
    verdict, retries, repeats, history, reported, failures, others>>
pollVars ==
  <<kind, isNot, now, world, checks, wake, expired, settled, how>>
MCvars == <<part, poolVars, vars, fileVars, pollVars>>

-----------------------------------------------------------------------------
(* One worker for three files, the third of which needs another environment, *)
(* in a one-shot run without a memory gate.                                  *)
Pool == INSTANCE WorkerPool WITH
  Tasks <- {"t1", "t2", "t3"},
  EnvOf <- [t1 |-> "node", t2 |-> "node", t3 |-> "jsdom"],
  None <- None, MaxWorkers <- 1, MinWorkers <- 1,
  Options <- {[isolate |-> isolate, gated |-> FALSE, watch |-> FALSE] :
                isolate \in BOOLEAN}

-----------------------------------------------------------------------------
(* A worker-scoped `server`, used by two file-scoped fixtures, which         *)
(* `client` asks for one after the other: `log`, then `db`, which another    *)
(* test uses too; last comes `cache`.                                        *)
MCFixtures == {"server", "log", "db", "cache", "client"}
MCScope ==
  [server |-> "worker", log |-> "file", db |-> "file", cache |-> "file",
   client |-> "file"]
MCDeps ==
  [server |-> <<>>, log |-> <<"server">>, db |-> <<"server">>,
   cache |-> <<>>, client |-> <<"log", "db", "cache">>]
MCTests == {"u1", "u2"}
MCUses == [u1 |-> <<"db">>, u2 |-> <<"client">>]

-----------------------------------------------------------------------------
(* A concurrent case and a concurrent suite of two cases, the second of them *)
(* sequential, run together, then a sequential case, which is repeated.      *)
Config(retry, bail, maxConcurrency) ==
  [retry |-> retry, bail |-> bail, maxConcurrency |-> maxConcurrency]

File == INSTANCE TestRunner WITH
  options <- testOptions,
  Suites <- {"root", "suite"}, Cases <- {"c1", "c2", "c3", "c4"},
  Root <- "root",
  Children <- [root |-> <<"c1", "suite", "c4">>, suite |-> <<"c2", "c3">>],
  Concurrent <- {"c1", "c2", "c3", "suite"}, Hooked <- {"root", "suite"},
  Skipped <- {},
  Repeats <- [c1 |-> 0, c2 |-> 0, c3 |-> 0, c4 |-> 1],
  Options <- {Config(1, 0, 2), Config(1, 0, 1), Config(0, 1, 1),
              Config(0, 2, 2)},
  MaxOthers <- 1

-----------------------------------------------------------------------------
Poll == INSTANCE Polling WITH
  timedOut <- expired, Kinds <- {"poll", "waitFor", "waitUntil", "page"},
  Timeout <- 3, Interval <- 2, MaxNow <- 6, None <- None

ASSUME InstancesAreLegal == FixtureAssumption /\ File!TreeAssumption

-----------------------------------------------------------------------------
MCInit ==
  /\ Init /\ Pool!Init /\ File!Init /\ Poll!Init
  /\ part \in {"pool", "fixtures", "file", "poll"}
  /\ part # "pool" => options.isolate
  /\ part # "file" => testOptions = Config(1, 0, 2)
  /\ part # "poll" => kind = "poll" /\ ~isNot

MCNext ==
  \/ /\ part = "pool" /\ Pool!Next
     /\ UNCHANGED <<part, vars, fileVars, pollVars>>
  \/ /\ part = "fixtures" /\ Next
     /\ UNCHANGED <<part, poolVars, fileVars, pollVars>>
  \/ /\ part = "file" /\ File!Next
     /\ UNCHANGED <<part, poolVars, vars, pollVars>>
  \/ /\ part = "poll" /\ Poll!Next
     /\ UNCHANGED <<part, poolVars, vars, fileVars>>

(* The steps the fairness of each module is about; but for the loops that    *)
(* poll, none of them is ever taken twice from the same state, so that one   *)
(* assumption for all of a part says as much as one for each step.           *)
PoolStep ==
  /\ part = "pool"
  /\ \/ \E t \in {"t1", "t2", "t3"} :
           \/ Pool!Acquire(t) \/ Pool!StartOk(t) \/ Pool!StartFail(t)
           \/ Pool!TaskResolves(t) \/ Pool!TaskRejects(t)
           \/ Pool!StopAsked(t) /\ Pool!RunnerExits(t)
           \/ Pool!StopSettles(t)
     \/ Pool!Resume \/ Pool!DrainWatch \/ Pool!DrainOneShot
     \/ Pool!CloseStopped \/ Pool!CloseEnd

FileStep ==
  /\ part = "file"
  /\ \/ \E n \in File!Nodes : File!Node(n)
     \/ \E s \in {"root", "suite"} : File!Suite(s)
     \/ \E c \in {"c1", "c2", "c3", "c4"} : File!Case(c)

MCFairSpec ==
  /\ MCInit /\ [][MCNext]_MCvars
  /\ WF_poolVars(PoolStep)
  /\ WF_vars(part = "fixtures" /\ Next)
  /\ WF_fileVars(FileStep)
  /\ WF_pollVars(part = "poll" /\ Poll!CheckReturns)
  /\ WF_pollVars(part = "poll" /\ Poll!Wakes)
  /\ WF_pollVars(part = "poll" /\ Poll!TimesOut)
  /\ WF_pollVars(part = "poll" /\ Poll!Tick)

-----------------------------------------------------------------------------
(* runner.ts: hooks surround their cases, cases run beside each other only   *)
(* where the file and its configuration allow them to, a verdict is earned   *)
(* by the attempts, and `bail` bounds the failures.                          *)
CasesRunAsDeclared == part = "file" => File!CasesRunAsDeclared

(* poll.ts, utilities.ts, expect.ts: a loop that polls gives up when it is   *)
(* due, and what it returns came in time.                                    *)
VerdictIsDue == part = "poll" => Poll!VerdictIsDue

(* pool.ts: every dispatched file is answered, and close() returns.          *)
PoolSettles == part = "pool" => Pool!PoolSettles

(* A test file ends, with a result for each of its cases; so do the clean-up *)
(* of its fixtures, though they wait for each other and for set-ups, and the *)
(* loops that poll in it, if their checks return.                            *)
FilesSettle ==
  <>[](/\ part = "file" => File!FileSettled
       /\ part = "fixtures" => CleanupFinished
       /\ part = "poll" => settled # "none")
==============================================================================
