------------------------------- MODULE MCWatch -------------------------------
(* A watch session for TLC, in three parts that do not meet: the driver on   *)
(* its own, whose triggers make any of a few calls; the startup and the      *)
(* close of a session around it; and the reporters of its cycles.            *)
EXTENDS WatchTeardown

CONSTANT None

VARIABLES
  part,
  config, results, testResults, logsByFile, logs, started, done, unhandled,
  reporting, since, logged, cycles          \* of Reports

reportVars == <<config, results, testResults, logsByFile, logs, started, done,
                unhandled, reporting, since, logged, cycles>>
allVars == <<part, tvars, reportVars>>

-----------------------------------------------------------------------------
(* The session has both executors, either of which may have no tests, and    *)
(* global setups; its close arrives outside the three windows.               *)
Sides == {"node", "browser"}
SomeSessions == SUBSET Sides \ {{}}

(* Calls that fold with one another, and calls that do not.                  *)
Call(e, trigger, mode, update, listed, files) ==
  [executor |-> e, trigger |-> trigger, mode |-> mode, update |-> update,
   listed |-> listed, files |-> files]

SomeFiles == {1, 2}
SomeCalls ==
  {Call(e, "none", "all", "session", FALSE, {}) : e \in Sides}
  \cup {Call("node", "invalidation", "on-demand", "session", TRUE, {f}) :
          f \in SomeFiles}
  \cup {Call(e, "invalidation", "on-demand", "session", FALSE, {}) :
          e \in Sides}
  \cup {Call("browser", "invalidation", "on-demand", "session", TRUE, {1}),
        Call("node", "run-failed", "all", "session", TRUE, {2}),
        Call("node", "update-snapshot", "all", "all", TRUE, {1})}

-----------------------------------------------------------------------------
(* Reports on three test files, two of them one path of two projects: tests  *)
(* that pass, one after a retry, and fail, and a file that does not load.    *)
TestFile(project, path) == [project |-> project, path |-> path]
Error(frames, full) == [frames |-> frames, fullStack |-> full]
Case(name, status, errors, retry) ==
  [name |-> name, status |-> status, errors |-> errors, retry |-> retry]
FileResult(status, errors, cases) ==
  [status |-> status, errors |-> errors, cases |-> cases]

SomeResults ==
  {FileResult("fail", <<Error(<<"lib", "remote">>, FALSE)>>, <<>>),
   FileResult("pass", <<>>,
          <<Case("x", "pass", <<>>, 1), Case("z", "todo", <<>>, 0)>>),
   FileResult("fail", <<>>,
          <<Case("x", "fail",
                 <<Error(<<"wrapper", "bundled", "user">>, FALSE)>>, 0),
            Case("y", "skip", <<>>, 0)>>)}

ReportOptions(preset, failures, testLists, passWithNoTests) ==
  [preset |-> preset, failures |-> failures, console |-> None,
   testLists |-> testLists, passWithNoTests |-> passWithNoTests]

Reporting == INSTANCE Reports WITH
  Files <- {TestFile("p", 1), TestFile("q", 1), TestFile("p", 2)},
  Outcomes <- SomeResults,
  Configs <- {ReportOptions("normal", None, "auto", TRUE),
              ReportOptions("compact", 1, "always", FALSE)},
  Preset <- [normal |-> [failures |-> 2, console |-> 1],
             compact |-> [failures |-> 1, console |-> 0]],
  MaxCycles <- 2, MaxLogs <- 1, ListedFailures <- 2, phase <- reporting

NoSession ==
  /\ sides = Sides /\ boot = "over" /\ closer = "closed" /\ awaited = "none"
  /\ owners = {} /\ server = "none" /\ runtime = FALSE
  /\ work = [e \in Sides |-> "idle"] /\ setup = [e \in Sides |-> "none"]
  /\ callbacks = {}
NoReports ==
  /\ config = None /\ results = <<>> /\ testResults = <<>>
  /\ logsByFile = None /\ logs = <<>> /\ started = {} /\ done = <<>>
  /\ unhandled = 0 /\ reporting = "reported" /\ since = None
  /\ logged = 0 /\ cycles = 0

MCInit ==
  \/ part = "driver" /\ Init /\ NoSession /\ NoReports
  \/ part = "session" /\ InitTeardown /\ NoReports
  \/ part = "reports" /\ Init /\ NoSession /\ Reporting!Init

MCNext ==
  \/ part = "driver" /\ Next /\ UNCHANGED <<part, sessionVars, reportVars>>
  \/ part = "session" /\ NextTeardown /\ UNCHANGED <<part, reportVars>>
  \/ part = "reports" /\ Reporting!Next /\ UNCHANGED <<part, tvars>>

(* The fairness of WatchDriver and of WatchTeardown.                         *)
DriverCycle == part = "driver" /\ \E c \in Ids : CycleStep(c)
SessionCycle == part = "session" /\ \E c \in Ids : CycleNext(c)

MCFairSpec ==
  /\ MCInit /\ [][MCNext]_allVars
  /\ WF_vars(DriverCycle)
  /\ WF_tvars(part = "session" /\ ServerSettles)
  /\ WF_tvars(part = "session" /\ BootStep)
  /\ WF_tvars(part = "session" /\ CloserStep)
  /\ WF_tvars(SessionCycle)

-----------------------------------------------------------------------------
(* The reports of a run agree on the verdict and name all that failed, their *)
(* parts add up, their logs are of the last run of each file, and what they  *)
(* point at is the user's code (src/packages/core/src/reporter).             *)
ReportsAreTrue == part = "reports" => Reporting!ReportsAreTrue
=============================================================================
