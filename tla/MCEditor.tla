------------------------------ MODULE MCEditor -------------------------------
(* The VS Code extension for TLC: the projects it shows, a run of tests and  *)
(* the results it writes; and, in the process it starts, the dispatch of the *)
(* test files of such a run. `part` says which of the four moves; the others *)
(* rest in an initial state.                                                 *)
EXTENDS TestDispatch, TLC

CONSTANT Nothing

VARIABLES
  part,
  disk, files, pattern, method, events, scans, manager, projects, made, lists,
  attached, gaps, edits,                                \* of EditorProjects
  request, runAt, runs, cancelled, reporter, creating, proc, closed, killed,
  rpc, finished, heard, mail, core, faults,                \* of EditorRuns
  source, tree, run, testAt, resolvedItems, siblingCounters, items, failed,
  diagnostics, lastFailed, storing, cycles, updates, edited,
  late                                                   \* of EditorReports

projectVars ==
  <<disk, files, pattern, method, events, scans, manager, projects, made,
    lists, attached, gaps, edits>>
runVars ==
  <<request, runAt, runs, cancelled, reporter, creating, proc, closed, killed,
    rpc, finished, heard, mail, core, faults>>
reportVars ==
  <<source, tree, run, testAt, resolvedItems, siblingCounters, items, failed,
    diagnostics, lastFailed, storing, cycles, updates, edited, late>>
MCvars == <<part, vars, projectVars, runVars, reportVars>>

-----------------------------------------------------------------------------
(* A config file at the root of the workspace, which may aggregate the one   *)
(* of a package; the only test file is the package's.                        *)
Root == <<"r">>
Leaf == <<"p", "r">>
Test == <<"p", "x">>
Aggregates(leaves) == [include |-> {"t"}, projects |-> leaves]

Projects == INSTANCE EditorProjects WITH
  Configs <- {Root, Leaf},
  Contents <- (Root :> {Aggregates({Leaf})}) @@ (Leaf :> {Aggregates({})}),
  Tests <- {Test}, Matching <- [t |-> {Test}],
  Patterns <- {{Root, Leaf}, {Root}},
  MaxEdits <- 2, MaxProjects <- 5, None <- Nothing

-----------------------------------------------------------------------------
Request(kind, continuous, targets) ==
  [kind |-> kind, continuous |-> continuous, targets |-> targets]

Runs == INSTANCE EditorRuns WITH
  Requests <- {Request("run", FALSE, 2), Request("run", TRUE, 1),
               Request("debug", FALSE, 1), Request("coverage", FALSE, 1),
               Request("coverage", TRUE, 1)},
  at <- runAt, MaxTargets <- 2, MaxCycles <- 2, MaxMail <- 2, MaxFaults <- 1

-----------------------------------------------------------------------------
(* Namesakes beside each other, in a suite, and two suites of one name.      *)
Case(names) == [names |-> names, suite |-> FALSE]
Suite(names) == [names |-> names, suite |-> TRUE]

Reports == INSTANCE EditorReports WITH
  Sources <- {<<Suite(<<"s">>), Case(<<"s", "a">>), Case(<<"s", "a">>)>>,
              <<Suite(<<"s">>), Case(<<"s", "a">>), Suite(<<"s">>),
                Case(<<"s", "a">>)>>},
  Selections <- {<<>>, <<"s", "a">>},
  at <- testAt, runs <- cycles, edits <- updates, MaxRuns <- 2, MaxEdits <- 1,
  MaxStoring <- 1

-----------------------------------------------------------------------------
(* Two files of a project, the cases of the first concurrent, and a second   *)
(* cycle that runs the second file again.                                    *)
MCFiles == {"f1", "f2", "f2again"}
MCPaths == {"a", "b"}
MCEntries == <<<<"f1", "f2">>, <<"f2again">>>>
MCCycle == [f \in MCFiles |-> IF f = "f2again" THEN 2 ELSE 1]
MCPathOf == [f \in MCFiles |-> IF f = "f1" THEN "a" ELSE "b"]
MCCasesIn == [f \in MCFiles |-> IF f = "f2again" THEN 0 ELSE 2]
MCAtOnce == [f \in MCFiles |-> IF f = "f1" THEN 2 ELSE 1]

-----------------------------------------------------------------------------
MCInit ==
  /\ Init /\ Projects!Init /\ Runs!Init /\ Reports!Init
  /\ part \in {"dispatch", "projects", "runs", "reports"}
  /\ method = "ast"
  /\ part # "dispatch" => bail = 0
  /\ part # "runs" => request = Request("debug", FALSE, 1)
  /\ part # "reports" => source[3].suite

MCNext ==
  \/ /\ part = "dispatch" /\ Next
     /\ UNCHANGED <<part, projectVars, runVars, reportVars>>
  \/ /\ part = "projects" /\ Projects!Next
     /\ UNCHANGED <<part, vars, runVars, reportVars>>
  \/ /\ part = "runs" /\ Runs!Next
     /\ UNCHANGED <<part, vars, projectVars, reportVars>>
  \/ /\ part = "reports" /\ Reports!Next
     /\ UNCHANGED <<part, vars, projectVars, runVars>>

(* The steps the fairness of EditorRuns is about.  None of them is ever      *)
(* taken twice from the same state, so that one assumption for all of them   *)
(* says as much as one for each.                                             *)
RunStep ==
  /\ part = "runs"
  /\ \/ Runs!Spawn \/ Runs!Attached \/ Runs!Finished
     \/ \E t \in {1, 2} :
          \/ Runs!Hears(t) \/ Runs!HostExit(t)
          \/ Runs!Receives(t) \/ Runs!ReceivesAnswer(t) \/ Runs!Settles(t)
          \/ Runs!ErrorsCreated(t)
          \/ Runs!Starts(t) \/ Runs!Reports(t) \/ Runs!Ends(t)
          \/ Runs!Covers(t) \/ Runs!Answers(t)
          \/ killed[t] /\ Runs!Exit(t)

MCFairSpec ==
  /\ MCInit /\ [][MCNext]_MCvars
  /\ WF_vars(part = "dispatch" /\ Next) /\ WF_runVars(RunStep)

-----------------------------------------------------------------------------
(* project.ts, projectCoverage.ts: what is shown is what is on disk, once.   *)
EditorIsTrue == part = "projects" => Projects!EditorIsTrue

(* testRunReporter.ts, testTree.ts: a result is written to the run of its    *)
(* cycle before that ends, at the item of its own test.                      *)
ResultsAreKept ==
  /\ part = "runs" => Runs!ResultsAreKept
  /\ part = "reports" => Reports!ReportsAreTheirs

(* master.ts, extension.ts: a request ends and leaves no worker behind; and  *)
(* pool/index.ts: every file that is dispatched comes to its end.            *)
RequestsEnd ==
  <>[](/\ part = "runs" => Runs!RequestsSettled
       /\ part = "dispatch" => AllSettled)
==============================================================================
