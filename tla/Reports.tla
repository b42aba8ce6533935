------------------------------- MODULE Reports -------------------------------
(***************************************************************************)
(* What the reporters say at the end of a run, or of a cycle of a watch    *)
(* session: the markdown, JSON, JUnit, GitHub and console reports that are *)
(* made of one snapshot of the results and, for two of them, of the logs   *)
(* they have collected (src/packages/core/src/reporter).                   *)
(*                                                                         *)
(* A test file is [project, path]: two projects may run the same path.     *)
(* Its outcome is [status, errors, cases], of a case [name, status,        *)
(* errors, retry]; an error is [frames, fullStack], a frame one of         *)
(*   user     source of the user        wrapper  bundler code, no source   *)
(*   lib      a library on disk         bundled  a library in the bundle   *)
(*   node     node: itself              remote   at a URL                  *)
(***************************************************************************)
EXTENDS Lists, FiniteSetsExt

CONSTANTS
  Files, Outcomes,
  Configs,        \* [preset, failures, console, testLists, passWithNoTests]
  Preset,         \* preset -> [failures, console], "default" one of them
  MaxCycles, MaxLogs,             \* bounds
  ListedFailures,                 \* STEP_SUMMARY_MAX_FAILURES
  None

VARIABLES
  config,         \* never changes
  results,        \* context.reporterResults.results
  testResults,    \* context.reporterResults.testResults
  logsByFile,     \* MdReporter: test file -> its logs
  logs,           \* JsonReporter: the logs, in order
  started, done,  \* of the cycle under way; done is in order
  unhandled,      \* the unhandled errors of the cycle that was reported
  phase,
  since,          \* history: test file -> the logs since it last started
  logged, cycles

vars == <<config, results, testResults, logsByFile, logs, started, done,
          unhandled, phase, since, logged, cycles>>

-----------------------------------------------------------------------------
(* Options: the user's value, or the preset's, or the default; 0 disables.   *)
Resolve(name) ==
  IF config[name] # None THEN config[name]
  ELSE IF Preset[config.preset][name] # None THEN Preset[config.preset][name]
  ELSE Preset["normal"][name]

Init ==
  /\ config \in Configs
  /\ results = <<>> /\ testResults = <<>>
  /\ logsByFile = [f \in Files |-> <<>>] /\ logs = <<>>
  /\ started = {} /\ done = <<>> /\ unhandled = 0
  /\ phase = "running"
  /\ since = [f \in Files |-> <<>>]
  /\ logged = 0 /\ cycles = 1

(* Mutant of Cleared: the logs of the run before stay.                       *)
ClearedNever(f) == logsByFile

Cleared(f) == [logsByFile EXCEPT ![f] = <<>>]

(* onTestFileStart: a rerun replays the whole file.                          *)
TestFileStart(f) ==
  /\ phase = "running" /\ f \notin started
  /\ started' = started \cup {f}
  /\ logsByFile' = Cleared(f)
  /\ logs' = SelectSeq(logs, LAMBDA log : log.file # f)
  /\ since' = [since EXCEPT ![f] = <<>>]
  /\ UNCHANGED <<config, results, testResults, done, unhandled, phase, logged,
                 cycles>>

UserConsoleLog(f) ==
  /\ phase = "running" /\ f \in started /\ logged < MaxLogs
  /\ logged' = logged + 1
  /\ logsByFile' = IF Resolve("console") = 0 THEN logsByFile
                   ELSE [logsByFile EXCEPT ![f] = Append(@, logged)]
  /\ logs' = Append(logs, [file |-> f, log |-> logged])
  /\ since' = [since EXCEPT ![f] = Append(@, logged)]
  /\ UNCHANGED <<config, results, testResults, started, done, unhandled, phase,
                 cycles>>

TestFileResult(f, outcome) ==
  /\ phase = "running" /\ f \in started
  /\ \A i \in DOMAIN done : done[i].file # f
  /\ done' = Append(done, [file |-> f, outcome |-> outcome])
  /\ UNCHANGED <<config, results, testResults, logsByFile, logs, started,
                 unhandled, phase, since, logged, cycles>>

-----------------------------------------------------------------------------
(* The snapshot of the results, keyed by the path alone.                     *)
CasesOf(d) == Each(d.outcome.cases, LAMBDA c : [file |-> d.file, case |-> c])

ByPath(x, y) == x.file.path < y.file.path

WithResult(all, d) ==
  LET old == SelectInSeq(all, LAMBDA r : r.file.path = d.file.path)
  IN  IF old = 0 THEN Append(all, d) ELSE [all EXCEPT ![old] = d]

WithoutPaths(s, paths) == SelectSeq(s, LAMBDA r : r.file.path \notin paths)
PathsOf(s) == {s[i].file.path : i \in DOMAIN s}

(* Mutant of WithTests: what a path had before is kept.                      *)
WithMoreTests(all, new) == all \o new

WithTests(all, new) == WithoutPaths(all, PathsOf(new)) \o new

(* Mutant of Retired: by project and path.                                   *)
RetiredFiles(file, reported) ==
  \A i \in DOMAIN reported : reported[i].file # file

Retired(file, reported) == file.path \notin PathsOf(reported)

(* finalizeRunCycle updates the snapshot, less what was deleted; then each   *)
(* reporter's onTestRunEnd drops the logs of files the run does not report.  *)
TestRunEnd(errors, deleted) ==
  LET merged == FoldLeft(WithResult, results, done)
      reported == Sorted(WithoutPaths(merged, deleted), ByPath)
      tests == WithTests(testResults, FlatEach(done, CasesOf))
  IN  /\ phase = "running"
      /\ started = {done[i].file : i \in DOMAIN done}
      /\ phase' = "reported"
      /\ results' = reported
      /\ testResults' = Sorted(WithoutPaths(tests, deleted), ByPath)
      /\ logsByFile' = [f \in Files |-> IF Retired(f, reported) THEN <<>>
                                        ELSE logsByFile[f]]
      /\ logs' = SelectSeq(logs, LAMBDA log : ~Retired(log.file, reported))
      /\ unhandled' = errors
      /\ UNCHANGED <<config, started, done, since, logged, cycles>>

NextCycle ==
  /\ phase = "reported" /\ cycles < MaxCycles
  /\ cycles' = cycles + 1 /\ phase' = "running"
  /\ started' = {} /\ done' = <<>> /\ unhandled' = 0
  /\ UNCHANGED <<config, results, testResults, logsByFile, logs, since, logged>>

Next ==
  \/ \E f \in Files :
       \/ TestFileStart(f) \/ UserConsoleLog(f)
       \/ \E o \in Outcomes : TestFileResult(f, o)
  \/ \E errors \in {0, 1} : \E deleted \in SUBSET PathsOf(results) :
       /\ deleted \cap {f.path : f \in started} = {}
       /\ TestRunEnd(errors, deleted)
  \/ NextCycle

Spec == Init /\ [][Next]_vars

-----------------------------------------------------------------------------
(* Stacks.                                                                   *)
Ignored == {"lib", "node"}
Kept(frames, dropped) == SelectSeq(frames, LAMBDA f : f \notin dropped)

(* parseErrorStacktrace of utils/error.ts: a frame that maps to no source is *)
(* dropped, one that maps into a library as well unless all are wanted.      *)
parseErrorStacktrace(frames, fullStack) ==
  IF fullStack THEN Kept(frames, {"wrapper"})
  ELSE Kept(frames, Ignored \cup {"wrapper", "bundled", "remote"})

(* parseErrorStacktrace of reporter/md.ts.                                   *)
mdStacktrace(frames, fullStack) ==
  IF fullStack THEN Kept(frames, {"wrapper", "node"})
  ELSE Kept(frames, Ignored \cup {"wrapper"})

FirstOf(frames) == IF frames = <<>> THEN "testFile" ELSE frames[1]

-----------------------------------------------------------------------------
(* The reports.  A failure is [file, case, errors], without a case when the  *)
(* test file itself failed.                                                  *)
Count(s, Test(_)) == Len(SelectSeq(s, Test))
CountOf(status) == Count(testResults, LAMBDA t : t.case.status = status)
FailedFiles == Count(results, LAMBDA r : r.outcome.status = "fail")

FileFailures ==
  Each(SelectSeq(results, LAMBDA r : /\ r.outcome.status = "fail"
                                     /\ r.outcome.errors # <<>>),
       LAMBDA r : [file |-> r.file, case |-> None,
                   errors |-> r.outcome.errors])
CaseFailures ==
  Each(SelectSeq(testResults, LAMBDA t : t.case.status = "fail"),
       LAMBDA t : [file |-> t.file, case |-> t.case.name,
                   errors |-> t.case.errors])

(* Mutant of collectFailures: a file fails by its tests.                     *)
collectTestFailures == CaseFailures

collectFailures == FileFailures \o CaseFailures

(* deriveRunCounts                                                           *)
counts ==
  [testFiles |-> Len(results), failedFiles |-> FailedFiles,
   tests |-> Len(testResults), failed |-> CountOf("fail"),
   passed |-> CountOf("pass"), skipped |-> CountOf("skip"),
   todo |-> CountOf("todo")]

NothingFailed == counts.failed = 0 /\ counts.failedFiles = 0 /\ unhandled = 0

FirstFew(n, s) == SubSeq(s, 1, Min({n, Len(s)}))
LastOf(n, s) == SubSeq(s, Max({0, Len(s) - n}) + 1, Len(s))

(* MdReporter                                                                *)
mdDetails(failure) ==
  [failure |-> failure,
   at |-> Each(failure.errors,
               LAMBDA e : FirstOf(mdStacktrace(e.frames, e.fullStack))),
   console |-> LastOf(Resolve("console"), logsByFile[failure.file])]
md ==
  LET failures == collectFailures
      truncated == Len(failures) > Resolve("failures")
  IN  [status |-> IF NothingFailed THEN "pass" ELSE "fail",
       lists |-> Resolve("testLists") = "always" \/ NothingFailed,
       minimal |-> IF truncated THEN failures ELSE <<>>,
       detailed |-> Each(FirstFew(Resolve("failures"), failures), mdDetails)]

(* JsonReporter                                                              *)
json ==
  [status |-> IF \/ ~NothingFailed
                 \/ /\ results = <<>> /\ testResults = <<>>
                    /\ ~config.passWithNoTests
              THEN "fail" ELSE "pass",
   summary |-> counts, tests |-> testResults, consoleLogs |-> logs]

(* GithubActionsReporter: the annotations, and the summary of the step.      *)
githubActions ==
  LET failures == collectFailures
  IN  [annotations |->
         FlatEach(failures, LAMBDA x : Each(x.errors, LAMBDA e :
           [file |-> x.file,
            at |-> FirstOf(parseErrorStacktrace(e.frames, e.fullStack))])),
       success |-> failures = <<>> /\ unhandled = 0,
       flaky |-> SelectSeq(testResults, LAMBDA t : /\ t.case.status = "pass"
                                                   /\ t.case.retry > 0),
       failures |-> FirstFew(ListedFailures, failures)]

(* JUnitReporter                                                             *)
testSuite(r) ==
  [file |-> r.file, tests |-> Len(r.outcome.cases),
   failures |-> Count(r.outcome.cases, LAMBDA c : c.status = "fail"),
   skipped |-> Count(r.outcome.cases, LAMBDA c : c.status \in {"skip", "todo"})]
junit ==
  [tests |-> Len(testResults), failures |-> CountOf("fail"),
   skipped |-> CountOf("skip") + CountOf("todo"),
   suites |-> Each(results, testSuite)]

(* printSummaryErrorLogs, in a watch session of what was run again.          *)
summary ==
  [failing |-> SelectSeq(collectFailures, LAMBDA x :
                 started = {} \/ x.file.path \in {f.path : f \in started}),
   unhandled |-> unhandled]

-----------------------------------------------------------------------------
(* Properties.                                                               *)
Reported == phase = "reported"

(* The reports agree on the verdict; only JSON fails a run without tests.    *)
VerdictsAgree ==
  Reported =>
    /\ (md.status = "pass") = githubActions.success
    /\ results # <<>> => json.status = md.status
    /\ md.status = "fail" =>
         \/ unhandled > 0 \/ md.detailed # <<>> \/ md.minimal # <<>>

(* What failed in the cycle is in every report that lists failures, except a *)
(* file that failed itself and whose path another project ran after it.      *)
Masked(i) == \E j \in DOMAIN done :
  j > i /\ done[j].file.path = done[i].file.path
FailuresAreFound ==
  Reported => LET failures == ToSet(collectFailures)
                  found == {[file |-> x.file, case |-> x.case] : x \in failures}
                  listed == ToSet(summary.failing)
              IN  \A i \in DOMAIN done :
                    /\ (done[i].outcome.errors # <<>> /\ ~Masked(i)) =>
                         [file |-> done[i].file, case |-> None] \in found
                    /\ \A j \in DOMAIN done[i].outcome.cases :
                         done[i].outcome.cases[j].status = "fail" =>
                           [file |-> done[i].file,
                            case |-> done[i].outcome.cases[j].name] \in found
                    /\ \A x \in failures : x.file = done[i].file => x \in listed

(* The suites of a report add up to its totals: for the paths that one       *)
(* project runs, and that have tests.                                        *)
SuitesAddUp ==
  Reported => \A i \in DOMAIN junit.suites :
    LET suite == junit.suites[i]
        own == SelectSeq(testResults,
                         LAMBDA t : t.file.path = suite.file.path)
    IN  \/ suite.tests = 0
        \/ \E f \in Files : f.path = suite.file.path /\ f # suite.file
        \/ /\ suite.tests = Len(own)
           /\ suite.failures = Count(own, LAMBDA t : t.case.status = "fail")

(* A report has the logs of each file it reports since the file last began,  *)
(* in their order, and no others.                                            *)
LogsAreOfTheLastRun ==
  Reported =>
    /\ \A f \in Files :
         LET shown == SelectSeq(json.consoleLogs, LAMBDA log : log.file = f)
         IN  Each(shown, LAMBDA log : log.log)
               = IF f.path \in PathsOf(results) THEN since[f] ELSE <<>>
    /\ \A i, j \in DOMAIN logs : i < j => logs[i].log < logs[j].log
    /\ \A i \in DOMAIN md.detailed :
         md.detailed[i].console
           = LastOf(Resolve("console"), since[md.detailed[i].failure.file])

(* An annotation points at the user's code, or at the test file, unless the  *)
(* test asked for the whole stack.                                           *)
AnnotationsPointAtTheUser ==
  Reported =>
    \/ \E i \in DOMAIN collectFailures :
         \E e \in ToSet(collectFailures[i].errors) : e.fullStack
    \/ \A i \in DOMAIN githubActions.annotations :
         githubActions.annotations[i].at \in {"user", "testFile"}

ReportsAreTrue ==
  /\ VerdictsAgree /\ FailuresAreFound /\ SuitesAddUp
  /\ LogsAreOfTheLastRun /\ AnnotationsPointAtTheUser
=============================================================================
