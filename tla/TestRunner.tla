------------------------------ MODULE TestRunner ------------------------------
(***************************************************************************)
(* The tests of one file, run in a worker (runtime/runner/runner.ts,       *)
(* TestRunner.runTests): a tree of suites and cases whose siblings run one *)
(* after the other or, where they are concurrent, together, with their     *)
(* hooks, retries and repeats, the limit on concurrent cases               *)
(* (runtime/runner/task.ts), and the host's count of failed tests, which   *)
(* `bail` consults.                                                        *)
(*                                                                         *)
(* An action is what runs from one await of a suite or a case to the next. *)
(* A hook, fixture or body ends, be it by its timeout, and passes or fails;*)
(* what a body that timed out goes on to do is not modelled.               *)
(***************************************************************************)
EXTENDS Integers, Sequences, SequencesExt, FiniteSets

CONSTANTS
  Suites, Cases,    \* the nodes of the tree
  Root,             \* the root suite of the file
  Children,         \* test.tests of each suite, in order
  Concurrent,       \* nodes with test.concurrent
  Hooked,           \* suites that declare one hook of each kind
  Skipped,          \* cases whose runMode is skip or todo
  Repeats,          \* test.repeats of each case
  Options,          \* the configurations a file is run with
  MaxOthers         \* bound: failures of other files while this one runs

Nodes == Suites \cup Cases

TreeAssumption ==
  /\ Root \in Suites /\ Suites \cap Cases = {}
  /\ Children \in [Suites -> Seq(Nodes)]
  /\ Concurrent \subseteq Nodes /\ Hooked \subseteq Suites
  /\ Skipped \subseteq Cases /\ Repeats \in [Cases -> Nat]
  /\ Options \subseteq
       [retry : Nat, bail : Nat, maxConcurrency : Nat \ {0}]
  /\ MaxOthers \in Nat

VARIABLES
  options,    \* runtimeConfig: never changes
  phase,      \* how far runTest() has come with a node
  marked,     \* nodes whose runMode a failed beforeAll has set to skip
  started,    \* children the runTests() of a suite has started
  errors,     \* suites with an error of one of their hooks
  running,    \* limitConcurrency: the cases that hold a slot
  queue,      \* limitConcurrency: the cases that wait for one
  hook,       \* the beforeEach or afterEach hook a case runs
  verdict,    \* result.status of the attempt of a case
  retries,    \* retryCount of a case
  repeats,    \* repeat of a case
  history,    \* what has become of a case's attempts (for the properties)
  reported,   \* what onTestCaseResult said of a case
  failures,   \* failed cases of this file the host knows of
  others      \* failed cases of other files the host knows of

suiteVars == <<marked, started, errors>>
slotVars == <<running, queue>>
attemptVars == <<hook, verdict, retries, repeats, history>>
resultVars == <<reported, failures>>
vars ==
  <<options, phase, suiteVars, slotVars, attemptVars, resultVars, others>>

-----------------------------------------------------------------------------
(* The tree.                                                                 *)
ParentOf(n) == CHOOSE s \in Suites : n \in ToSet(Children[s])

(* The suites a node is in, from the root on.                                *)
Ancestors[n \in Nodes] ==
  IF n = Root THEN <<>> ELSE Append(Ancestors[ParentOf(n)], ParentOf(n))

Below(s) == {n \in Nodes : s \in ToSet(Ancestors[n])}

(* The suites whose hooks surround a case, from the root on.                 *)
HookedOver(c) == SelectSeq(Ancestors[c], LAMBDA s : s \in Hooked)

Over(n) == phase[n] \in {"over", "bailed"}

InAttempt == {"fixtures", "beforeEach", "body", "afterEach", "cleanups"}

Phases ==
  {"new", "queued", "gate", "admitted", "refused", "beforeAll", "children",
   "afterAll", "over", "bailed"} \cup InAttempt

TypeOK ==
  /\ options \in Options
  /\ phase \in [Nodes -> Phases]
  /\ marked \subseteq Nodes /\ errors \subseteq Suites
  /\ \A s \in Suites : started[s] \in 0..Len(Children[s])
  /\ running \subseteq Cases /\ queue \in Seq(Cases)
  /\ \A c \in Cases : hook[c] \in 0..Len(HookedOver(c)) + 1
  /\ verdict \in [Cases -> {"none", "pass", "fail", "skip"}]
  /\ \A c \in Cases : retries[c] \in 0..options.retry
  /\ \A c \in Cases : repeats[c] \in 0..Repeats[c]
  /\ history \in [Cases -> [clean : Nat, failed : Nat, threw : BOOLEAN]]
  /\ reported \in [Cases -> {"none", "pass", "fail", "skip"}]
  /\ failures = Cardinality({c \in Cases : reported[c] = "fail"})
  /\ others \in 0..MaxOthers

Init ==
  /\ options \in Options
  /\ phase = [n \in Nodes |-> IF n # Root THEN "new"
                              ELSE IF options.bail > 0 THEN "gate"
                              ELSE "admitted"]
  /\ marked = {} /\ errors = {}
  /\ started = [s \in Suites |-> 0]
  /\ running = {} /\ queue = <<>>
  /\ hook = [c \in Cases |-> 0]
  /\ verdict = [c \in Cases |-> "none"]
  /\ retries = [c \in Cases |-> 0]
  /\ repeats = [c \in Cases |-> 0]
  /\ history =
       [c \in Cases |-> [clean |-> 0, failed |-> 0, threw |-> FALSE]]
  /\ reported = [c \in Cases |-> "none"]
  /\ failures = 0 /\ others = 0

-----------------------------------------------------------------------------
(* Mutant: the limit counts suites too.                                      *)
SlotForAny(n) == n \in Concurrent

(* limitMaxConcurrency() is around concurrent cases alone.                   *)
NeedsSlot(n) == n \in Concurrent \cap Cases

(* runTest() first asks the host, with `bail`.                               *)
Entered == IF options.bail > 0 THEN "gate" ELSE "admitted"

(* Mutant: the host is asked before the case waits for its slot.             *)
DequeuedUnasked == "admitted"

Dequeued == Entered

(* Mutant: a slot that is freed lets the whole queue in.                     *)
DequeuesAll(c) ==
  /\ running' = (running \ {c}) \cup ToSet(queue)
  /\ queue' = <<>>

(* runNext(): the slot of c goes to the first in the queue.                  *)
FreesSlot(c) ==
  IF c \in running /\ queue # <<>>
  THEN /\ running' = (running \ {c}) \cup {Head(queue)}
       /\ queue' = Tail(queue)
  ELSE /\ running' = running \ {c}
       /\ UNCHANGED queue

(* Node n reaches phase p for good, and frees its slot if it has one.        *)
Leaves(n, p) ==
  /\ FreesSlot(n)
  /\ phase' = [m \in Nodes |->
                 IF m = n THEN p
                 ELSE IF m \in running' \ running THEN Dequeued
                 ELSE phase[m]]

(* The host's answer: it has handled all results sent before the question.   *)
Ask(n) ==
  /\ phase[n] = "gate"
  /\ phase' = [phase EXCEPT ![n] =
       IF failures + others >= options.bail THEN "refused" ELSE "admitted"]
  /\ UNCHANGED <<options, suiteVars, slotVars, attemptVars, resultVars,
                 others>>

(* runTest() returns a result nobody is told of.                             *)
Refused(n) ==
  /\ phase[n] = "refused"
  /\ Leaves(n, "bailed")
  /\ UNCHANGED <<options, suiteVars, attemptVars, resultVars, others>>

(* A test of another file fails.                                             *)
OtherFails ==
  /\ options.bail > 0
  /\ others < MaxOthers
  /\ others' = others + 1
  /\ UNCHANGED <<options, phase, suiteVars, slotVars, attemptVars, resultVars>>

-----------------------------------------------------------------------------
(* Suites.                                                                   *)
Goes(n, p) == phase' = [phase EXCEPT ![n] = p]

(* shouldRunSuiteHooks, of a suite that declares some.                       *)
RunsHooks(s) ==
  /\ s \in Hooked
  /\ s \notin marked
  /\ \E c \in Cases \cap Below(s) : c \notin Skipped

SuiteBegins(s) ==
  /\ phase[s] = "admitted"
  /\ Goes(s, IF RunsHooks(s) THEN "beforeAll" ELSE "children")
  /\ UNCHANGED <<options, suiteVars, slotVars, attemptVars, resultVars,
                 others>>

(* Mutant: markAllTestAsSkipped() does not descend.                          *)
SkippedChildren(s) == ToSet(Children[s])

(* markAllTestAsSkipped()                                                    *)
SkippedWith(s) == Below(s)

BeforeAllEnds(s) ==
  /\ phase[s] = "beforeAll"
  /\ Goes(s, "children")
  /\ \/ UNCHANGED <<marked, errors>>
     \/ /\ errors' = errors \cup {s}
        /\ marked' = marked \cup SkippedWith(s)
  /\ UNCHANGED <<options, started, slotVars, attemptVars, resultVars, others>>

(* The group of children that runs is over.                                  *)
ChildrenOver(s) == \A i \in 1..started[s] : Over(Children[s][i])

(* The children from the i-th to the j-th run together: a single one, or all *)
(* concurrent ones in a row.                                                 *)
IsGroup(s, i, j) ==
  \/ j = i /\ Children[s][i] \notin Concurrent
  \/ /\ \A k \in i..j : Children[s][k] \in Concurrent
     /\ j < Len(Children[s]) => Children[s][j + 1] \notin Concurrent

(* runTests() starts the next group.  The cases of a concurrent one take the *)
(* free slots in order; the others wait.                                     *)
NextGroup(s) ==
  /\ phase[s] = "children"
  /\ ChildrenOver(s)
  /\ started[s] < Len(Children[s])
  /\ \E j \in (started[s] + 1)..Len(Children[s]) :
       LET group == SubSeq(Children[s], started[s] + 1, j)
           limited == SelectSeq(group, NeedsSlot)
           free == options.maxConcurrency - Cardinality(running)
           now == SubSeq(limited, 1, IF free < Len(limited) THEN free
                                     ELSE Len(limited))
           later == SubSeq(limited, Len(now) + 1, Len(limited))
       IN  /\ IsGroup(s, started[s] + 1, j)
           /\ started' = [started EXCEPT ![s] = j]
           /\ running' = running \cup ToSet(now)
           /\ queue' = queue \o later
           /\ phase' = [n \in Nodes |->
                          IF n \in ToSet(later) THEN "queued"
                          ELSE IF n \in ToSet(group) THEN Entered
                          ELSE phase[n]]
  /\ UNCHANGED <<options, marked, errors, attemptVars, resultVars, others>>

ChildrenEnd(s) ==
  /\ phase[s] = "children"
  /\ ChildrenOver(s)
  /\ started[s] = Len(Children[s])
  /\ IF RunsHooks(s)
     THEN Goes(s, "afterAll") /\ UNCHANGED slotVars
     ELSE Leaves(s, "over")
  /\ UNCHANGED <<options, suiteVars, attemptVars, resultVars, others>>

AfterAllEnds(s) ==
  /\ phase[s] = "afterAll"
  /\ Leaves(s, "over")
  /\ errors' \in {errors, errors \cup {s}}
  /\ UNCHANGED <<options, marked, started, attemptVars, resultVars, others>>

-----------------------------------------------------------------------------
(* Cases.                                                                    *)

(* onTestCaseResult: the host learns of the result.                          *)
Reports(c, status) ==
  /\ reported' = [reported EXCEPT ![c] = status]
  /\ failures' = IF status = "fail" THEN failures + 1 ELSE failures

CaseBegins(c) ==
  /\ phase[c] = "admitted"
  /\ c \notin Skipped \cup marked
  /\ Goes(c, "fixtures")
  /\ UNCHANGED <<options, suiteVars, slotVars, attemptVars, resultVars,
                 others>>

CaseSkipped(c) ==
  /\ phase[c] = "admitted"
  /\ c \in Skipped \cup marked
  /\ Reports(c, "skip")
  /\ Leaves(c, "over")
  /\ UNCHANGED <<options, suiteVars, attemptVars, others>>

(* The afterEach hooks, if any, come next, the innermost first.              *)
ToAfterEach(c) ==
  /\ hook' = [hook EXCEPT ![c] = Len(HookedOver(c))]
  /\ Goes(c, IF HookedOver(c) = <<>> THEN "cleanups" ELSE "afterEach")

(* The beforeEach hooks, if any, come next, the outermost first.             *)
ToBeforeEach(c) ==
  /\ hook' = [hook EXCEPT ![c] = 1]
  /\ Goes(c, IF HookedOver(c) = <<>> THEN "body" ELSE "beforeEach")

Judged(c, v) == verdict' = [verdict EXCEPT ![c] = v]

Threw(c) == history' = [history EXCEPT ![c].threw = TRUE]

(* Something throws before the body ends: an error, or context.skip()'s.     *)
CutShort(c) ==
  /\ ToAfterEach(c)
  /\ \/ Judged(c, "fail") /\ Threw(c)
     \/ Judged(c, "skip") /\ UNCHANGED history

(* The fixtures of the test are set up; a failure skips hooks and body.      *)
FixturesEnd(c) ==
  /\ phase[c] = "fixtures"
  /\ \/ ToBeforeEach(c) /\ UNCHANGED <<verdict, history>>
     \/ CutShort(c)
  /\ UNCHANGED <<options, suiteVars, slotVars, retries, repeats, resultVars,
                 others>>

(* A beforeEach hook ends; the first failure skips the others and the body.  *)
BeforeEachEnds(c) ==
  /\ phase[c] = "beforeEach"
  /\ \/ /\ UNCHANGED <<verdict, history>>
        /\ hook' = [hook EXCEPT ![c] = @ + 1]
        /\ Goes(c, IF hook[c] < Len(HookedOver(c)) THEN "beforeEach"
                   ELSE "body")
     \/ CutShort(c)
  /\ UNCHANGED <<options, suiteVars, slotVars, retries, repeats, resultVars,
                 others>>

BodyEnds(c) ==
  /\ phase[c] = "body"
  /\ \/ ToAfterEach(c) /\ Judged(c, "pass") /\ UNCHANGED history
     \/ CutShort(c)
  /\ UNCHANGED <<options, suiteVars, slotVars, retries, repeats, resultVars,
                 others>>

AfterHook(c) == IF hook[c] > 1 THEN "afterEach" ELSE "cleanups"

(* An afterEach hook ends; one whose callback fails ends the loop, one whose *)
(* fixtures fail does not.                                                   *)
AfterEachEnds(c) ==
  /\ phase[c] = "afterEach"
  /\ hook' = [hook EXCEPT ![c] = @ - 1]
  /\ \/ UNCHANGED <<verdict, history>> /\ Goes(c, AfterHook(c))
     \/ /\ Judged(c, "fail") /\ Threw(c)
        /\ \E p \in {AfterHook(c), "cleanups"} : Goes(c, p)
  /\ UNCHANGED <<options, suiteVars, slotVars, retries, repeats, resultVars,
                 others>>

(* Mutant: the retries of all repeats come out of one budget.                *)
ResetsNothing(c) == UNCHANGED retries

(* Each repeat has the whole retry budget.                                   *)
ResetsRetries(c) == retries' = [retries EXCEPT ![c] = 0]

(* The history of a case after an attempt in which something threw, or not.  *)
Recorded(c, threw) ==
  history' = [history EXCEPT ![c] =
    IF threw THEN [@ EXCEPT !.failed = @ + 1, !.threw = FALSE]
    ELSE [clean |-> @.clean + 1, failed |-> 0, threw |-> FALSE]]

(* Fixture cleanups and the onTestFinished callbacks end the attempt with    *)
(* the verdict v: it is retried, repeated, or the result of the case.        *)
AttemptEnds(c, v) ==
  \/ /\ v = "fail" /\ retries[c] < options.retry
     /\ retries' = [retries EXCEPT ![c] = @ + 1]
     /\ Goes(c, "fixtures")
     /\ UNCHANGED <<repeats, slotVars, resultVars>>
  \/ /\ v # "fail" /\ repeats[c] < Repeats[c]
     /\ repeats' = [repeats EXCEPT ![c] = @ + 1]
     /\ ResetsRetries(c)
     /\ Goes(c, "fixtures")
     /\ UNCHANGED <<slotVars, resultVars>>
  \/ /\ IF v = "fail" THEN retries[c] = options.retry
        ELSE repeats[c] = Repeats[c]
     /\ Reports(c, v)
     /\ Leaves(c, "over")
     /\ UNCHANGED <<retries, repeats>>

CleanupsEnd(c) ==
  /\ phase[c] = "cleanups"
  /\ \E cleanupThrows \in BOOLEAN :
       /\ AttemptEnds(c, IF cleanupThrows THEN "fail" ELSE verdict[c])
       /\ Recorded(c, cleanupThrows \/ history[c].threw)
  /\ verdict' = [verdict EXCEPT ![c] = "none"]
  /\ hook' = [hook EXCEPT ![c] = 0]
  /\ UNCHANGED <<options, suiteVars, others>>

-----------------------------------------------------------------------------
Suite(s) ==
  \/ SuiteBegins(s) \/ BeforeAllEnds(s) \/ NextGroup(s) \/ ChildrenEnd(s)
  \/ AfterAllEnds(s)

Case(c) ==
  \/ CaseBegins(c) \/ CaseSkipped(c) \/ FixturesEnd(c) \/ BeforeEachEnds(c)
  \/ BodyEnds(c) \/ AfterEachEnds(c) \/ CleanupsEnd(c)

Node(n) == Ask(n) \/ Refused(n)

Next ==
  \/ \E n \in Nodes : Node(n)
  \/ \E s \in Suites : Suite(s)
  \/ \E c \in Cases : Case(c)
  \/ OtherFails

Spec == Init /\ [][Next]_vars

(* The worker's event loop; hooks, fixtures and bodies have timeouts.        *)
Fairness ==
  /\ \A n \in Nodes : WF_vars(Node(n))
  /\ \A s \in Suites : WF_vars(Suite(s))
  /\ \A c \in Cases : WF_vars(Case(c))

FairSpec == Spec /\ Fairness

-----------------------------------------------------------------------------
(* Properties.                                                               *)

Active(c) == phase[c] \in InAttempt

(* While a case runs, the beforeAll hooks of all its suites have succeeded,  *)
(* and none of their afterAll hooks has begun.                               *)
HooksSurround ==
  \A c \in Cases : Active(c) =>
    \A s \in ToSet(Ancestors[c]) : phase[s] = "children" /\ s \notin errors

(* The child of s that node n is or is in.                                   *)
ChildOver(s, n) ==
  IF n \in ToSet(Children[s]) THEN n
  ELSE CHOOSE m \in ToSet(Children[s]) : m \in ToSet(Ancestors[n])

(* Two cases run at the same time only where a suite has them, or suites     *)
(* they are in, in one row of concurrent children.                           *)
OverlapOnlyIfConcurrent ==
  \A c, d \in Cases : c # d /\ Active(c) /\ Active(d) =>
    \E s \in ToSet(Ancestors[c]) \cap ToSet(Ancestors[d]) :
      /\ ChildOver(s, c) # ChildOver(s, d)
      /\ \E i, j \in 1..Len(Children[s]) :
           /\ i < j
           /\ {Children[s][i], Children[s][j]} =
                {ChildOver(s, c), ChildOver(s, d)}
           /\ \A k \in i..j : Children[s][k] \in Concurrent

(* maxConcurrency bounds the concurrent cases of the whole file.             *)
SlotsRespected ==
  Cardinality({c \in Cases : NeedsSlot(c) /\ Active(c)})
    <= options.maxConcurrency

(* No two cases run beside each other that the file did not allow to.        *)
OverlapOnlyIfAllowed == OverlapOnlyIfConcurrent /\ SlotsRespected

(* A case passes when every one of its repeats has had an attempt in which   *)
(* nothing failed, and fails only after a repeat has used up all its retries.*)
ResultIsEarned ==
  \A c \in Cases :
    /\ reported[c] = "pass" => history[c].clean = Repeats[c] + 1
    /\ reported[c] = "fail" =>
         /\ history[c].clean <= Repeats[c]
         /\ history[c].failed = options.retry + 1

(* With `bail`, the cases under way when the limit was reached may yet fail, *)
(* as many as may run together, and no more (in a file where cases overlap   *)
(* only if they are concurrent themselves).                                  *)
BailBoundsFailures ==
  options.bail > 0 => failures < options.bail + options.maxConcurrency

(* What a file relies on while it runs, and what it is told afterwards.      *)
CasesRunAsDeclared ==
  /\ TypeOK /\ HooksSurround /\ OverlapOnlyIfAllowed
  /\ ResultIsEarned /\ BailBoundsFailures

(* The file ends, with a result for every case that `bail` did not cancel:   *)
(* the waits for slots and for siblings never block one another.             *)
FileSettled ==
  /\ Over(Root)
  /\ \A c \in Cases :
       \/ reported[c] # "none"
       \/ \E n \in ToSet(Ancestors[c]) \cup {c} : phase[n] = "bailed"

=============================================================================
