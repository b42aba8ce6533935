--------------------------- MODULE TestCollection ---------------------------
(***************************************************************************)
(* What the calls of a test file become: the collection of its suites and  *)
(* cases (runtime/runner/runtime.ts) and the modes they are run in         *)
(* (runtime/runner/task.ts).                                               *)
(*                                                                         *)
(* A file is the sequence of its calls.  A call is                         *)
(*   [call |-> "it", name, chain, matches]                a case;          *)
(*   [call |-> "describe", name, chain, body, fn]         a suite, whose   *)
(*      callback makes the calls of body (fn: it has a callback);          *)
(*   [call |-> "each", of, count]     count times the call `of`;           *)
(*   [call |-> "hook"], [call |-> "throw"].                                *)
(* chain is the sequence of the modifiers before the call, as in           *)
(* it.only.concurrent(...); "off" is skipIf(true) or runIf(false), and the *)
(* other two conditions leave no trace. matches says whether the case's    *)
(* name matches testNamePattern; a name is a tuple, that of the call and   *)
(* the index of its parameters.                                            *)
(* Collection awaits one callback at a time: it is a function of the file. *)
(***************************************************************************)
EXTENDS Integers, Sequences, SequencesExt, FiniteSets, Lists

Modes == {"run", "only", "skip", "todo"}
Flags == {"concurrent", "sequential"}

(* What the modifiers amount to: the last run mode, and every flag.          *)
Options(chain) ==
  LET Apply(o, modifier) ==
        IF modifier \in Flags THEN [o EXCEPT !.flags = @ \cup {modifier}]
        ELSE [o EXCEPT !.mode = IF modifier = "off" THEN "skip" ELSE modifier]
  IN  FoldLeft(Apply, [mode |-> "run", flags |-> {}], chain)

(* What is collected so far: the nodes (suites and cases) in the order they  *)
(* were added, each with its parent; the stack of current nodes; the calls   *)
(* that are to be collected later.                                           *)
Fresh == [nodes |-> <<>>, current |-> <<>>, list |-> <<>>, lazy |-> TRUE,
          failed |-> FALSE]

ChildrenOf(nodes, p) ==
  SelectSeq([i \in DOMAIN nodes |-> i], LAMBDA i : nodes[i].parent = p)

(* A node is concurrent, or sequential, if it says so, or else its suite.    *)
InheritFlags(own, suite) ==
  LET concurrent == own \cup
        IF "concurrent" \in suite /\ "sequential" \notin own
        THEN {"concurrent"} ELSE {}
  IN  concurrent \cup
        IF "sequential" \in suite /\ "concurrent" \notin concurrent
        THEN {"sequential"} ELSE {}

(* A node takes its index among its siblings as part of its id.              *)
addTest(st, test) ==
  LET p == IF st.current = <<>> THEN 0 ELSE Last(st.current)
      siblings == Len(ChildrenOf(st.nodes, p))
      base == IF p = 0 THEN <<>> ELSE st.nodes[p].id
      node == [name |-> test.name, type |-> test.type, mode |-> test.mode,
               flags |-> IF p = 0 THEN test.flags
                         ELSE InheritFlags(test.flags, st.nodes[p].flags),
               matches |-> test.matches, fn |-> test.fn, hooks |-> 0,
               parent |-> p,
               id |-> IF test.type = "root" THEN <<>>
                      ELSE Append(base, siblings)]
  IN  [st EXCEPT !.nodes = Append(@, node),
                 !.current = Append(@, Len(st.nodes) + 1)]

resetCurrentTest(st) == [st EXCEPT !.current = Front(@)]

Case(c) ==
  [name |-> c.name, type |-> "case", mode |-> Options(c.chain).mode,
   flags |-> Options(c.chain).flags, matches |-> c.matches, fn |-> TRUE]

Suite(c) ==
  [name |-> c.name, type |-> "suite", mode |-> Options(c.chain).mode,
   flags |-> Options(c.chain).flags, matches |-> TRUE, fn |-> c.fn]

getDefaultRootSuite ==
  [name |-> <<"root">>, type |-> "root", mode |-> "run", flags |-> {},
   matches |-> TRUE, fn |-> TRUE]

ensureRootSuite(st) ==
  IF st.current = <<>> THEN addTest(st, getDefaultRootSuite) ELSE st

registerHook(st) ==
  LET rooted == ensureRootSuite(st)
  IN  [rooted EXCEPT !.nodes[Last(rooted.current)].hooks = @ + 1]

(* Mutant of addTestCase: a case is collected at once.                       *)
addTestCaseNow(st, c) ==
  IF st.lazy /\ st.current = <<>> THEN [st EXCEPT !.list = Append(@, c)]
  ELSE resetCurrentTest(addTest(st, Case(c)))

(* A case is collected at once, unless something was put off before it.      *)
addTestCase(st, c) ==
  IF st.lazy THEN [st EXCEPT !.list = Append(@, c)]
  ELSE resetCurrentTest(addTest(st, Case(c)))

(* A suite is put off, for its callback may be asynchronous; one without a   *)
(* callback is not.                                                          *)
describe(st, c) ==
  IF c.fn THEN [st EXCEPT !.lazy = TRUE, !.list = Append(@, c)]
  ELSE resetCurrentTest(addTest(st, Suite(c)))

(* it.each, describe.for, ...: a call for each of the parameters.            *)
Named(c, i) == [c EXCEPT !.name = Append(@, i)]

RECURSIVE calls(_, _), collect(_, _), Collected(_, _)

Called(st, c) ==
  CASE c.call = "it"       -> addTestCase(st, c)
    [] c.call = "describe" -> describe(st, c)
    [] c.call = "hook"     -> registerHook(st)
    [] c.call = "throw"    -> [st EXCEPT !.failed = TRUE]
    [] c.call = "each"     ->
         calls(st, [i \in 1 .. c.count |-> Named(c.of, i)])

(* A callback, or the file, makes its calls until it throws.                 *)
calls(st, body) ==
  IF body = <<>> \/ st.failed THEN st
  ELSE calls(Called(st, Head(body)), Tail(body))

(* What was put off is collected, one after another; what a callback puts    *)
(* off is collected before the suite is left.                                *)
Collected(st, c) ==
  IF c.call = "it" THEN resetCurrentTest(addTest(st, Case(c)))
  ELSE LET called == calls(addTest(st, Suite(c)), c.body)
           done == collect([called EXCEPT !.list = <<>>], called.list)
       IN  IF done.failed THEN done ELSE resetCurrentTest(done)

collect(st, list) ==
  IF list = <<>> \/ st.failed THEN st
  ELSE collect(Collected([st EXCEPT !.lazy = FALSE], Head(list)), Tail(list))

(* getTests: the file is loaded, then collected.                             *)
getTests(file) ==
  LET loaded == calls(Fresh, file)
  IN  collect([loaded EXCEPT !.list = <<>>], loaded.list)

-----------------------------------------------------------------------------
(* The modes (updateTestModes): what a suite's mode is when its tests are    *)
(* visited, whether only those marked "only" are run in it, and what is left *)
(* of it.                                                                    *)
Stops == {"skip", "todo"}
IsCase(node) == node.type = "case"
Runs(mode) == mode \in {"run", "only"}

Ancestors(nodes) ==
  LET above[i \in 0 .. Len(nodes)] ==
        IF i = 0 THEN {} ELSE {nodes[i].parent} \cup above[nodes[i].parent]
  IN  [i \in DOMAIN nodes |-> above[i] \ {0}]

(* collectOnlyTests: is there an "only" below node p (0: in the file)?       *)
HaveOnly(nodes, p) ==
  \E i \in DOMAIN nodes :
    nodes[i].mode = "only" /\ (p = 0 \/ p \in Ancestors(nodes)[i])

(* The mode in which a suite is entered, and whether "only" is asked of it   *)
(* and of what it holds.                                                     *)
Entered(nodes) ==
  LET childrenHaveOnly == [p \in 0 .. Len(nodes) |-> HaveOnly(nodes, p)]
      suite[p \in 0 .. Len(nodes)] ==
        IF p = 0 THEN [mode |-> "run", only |-> childrenHaveOnly[0]]
        ELSE LET parent == suite[nodes[p].parent]
                 mode == IF ChildrenOf(nodes, p) = <<>> THEN nodes[p].mode
                         ELSE IF /\ parent.only /\ nodes[p].mode # "only"
                                 /\ ~childrenHaveOnly[p]
                         THEN "skip"
                         ELSE IF parent.mode \in Stops THEN parent.mode
                         ELSE nodes[p].mode
             IN  [mode |-> mode,
                  only |-> IF parent.only /\ mode # "only" THEN TRUE
                           ELSE childrenHaveOnly[p]]
  IN  suite

(* Mutant of CaseMode: a suite's "skip" does not reach a case marked "only". *)
CaseModeOnly(node, suite) ==
  LET mode == IF suite.mode \in Stops /\ node.mode # "only" THEN suite.mode
              ELSE node.mode
  IN  IF (suite.only /\ mode # "only") \/ ~node.matches THEN "skip" ELSE mode

CaseMode(node, suite) ==
  LET mode == IF suite.mode \in Stops THEN suite.mode ELSE node.mode
  IN  IF (suite.only /\ mode # "only") \/ ~node.matches THEN "skip" ELSE mode

SuiteMode(mode, tests) ==
  IF tests = {} \/ mode # "run" THEN mode
  ELSE IF \E m \in tests : Runs(m) THEN "run"
  ELSE IF tests = {"todo"} THEN "todo" ELSE "skip"

(* The modes of all nodes in the end, children before their suites.          *)
updateTestModes(nodes) ==
  LET n == Len(nodes)
      suite == Entered(nodes)
      up[k \in 0 .. n] ==
        IF k = 0 THEN [i \in DOMAIN nodes |-> "run"]
        ELSE LET i == n + 1 - k
                 tests == {up[k - 1][j] : j \in ToSet(ChildrenOf(nodes, i))}
             IN  [up[k - 1] EXCEPT ![i] =
                    IF IsCase(nodes[i])
                    THEN CaseMode(nodes[i], suite[nodes[i].parent])
                    ELSE SuiteMode(suite[i].mode, tests)]
  IN  up[n]

hasRunnableTests(nodes, modes, p) ==
  \E i \in DOMAIN nodes :
    IsCase(nodes[i]) /\ p \in Ancestors(nodes)[i] /\ Runs(modes[i])

-----------------------------------------------------------------------------
(* What the calls mean to who writes them.                                   *)
RECURSIVE Written(_, _)

(* The cases and suites in the order they are written, each with the modes   *)
(* and flags from the outside in.                                            *)
Written(body, above) ==
  IF body = <<>> THEN <<>>
  ELSE LET c == Head(body)
           path == Append(above, c)
           these == CASE c.call = "it" -> <<path>>
                      [] c.call = "describe" ->
                           <<path>> \o
                           (IF c.fn THEN Written(c.body, path) ELSE <<>>)
                      [] c.call = "each" ->
                           Written([i \in 1 .. c.count |-> Named(c.of, i)],
                                   above)
                      [] OTHER -> <<>>
       IN  these \o Written(Tail(body), above)

Names(path) == [k \in DOMAIN path |-> path[k].name]

Nested(nodes, i) ==
  LET path[j \in 0 .. Len(nodes)] ==
        IF j = 0 \/ nodes[j].type = "root" THEN <<>>
        ELSE Append(path[nodes[j].parent], nodes[j].name)
  IN  path[i]

(* Whatever is put off, the cases of a file and the suites with a callback   *)
(* are collected in the order and the nesting in which they are written, and *)
(* no two of them have the same id (RunnerRuntime.describe, addTestCase).    *)
CollectedInOrder(nodes, written) ==
  LET got == SelectSeq([i \in DOMAIN nodes |-> i],
               LAMBDA i : nodes[i].type # "root" /\ nodes[i].fn)
      wanted == SelectSeq(written, LAMBDA w :
                  Last(w).call = "it" \/ Last(w).fn)
  IN  /\ Each(got, LAMBDA i : Nested(nodes, i)) = Each(wanted, Names)
      /\ \A i, j \in ToSet(got) : nodes[i].id = nodes[j].id => i = j

Marked(c) == c.call \in {"it", "describe"} /\ "only" \in ToSet(c.chain)

(* What "only" selects: all, when the file has none; else the case must be   *)
(* marked, or the innermost suite around it that is and holds no other mark. *)
Selected(path, written) ==
  LET marks == {k \in DOMAIN path : Marked(path[k])}
      k == Max(marks)
      Holds(w) == /\ Len(w) > k /\ Marked(Last(w))
                  /\ Names(SubSeq(w, 1, k)) = Names(SubSeq(path, 1, k))
  IN  \/ \A w \in ToSet(written) : ~Marked(Last(w))
      \/ marks # {} /\ \A w \in ToSet(written) : ~Holds(w)

(* The flag of the innermost of a path that has one, on its own.             *)
InnermostFlag(path) ==
  LET flags == SelectSeq([k \in DOMAIN path |->
                            ToSet(path[k].chain) \cap Flags],
                         LAMBDA fs : fs # {})
  IN  IF flags = <<>> THEN {} ELSE Last(flags)

(* A case runs if it and its suites are neither skipped nor to do, it is     *)
(* selected, and its name matches; then its suites run as well.  It is       *)
(* concurrent if the innermost flag says so (updateTestModes, addTest).      *)
Off(c) == ToSet(c.chain) \cap {"skip", "todo", "off"} # {}

ModeIsAsWritten(nodes, modes, i, path, written, above) ==
  /\ Runs(modes[i]) <=>
       /\ \A k \in DOMAIN path : ~Off(path[k])
       /\ Selected(path, written) /\ nodes[i].matches
  /\ \A p \in above :
       Runs(modes[i]) => Runs(modes[p]) /\ hasRunnableTests(nodes, modes, p)
  /\ nodes[i].flags = InnermostFlag(path)

PathOf(names, written) == CHOOSE w \in ToSet(written) : Names(w) = names

ModesAreAsWritten(nodes, modes, written, above) ==
  \A i \in {j \in DOMAIN nodes : IsCase(nodes[j])} :
    ModeIsAsWritten(nodes, modes, i, PathOf(Nested(nodes, i), written),
                    written, above[i])

CollectionIsRight(result, file, written) ==
  \/ result.failed
  \/ /\ CollectedInOrder(result.nodes, written)
     /\ ModesAreAsWritten(result.nodes, updateTestModes(result.nodes),
                          written, Ancestors(result.nodes))
=============================================================================
