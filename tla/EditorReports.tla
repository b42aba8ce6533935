---------------------------- MODULE EditorReports ----------------------------
(***************************************************************************)
(* How the VS Code extension finds the TestItem of what is reported        *)
(* (testRunReporter.ts), in the tree of a file that is built from its      *)
(* source or from what core collected (testTree.ts), and what it keeps of  *)
(* failures (errorStore.ts, diagnostics.ts).                               *)
(*                                                                         *)
(* A test is the sequence of the names it is reported by, with its place   *)
(* in the file; a suite starts before what it contains, and siblings of    *)
(* one name start in their order.  An item is known by its generation, the *)
(* update of the tree that made it, and the ids from the file to it.       *)
(***************************************************************************)
EXTENDS Integers, Sequences, SequencesExt, FiniteSets

CONSTANTS
  Sources,        \* contents the file may have: sequences of [names, suite]
  Selections,     \* the names that may be run: <<>> is the whole file
  MaxRuns, MaxEdits,  \* bounds
  MaxStoring      \* bound: failures whose errors are being created at once

VARIABLES
  source,         \* the file
  tree,           \* its items: [generation, tests]
  run,            \* the run: [tests, path], the reporter's path
  at,             \* of each of its tests
  resolvedItems, siblingCounters,
  items,          \* what was found for each test
  failed, diagnostics, lastFailed,  \* errorStore; diagnosticsByProject; truth
  storing,        \* failures whose errors are being created: [item, run]
  runs, edits,
  edited,         \* history: the tree was rebuilt while tests ran;
  late            \* items of failures stored after the next run began

reporterVars == <<resolvedItems, siblingCounters, items>>
storeVars == <<failed, diagnostics, lastFailed, storing, late>>
vars == <<source, tree, run, at, reporterVars, storeVars, runs, edits, edited>>

NoItem == [generation |-> 0, ids |-> <<>>]

-----------------------------------------------------------------------------
(* The tree.                                                                 *)
Name(test) == Last(test.names)
Parents(test) == Front(test.names)

(* The suite of tests[i]: the last one before it with the names above it.    *)
SuiteOf(tests, i) ==
  LET above == {j \in 1 .. i - 1 :
                  tests[j].suite /\ tests[j].names = Parents(tests[i])}
  IN  IF Len(tests[i].names) = 1 THEN 0
      ELSE CHOOSE j \in above : \A k \in above : k <= j

(* Mutant of siblingIndexOf: a sibling of that name has the plain id too.    *)
siblingIndexNone(tests, i) == 0

siblingIndexOf(tests, i) ==
  Cardinality({j \in 1 .. i - 1 : /\ SuiteOf(tests, j) = SuiteOf(tests, i)
                                  /\ Name(tests[j]) = Name(tests[i])})

getTestItemId(name, index) == <<name, index>>

RECURSIVE IdsOf(_, _)
IdsOf(tests, i) ==
  IF i = 0 THEN <<>>
  ELSE Append(IdsOf(tests, SuiteOf(tests, i)),
              getTestItemId(Name(tests[i]), siblingIndexOf(tests, i)))

Has(ids) == \E i \in DOMAIN tree.tests : IdsOf(tree.tests, i) = ids
Rebuilt(tests) == [generation |-> tree.generation + 1, tests |-> tests]

-----------------------------------------------------------------------------
Init ==
  /\ source \in Sources
  /\ tree = [generation |-> 1, tests |-> source]
  /\ run = [tests |-> <<>>, path |-> <<>>] /\ at = <<>>
  /\ resolvedItems = <<>> /\ siblingCounters = {} /\ items = <<>>
  /\ failed = {} /\ diagnostics = {} /\ lastFailed = <<>>
  /\ storing = {} /\ late = {}
  /\ runs = 0 /\ edits = 0 /\ edited = FALSE

(* updateFromDisk, of a file that was changed.                               *)
updateFromContents(new) ==
  /\ edits < MaxEdits /\ new # source
  /\ source' = new /\ tree' = Rebuilt(new)
  /\ edits' = edits + 1 /\ edited' = TRUE
  /\ UNCHANGED <<run, at, reporterVars, storeVars, runs>>

(* onTestRunStart.                                                           *)
onTestRunStart(path) ==
  /\ runs < MaxRuns /\ \A i \in DOMAIN at : at[i] = "done"
  /\ runs' = runs + 1
  /\ run' = [tests |-> source, path |-> path]
  /\ at' = [i \in DOMAIN source |-> "waiting"]
  /\ resolvedItems' = <<>> /\ siblingCounters' = {} /\ items' = <<>>
  /\ diagnostics' = {} /\ lastFailed' = <<>>
  /\ edited' = (tree.tests # source)
  /\ late' = {}
  /\ UNCHANGED <<source, tree, failed, storing, edits>>

(* onTestFileReady: the tree becomes what core collected.                    *)
updateFromList ==
  /\ at # <<>> /\ \A i \in DOMAIN at : at[i] = "waiting"
  /\ tree.tests # run.tests
  /\ tree' = Rebuilt(run.tests)
  /\ edited' = FALSE
  /\ UNCHANGED <<source, run, at, reporterVars, storeVars, runs, edits>>

-----------------------------------------------------------------------------
(* findTestItem: the parents by their plain names.                           *)
Plain(names) == [k \in DOMAIN names |-> getTestItemId(names[k], 0)]
Counted(parent, name) ==
  Cardinality({c \in siblingCounters : c[1] = parent /\ c[2] = name})
contains(names) == IsPrefix(run.path, names)

pickSibling(parent, name) ==
  parent.ids \o <<getTestItemId(name, Counted(parent, name))>>

findTestItem(i) ==
  LET parents == Plain(Parents(run.tests[i]))
      parent == [generation |-> tree.generation, ids |-> parents]
      ids == pickSibling(parent, Name(run.tests[i]))
      known == parents = <<>> \/ Has(parents)
      item == IF known /\ Has(ids)
              THEN [generation |-> tree.generation, ids |-> ids] ELSE NoItem
  IN  IF i \in DOMAIN resolvedItems
      THEN /\ items' = [items EXCEPT ![i] = resolvedItems[i]]
           /\ UNCHANGED <<resolvedItems, siblingCounters>>
      ELSE /\ resolvedItems' = [j \in DOMAIN resolvedItems \cup {i} |->
                                  IF j = i THEN item ELSE resolvedItems[j]]
           /\ siblingCounters' = siblingCounters \cup
                (IF known THEN {<<parent, Name(run.tests[i]),
                                  Counted(parent, Name(run.tests[i]))>>}
                 ELSE {})
           /\ items' = [j \in DOMAIN items \cup {i} |->
                          IF j = i THEN item ELSE items[j]]

Found(i) == IF i \in DOMAIN resolvedItems THEN resolvedItems[i]
            ELSE items'[i]

(* Siblings start in order, after their suite; a skipped one only ends.      *)
MayStart(i) ==
  /\ at[i] = "waiting"
  /\ SuiteOf(run.tests, i) # 0 => at[SuiteOf(run.tests, i)] = "started"
  /\ \A j \in 1 .. i - 1 :
       /\ SuiteOf(run.tests, j) = SuiteOf(run.tests, i)
       /\ Name(run.tests[j]) = Name(run.tests[i])
       => at[j] # "waiting"

onTestCaseStart(i) ==
  /\ MayStart(i)
  /\ at' = [at EXCEPT ![i] = "started"]
  /\ IF contains(run.tests[i].names) THEN findTestItem(i)
     ELSE UNCHANGED reporterVars
  /\ UNCHANGED <<source, tree, run, storeVars, runs, edits, edited>>

Inside(i) == {j \in DOMAIN run.tests : SuiteOf(run.tests, j) = i}

(* clearForTest and the error store; and, once the errors of a failure are   *)
(* created, setForTest and the store.                                        *)
Record(item, status) ==
  IF status = "fail"
  THEN /\ storing' = storing \cup {[item |-> item, run |-> runs]}
       /\ UNCHANGED <<failed, diagnostics>>
  ELSE /\ failed' = failed \ {item} /\ diagnostics' = diagnostics \ {item}
       /\ UNCHANGED storing

ErrorsCreated ==
  /\ \E failure \in storing :
       /\ storing' = storing \ {failure}
       /\ failed' = failed \cup {failure.item}
       /\ diagnostics' = diagnostics \cup {failure.item}
       /\ late' = IF failure.run = runs THEN late ELSE late \cup {failure.item}
  /\ UNCHANGED <<source, tree, run, at, reporterVars, lastFailed, runs, edits,
                 edited>>

(* What is run: the tests below the names that were asked for, and the hooks *)
(* of the suites above.                                                      *)
IsRun(test) ==
  contains(test.names) \/ (test.suite /\ IsPrefix(test.names, run.path))

(* Results outside of what is run count only if they have errors.            *)
onTestCaseResult(i, status) ==
  /\ \/ at[i] = "started" /\ \A j \in Inside(i) : at[j] = "done"
     \/ MayStart(i) /\ status = "skip" /\ Inside(i) = {}
  /\ status = "fail" =>
       IsRun(run.tests[i]) /\ Cardinality(storing) < MaxStoring
  /\ at' = [at EXCEPT ![i] = "done"]
  /\ IF contains(run.tests[i].names) \/ status = "fail"
     THEN /\ findTestItem(i)
          /\ lastFailed' = [j \in DOMAIN lastFailed \cup {i} |->
                              IF j = i THEN status = "fail" ELSE lastFailed[j]]
          /\ IF Found(i) = NoItem
             THEN UNCHANGED <<failed, diagnostics, storing>>
             ELSE Record(Found(i), status)
          /\ UNCHANGED late
     ELSE UNCHANGED <<reporterVars, storeVars>>
  /\ UNCHANGED <<source, tree, run, runs, edits, edited>>

Next ==
  \/ \E new \in Sources : updateFromContents(new)
  \/ \E path \in Selections : onTestRunStart(path)
  \/ updateFromList \/ ErrorsCreated
  \/ \E i \in DOMAIN at :
       \/ onTestCaseStart(i)
       \/ \E status \in {"pass", "fail", "skip"} : onTestCaseResult(i, status)

Spec == Init /\ [][Next]_vars

-----------------------------------------------------------------------------
(* Properties.                                                               *)
OwnItem(i) ==
  [generation |-> tree.generation, ids |-> IdsOf(run.tests, i)]

(* The suites above a test are the first of their names.                     *)
PlainAncestors(i) ==
  IdsOf(run.tests, SuiteOf(run.tests, i)) = Plain(Parents(run.tests[i]))

(* A result is shown at the item of its own test, though names repeat and    *)
(* tests overlap; unless a suite above it has a namesake, or the file was    *)
(* edited meanwhile.                                                         *)
ResultsHitTheirTest ==
  ~edited => \A i \in DOMAIN items :
    (\A j \in DOMAIN run.tests : PlainAncestors(j)) => items[i] = OwnItem(i)

(* The errors and diagnostics that are kept of an item of the tree are those *)
(* of its last result, once its errors are created; unless those of a        *)
(* failure of an earlier run were created as late as in this one.            *)
Awaited(i) == [item |-> OwnItem(i), run |-> runs] \in storing

KeptAreTheLast ==
  ~edited => \A i \in DOMAIN lastFailed :
    /\ \A j \in DOMAIN run.tests : PlainAncestors(j)
    /\ ~Awaited(i) /\ OwnItem(i) \notin late
    => /\ lastFailed[i] <=> OwnItem(i) \in failed
       /\ lastFailed[i] <=> OwnItem(i) \in diagnostics

ReportsAreTheirs == ResultsHitTheirTest /\ KeptAreTheLast
=============================================================================
