---------------------------- MODULE MCAlgorithms ----------------------------
(* The pure algorithms of the project for TLC: each step gives one input to  *)
(* one of them, and the invariants compare what it makes of the input with   *)
(* what it is meant to.                                                      *)
EXTENDS Integers, Sequences, FiniteSets

CONSTANT NoFile

VARIABLES subject, input

vars == <<subject, input>>

-----------------------------------------------------------------------------
(* Planning: a project of three or four test files in node, with one browser *)
(* project beside it. A hook may add a file, at either end.                  *)
Plan == INSTANCE Planning

NodeEnv == [name |-> "node", options |-> {}]
Ok(name, options) == [kind |-> "ok", name |-> name, options |-> options]
NamedComments ==
  {Plan!NoComment, Ok("jsdom", {}), Ok("jsdom", {"o"})}
OptionComments == {Plan!NoComment, Ok("jsdom", {}), Ok("", {"o"})}
File(path, comment) == [path |-> path, comment |-> comment]
ThreeFiles(comments) ==
  {<<File(1, c), File(2, d), File(3, e)>> : c, d, e \in comments}
Hooked(files, comments) ==
  {files} \cup {Append(files, File(4, c)) : c \in comments}
    \cup {<<File(0, c)>> \o files : c \in comments}

P == <<"p">>
B == <<"b">>
Planned ==
  <<Plan!Project("p", NodeEnv, FALSE), Plan!Project("b", NodeEnv, TRUE)>>
Filter(fuzzy, inside) == [fuzzy |-> fuzzy, inside |-> inside]
PlanFilters ==
  {{}, {Filter(TRUE, {})}, {Filter(FALSE, {B})}, {Filter(FALSE, {P})},
   {Filter(FALSE, {})}}

BrowserFiles == <<File(12, Plan!NoComment)>>
HookedBrowserFiles == Append(BrowserFiles, File(15, Plan!NoComment))

(* What a boot of the browser side adds is there in the end if the filters   *)
(* let it run.                                                               *)
World(before, after, browserHooks, filters, count) ==
  [glob |-> [p \in {P, B} |->
     IF p = P THEN [before |-> before, after |-> after]
     ELSE [before |-> BrowserFiles,
           after |-> IF browserHooks # {} /\ filters # {Filter(FALSE, {P})}
                     THEN HookedBrowserFiles ELSE BrowserFiles]],
   nodeHooks |-> IF before = after THEN {} ELSE {P},
   browserHooks |-> browserHooks, filters |-> filters,
   shard |-> [index |-> 1, count |-> count]]

Counts == 1 .. 3

NodeHookWorlds ==
  UNION {{World(before, after, {}, {}, n)
            : after \in Hooked(before, NamedComments), n \in Counts}
           : before \in ThreeFiles(NamedComments)}
PlainWorlds ==
  {World(files, files, {}, {}, n)
     : files \in ThreeFiles(OptionComments \cup {Plan!BadComment}),
       n \in Counts}
BrowserHookWorlds(files) ==
  {World(f, f, {B}, filters, n)
     : f \in files, filters \in PlanFilters, n \in Counts}
PlanWorlds ==
  NodeHookWorlds \cup PlainWorlds
    \cup BrowserHookWorlds(ThreeFiles({Plan!NoComment, Plan!BadComment}))

-----------------------------------------------------------------------------
(* Related files: two tests, a setup and three sources that import each      *)
(* other in any way, and a second project that shares a test file.           *)
Rel == INSTANCE RelatedTests

Edges ==
  {<<"t1", "a">>, <<"t2", "b">>, <<"a", "b">>, <<"b", "a">>, <<"s", "c">>,
   <<"c", "b">>, <<"t1", "t2">>}

Stats(imports, nested) ==
  LET Module(f, inner) ==
        [source |-> f, modules |-> inner,
         reasons |-> {i[1] : i \in {j \in imports : j[2] = f}}
                       \cup (IF f = "t1" THEN {NoFile} ELSE {})]
      Leaf(f) == Module(f, <<>>)
      bundle == [source |-> NoFile, reasons |-> {},
                 modules |-> <<Module("a", <<Leaf("b")>>), Leaf("c")>>]
  IN  IF nested THEN <<bundle, Leaf("t1"), Leaf("t2"), Leaf("s")>>
      ELSE <<Leaf("t1"), Leaf("t2"), Leaf("a"), Leaf("b"), Leaf("c"),
             Leaf("s")>>

ProjectOf(imports, nested, setups, globals) ==
  [name |-> <<"p">>, tests |-> <<"t1", "t2">>, setups |-> setups,
   globalSetups |-> globals, imports |-> imports,
   stats |-> Stats(imports, nested), triggers |-> {"c"}]
OtherProject ==
  [name |-> <<"q">>, tests |-> <<"t2", "t3">>, setups |-> {},
   globalSetups |-> {}, imports |-> {<<"t3", "b">>},
   stats |-> <<[source |-> "b", reasons |-> {"t3"}, modules |-> <<>>]>>,
   triggers |-> {}]

Sources == {{}, {"a"}, {"b"}, {"c"}, {"t1"}, {"a", "c"}}
Git(committed, staged, unstaged) ==
  [committed |-> committed, staged |-> staged, unstaged |-> unstaged]

(* "related" takes its sources from the command line, "changed" from git.    *)
RelatedWorlds ==
  {[projects |-> <<ProjectOf(imports, nested, setups[1], setups[2]),
                   OtherProject>>,
    options |-> [modes |-> {mode}, since |-> TRUE,
                 coverageChanged |-> FALSE],
    triggers |-> triggers,
    filters |-> IF mode = "changed" THEN {} ELSE Rel!Filters(sources),
    git |-> IF mode = "changed" THEN Git({}, sources, {})
            ELSE Git({}, {}, {})]
     : imports \in SUBSET Edges, nested \in BOOLEAN,
       setups \in {<<{}, {}>>, <<{"s"}, {}>>, <<{}, {"s"}>>},
       mode \in {"related", "changed"}, triggers \in {{}, {"b"}},
       sources \in Sources}

(* A rebuild of two browser projects that may share their files.             *)
SomeTests == {<<>>, <<"x">>, <<"x", "y">>, <<"y">>}
RerunWorlds ==
  {[entries |-> <<[name |-> "p", testFiles |-> ts],
                  [name |-> "q", testFiles |-> us]>>,
    state |-> [lastTestFiles |-> Rel!collectWatchTestFiles(
                 <<[name |-> "p", testFiles |-> vs],
                   [name |-> "q", testFiles |-> ws]>>),
               results |-> results],
    affected |-> affected]
     : ts, us, vs, ws \in SomeTests,
       results \in {{}, {"x"}, {"x", "y"}}, affected \in SUBSET {"x", "y"}}

ProjectNames == {<<"a">>, <<"a", "b">>, <<"b">>, <<"a", "b", "c">>}

-----------------------------------------------------------------------------
(* Test files of three calls, the second a suite with a suite in it.         *)
Coll == INSTANCE TestCollection

It(name, chain, matches) ==
  [call |-> "it", name |-> <<name>>, chain |-> chain, matches |-> matches]
Describe(name, chain, body, fn) ==
  [call |-> "describe", name |-> <<name>>, chain |-> chain, body |-> body,
   fn |-> fn]
Todo(name) == Describe(name, <<"todo">>, <<>>, FALSE)
Marks == {<<>>, <<"only">>, <<"skip">>, <<"todo">>}
Leaves(name) ==
  {It(name, chain, TRUE) :
     chain \in Marks \cup {<<"only", "sequential">>}}
    \cup {It(name, <<>>, FALSE), [call |-> "hook"], [call |-> "throw"]}
Bodies(name) ==
  {<<Describe(name \o "s", chain, <<x>>, TRUE), y>> :
     chain \in Marks, x \in Leaves(name \o "x"), y \in Leaves(name \o "y")}
SuitesOf(name) ==
  {Describe(name, chain, body, TRUE) :
     chain \in Marks \cup {<<"off", "concurrent">>, <<"concurrent">>,
                           <<"concurrent", "only">>},
     body \in Bodies(name)}
    \cup {Todo(name)}
Files ==
  {<<x, suite, y>> :
     x \in Leaves("a") \cup {Todo("a")}, suite \in SuitesOf("s"),
     y \in {It("b", <<>>, TRUE), It("b", <<"only">>, TRUE),
            [call |-> "each", count |-> 2, of |-> It("c", <<>>, TRUE)]}}

-----------------------------------------------------------------------------
Cov == INSTANCE V8Coverage

(* Coverage: lists of ranges, small scripts and what was executed of them,   *)
(* the payloads of three workers, and pairs of coverages of one file.        *)
Ranges ==
  {[start |-> s, end |-> e, count |-> c] : s \in 0 .. 3, e \in 0 .. 4,
                                           c \in {1, 2}}
Legal(r) == r.start < r.end
RangeLists ==
  {Cov!getSortedRawCoverageRanges(<<[ranges |-> <<x, y, z>>]>>) :
     x, y, z \in {r \in Ranges : Legal(r)}}

Node(type, runs, kids) ==
  [type |-> type, runs |-> runs, kids |-> kids, hint |-> "", located |-> TRUE,
   block |-> type = "block", bare |-> type \in {"statement", "logical"}]
Hinted(node, hint) == [node EXCEPT !.hint = hint]
Leaf == Node("statement", Cov!Around, <<>>)
Block(runs) == Node("block", runs, <<Leaf>>)
Arm(runs) == [Block(runs) EXCEPT !.bare = TRUE]
Nowhere(node) == [node EXCEPT !.located = FALSE]
If(kids, hint) == Hinted(Node("if", Cov!Around, kids), hint)
Expression(node, hint) ==
  Hinted(Node("statement", Cov!Around, <<node>>), hint)
Fun(runs) == Node("function", runs, <<Leaf>>)
Operand(runs) == Node("value", runs, <<>>)

(* Statements of a function that was called n times.                         *)
Statements(n) ==
  {If(<<b>>, h) : b \in {Block(t) : t \in 0 .. n}
                          \cup {Arm(n), Nowhere(Arm(n))},
                  h \in {"", "if", "else", "next"}}
    \cup {If(<<Block(t), b>>, h) :
            t \in 0 .. n, b \in {Block(n - 1), Arm(0), Nowhere(Block(n))},
            h \in {"", "if", "else"}}
    \cup {Expression(Node("cond", Cov!Around,
                          <<Operand(t), Hinted(Operand(n - t), h)>>), g) :
            t \in 0 .. n, h \in {"", "next"}, g \in {"", "next"}}
    \cup {Expression(Node("logical", Cov!Around,
            <<Operand(Cov!Around),
              Hinted(Node("logical", t, <<Operand(Cov!Around), last>>), h)>>),
            "") :
            t \in 0 .. n, last \in {Operand(0), Fun(1)}, h \in {"", "next"}}
    \cup {Node("switch", Cov!Around, <<Block(t), Hinted(Block(n - t), h)>>) :
            t \in 0 .. n, h \in {"", "next"}}
    \cup {Leaf, Nowhere(Leaf), 
          Expression(Node("call", Cov!Around, <<Fun(n + 1)>>), "")}

RECURSIVE Place(_, _)
Place(node, at) ==
  LET first == IF node.bare THEN at ELSE at + 1
      Put(done, kid) ==
        LET placed == Place(kid, done.at)
        IN  [at |-> placed.end, kids |-> Append(done.kids, placed)]
      put == Cov!FoldLeft(Put, [at |-> first, kids |-> <<>>], node.kids)
      end == IF node.kids = <<>> THEN at + 2
             ELSE IF node.bare THEN put.at ELSE put.at + 1
  IN  [type |-> node.type, runs |-> node.runs, hint |-> node.hint,
       located |-> node.located, block |-> node.block, start |-> at,
       end |-> end, kids |-> put.kids]

Script(hint, kids) == Place(Hinted(Node("script", 1, kids), hint), 0)
Scripts ==
  UNION {{Script(h, <<Node("function", n, <<s, t>>)>>) :
            s \in Statements(n), t \in {Leaf, If(<<Block(n)>>, "")},
            h \in {"", "file"}} : n \in 1 .. 2}

Source(marks) == [marks |-> marks, under |-> {"root"}]
SomeSources ==
  {Source(m) : m \in {{"included"}, {"included", "excluded"}, {},
                      {"included", "package"}, {"included", "virtual"}}}
Bundle(code, map, sources, tree, broken) ==
  [file |-> Source({"included"}), code |-> code, map |-> map,
   sources |-> sources, tree |-> tree, broken |-> broken]
Called(n, t) ==
  Script("", <<Node("function", n,
                    <<If(<<Block(t), Block(n - t)>>, "")>>)>>)
EntryOf(script, n, t, module, root) ==
  [script |-> script, module |-> module, root |-> root,
   functions |-> Cov!V8Functions(Called(n, t))]
Entries ==
  {EntryOf(1, n, t, TRUE, "root") : n \in 1 .. 2, t \in 0 .. 1}
    \cup {EntryOf(1, 0, 0, TRUE, "root")}
    \cup {EntryOf(1, 2, 1, m, r) : m \in BOOLEAN, r \in {"root", "other"}}
    \cup {EntryOf(s, 1, 1, TRUE, "root") : s \in {2, 3, 4}}
Bundles ==
  <<Bundle(1, "loaded", {Source({"included"})}, Called(1, 1), FALSE),
    Bundle(2, "loaded", {Source({"included"})}, Called(1, 1), FALSE),
    Bundle(3, "disk", {Source({"included"})}, Called(1, 1), TRUE),
    Bundle(4, "loaded", {Source({})}, Called(1, 1), FALSE)>>
Payload(valid, entries) == [valid |-> valid, entries |-> entries]
PayloadLists ==
  {<<Payload(TRUE, <<d, e>>), Payload(v, <<f>>)>> :
     d, e, f \in Entries, v \in BOOLEAN}

Filtered ==
  {[script |-> Bundle(1, map, sources, Leaf, FALSE), file |-> file,
    options |-> [allowExternal |-> a], root |-> r] :
     map \in {"none", "disk", "loaded"}, sources \in SUBSET SomeSources,
     file \in SomeSources, a \in BOOLEAN, r \in {"root", "other"}}

Coverages ==
  {[at |-> at, hits |-> Cov!Each(at, LAMBDA l : n), all |-> FALSE,
    hash |-> IF at = <<1, 2>> THEN h ELSE 0] :
     at \in {<<>>, <<1>>, <<2>>, <<1, 2>>, <<2, 1>>}, n \in 1 .. 2,
     h \in 0 .. 1}
    \cup {[at |-> <<1, 2>>, hits |-> <<0, 0>>, all |-> TRUE, hash |-> 0]}

-----------------------------------------------------------------------------
Init == subject = "none" /\ input = {}

Choose(name, inputs) ==
  /\ subject = "none"
  /\ subject' = name
  /\ input' \in inputs

Next ==
  \/ Choose("planning", PlanWorlds)
  \/ Choose("related", RelatedWorlds)
  \/ Choose("rerun", RerunWorlds)
  \/ Choose("projects", {<<names, name>> : names \in SUBSET ProjectNames,
                                           name \in ProjectNames})
  \/ Choose("collection", Files)
  \/ Choose("ranges", RangeLists)
  \/ Choose("scripts", Scripts)
  \/ Choose("raw", PayloadLists)
  \/ Choose("filter", Filtered)
  \/ Choose("merge", Coverages \X Coverages)

Spec == Init /\ [][Next]_vars

(* A browser hook and environment comments in one run.                       *)
HookedWorlds == BrowserHookWorlds(ThreeFiles(NamedComments))

HookedSpec == Init /\ [][Choose("planning", HookedWorlds)]_vars

-----------------------------------------------------------------------------
(* projectPlan.ts, environmentPartitions.ts, shard.ts, runPlanner.ts: every  *)
(* file is run once, by one shard, in its environment; the partitions keep   *)
(* their names, and one of them owns the global setup of its source.         *)
PlansAreRight == subject = "planning" => Plan!PlansAreRight(Planned, input)

(* "Global setup runs at most once per project and only when the project has *)
(* at least one running test" (globalSetup.ts:16): of the projects of one    *)
(* source that run tests, exactly one runs it.                               *)
OneOwnerOfGlobalSetup ==
  subject = "planning" =>
    Plan!OneOwnerOfGlobalSetup(Plan!Plans(Planned, input))

(* related.ts, testFiles.ts, watchRerunPlanner.ts: the files of a related    *)
(* run are those that reach its sources, a rebuild runs again what is        *)
(* affected, and a pattern of projects and its negation split them.          *)
SelectionIsRight ==
  /\ subject = "related" => Rel!RelatedAreRun(input)
  /\ subject = "rerun" =>
       Rel!WatchRerunIsRight(input.entries, input.state, input.affected)
  /\ subject = "projects" =>
       Rel!NegationIsComplement(
         Rel!SetToSeq({[name |-> name] : name \in input[1]}), input[2])

(* runtime.ts, task.ts: suites and cases are collected in the order, and     *)
(* with the nesting, in which they are written, whatever is put off; a case  *)
(* runs, and may run beside others, if and only if the marks on it and       *)
(* around it say so.                                                         *)
CollectionIsRight ==
  subject = "collection" =>
    Coll!CollectionIsRight(Coll!getTests(input), input,
                           Coll!Written(input, <<>>))

(* coverage-v8: what is reported of a script has been executed as often as   *)
(* is reported, however its ranges are flattened and its entries are         *)
(* grouped, filtered and merged; and what is lost fails the run.             *)
CoverageIsTrue ==
  /\ subject = "ranges" => Cov!NormalizersAgree(input)
  /\ subject = "scripts" => Cov!ScriptIsCovered(input)
  /\ subject = "raw" =>
       Cov!RawIsTheSum(input, Bundles, [allowExternal |-> FALSE])
  /\ subject = "filter" =>
       Cov!FilterLosesNothing([input.script EXCEPT !.file = input.file],
                              input.options, input.root)
  /\ subject = "merge" => Cov!FastMergeIsMerge(input[1], input[2])
=============================================================================
