----------------------------- MODULE V8Coverage -----------------------------
(***************************************************************************)
(* What V8 counted, made into coverage (packages/coverage-v8): the ranges  *)
(* of a script are flattened (normalize), its tree is walked once for the  *)
(* functions, statements and branches it has (prepareCoverage), and each   *)
(* takes the count of the innermost range around its start.  Raw entries   *)
(* of many workers are grouped and added up first (provider.ts).           *)
(*                                                                         *)
(* A script is a tree of nodes with offsets.  Lines, columns, names and    *)
(* the decoding of source maps are left out: a node has a location of its  *)
(* own, or none (`located`) when its line is ignored or is not mapped.     *)
(***************************************************************************)
EXTENDS Integers, Sequences, SequencesExt, FiniteSetsExt, Lists

RECURSIVE Executed(_, _), Blocks(_, _), Walk(_, _, _), Operands(_, _)

-----------------------------------------------------------------------------
(* Ranges.                                                                   *)
RawRanges(functions) == FlatEach(functions, LAMBDA f : f.ranges)

Area(r) == r.end - r.start

getSortedRawCoverageRanges(functions) ==
  Sorted(RawRanges(functions), LAMBDA a, b :
    \/ Area(a) > Area(b)
    \/ Area(a) = Area(b) /\ a.end < b.end)

Covers(r, offset) == r.start <= offset /\ offset < r.end

Segment(start, end, count) == [start |-> start, end |-> end, count |-> count]

(* Scripts of up to two million characters: larger ranges are painted first, *)
(* and each run of one count is a segment.                                   *)
PaintedCount(ranges, over) == IF over = {} THEN 0 ELSE ranges[Max(over)].count

Painted(ranges, o) ==
  PaintedCount(ranges, {i \in DOMAIN ranges : Covers(ranges[i], o)})

RunsOfOne(counts, starts) ==
  {Segment(s, Min({t - 1 : t \in {u \in starts : u > s}}
                    \cup {Max(DOMAIN counts)}), counts[s]) : s \in starts}

SegmentsOf(counts) ==
  RunsOfOne(counts, {o \in DOMAIN counts :
                       o = 0 \/ counts[o] # counts[o - 1]})

normalizeWithCoverageArray(ranges) ==
  SegmentsOf([o \in 0 .. Max({r.end : r \in ToSet(ranges)}) |->
                Painted(ranges, o)])

(* The mutant lets the first of two nested ranges of one size win.           *)
EarliestRange(ranges, active) ==
  CHOOSE i \in active : \A j \in active :
    \/ Area(ranges[i]) < Area(ranges[j])
    \/ Area(ranges[i]) = Area(ranges[j]) /\ i <= j

getMostSpecificRange(ranges, active) ==
  CHOOSE i \in active : \A j \in active :
    \/ Area(ranges[i]) < Area(ranges[j])
    \/ Area(ranges[i]) = Area(ranges[j]) /\ ranges[i].end > ranges[j].end
    \/ /\ Area(ranges[i]) = Area(ranges[j]) /\ ranges[i].end = ranges[j].end
       /\ i >= j

(* Longer ones: where a range starts or ends, the most specific of those     *)
(* that are active is a segment, or the rest of the one before.              *)
Joins(segments, o, count) ==
  /\ segments # <<>>
  /\ Last(segments).end + 1 = o /\ Last(segments).count = count

WithSegment(segments, o, next, count) ==
  IF Joins(segments, o, count)
  THEN Append(Front(segments), [Last(segments) EXCEPT !.end = next - 1])
  ELSE Append(segments, Segment(o, next - 1, count))

Swept(ranges, offsets, segments, o, active) ==
  IF active = {} THEN segments
  ELSE WithSegment(segments, o, Min({p \in offsets : p > o}),
                   ranges[getMostSpecificRange(ranges, active)].count)

SweptAll(ranges, offsets) ==
  FoldLeft(LAMBDA segments, o :
             Swept(ranges, offsets, segments, o,
                   {i \in DOMAIN ranges : Covers(ranges[i], o)}),
           <<>>, SetToSortSeq(offsets, LAMBDA a, b : a < b))

normalizeWithCoverageEvents(ranges) ==
  ToSet(SweptAll(ranges, UNION {{r.start, r.end} : r \in ToSet(ranges)}))

normalize(functions) ==
  IF RawRanges(functions) = <<>> THEN {}
  ELSE normalizeWithCoverageArray(getSortedRawCoverageRanges(functions))

(* The segments are sorted and apart: at most one has the offset.            *)
CountOf(over) == IF over = {} THEN 0 ELSE (CHOOSE s \in over : TRUE).count

getCount(offset, segments) ==
  CountOf({s \in segments : s.start <= offset /\ offset <= s.end})

-----------------------------------------------------------------------------
(* Scripts, and what V8 reports of a run of one.  A node is a function, a    *)
(* statement, an "if" (of a block, and perhaps another), a "cond", a         *)
(* "switch" or a "logical" expression; `runs` is how often it was executed,  *)
(* if that may differ from what is around it.                                *)
Around == -1

RunsOf(node, around) == IF node.runs = Around THEN around ELSE node.runs

(* Every node, with how often it was executed.                               *)
Executed(node, around) ==
  {<<node, RunsOf(node, around)>>} \cup
    UNION {Executed(kid, RunsOf(node, around)) : kid \in ToSet(node.kids)}

Counted(node, runs) == [start |-> node.start, end |-> node.end, count |-> runs]

(* The blocks of a function whose count is not that of what is around.       *)
Blocks(node, around) ==
  LET runs == RunsOf(node, around) IN
  (IF runs = around THEN <<>> ELSE <<Counted(node, runs)>>)
    \o FlatEach(node.kids, LAMBDA kid :
         IF kid.type = "function" THEN <<>> ELSE Blocks(kid, runs))

FunctionsOf(script) ==
  SetToSortSeq({n \in {e[1] : e \in Executed(script, 1)} :
                  n.type = "function"} \cup {script},
               LAMBDA a, b : a.start < b.start \/ a.end > b.end)

V8Functions(script) ==
  Each(FunctionsOf(script), LAMBDA f :
    [name |-> f.start,
     ranges |-> <<Counted(f, RunsOf(f, 1))>> \o
       FlatEach(f.kids, LAMBDA kid :
         IF kid.type = "function" THEN <<>>
         ELSE Blocks(kid, RunsOf(f, 1)))])

-----------------------------------------------------------------------------
(* The walk: what each node adds to the coverage of its file.                *)
Hint(node) == node.hint

FunctionDescriptor(node) == [kind |-> "f", of |-> node, at |-> <<node.start>>]
StatementDescriptor(node) == [kind |-> "s", of |-> node, at |-> <<node.start>>]

(* A missing `else` is counted as what the branch before it left over.       *)
NoElse(node) == [node EXCEPT !.type = "implicit"]
IsImplicit(branch) == branch.type = "implicit"
Implicit == -1

Bias(node) == IF node.block THEN 1 ELSE 0
BranchDescriptor(node, branches) ==
  LET located == SelectSeq(branches, LAMBDA b : IsImplicit(b) \/ b.located)
      offsets == Each(located, LAMBDA b :
                   IF IsImplicit(b) THEN Implicit ELSE b.start + Bias(b))
  IN  IF located = <<>> \/ ~node.located THEN <<>>
      ELSE <<[kind |-> "b", of |-> node, at |-> offsets]>>

Located(descriptor) == IF descriptor.of.located THEN <<descriptor>> ELSE <<>>

IfBranches(node) ==
  (IF Hint(node) = "if" THEN <<>> ELSE <<node.kids[1]>>)
    \o (IF Len(node.kids) = 2
        THEN IF Hint(node) = "else" THEN <<>> ELSE <<node.kids[2]>>
        ELSE IF Hint(node) \in {"if", "else"} THEN <<>> ELSE <<NoElse(node)>>)

(* The arms that a hint leaves out.                                          *)
SkippedArms(node) ==
  CASE node.type = "if" ->
         (IF Hint(node) = "if" THEN {node.kids[1]} ELSE {})
           \cup (IF Hint(node) = "else" /\ Len(node.kids) = 2
                 THEN {node.kids[2]} ELSE {})
    [] node.type = "logical" ->
         {kid \in ToSet(node.kids) : kid.type = "logical"}
    [] OTHER -> {}

Unhinted(nodes) == SelectSeq(nodes, LAMBDA n : Hint(n) # "next")

(* The operands of nested logical expressions are those of the outermost.    *)
Operands(node, outermost) ==
  IF node.type = "logical" /\ (outermost \/ Hint(node) # "next")
  THEN FlatEach(node.kids, LAMBDA kid : Operands(kid, FALSE))
  ELSE <<node>>

Added(node) ==
  CASE node.type = "function" -> Located(FunctionDescriptor(node))
    [] node.type = "statement" -> Located(StatementDescriptor(node))
    [] node.type = "if" ->
         BranchDescriptor(node, IfBranches(node))
           \o Located(StatementDescriptor(node))
    [] node.type = "switch" ->
         BranchDescriptor(node, Unhinted(node.kids))
           \o Located(StatementDescriptor(node))
    [] node.type = "cond" -> BranchDescriptor(node, Unhinted(node.kids))
    [] node.type = "logical" -> BranchDescriptor(node, Operands(node, TRUE))
    [] OTHER -> <<>>

(* A node that is skipped, or follows a "next" hint, is left out with all    *)
(* that is in it.                                                            *)
Walk(node, skipped, done) ==
  IF Hint(node) = "next" \/ node \in skipped THEN done
  ELSE FoldLeft(LAMBDA acc, kid : Walk(kid, SkippedArms(node), acc),
                done \o Added(node), node.kids)

prepareCoverage(script) ==
  IF Hint(script) = "file" THEN <<>> ELSE Walk(script, {}, <<>>)

(* What a descriptor counts; an implicit branch takes the count of its node  *)
(* less that of the branch before.                                           *)
HitsOf(descriptor, segments) ==
  FoldLeft(LAMBDA hits, at :
    Append(hits, IF at = Implicit
                 THEN getCount(descriptor.of.start, segments)
                        - (IF hits = <<>> THEN 0 ELSE Last(hits))
                 ELSE getCount(at, segments)),
    <<>>, descriptor.at)

AllHits(prepared, segments) == Each(prepared, LAMBDA d : HitsOf(d, segments))

applyCoverage(prepared, functions) == AllHits(prepared, normalize(functions))

-----------------------------------------------------------------------------
(* The provider: raw entries of one file, from the payloads of the workers.  *)

(* Mutant of SameShape: only the number of functions is compared.            *)
SameLength(target, incoming) ==
  /\ Len(target) = Len(incoming)
  /\ \A i \in DOMAIN target :
       Len(target[i].ranges) = Len(incoming[i].ranges)

(* Entries of one shape are added up, range by range.                        *)
SameShape(target, incoming) ==
  /\ Len(target) = Len(incoming)
  /\ \A i \in DOMAIN target :
       /\ target[i].name = incoming[i].name
       /\ Len(target[i].ranges) = Len(incoming[i].ranges)
       /\ \A j \in DOMAIN target[i].ranges :
            LET r == target[i].ranges[j]
                s == incoming[i].ranges[j]
            IN  r.start = s.start /\ r.end = s.end

AddedUp(target, incoming) ==
  [i \in DOMAIN target |-> [target[i] EXCEPT !.ranges =
     [j \in DOMAIN @ |->
        [@[j] EXCEPT !.count = @ + incoming[i].ranges[j].count]]]]

mergeIntoCoverageEntries(entries, incoming) ==
  LET same == {i \in DOMAIN entries : SameShape(entries[i], incoming)}
  IN  IF same = {} THEN Append(entries, incoming)
      ELSE [entries EXCEPT ![Min(same)] = AddedUp(@, incoming)]

(* A source is kept unless it is virtual or of a package, or outside of the  *)
(* root, or the options exclude it.                                          *)
shouldKeepOriginalSource(source, options, root) ==
  /\ "virtual" \notin source.marks /\ "package" \notin source.marks
  /\ options.allowExternal \/ root \in source.under
  /\ "excluded" \notin source.marks /\ "included" \in source.marks

(* The sources a script is mapped to, or the script itself.                  *)
SourcesOf(script) ==
  IF script.map = "none" THEN {script.file} ELSE script.sources

(* In the worker, an entry is dropped if nothing of it can be reported.      *)
shouldKeepRawCoverageEntry(script, options, root) ==
  \/ script.map # "none"
  \/ shouldKeepOriginalSource(script.file, options, root)

KeptSources(script, options, root) ==
  {s \in SourcesOf(script) : shouldKeepOriginalSource(s, options, root)}

(* In the host, one whose source map is known and has nothing to keep is.    *)
shouldKeepSourceMapEntry(script, options, root) ==
  \/ script.map # "loaded"
  \/ script.sources = {}
  \/ KeptSources(script, options, root) # {}

GroupKey(entry, scripts) ==
  <<entry.root, scripts[entry.script].file, entry.module,
    scripts[entry.script].code>>

(* The groups of a file's entries, in the order of their first ones.         *)
GroupOf(mine) ==
  [of |-> mine[1],
   entries |-> FoldLeft(LAMBDA done, e :
     mergeIntoCoverageEntries(done, e.functions), <<>>, mine)]

Groups(entries, scripts) ==
  Each(Distinct(Each(entries, LAMBDA e : GroupKey(e, scripts))),
       LAMBDA key : GroupOf(SelectSeq(entries, LAMBDA e :
                              GroupKey(e, scripts) = key)))

(* An entry of a script that cannot be parsed adds nothing.                  *)
AddHits(hits, more) ==
  IF hits = <<>> THEN more
  ELSE [i \in DOMAIN hits |-> [j \in DOMAIN hits[i] |->
          hits[i][j] + more[i][j]]]

SumOfHits(hits, prepared, functions) ==
  FoldLeft(LAMBDA sum, fs : AddHits(sum, applyCoverage(prepared, fs)),
           hits, functions)

Convert(map, group, script, options) ==
  IF script.broken THEN map
  ELSE [s \in DOMAIN map |->
          IF s \notin KeptSources(script, options, group.of.root) THEN map[s]
          ELSE SumOfHits(map[s], prepareCoverage(script.tree),
                         group.entries)]

ConvertedAll(retained, scripts, options) ==
  FoldLeft(LAMBDA map, group :
             Convert(map, group, scripts[group.of.script], options),
           [s \in UNION {SourcesOf(scripts[i]) : i \in DOMAIN scripts}
              |-> <<>>],
           Groups(retained, scripts))

ValidEntries(payloads) ==
  FlatEach(SelectSeq(payloads, LAMBDA p : p.valid), LAMBDA p : p.entries)

Collected(payloads, retained, scripts, options) ==
  [map |-> ConvertedAll(retained, scripts, options),
   exitCode |-> IF \/ \E p \in ToSet(payloads) : ~p.valid
                   \/ \E e \in ToSet(retained) : scripts[e.script].broken
                THEN 1 ELSE 0]

collectRawPayloads(payloads, scripts, options) ==
  Collected(payloads,
            SelectSeq(ValidEntries(payloads), LAMBDA e :
              shouldKeepSourceMapEntry(scripts[e.script], options, e.root)),
            scripts, options)

-----------------------------------------------------------------------------
(* Coverage maps (utils.ts).  Coverage of a file is the locations it has,    *)
(* each with its hits, in an order of its own; `all` marks a file no test    *)
(* has loaded, and `hash` is that of what it was made from, or 0.            *)
HitsAt(c, location) ==
  SumSet({0} \cup {c.hits[i] : i \in {j \in DOMAIN c.at : c.at[j] = location}})

(* istanbul's merge, location by location.                                   *)
SlowMerge(existing, incoming) ==
  LET at == Distinct(existing.at \o incoming.at) IN
  IF incoming.all THEN existing
  ELSE IF existing.all THEN incoming
  ELSE [existing EXCEPT !.at = at,
          !.hits = Each(at, LAMBDA l :
                          HitsAt(existing, l) + HitsAt(incoming, l))]

canFastMergeCoverage(existing, incoming) ==
  \/ incoming.all
  \/ /\ ~existing.all
     /\ IF existing.hash # 0 /\ incoming.hash # 0
        THEN existing.hash = incoming.hash
        ELSE existing.at = incoming.at

addFileCoverage(existing, incoming) ==
  IF ~canFastMergeCoverage(existing, incoming)
  THEN SlowMerge(existing, incoming)
  ELSE IF incoming.all THEN existing
  ELSE [existing EXCEPT !.hits =
          [i \in DOMAIN @ |-> @[i] + incoming.hits[i]]]

-----------------------------------------------------------------------------
(* Properties.                                                               *)

(* Both ways to flatten the ranges give every offset the same count.         *)
NormalizersAgree(ranges) ==
  \A o \in 0 .. Max({r.end : r \in ToSet(ranges)}) :
    getCount(o, normalizeWithCoverageArray(ranges))
      = getCount(o, normalizeWithCoverageEvents(ranges))

(* Every function, statement and branch that is reported of a script has     *)
(* been executed as often as is reported; what is left out is what a hint    *)
(* ignores, has no location, or is inside of a nested logical expression.    *)
TimesOf(script, node) ==
  (CHOOSE e \in Executed(script, 1) : e[1] = node)[2]

Arms(node) ==
  SelectSeq(CASE node.type = "if" -> IfBranches(node)
              [] node.type = "logical" -> Operands(node, TRUE)
              [] OTHER -> Unhinted(node.kids),
            LAMBDA b : IsImplicit(b) \/ b.located)

Expected(script, d) ==
  IF d.kind # "b" THEN <<TimesOf(script, d.of)>>
  ELSE Each(Arms(d.of), LAMBDA b :
         IF IsImplicit(b)
         THEN TimesOf(script, d.of) - TimesOf(script, d.of.kids[1])
         ELSE TimesOf(script, b))

(* But for a missing `else` whose `if` has a branch without a location.      *)
Exact(d) == d.kind = "b" /\ d.of.type = "if" => d.of.kids[1].located

CountsAreExact(script, prepared, hits) ==
  \A i \in DOMAIN prepared :
    Exact(prepared[i]) => hits[i] = Expected(script, prepared[i])

Inside(node) == {e[1] : e \in Executed(node, 1)}
LeftOut(node) ==
  \/ Hint(node) = "next"
  \/ node.type = "logical" \/ ~node.located
OutOf(nodes) ==
  UNION {Inside(n) : n \in {m \in nodes : LeftOut(m)}}
    \cup UNION {Inside(k) : k \in UNION {SkippedArms(m) : m \in nodes}}

NothingElseIsLeftOut(prepared, nodes) ==
  \A n \in nodes \ OutOf(nodes) :
    n.type \in {"function", "statement"} =>
      \E d \in ToSet(prepared) : d.of = n

Covered(script, prepared) ==
  /\ CountsAreExact(script, prepared,
                    applyCoverage(prepared, V8Functions(script)))
  /\ Hint(script) = "file" \/ NothingElseIsLeftOut(prepared, Inside(script))

ScriptIsCovered(script) == Covered(script, prepareCoverage(script))

(* Raw entries can be added up before they are converted: a source's hits    *)
(* are those of all the valid entries it has a part in, and an entry that    *)
(* cannot be converted takes away none of the others, but fails the run.     *)
Contributes(e, source, scripts, options) ==
  source \in KeptSources(scripts[e.script], options, e.root)

SumOver(entries, scripts) ==
  FoldLeft(LAMBDA hits, e :
    AddHits(hits, applyCoverage(prepareCoverage(scripts[e.script].tree),
                                e.functions)), <<>>, entries)

SourceIsTheSum(hits, source, valid, scripts, options) ==
  hits = SumOver(SelectSeq(valid, LAMBDA e :
                   /\ ~scripts[e.script].broken
                   /\ Contributes(e, source, scripts, options)), scripts)

Lost(valid, scripts, options) ==
  \E e \in ToSet(valid) :
    scripts[e.script].broken
      /\ KeptSources(scripts[e.script], options, e.root) # {}

IsTheSum(result, payloads, valid, scripts, options) ==
  /\ \A s \in DOMAIN result.map :
       SourceIsTheSum(result.map[s], s, valid, scripts, options)
  /\ (\/ Lost(valid, scripts, options)
      \/ \E p \in ToSet(payloads) : ~p.valid) => result.exitCode = 1

RawIsTheSum(payloads, scripts, options) ==
  IsTheSum(collectRawPayloads(payloads, scripts, options), payloads,
           ValidEntries(payloads), scripts, options)

(* What a worker leaves out could not have been reported.                    *)
FilterLosesNothing(script, options, root) ==
  KeptSources(script, options, root) # {} =>
    /\ shouldKeepRawCoverageEntry(script, options, root)
    /\ shouldKeepSourceMapEntry(script, options, root)

(* The fast way to merge two coverages gives what istanbul's would.          *)
SameCoverage(fast, slow) ==
  /\ ToSet(fast.at) = ToSet(slow.at) /\ fast.all = slow.all
  /\ \A l \in ToSet(slow.at) : HitsAt(fast, l) = HitsAt(slow, l)

FastMergeIsMerge(existing, incoming) ==
  SameCoverage(addFileCoverage(existing, incoming),
               SlowMerge(existing, incoming))
=============================================================================
