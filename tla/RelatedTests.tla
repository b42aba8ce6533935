---------------------------- MODULE RelatedTests ----------------------------
(***************************************************************************)
(* Which test files a run is restricted to: the file and project filters   *)
(* of the command line (utils/testFiles.ts), the files related to given or *)
(* changed sources (cli/commands.ts, core/related.ts), and the browser     *)
(* files a rebuild in watch mode runs again (browser/watchRerunPlanner.ts). *)
(*                                                                         *)
(* A file is a name; the sources, setup files and test files of a project  *)
(* are files. A module of the bundler's stats is a record                  *)
(*   [source, reasons, modules]: its file, or NoFile for a generated one,  *)
(*   the files that import it, and the modules concatenated into it.       *)
(***************************************************************************)
EXTENDS Lists

CONSTANT NoFile

-----------------------------------------------------------------------------
(* utils/testFiles.ts. A filter is [path, covers]: the file it names, and    *)
(* the files whose relative path contains it.                                *)
filterFiles(files, filters, mode) ==
  CASE filters = {} -> IF mode = "exact" THEN <<>> ELSE files
    [] mode = "exact" -> SelectSeq(files, LAMBDA t :
                                     \E f \in filters : f.path = t)
    [] OTHER -> SelectSeq(files, LAMBDA t : \E f \in filters : t \in f.covers)

(* The name of a project is a sequence of parts, a pattern is                *)
(* [neg, name, wild]: ! in front, * at its end. A negated pattern has no     *)
(* anchor at its end: it excludes the longer names as well.                  *)
PatternAdmits(pattern, name) ==
  IF pattern.neg THEN ~IsPrefix(pattern.name, name)
  ELSE \/ name = pattern.name
       \/ pattern.wild /\ IsPrefix(pattern.name, name)

filterProjects(projects, patterns) ==
  IF patterns = <<>> THEN projects
  ELSE SelectSeq(projects, LAMBDA p :
         \E pattern \in ToSet(patterns) : PatternAdmits(pattern, p.name))

-----------------------------------------------------------------------------
(* core/related.ts: the graph of a project's stats.                          *)
RECURSIVE AllModules(_)
AllModules(modules) ==
  FlatEach(modules, LAMBDA m : <<m>> \o AllModules(m.modules))

collectModuleGraph(modules) ==
  LET named == SelectSeq(AllModules(modules), LAMBDA m : m.source # NoFile)
      imports == UNION {(m.reasons \ {NoFile}) \X {m.source}
                          : m \in ToSet(named)}
  IN  [allSources |-> {m.source : m \in ToSet(named)}
                        \cup {i[1] : i \in imports},
       imports |-> imports]

(* Mutant of collectReachableDependents: only what imports a source itself  *)
(* is found.                                                                 *)
DirectDependents(graph, initial) ==
  initial \cup {i[1] : i \in {j \in graph.imports : j[2] \in initial}}

(* The breadth-first walk from the sources to what imports them.             *)
collectReachableDependents(graph, initial) ==
  LET Step(s) ==
        LET found == {i[1] : i \in {j \in graph.imports :
                                      j[2] \in s.queue}} \ s.visited
        IN  [visited |-> s.visited \cup found, queue |-> found]
      rounds == [n \in 1 .. Cardinality(graph.allSources) |-> n]
  IN  FoldLeft(LAMBDA s, n : Step(s),
               [visited |-> initial, queue |-> initial], rounds).visited

collectDirectlyMatchedFiles(files, sources) == files \cap sources

(* Of one project: every test file when the sources reach a setup file.      *)
RelatedInProject(project, sources) ==
  LET graph == collectModuleGraph(project.stats)
      matched == collectDirectlyMatchedFiles(graph.allSources, sources)
      reachable == collectReachableDependents(graph, matched)
  IN  CASE matched = {} -> {}
        [] (project.setups \cup project.globalSetups) \cap reachable # {} ->
             ToSet(project.tests)
        [] OTHER -> ToSet(project.tests) \cap reachable

AllTests(projects) == UNION {ToSet(p.tests) : p \in ToSet(projects)}

resolveRelatedTestFiles(projects, sources, allowEmpty) ==
  IF sources = {}
  THEN IF allowEmpty THEN [ok |-> TRUE, files |-> {}]
       ELSE [ok |-> FALSE, files |-> {}]
  ELSE [ok |-> TRUE,
        files |-> collectDirectlyMatchedFiles(AllTests(projects), sources)
                    \cup UNION {RelatedInProject(p, sources)
                                  : p \in ToSet(projects)}]

-----------------------------------------------------------------------------
(* cli/commands.ts. options is [modes, since, coverageChanged]: which of     *)
(* "related", "findRelatedTests" and "changed" are given; git is             *)
(* [committed, staged, unstaged], each a set of files.                       *)
isRelatedRun(options) == options.modes # {}

validateRelatedCliOptions(options) == Cardinality(options.modes) <= 1

resolveChangedFiles(git, since) ==
  (IF since THEN git.committed ELSE {}) \cup git.staged \cup git.unstaged

getForceRerunTriggers(world) ==
  world.triggers \cup UNION {p.triggers : p \in ToSet(world.projects)}

getForceRerunTriggerFiles(changed, triggers) == changed \cap triggers

Filters(files) == {[path |-> f, covers |-> {}] : f \in files}

Rejected == [ok |-> FALSE, filters |-> {}, mode |-> "fuzzy", coverage |-> {}]

resolveEffectiveCliFilters(world) ==
  LET options == world.options
      isChanged == "changed" \in options.modes
      sources == IF isChanged
                 THEN resolveChangedFiles(world.git, options.since)
                 ELSE {f.path : f \in world.filters}
      triggered == IF isChanged
                   THEN getForceRerunTriggerFiles(
                          sources, getForceRerunTriggers(world))
                   ELSE {}
      related == resolveRelatedTestFiles(world.projects, sources, isChanged)
  IN  CASE ~isRelatedRun(options) ->
             [ok |-> TRUE, filters |-> world.filters, mode |-> "fuzzy",
              coverage |-> {}]
        [] \/ ~validateRelatedCliOptions(options)
           \/ isChanged /\ world.filters # {} -> Rejected
        [] triggered # {} ->
             [ok |-> TRUE, filters |-> {}, mode |-> "fuzzy",
              coverage |-> {}]
        [] ~related.ok -> Rejected
        [] OTHER ->
             [ok |-> TRUE, filters |-> Filters(related.files),
              mode |-> "exact",
              coverage |-> IF isChanged /\ ~options.coverageChanged
                           THEN sources ELSE {}]

(* The files the run executes.                                               *)
FilesToRun(world) ==
  LET resolved == resolveEffectiveCliFilters(world)
  IN  UNION {ToSet(filterFiles(p.tests, resolved.filters, resolved.mode))
               : p \in ToSet(world.projects)}

-----------------------------------------------------------------------------
(* browser/watchRerunPlanner.ts. A file of the watched set is                *)
(* <<project, path>>.                                                        *)
collectWatchTestFiles(entries) ==
  FlatEach(entries, LAMBDA e : Each(e.testFiles, LAMBDA t : <<e.name, t>>))

(* Mutant of collectDeletedTestPaths: a file that one project lost is        *)
(* deleted though another still has it.                                      *)
DeletedOfAnyProject(previous, current) == {f[2] : f \in previous \ current}

collectDeletedTestPaths(previous, current) ==
  {f[2] : f \in previous} \ {f[2] : f \in current}

Bag(files) == [f \in ToSet(files) |->
                 Cardinality({i \in 1 .. Len(files) : files[i] = f})]

planWatchRerun(entries, previous, affected) ==
  LET current == collectWatchTestFiles(entries)
      changed == Bag(current) # Bag(previous)
      matched == SelectSeq(current, LAMBDA f : f[2] \in affected)
      Paths(files) == Distinct(Each(files, LAMBDA f : f[2]))
  IN  [update |-> changed,
       current |-> current,
       deleted |-> IF changed
                   THEN collectDeletedTestPaths(ToSet(previous),
                                                ToSet(current))
                   ELSE {},
       kind |-> CASE changed /\ current = <<>> -> "empty"
                  [] changed -> "rerun"
                  [] matched = <<>> -> "idle"
                  [] OTHER -> "rerun",
       testPaths |-> IF changed THEN Paths(current) ELSE Paths(matched)]

(* state is [lastTestFiles, results]: the results the host keeps.            *)
commitWatchFileSetUpdate(state, plan) ==
  IF ~plan.update THEN state
  ELSE [lastTestFiles |-> plan.current,
        results |-> state.results \ plan.deleted]

-----------------------------------------------------------------------------
(* Imports(p) is the import relation the stats were written from.            *)
Reaches(imports, from, to) ==
  LET grow(s, n) == s \cup {i[2] : i \in {j \in imports : j[1] \in s}}
      nodes == {i[1] : i \in imports} \cup {i[2] : i \in imports}
  IN  to \in FoldLeft(grow, {from}, [n \in 1 .. Cardinality(nodes) |-> n])

(* A run related to sources, given or changed, executes exactly the test     *)
(* files that are one of them or import one, and the whole of a project      *)
(* whose setup does; a changed trigger runs everything, and nothing related  *)
(* runs nothing (related.ts, commands.ts, testFiles.ts).                     *)
RelatedAreRun(world) ==
  LET resolved == resolveEffectiveCliFilters(world)
      sources == IF "changed" \in world.options.modes
                 THEN world.git.staged \cup world.git.unstaged \cup
                      (IF world.options.since THEN world.git.committed
                       ELSE {})
                 ELSE {f.path : f \in world.filters}
      Hit(p, f) == f \in sources
                     \/ \E s \in sources : Reaches(p.imports, f, s)
      Expected(p) ==
        IF \E f \in p.setups \cup p.globalSetups : Hit(p, f)
        THEN ToSet(p.tests) ELSE {t \in ToSet(p.tests) : Hit(p, t)}
  IN  resolved.ok /\ isRelatedRun(world.options) =>
        FilesToRun(world) =
          IF /\ "changed" \in world.options.modes
             /\ \E f \in sources :
                  \/ f \in world.triggers
                  \/ \E p \in ToSet(world.projects) : f \in p.triggers
          THEN AllTests(world.projects)
          ELSE UNION {Expected(p) : p \in ToSet(world.projects)}

(* A rebuild runs every watched file when the set of files changed, the      *)
(* affected ones otherwise, and a commit drops the results of the files no   *)
(* project has any more, and no others (watchRerunPlanner.ts).               *)
WatchRerunIsRight(entries, state, affected) ==
  LET plan == planWatchRerun(entries, state.lastTestFiles, affected)
      after == commitWatchFileSetUpdate(state, plan)
      now == {f[2] : f \in ToSet(plan.current)}
      before == {f[2] : f \in ToSet(state.lastTestFiles)}
  IN  /\ ToSet(plan.testPaths) =
           IF ToSet(state.lastTestFiles) = ToSet(plan.current)
           THEN affected \cap now ELSE now
      /\ (plan.kind = "rerun") <=> (plan.testPaths # <<>>)
      /\ ToSet(after.lastTestFiles) = ToSet(plan.current)
      /\ (state.results \subseteq before) =>
           (after.results = state.results \cap now)

(* A wildcard pattern of --project and its negation split the projects.      *)
NegationIsComplement(projects, name) ==
  LET Chosen(neg) == ToSet(filterProjects(projects,
                        <<[neg |-> neg, name |-> name, wild |-> TRUE]>>))
  IN  /\ Chosen(TRUE) \cap Chosen(FALSE) = {}
      /\ Chosen(TRUE) \cup Chosen(FALSE) = ToSet(projects)
=============================================================================
