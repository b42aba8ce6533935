------------------------------ MODULE Planning ------------------------------
(***************************************************************************)
(* Which test files a run executes, and in which project: the projects are *)
(* partitioned by the environment comments of their files                  *)
(* (core/environmentGroups.ts), the files are sharded (utils/shard.ts),    *)
(* and the plan is resolved again when plugin hooks have changed the       *)
(* configuration (core/projectPlan.ts, core/environmentPartitions.ts).     *)
(*                                                                         *)
(* A test environment is [name, options].  A file is [path, comment], its  *)
(* comment one of NoComment, BadComment or a name ("": none) and options.  *)
(* A project's name is <<its source's name>>, that of a partition          *)
(* <<its source's name, index>>: environment names are these names with    *)
(* other characters replaced, and stand for both.  A plan is a sequence of *)
(* projects, each with the files it is to run.                             *)
(***************************************************************************)
EXTENDS Lists

NoComment == [kind |-> "none", name |-> "", options |-> {}]
BadComment == [kind |-> "bad", name |-> "", options |-> {}]

applyEnvironmentComment(base, comment) ==
  LET name == IF comment.name = "" THEN base.name ELSE comment.name
  IN  [name |-> name,
       options |-> comment.options
                     \cup (IF name = base.name THEN base.options ELSE {})]

Commented(base, comment) ==
  IF comment.kind = "ok" THEN applyEnvironmentComment(base, comment) ELSE base

-----------------------------------------------------------------------------
(* Files of one environment are a group; groups are in the order of their    *)
(* first file.                                                               *)
Groups(project) ==
  LET Key(file) == Commented(project.env, file.comment)
      Group(key) ==
        LET members == SelectSeq(project.files, LAMBDA f : Key(f) = key)
            marked == SelectSeq(members, LAMBDA f : f.comment.kind = "ok")
        IN  [key |-> key, files |-> members,
             comment |-> IF marked = members THEN Last(marked).comment
                         ELSE NoComment]
  IN  Each(Distinct(Each(project.files, Key)), Group)

(* groupProjectEntriesByEnvironment, of one project: its partitions.  The    *)
(* first owns the global setup, unless the base environment has files.       *)
Partitions(project) ==
  LET groups == Groups(project)
      keys == {g.key : g \in ToSet(groups)}
      owner == IF project.env \in keys THEN project.env ELSE groups[1].key
      others == SelectSeq(groups, LAMBDA g : g.key # project.env)
      Index(g) == CHOOSE i \in DOMAIN others : others[i] = g
      Partition(g) ==
        [project EXCEPT
           !.name = IF g.key = project.env THEN @ ELSE Append(@, Index(g)),
           !.env = g.key,
           !.sourceBase = IF project.grouped THEN @ ELSE project.env,
           !.grouped = TRUE,
           !.comment = g.comment,
           !.claimed = @ \/ g.key # owner,
           !.files = g.files]
  IN  IF keys \subseteq {project.env} THEN <<project>>
      ELSE Each(groups, Partition)

(* The entries are kept by name: the last project of a name has them.        *)
Cached(projects) ==
  LET LastOf(p) == Last(SelectSeq(projects, LAMBDA q : q.name = p.name))
  IN  Each(projects, LAMBDA p : [p EXCEPT !.files = LastOf(p).files])

groupProjectEntriesByEnvironment(projects) ==
  Cached(FlatEach(projects, Partitions))

HasBadComment(projects) ==
  \E p \in ToSet(projects) : ~p.browser
    /\ \E file \in ToSet(p.files) : file.comment.kind = "bad"

-----------------------------------------------------------------------------
(* Sharding: all files of all projects, sorted by path, in slices.           *)
CeilDiv(n, d) == (n + d - 1) \div d

(* Mutant of Slice: the size of a slice is rounded down.                     *)
SliceFloor(index, count, n) ==
  LET size == n \div count
  IN  IF count <= 1 THEN 1 .. n
      ELSE ((index - 1) * size + 1) .. (index * size)

Slice(index, count, n) ==
  LET size == CeilDiv(n, count)
  IN  IF count <= 1 THEN 1 .. n
      ELSE ((index - 1) * size + 1) .. (index * size)

getShardedFiles(projects, shard) ==
  LET Entries(i) == Each(projects[i].files, LAMBDA f : <<i, f>>)
      all == FlatEach(Indices(projects), Entries)
      sorted == IF shard.count <= 1 THEN all
                ELSE Sorted(all, LAMBDA e, f : e[2].path < f[2].path)
      slice == Slice(shard.index, shard.count, Len(all))
      kept == SelectSeq(Indices(sorted), LAMBDA k : k \in slice)
      Files(i) == Each(SelectSeq(kept, LAMBDA k : sorted[k][1] = i),
                       LAMBDA k : sorted[k][2])
  IN  Each(Indices(projects),
           LAMBDA i : [projects[i] EXCEPT !.files = Files(i)])

Globbed(projects, glob) ==
  Each(projects, LAMBDA p : [p EXCEPT !.files = glob[p.source]])

-----------------------------------------------------------------------------
(* refreshEnvironmentPartitionEntries: the files are read again, and every   *)
(* group takes the project that stands for its environment already.          *)
BySource(projects) ==
  Each(Distinct(Each(projects, LAMBDA p : p.source)),
       LAMBDA source : SelectSeq(projects, LAMBDA p : p.source = source))

BaseOf(members) ==
  LET own == SelectSeq(members, LAMBDA p : p.name = p.source)
      from == Head(members)
  IN  IF own # <<>> THEN Head(own).env
      ELSE IF from.comment.name = "" THEN from.env ELSE from.sourceBase

getUniqueProjectName(name, source, reserved) ==
  IF name \notin reserved THEN name
  ELSE LET free == {i \in 1 .. Cardinality(reserved) + 1 :
                      Append(source, i) \notin reserved}
       IN  Append(source, CHOOSE i \in free : \A j \in free : i <= j)

(* The partitions of one source, each matched with a project of before.      *)
Matched(members, regrouped, base) ==
  LET names == {p.name : p \in ToSet(members)}
      Match(done, r) ==
        LET used == {p.name : p \in ToSet(done)}
            same == SelectSeq(members, LAMBDA p :
                      p.name \notin used
                        /\ Commented(base, p.comment) = r.env)
            name == IF same # <<>> THEN Head(same).name
                    ELSE getUniqueProjectName(r.name, r.source,
                                              names \cup used)
        IN  Append(done, [r EXCEPT !.name = name])
  IN  FoldLeft(Match, <<>>, regrouped)

Refreshed(members, glob) ==
  LET own == SelectSeq(members, LAMBDA p : p.name = p.source)
      from == IF own # <<>> THEN Head(own) ELSE Head(members)
      base == BaseOf(members)
      grouping ==
        [from EXCEPT !.name = from.source, !.env = base, !.grouped = FALSE,
                     !.comment = NoComment, !.files = glob[from.source],
                     !.claimed = IF own # <<>> THEN from.claimed
                                 ELSE \A p \in ToSet(members) : p.claimed]
  IN  IF from.browser THEN Globbed(members, glob)
      ELSE Matched(members, Partitions(grouping), base)

(* Mutant of reassignGlobalSetupOwner: the owner stays who it was.           *)
KeepGlobalSetupOwner(projects) == projects

(* The owner of a source's global setup has files, if one of them has.       *)
reassignGlobalSetupOwner(projects) ==
  LET Of(p) == SelectSeq(projects, LAMBDA q : q.source = p.source)
      Running(p) == SelectSeq(Of(p), LAMBDA q : q.files # <<>>)
      Moves(p) == /\ \E q \in ToSet(Of(p)) : ~q.claimed
                  /\ Running(p) # <<>> /\ Head(Running(p)).claimed
  IN  Each(projects, LAMBDA p :
        [p EXCEPT !.claimed = IF Moves(p) THEN p # Head(Running(p)) ELSE @])

refreshEnvironmentPartitionEntries(projects, glob, shard) ==
  LET fresh == FlatEach(BySource(projects),
                        LAMBDA members : Refreshed(members, glob))
  IN  reassignGlobalSetupOwner(Cached(getShardedFiles(fresh, shard)))

-----------------------------------------------------------------------------
(* The plan (createProjectPlanState).                                        *)
Project(name, env, browser) ==
  [name |-> <<name>>, source |-> <<name>>, env |-> env, sourceBase |-> env,
   grouped |-> FALSE, comment |-> NoComment, claimed |-> FALSE,
   browser |-> browser, files |-> <<>>]

InitialPlan(projects) ==
  [projects |-> projects, resolved |-> FALSE, changed |-> FALSE,
   pending |-> FALSE, failed |-> FALSE]

Names(projects) == Each(projects, LAMBDA p : p.name)

(* The node projects are partitioned, the browser projects come first then.  *)
NodeProjects(read) == SelectSeq(read, LAMBDA p : ~p.browser)

WithGroups(read, grouped) ==
  IF Names(grouped) = Names(NodeProjects(read)) THEN read
  ELSE SelectSeq(read, LAMBDA p : p.browser) \o grouped

resolveRunnableProjectsByEntries(read) ==
  WithGroups(read, groupProjectEntriesByEnvironment(NodeProjects(read)))

Resolved(plan, next, strict) ==
  [plan EXCEPT
     !.projects = next, !.resolved = TRUE, !.pending = ~strict,
     !.changed = IF plan.resolved THEN @
                 ELSE Names(next) # Names(plan.projects)]

ResolvedOf(plan, read, strict) ==
  IF strict /\ HasBadComment(read) THEN [plan EXCEPT !.failed = TRUE]
  ELSE Resolved(plan, resolveRunnableProjectsByEntries(read), strict)

(* Once the first plan has partitions, they are kept and refreshed.          *)
resolveRunnableProjects(plan, glob, shard, strict) ==
  IF plan.failed THEN plan
  ELSE IF ~(plan.resolved /\ plan.changed)
  THEN ResolvedOf(plan, getShardedFiles(Globbed(plan.projects, glob), shard),
                  strict)
  ELSE IF HasBadComment(Globbed(plan.projects, glob))
  THEN [plan EXCEPT !.failed = TRUE]
  ELSE Resolved(plan, refreshEnvironmentPartitionEntries(plan.projects, glob,
                                                         shard), strict)

validateEnvironmentComments(plan, glob, shard) ==
  IF plan.pending THEN resolveRunnableProjects(plan, glob, shard, TRUE)
  ELSE plan

(* The plan may depend on the hooks of browser projects, which only a boot   *)
(* of the browser side applies (createBrowserRunPlanner).  A file filter is  *)
(* [fuzzy, inside]: a name to match anywhere, or a path and the projects it  *)
(* points into.  world.browserHooks are the browser projects with hooks.     *)
MayMatch(filter, p) == filter.fuzzy \/ p \in filter.inside

Unplaced(filter) == ~filter.fuzzy /\ filter.inside = {}

(* Mutant of shouldRunBrowserDiscoveryFallback: a path outside of every      *)
(* project does not count.                                                   *)
DiscoverPlacedOnly(world) ==
  /\ world.browserHooks # {}
  /\ \/ world.filters = {}
     \/ \E f \in world.filters : \E p \in world.browserHooks : MayMatch(f, p)

shouldRunBrowserDiscoveryFallback(world) ==
  /\ world.browserHooks # {}
  /\ \/ world.filters = {}
     \/ \E f \in world.filters :
          Unplaced(f) \/ \E p \in world.browserHooks : MayMatch(f, p)

getBrowserProjectsForDiscovery(world) ==
  LET matched == {p \in world.browserHooks :
                    \E f \in world.filters : p \in f.inside}
  IN  IF world.filters = {} \/ \E f \in world.filters : f.fuzzy
      THEN world.browserHooks
      ELSE IF matched # {} THEN matched
      ELSE IF \E f \in world.filters : Unplaced(f) THEN world.browserHooks
      ELSE {}

(* createTestPlanner: the plan before the hooks; the node side's hooks, if   *)
(* there are any, and the validation after them; the discovery.  A project's *)
(* files are world.glob[project].before its hooks, and .after them.          *)
Glob(world, hooked) ==
  [p \in DOMAIN world.glob |-> IF p \in hooked THEN world.glob[p].after
                               ELSE world.glob[p].before]

AfterNodeHooks(first, world) ==
  IF world.nodeHooks = {} THEN first
  ELSE resolveRunnableProjects(first, Glob(world, world.nodeHooks),
                               world.shard, TRUE)

AfterDiscovery(valid, world) ==
  IF valid.failed \/ ~shouldRunBrowserDiscoveryFallback(world) THEN valid
  ELSE resolveRunnableProjects(valid,
         Glob(world, world.nodeHooks
                       \cup getBrowserProjectsForDiscovery(world)),
         world.shard, TRUE)

createTestPlanner(projects, world) ==
  AfterDiscovery(
    validateEnvironmentComments(
      AfterNodeHooks(
        resolveRunnableProjects(InitialPlan(projects), Glob(world, {}),
                                world.shard, FALSE), world),
      Glob(world, world.nodeHooks), world.shard), world)

(* The projects that have something to run (skipEmptyProjects).              *)
ProjectsToRun(plan) == SelectSeq(plan.projects, LAMBDA p : p.files # <<>>)

-----------------------------------------------------------------------------
(* What the plan promises of the shards 1 .. count of a run.                 *)
Plans(projects, world) ==
  Each([i \in 1 .. world.shard.count |-> i], LAMBDA i :
    createTestPlanner(projects, [world EXCEPT !.shard.index = i]))

(* Every test file, with every hook's, is run by exactly one shard, in one   *)
(* project, and in the environment its comment asks for; a plan fails if and *)
(* only if a comment cannot be read (resolveRunnableProjects).               *)
EachFileOnceInItsEnvironment(projects, world, plans) ==
  LET Planned(i) == ProjectsToRun(plans[i])
      Runs(file, source) ==
        UNION {{<<i, k>> : k \in {k \in DOMAIN Planned(i) :
                                     /\ Planned(i)[k].source = source
                                     /\ file \in ToSet(Planned(i)[k].files)}}
                 : i \in DOMAIN plans}
      Fits(file, project, run) ==
        \/ project.browser
        \/ Planned(run[1])[run[2]].env = Commented(project.env, file.comment)
      bad == \E p \in ToSet(projects) :
               ~p.browser /\ \E f \in ToSet(world.glob[p.name].after) :
                               f.comment.kind = "bad"
  IN  /\ \A i \in DOMAIN plans : plans[i].failed => bad
      /\ bad => \E i \in DOMAIN plans : plans[i].failed
      /\ ~bad => \A project \in ToSet(projects) :
           \A file \in ToSet(world.glob[project.name].after) :
             /\ Cardinality(Runs(file, project.name)) = 1
             /\ \A run \in Runs(file, project.name) : Fits(file, project, run)

(* No two projects of a plan have one name, and of the projects of one       *)
(* source that have files exactly one owns the global setup                  *)
(* (reassignGlobalSetupOwner).                                               *)
OneOwnerOfGlobalSetup(plans) ==
  \A plan \in ToSet(plans) :
    LET Running(p) == {q \in ToSet(ProjectsToRun(plan)) :
                         q.source = p.source}
    IN  /\ Cardinality(ToSet(Names(plan.projects))) = Len(plan.projects)
        /\ \A p \in ToSet(ProjectsToRun(plan)) :
             Cardinality({q \in Running(p) : ~q.claimed}) = 1

(* A partition that the first plan and the last have in common keeps its     *)
(* name: what was set up for it stays its own (findMatchingPartitionProject).*)
PartitionsKeepTheirNames(projects, world, plans) ==
  LET before == [p \in DOMAIN world.glob |-> world.glob[p].before]
      First(i) == resolveRunnableProjects(InitialPlan(projects), before,
                    [world.shard EXCEPT !.index = i], FALSE)
  IN  \A i \in DOMAIN plans :
        \A p \in ToSet(First(i).projects), q \in ToSet(plans[i].projects) :
          p.source = q.source /\ p.env = q.env /\ p.grouped /\ q.grouped
            => p.name = q.name

PlansFit(projects, world, plans) ==
  /\ EachFileOnceInItsEnvironment(projects, world, plans)
  /\ OneOwnerOfGlobalSetup(plans)
  /\ PartitionsKeepTheirNames(projects, world, plans)

PlansAreRight(projects, world) ==
  PlansFit(projects, world, Plans(projects, world))
=============================================================================
