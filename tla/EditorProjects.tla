-------------------------- MODULE EditorProjects ---------------------------
(***************************************************************************)
(* The projects the VS Code extension shows of one workspace folder        *)
(* (vscode/src/project.ts): the config files its manager finds and         *)
(* watches, the configuration a worker process reports of each             *)
(* (master.ts, worker/index.ts), the projects that are hidden because      *)
(* another one covers them (projectCoverage.ts), and the test files a      *)
(* shown one lists and watches.                                            *)
(*                                                                         *)
(* Everything that is awaited may take any time: finding config files,     *)
(* loading one, listing test files.  A change on disk is told to the       *)
(* watchers later, in order.  A path is a sequence of segments.            *)
(***************************************************************************)
EXTENDS Integers, Sequences, SequencesExt, FiniteSets, FiniteSetsExt

CONSTANTS
  Configs,        \* paths of config files
  Contents,       \* of a config file, the contents it may have:
                  \* [include, projects]
  Tests,          \* paths of test files
  Matching,       \* of a pattern of `include`: the test files it matches
  Patterns,       \* sets of config files configFileGlobPattern may match
  MaxEdits,       \* bound: changes on disk, of settings, and refreshes
  MaxProjects,    \* bound: projects made
  None

VARIABLES
  disk, files,    \* what is on disk: contents of config files, test files
  pattern,        \* the config files the setting matches
  method,         \* testCaseCollectMethod
  events,         \* changes on disk the watchers have not been told of
  scans,          \* listeners of the pattern that are awaiting findFiles
  manager,        \* the current WorkspaceManager and its token
  projects,       \* its projects, by config file
  made,           \* every project ever made
  lists,          \* listings that are awaited
  attached,       \* the project nodes are in the tree
  gaps,           \* history: what the extension is known not to see
  edits           \* changes so far

diskVars == <<disk, files, pattern, method, edits>>
vars == <<diskVars, events, scans, manager, projects, made, lists, attached,
          gaps>>

-----------------------------------------------------------------------------
(* Which config files are covered by another one.                            *)
normalizePath(path) == SelectSeq(path, LAMBDA s : s \notin {"", "."})

isStrictAncestor(ancestor, descendant) == IsStrictPrefix(ancestor, descendant)

footprint(childProjects) ==
  {normalizePath(IF child.configFilePath # None THEN child.configFilePath
                 ELSE child.root) : child \in childProjects}

(* Of two with one footprint the outer one aggregates the other.             *)
aggregatesNestedConfig(child, parent) ==
  LET c == footprint(child.childProjects)
      p == footprint(parent.childProjects)
  IN  /\ c # {} /\ c \subseteq p
      /\ \/ Cardinality(p) > Cardinality(c)
         \/ isStrictAncestor(normalizePath(parent.root),
                             normalizePath(child.root))

(* Mutant of isCoveredBy: what the parent can match is not asked.            *)
isAggregatedBy(child, parent) ==
  \/ normalizePath(child.configFilePath) \in footprint(parent.childProjects)
  \/ aggregatesNestedConfig(child, parent)

isCoveredBy(child, parent) ==
  /\ child.include \subseteq parent.include
  /\ \/ normalizePath(child.configFilePath)
          \in footprint(parent.childProjects)
     \/ aggregatesNestedConfig(child, parent)

computeCoveredConfigs(nodes) ==
  {n.configFilePath : n \in {c \in nodes : \E other \in nodes \ {c} :
                                             isCoveredBy(c, other)}}

-----------------------------------------------------------------------------
(* One project.  The tests under its root that its patterns match.           *)
Dir(config) == Front(config)
Matches(config, include, test) ==
  IsPrefix(Dir(config), test) /\ \E p \in include : test \in Matching[p]

NewProject(config) ==
  [config |-> config, state |-> "loading",
   include |-> {}, childProjects |-> {}, suppressed |-> FALSE,
   token |-> 0, watches |-> 0, live |-> FALSE, known |-> {}, files |-> {}]

(* watchConfigValue: a new token, whose listing is yet to be made.           *)
Listening(p) ==
  [p EXCEPT !.watches = @ + 1, !.token = p.watches + 1, !.live = FALSE]

applyWatch(p) ==
  IF p.suppressed \/ p.token # 0 THEN p
  ELSE [Listening(p) EXCEPT !.known = p.include]

setSuppressed(p, value) ==
  IF p.suppressed = value THEN p
  ELSE IF value THEN [p EXCEPT !.suppressed = TRUE, !.token = 0,
                               !.live = FALSE, !.files = {}]
  ELSE applyWatch([p EXCEPT !.suppressed = FALSE])

(* Mutant of dispose: the configuration it is loading is not cancelled.      *)
disposeWatch(p) == [p EXCEPT !.token = 0, !.live = FALSE]

dispose(p) == [NewProject(p.config) EXCEPT !.state = "disposed"]

-----------------------------------------------------------------------------
(* What the worker process reports of a config file: initCli flattens the    *)
(* projects it aggregates to the leaves.                                     *)
RECURSIVE Below(_, _)
Below(configs, seen) ==
  IF configs \subseteq seen THEN seen
  ELSE Below(UNION {disk[c].projects : c \in
                      {d \in configs : disk[d] # None}}, seen \cup configs)
Leaves(config) ==
  {c \in Below(disk[config].projects, {}) :
     disk[c] = None \/ disk[c].projects = {}}

Loads(config) ==
  /\ disk[config] # None
  /\ \A c \in Below(disk[config].projects, {}) : disk[c] # None
  /\ disk[config].projects # {} => Leaves(config) # {}

getNormalizedConfig(config) ==
  IF ~Loads(config) THEN None
  ELSE [include |-> disk[config].include,
        childProjects |-> {[configFilePath |-> c, root |-> Dir(c)] :
                             c \in Leaves(config)}]

listTests(config) ==
  IF ~Loads(config) THEN {}
  ELSE {f \in files : \E c \in IF Leaves(config) = {} THEN {config}
                               ELSE Leaves(config) :
                        Matches(c, disk[c].include, f)}

-----------------------------------------------------------------------------
(* The manager.                                                              *)
Node(p) ==
  [configFilePath |-> p.config, root |-> Dir(p.config),
   childProjects |-> p.childProjects, include |-> p.include]
Covered(all, of) ==
  computeCoveredConfigs({Node(of[all[c]]) : c \in DOMAIN all})

resolveActiveProjects(all, of) ==
  LET covered == Covered(all, of)
  IN  [i \in DOMAIN of |->
         IF \E c \in DOMAIN all : all[c] = i
         THEN setSuppressed(of[i], of[i].config \in covered) ELSE of[i]]

(* The listings that watches which are new have asked for.                   *)
Asked(of) ==
  {[project |-> i, token |-> of[i].token, only |-> None, read |-> FALSE,
    method |-> method, include |-> of[i].include, found |-> {}] :
     i \in {j \in DOMAIN of :
              of[j].token # 0
                /\ (j \in DOMAIN made => of[j].watches # made[j].watches)}}

(* A project may be watched before its configuration is known: never again.  *)
Early(of) ==
  {"early" : i \in {j \in DOMAIN of : of[j].token # 0 
                                        /\ of[j].state = "loading"}}

refreshAllProject(all, of, seen) ==
  LET now == resolveActiveProjects(all, of)
  IN  /\ projects' = all /\ made' = now
      /\ lists' = lists \cup Asked(now)
      /\ attached' = TRUE
      /\ gaps' = gaps \cup Early(now) \cup seen

(* handleAddConfigFile and handleRemoveConfigFile, for several files.        *)
Added(all, configs) ==
  LET new == SetToSeq(configs \ DOMAIN all)
  IN  [c \in DOMAIN all \cup configs |->
         IF c \in DOMAIN all THEN all[c]
         ELSE Len(made) + CHOOSE i \in DOMAIN new : new[i] = c]
Made(of, all, configs) ==
  LET new == SetToSeq(configs \ DOMAIN all)
  IN  of \o [i \in DOMAIN new |-> NewProject(new[i])]
Kept(all, configs) == [c \in DOMAIN all \cap configs |-> all[c]]
Disposed(of, all, configs) ==
  [i \in DOMAIN of |->
     IF \E c \in DOMAIN all \cap configs : all[c] = i THEN dispose(of[i])
     ELSE of[i]]

(* startWatchingWorkspace: the config files of the pattern are asked for.    *)
Scan(token) ==
  [token |-> token, pattern |-> pattern, read |-> FALSE, found |-> {}]
Cancelled(scan) == scan.token # manager.token
OfTheManager(scan) == scan.token >= manager.first

Init ==
  /\ disk \in [Configs -> UNION {Contents[c] : c \in Configs}]
  /\ \A c \in Configs : disk[c] \in Contents[c]
  /\ files = Tests
  /\ pattern = Configs /\ method \in {"ast", "runtime"}
  /\ events = <<>>
  /\ scans = {Scan(1)}
  /\ manager = [first |-> 1, token |-> 1, watching |-> FALSE]
  /\ projects = <<>> /\ made = <<>> /\ lists = {}
  /\ attached = TRUE /\ gaps = {} /\ edits = 0

(* findFiles: nothing more is found once it is cancelled.                    *)
ScanReads(scan) ==
  /\ ~scan.read
  /\ scans' = (scans \ {scan}) \cup
       {[scan EXCEPT !.read = TRUE,
                     !.found = {c \in scan.pattern :
                                  disk[c] # None /\ ~Cancelled(scan)}]}
  /\ UNCHANGED <<diskVars, events, manager, projects, made, lists, attached,
                 gaps>>

(* What was found is applied even if the scan was cancelled meanwhile; the   *)
(* watchers it then creates are disposed of.                                 *)
ScanApplies(scan) ==
  /\ scan.read /\ OfTheManager(scan)
  /\ Len(made) + Cardinality(scan.found \ DOMAIN projects) <= MaxProjects
  /\ scans' = scans \ {scan}
  /\ manager' = [manager EXCEPT !.watching = @ \/ ~Cancelled(scan)]
  /\ refreshAllProject(
       Kept(Added(projects, scan.found), scan.found),
       Made(Disposed(made, projects, Configs \ scan.found), projects,
            scan.found),
       IF Cancelled(scan) THEN {"outdated"} ELSE {})
  /\ UNCHANGED <<diskVars, events>>

(* The scan of a manager that was disposed of: the tree is cleared, and the  *)
(* projects it adds are nobody's.                                            *)
ScanOfDisposed(scan) ==
  /\ scan.read /\ ~OfTheManager(scan)
  /\ Len(made) + Cardinality(scan.found) <= MaxProjects
  /\ scans' = scans \ {scan}
  /\ made' = Made(made, <<>>, scan.found)
  /\ attached' = FALSE
  /\ gaps' = gaps \cup {"outdated"}
  /\ UNCHANGED <<diskVars, events, manager, projects, lists>>

-----------------------------------------------------------------------------
(* The configuration of a project: what its worker process has read when it  *)
(* answers.                                                                  *)
Resolved(p) ==
  LET loaded == getNormalizedConfig(p.config)
  IN  IF loaded = None THEN [p EXCEPT !.state = "failed"]
      ELSE applyWatch([p EXCEPT !.state = "resolved",
                                !.include = loaded.include,
                                !.childProjects = loaded.childProjects])

IsOurs(i) == \E c \in DOMAIN projects : projects[c] = i

ConfigResolves(i) ==
  /\ made[i].state = "loading" /\ IsOurs(i)
  /\ refreshAllProject(projects, [made EXCEPT ![i] = Resolved(@)], {})
  /\ UNCHANGED <<diskVars, events, scans, manager>>

(* ... the project of a manager that was disposed of: it renders itself.     *)
ConfigOfNobody(i) ==
  /\ made[i].state = "loading" /\ ~IsOurs(i)
  /\ made' = [made EXCEPT ![i] = Resolved(@)]
  /\ lists' = lists \cup Asked([made EXCEPT ![i] = Resolved(@)])
  /\ attached' = FALSE
  /\ UNCHANGED <<diskVars, events, scans, manager, projects, gaps>>

-----------------------------------------------------------------------------
(* The test files of a project.                                              *)
Read(list) ==
  LET config == made[list.project].config
      all == IF list.method = "runtime" THEN listTests(config)
             ELSE {f \in files : Matches(config, list.include, f)}
  IN  IF list.only = None THEN all ELSE all \cap {list.only}

IsCurrent(list) == made[list.project].token = list.token

ListIsRead(list) ==
  /\ ~list.read /\ IsCurrent(list)
  /\ lists' = (lists \ {list}) \cup
                {[list EXCEPT !.read = TRUE, !.found = Read(list)]}
  /\ UNCHANGED <<diskVars, events, scans, manager, projects, made, attached,
                 gaps>>

(* Mutant of ListApplies: a listing is applied whatever became of its watch. *)
ListAppliesAlways(list) ==
  /\ list.read \/ ~IsCurrent(list)
  /\ lists' = lists \ {list}
  /\ made' = [made EXCEPT ![list.project].files =
                IF list.only = None THEN list.found ELSE @ \cup list.found,
                          ![list.project].live = @ \/ list.only = None]
  /\ UNCHANGED <<diskVars, events, scans, manager, projects, attached, gaps>>

ListApplies(list) ==
  /\ list.read \/ ~IsCurrent(list)
  /\ lists' = lists \ {list}
  /\ made' = IF ~IsCurrent(list) THEN made
             ELSE [made EXCEPT ![list.project].files =
                     IF list.only = None THEN list.found
                     ELSE @ \cup list.found,
                               ![list.project].live = @ \/ list.only = None]
  /\ UNCHANGED <<diskVars, events, scans, manager, projects, attached, gaps>>

-----------------------------------------------------------------------------
(* Changes.                                                                  *)
Edit == edits < MaxEdits /\ edits' = edits + 1

EditConfig(c, content) ==
  /\ Edit
  /\ disk' = [disk EXCEPT ![c] = content]
  /\ disk[c] # None \/ content # None
  /\ events' = Append(events, [path |-> c, kind |->
                 CASE disk[c] = None -> "create" [] content = None -> "delete"
                   [] OTHER -> "change"])
  /\ UNCHANGED <<files, pattern, method, scans, manager, projects, made,
                 lists, attached, gaps>>

EditTest(f, kind) ==
  /\ Edit
  /\ f \notin files => kind = "write"
  /\ files' = IF kind = "delete" THEN files \ {f} ELSE files \cup {f}
  /\ events' = Append(events, [path |-> f, kind |-> kind])
  /\ UNCHANGED <<disk, pattern, method, scans, manager, projects, made,
                 lists, attached, gaps>>

(* No project looks again at the configs it aggregates.                      *)
Unseen(c) ==
  {"child" : p \in {q \in ToSet(made) : q.config # c /\ q.childProjects # {}}}

(* A watcher is told of a config file.  What happens between a scan's        *)
(* findFiles and its watchers nobody is told of.                             *)
ConfigEvent(c, kind) ==
  /\ events # <<>> /\ Head(events) = [path |-> c, kind |-> kind]
  /\ events' = Tail(events)
  /\ IF manager.watching /\ c \in pattern
     THEN LET out == IF kind = "create" THEN {} ELSE {c}
              in == IF kind = "delete" THEN {} ELSE {c}
              rest == Kept(projects, DOMAIN projects \ out)
          IN  /\ Len(made) < MaxProjects
              /\ refreshAllProject(Added(rest, in),
                   Made(Disposed(made, projects, out), rest, in),
                   Unseen(c))
     ELSE /\ gaps' = gaps \cup Unseen(c)
                  \cup {"missed" : s \in {t \in scans : t.read}}
          /\ UNCHANGED <<projects, made, lists, attached>>
  /\ UNCHANGED <<diskVars, scans, manager>>

(* ... of a test file: every project that watches is, and asks its own       *)
(* patterns, those of the time it started to watch.                          *)
Told(f) ==
  {i \in DOMAIN made : made[i].live /\ Matches(made[i].config,
                                               made[i].known, f)}

TestEvent(f, kind) ==
  /\ events # <<>> /\ Head(events) = [path |-> f, kind |-> kind]
  /\ events' = Tail(events)
  /\ made' = [i \in DOMAIN made |->
                IF i \notin Told(f) \/ (kind # "delete" /\ method = "runtime")
                THEN made[i]
                ELSE [made[i] EXCEPT !.files =
                        IF kind = "delete" THEN @ \ {f} ELSE @ \cup {f}]]
  /\ lists' = lists \cup
       {[project |-> i, token |-> made[i].token, only |-> f, read |-> FALSE,
         method |-> "runtime", include |-> {}, found |-> {}] :
          i \in {j \in Told(f) : kind # "delete" /\ method = "runtime"}}
  /\ gaps' = gaps \cup
       {"missed" : l \in {k \in lists : k.read /\ IsCurrent(k)}}
  /\ UNCHANGED <<diskVars, scans, manager, projects, attached>>

(* Settings: watchConfigValue cancels what the listener was doing.           *)
ChangeMethod ==
  /\ Edit
  /\ method' = IF method = "ast" THEN "runtime" ELSE "ast"
  /\ made' = [i \in DOMAIN made |-> IF made[i].token = 0 THEN made[i]
                                    ELSE Listening(made[i])]
  /\ lists' = lists \cup
       {[project |-> i, token |-> made[i].watches + 1, only |-> None,
         read |-> FALSE, method |-> method', include |-> made[i].include,
         found |-> {}] : i \in {j \in DOMAIN made : made[j].token # 0}}
  /\ UNCHANGED <<disk, files, pattern, events, scans, manager, projects,
                 attached, gaps>>

ChangePattern(p) ==
  /\ Edit /\ p # pattern
  /\ pattern' = p
  /\ manager' = [manager EXCEPT !.token = @ + 1, !.watching = FALSE]
  /\ scans' = scans \cup {[Scan(manager.token + 1) EXCEPT !.pattern = p]}
  /\ UNCHANGED <<disk, files, method, events, projects, made, lists,
                 attached, gaps>>

(* The refresh button: startScanWorkspaces disposes of the manager.          *)
Refresh ==
  /\ Edit
  /\ made' = Disposed(made, projects, Configs)
  /\ projects' = <<>>
  /\ manager' = [first |-> manager.token + 1, token |-> manager.token + 1,
                 watching |-> FALSE]
  /\ scans' = scans \cup {Scan(manager.token + 1)}
  /\ attached' = TRUE
  /\ UNCHANGED <<disk, files, pattern, method, events, lists, gaps>>

Next ==
  \/ \E s \in scans : ScanReads(s) \/ ScanApplies(s) \/ ScanOfDisposed(s)
  \/ \E i \in DOMAIN made :
       ConfigResolves(i) \/ ConfigOfNobody(i)
  \/ \E l \in lists : ListIsRead(l) \/ ListApplies(l)
  \/ \E c \in Configs : \E content \in Contents[c] \cup {None} :
       EditConfig(c, content)
  \/ \E f \in Tests, kind \in {"write", "delete"} :
       EditTest(f, kind) \/ TestEvent(f, kind)
  \/ \E c \in Configs, kind \in {"create", "change", "delete"} :
       ConfigEvent(c, kind)
  \/ \E p \in Patterns : ChangePattern(p)
  \/ ChangeMethod \/ Refresh

-----------------------------------------------------------------------------
(* Properties.                                                               *)
TypeOK ==
  /\ \A c \in DOMAIN projects : projects[c] \in DOMAIN made
  /\ \A l \in lists : l.project \in DOMAIN made
  /\ gaps \subseteq {"early", "missed", "outdated", "child"}

Active(c) == ~made[projects[c]].suppressed

(* A project that was disposed of, or that another one covers, watches no    *)
(* file and shows none: what it had asked for is dropped when it comes.      *)
OnlyActiveProjectsWatch ==
  \A i \in DOMAIN made :
    \/ "outdated" \in gaps
    \/ IsOurs(i) /\ ~made[i].suppressed
    \/ /\ made[i].token = 0 /\ ~made[i].live
       /\ made[i].suppressed => made[i].files = {}

(* However config files aggregate each other, a project that is hidden has   *)
(* one that is shown with its patterns and all of its leaves.                *)
CoveringProject(c, d) ==
  LET p == made[projects[c]]
      q == made[projects[d]]
  IN  /\ Active(d) /\ p.include \subseteq q.include
      /\ \/ normalizePath(c) \in footprint(q.childProjects)
         \/ footprint(p.childProjects) \subseteq footprint(q.childProjects)

EveryProjectIsCovered ==
  \A c \in DOMAIN projects :
    Active(c) \/ \E d \in DOMAIN projects : CoveringProject(c, d)

(* When nothing is awaited the tree is the disk: the projects are the config *)
(* files the pattern matches, as they are, each with the test files there    *)
(* are; unless a change fell between a listing and its watcher, a scan that  *)
(* was cancelled was applied, a project was watched before it was loaded, or *)
(* a config file changed that another one aggregates.                        *)
Quiet ==
  /\ events = <<>> /\ scans = {} /\ lists = {}
  /\ \A i \in DOMAIN made : made[i].state # "loading"

Expected(p) ==
  IF method = "ast" THEN {f \in files : Matches(p.config, p.include, f)}
  ELSE listTests(p.config)

TreeIsTheDisk ==
  Quiet /\ gaps = {} =>
    /\ attached
    /\ DOMAIN projects = {c \in pattern : disk[c] # None}
    /\ \A c \in DOMAIN projects :
         LET p == made[projects[c]]
         IN  p.state = "resolved" =>
               /\ p.include = disk[c].include
               /\ Active(c) => \A f \in Tests :
                    Matches(c, p.include, f) =>
                      (f \in p.files <=> f \in Expected(p))

EditorIsTrue ==
  TypeOK /\ OnlyActiveProjectsWatch /\ EveryProjectIsCovered /\ TreeIsTheDisk
=============================================================================
