---------------------------- MODULE WatchRebuild ----------------------------
(***************************************************************************)
(* What the node side of a watch session reruns: the watch driver with the *)
(* node executor behind it.  A compile signals a cycle and is held until   *)
(* the cycle settles (nodeExecutor.ts); the cycle pulls the dev server's   *)
(* stats and diffs them against a baseline the pull advances (rsbuild.ts,  *)
(* watchInvalidation.ts); the finalization merges its results into the     *)
(* session's (rstest.ts), from which the `f` and `u` keys select theirs    *)
(* (watchState.ts).                                                        *)
(*                                                                         *)
(* A version stands for the chunk hashes of an entry.  The `t` key, whose  *)
(* pattern narrows the tests within a file, and teardown are left out.     *)
(***************************************************************************)
EXTENDS WatchDriver

CONSTANTS
  node,         \* the node executor
  Planned,      \* the test files the planner globbed when the session began
  MaxVersion,   \* bound: versions of a file
  MaxSetup      \* bound: versions of the setup file

RebuildAssumption ==
  /\ node \in Executors
  /\ Planned \subseteq Files
  /\ MaxVersion \in Nat /\ MaxSetup \in Nat

VARIABLES
  disk,             \* version of each test file
  setupDisk,        \* version of the setup file
  built,            \* versions the dev server's last stats are about
  setupBuilt,
  hook,             \* the call whose promise holds the compile (0: none)
  nodeFileFilters,  \* the selection of the `p` key: [listed, files]
  baseline,         \* WatchInvalidationState of the environment
  pulled,           \* the last cycle that pulled
  selected,         \* the entries it runs
  deleted,          \* the entries it found deleted
  results,          \* reporterResults: verdict of each file
  last,             \* verdict of the latest run of each file
  ran,              \* version the latest run of each file was about
  ranSetup

diskVars == <<disk, setupDisk>>
builtVars == <<built, setupBuilt, hook>>
pullVars == <<baseline, pulled, selected, deleted>>
resultVars == <<results, last, ran, ranSetup>>
rebuildVars == <<diskVars, builtVars, nodeFileFilters, pullVars, resultVars>>
allVars == <<vars, rebuildVars>>

Verdicts == {"pass", "fail", "unmatched"}   \* unmatched: fails a snapshot
Everything == [listed |-> FALSE, files |-> {}]

InitRebuild ==
  /\ Init
  /\ disk = [f \in Files |-> IF f \in Planned THEN 1 ELSE 0]
  /\ setupDisk = 1
  /\ built = [f \in Files |-> 0] /\ setupBuilt = 0
  /\ hook = 0
  /\ nodeFileFilters = Everything
  /\ baseline = [known |-> FALSE, entries |-> built, setup |-> 0]
  /\ pulled = 0 /\ selected = {} /\ deleted = {}
  /\ results = [f \in Files |-> "none"] /\ last = results
  /\ ran = built /\ ranSetup = built

-----------------------------------------------------------------------------
(* The user edits (or creates) a test file, something it imports, or what    *)
(* the setup file is built from.                                             *)
Edit(f) ==
  /\ disk[f] < MaxVersion
  /\ disk' = [disk EXCEPT ![f] = @ + 1]
  /\ UNCHANGED <<vars, setupDisk, builtVars, nodeFileFilters, pullVars,
                 resultVars>>

EditSetup ==
  /\ setupDisk < MaxSetup
  /\ setupDisk' = setupDisk + 1
  /\ UNCHANGED <<vars, disk, builtVars, nodeFileFilters, pullVars, resultVars>>

(* globTestSourceEntries: what the planner found, cached for the session.    *)
SourceEntries == {f \in Planned : disk[f] # 0}

CycleOver(c) == phase[c] \in {"done", "failed"}
Released == hook # 0 => CycleOver(cycleOf[hook])

(* A compile; onAfterDevCompile asks for a cycle and holds the next compile. *)
Compile ==
  LET first == setupBuilt = 0
      now == [f \in Files |-> IF f \in SourceEntries THEN disk[f] ELSE 0]
  IN /\ Released
     /\ <<built, setupBuilt>> # <<now, setupDisk>>
     /\ built' = now
     /\ setupBuilt' = setupDisk
     /\ RunCycle([executor |-> node, trigger |-> "invalidation",
                  mode |-> IF first THEN "all" ELSE "on-demand",
                  update |-> "session", listed |-> nodeFileFilters.listed,
                  files |-> nodeFileFilters.files])
     /\ hook' = Len(calls')
     /\ UNCHANGED <<diskVars, nodeFileFilters, pullVars, resultVars>>

(* A shortcut key, armed once the first cycle has settled.                   *)
Key(trigger, update, filters) ==
  /\ node \in settled
  /\ RunCycle([executor |-> node, trigger |-> trigger, mode |-> "all",
               update |-> update, listed |-> filters.listed,
               files |-> filters.files])
  /\ UNCHANGED <<diskVars, builtVars, pullVars, resultVars>>

KeyAll ==
  /\ nodeFileFilters' = Everything
  /\ Key("run-all", "session", Everything)

Listed(S) == [listed |-> TRUE, files |-> S]

(* The files a pattern selects; no pattern selects and keeps everything.     *)
KeyFilter ==
  \/ \E S \in SUBSET SourceEntries :
       /\ S # {}
       /\ nodeFileFilters' = Listed(S)
       /\ Key("none", "session", Listed(S))
  \/ /\ nodeFileFilters' = Everything
     /\ SourceEntries # {}
     /\ Key("none", "session", Listed(SourceEntries))

(* Mutant: the status of each failed file in place of its path.              *)
FailedStatuses == {results[f] : f \in {g \in Files : results[g] = "fail"}}

(* collectFailedTestPaths, collectUnmatchedSnapshotTestPaths                 *)
Failed == {f \in Files : results[f] \in {"fail", "unmatched"}}

Unmatched == {f \in Files : results[f] = "unmatched"}

KeyFailed ==
  /\ Failed # {}
  /\ Key("run-failed", "session", Listed(Failed))
  /\ UNCHANGED nodeFileFilters

KeyUpdate ==
  /\ Unmatched # {}
  /\ Key("update-snapshot", "all", Listed(Unmatched))
  /\ UNCHANGED nodeFileFilters

(* Mutant: the baseline is advanced for every entry of the compile, also for *)
(* those the cycle filters out.                                              *)
NextBaselineOfAll(c) == [known |-> TRUE, setup |-> setupBuilt,
                         entries |-> built]

-----------------------------------------------------------------------------
(* The entries of the last stats that are in the scope of a cycle.           *)
EntriesOf(c) ==
  {f \in Files : built[f] # 0 /\ (calls[c].listed => f \in scope[c])}

NextBaseline(c) ==
  [known |-> TRUE, setup |-> setupBuilt,
   entries |-> [f \in Files |-> IF f \in EntriesOf(c) THEN built[f] ELSE 0]]

(* A setup entry changed since the baseline.                                 *)
RerunAll == baseline.known /\ baseline.setup # setupBuilt

(* The diff of applyWatchInvalidation.                                       *)
Affected(c) ==
  IF RerunAll THEN EntriesOf(c)
  ELSE {f \in EntriesOf(c) :
          baseline.known /\ baseline.entries[f] # built[f]}

Deleted(c) ==
  {f \in Files : ~RerunAll /\ baseline.entries[f] # 0 /\ f \notin EntriesOf(c)}

(* Mutant: only the files a cycle failed are replaced.                       *)
MergedFailures(verdict) ==
  [f \in Files |-> IF f \in deleted THEN "none"
                   ELSE IF f \in selected /\ verdict[f] # "pass"
                     THEN verdict[f]
                   ELSE results[f]]

(* getRsbuildStats within runCycle.                                          *)
Pull(c) ==
  /\ phase[c] = "running"
  /\ pulled # c
  /\ pulled' = c
  /\ selected' = IF calls[c].mode = "all" THEN EntriesOf(c) ELSE Affected(c)
  /\ deleted' = Deleted(c)
  /\ baseline' = NextBaseline(c)
  /\ UNCHANGED <<vars, diskVars, builtVars, nodeFileFilters, resultVars>>

(* updateReporterResultState                                                 *)
Merged(verdict) ==
  [f \in Files |-> IF f \in deleted THEN "none"
                   ELSE IF f \in selected THEN verdict[f]
                   ELSE results[f]]

(* What is known of the files, once those selected have run.                 *)
Now(new, old) == [f \in Files |-> IF f \in selected THEN new[f] ELSE old[f]]

(* The test files have run; their results are finalized.                     *)
Run(c) ==
  /\ pulled = c
  /\ Ran(c)
  /\ \E verdict \in [selected -> Verdicts] :
       /\ results' = Merged(verdict)
       /\ last' = Now(verdict, last)
  /\ ran' = Now(baseline.entries, ran)
  /\ ranSetup' = Now([f \in Files |-> baseline.setup], ranSetup)
  /\ UNCHANGED <<diskVars, builtVars, nodeFileFilters, pullVars>>

(* The executor throws, before its pull or after.                            *)
Reject(c) ==
  /\ phase[c] = "running"
  /\ Fail(c)
  /\ UNCHANGED rebuildVars

DriverStep(c) ==
  /\ Begin(c) \/ Notified(c) \/ Finalized(c)
  /\ UNCHANGED rebuildVars

-----------------------------------------------------------------------------
CycleNext(c) == DriverStep(c) \/ Pull(c) \/ Run(c) \/ Reject(c)

NextRebuild ==
  \/ \E f \in Files : Edit(f)
  \/ EditSetup \/ Compile
  \/ KeyAll \/ KeyFilter \/ KeyFailed \/ KeyUpdate
  \/ \E c \in Ids : CycleNext(c)

SpecRebuild == InitRebuild /\ [][NextRebuild]_allVars

-----------------------------------------------------------------------------
TypeOKRebuild ==
  /\ TypeOK
  /\ disk \in [Files -> 0..MaxVersion] /\ setupDisk \in 1..MaxSetup
  /\ built \in [Files -> 0..MaxVersion] /\ setupBuilt \in 0..MaxSetup
  /\ hook \in Ids \cup {0} /\ pulled \in Ids \cup {0}
  /\ nodeFileFilters \in [listed : BOOLEAN, files : SUBSET Files]
  /\ baseline \in [known : BOOLEAN, entries : [Files -> 0..MaxVersion],
                   setup : 0..MaxSetup]
  /\ selected \subseteq Files /\ deleted \subseteq Files
  /\ results \in [Files -> Verdicts \cup {"none"}]
  /\ last \in [Files -> Verdicts \cup {"none"}]
  /\ ran \in [Files -> 0..MaxVersion] /\ ranSetup \in [Files -> 0..MaxSetup]

(* Nothing is under way, and the dev server has seen what is on disk.        *)
Quiet ==
  /\ \A c \in Ids : phase[c] \in Over
  /\ setupBuilt = setupDisk
  /\ \A f \in SourceEntries : built[f] = disk[f]

InScope(f) == ~nodeFileFilters.listed \/ f \in nodeFileFilters.files

NoneRejected == \A c \in Ids : phase[c] # "failed"

(* When everything is quiet, every test file in the scope of the session was *)
(* last run as it is now, with the setup file as it is now: no edit is lost  *)
(* to a cycle that consumed the diff and ran other files.  (The edits that a *)
(* rejected cycle consumed are lost, and a test file that is created while   *)
(* the session watches is not in `Planned` and never run.)                   *)
EditsAreRun ==
  Quiet /\ NoneRejected =>
    \A f \in Planned :
      InScope(f) => ran[f] = disk[f] /\ ranSetup[f] = setupDisk

(* What the session reports of a file is the verdict of its latest run.      *)
ReportedIsLatest ==
  Quiet => \A f \in Files : results[f] \in {"none", last[f]}

(* The three that hold, together.                                            *)
RebuildsAreRight == TypeOKRebuild /\ EditsAreRun /\ ReportedIsLatest
==============================================================================
