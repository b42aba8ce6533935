--------------------------- MODULE BrowserRebuilds ---------------------------
(***************************************************************************)
(* How an edit reaches the browser in a watch session: the compiler of     *)
(* each project and the hook it ends with (the watch plugin of             *)
(* browserRsbuild.ts), the trigger that plans a rerun (headlessScheduler,  *)
(* headedScheduler), and the cycle that runs it (hostController.ts,        *)
(* watchSignals.ts).                                                       *)
(*                                                                         *)
(* A version of a test file is [own, setup]: an edit of it or of the setup *)
(* file of its project makes another; own = 0 is a file that is not there. *)
(* A headed session compiles the chunk of a test file when a page first    *)
(* loads it; its reruns are planned one after another.  A headless one is  *)
(* cut short by the rerun that follows.  The cycles of core (WatchDriver)  *)
(* are a queue whose scopes fold.                                          *)
(***************************************************************************)
EXTENDS Integers, Sequences, SequencesExt

CONSTANTS
  Projects,
  ProjectOf,      \* test file -> project
  Initial,        \* the test files that are there when it starts
  MaxEdits, MaxRequests, MaxFaults  \* bounds

VARIABLES
  headed,         \* never changes
  disk, setupDisk,
  bundle,         \* project -> [setup, names, files: test file -> version]
  loaded,         \* headed: the chunks pages have asked for
  hook,           \* project -> what its compiler is doing
  baseline,       \* project -> None, or the [setup, files] of its last stats
  pending,        \* pendingAffectedTestFiles
  hooksEnabled,
  lastTestFiles,
  dispatches,     \* planning passes under way, in order: [by, read, entries]
  queued,         \* the scope the next cycle will have, <<>> if there is none
  left,           \* what the cycle under way has yet to run, <<>> if none is
  ran,            \* history: test file -> the version that was run last
  lost,           \* history: what a trigger consumed and no cycle ran
  planned,        \* history: a planning pass has ended
  edits, requests, faults

bundleVars == <<bundle, loaded, hook, baseline>>
planVars == <<pending, hooksEnabled, lastTestFiles, planned>>
cycleVars == <<queued, left, ran, lost>>
boundVars == <<edits, requests, faults>>
vars == <<headed, disk, setupDisk, bundleVars, planVars, dispatches,
          cycleVars, boundVars>>

Files == DOMAIN ProjectOf
FilesOf(p) == {f \in Files : ProjectOf[f] = p}
Absent == [own |-> 0, setup |-> 0]

-----------------------------------------------------------------------------
(* The bundler: what a compile of p emits now.  The manifest names the files  *)
(* of a context, so a file that comes or goes needs a compile as well.       *)
Existing == {f \in Files : disk[f] > 0}
Compiled(p) ==
  [setup |-> setupDisk[p], names |-> FilesOf(p) \cap Existing,
   files |-> [f \in {g \in FilesOf(p) \cap Existing :
                       headed => g \in loaded} |-> disk[f]]]

VersionIn(b, f) ==
  IF f \in DOMAIN b.files THEN [own |-> b.files[f], setup |-> b.setup]
  ELSE Absent

Init ==
  /\ headed \in BOOLEAN
  /\ disk = [f \in Files |-> IF f \in Initial THEN 1 ELSE 0]
  /\ setupDisk = [p \in Projects |-> 1]
  /\ loaded = {}
  /\ bundle = [p \in Projects |-> Compiled(p)]
  /\ hook = [p \in Projects |-> "compiled"]
  /\ baseline = [p \in Projects |-> <<>>]
  /\ pending = {} /\ hooksEnabled = FALSE
  /\ lastTestFiles = Initial /\ planned = FALSE
  /\ dispatches = <<>>
  /\ queued = <<>> /\ left = <<Initial>>
  /\ ran = [f \in Files |-> Absent] /\ lost = {}
  /\ edits = 0 /\ requests = 0 /\ faults = 0

-----------------------------------------------------------------------------
(* The disk.                                                                 *)
EditSomething ==
  /\ edits < MaxEdits /\ edits' = edits + 1
  /\ \/ \E f \in Files :
          /\ disk' = [disk EXCEPT ![f] = edits + 2]
          /\ UNCHANGED setupDisk
     \/ \E f \in Existing :
          disk' = [disk EXCEPT ![f] = 0] /\ UNCHANGED setupDisk
     \/ \E p \in Projects :
          /\ setupDisk' = [setupDisk EXCEPT ![p] = edits + 2]
          /\ UNCHANGED disk
  /\ UNCHANGED <<headed, bundleVars, planVars, dispatches, cycleVars, requests,
                 faults>>

-----------------------------------------------------------------------------
(* A compiler starts again when its hook has returned.                       *)
Compile(p) ==
  /\ hook[p] = "watching" /\ bundle[p] # Compiled(p)
  /\ bundle' = [bundle EXCEPT ![p] = Compiled(p)]
  /\ hook' = [hook EXCEPT ![p] = "compiled"]
  /\ UNCHANGED <<headed, disk, setupDisk, loaded, baseline, planVars,
                 dispatches, cycleVars, boundVars>>

(* Mutant of seedFirstSeen: the first sight of an entry is a change.         *)
seedNothing(before, now) == before.files

(* Chunks that are compiled on demand are no change when first seen.         *)
seedFirstSeen(before, now) ==
  [f \in DOMAIN before.files \cup DOMAIN now.files |->
     IF f \in DOMAIN before.files THEN before.files[f] ELSE now.files[f]]

(* getAffectedTestFiles: entries is what the glob of the project yields; a   *)
(* changed setup file affects them all.                                      *)
getAffectedTestFiles(before, now, entries) ==
  IF before = <<>> THEN {}
  ELSE IF before[1].setup # now.setup THEN entries
  ELSE LET seeded == seedFirstSeen(before[1], now)
       IN  {f \in DOMAIN now.files :
              f \notin DOMAIN seeded \/ seeded[f] # now.files[f]}

(* What is first seen in another version than the one that was run is not    *)
(* affected: the next trigger does not run it.                               *)
TakenOver(p, before, now) ==
  IF before = <<>> THEN {}
  ELSE {f \in DOMAIN now.files \ DOMAIN before[1].files :
          ran[f] # VersionIn(now, f)}

StatsOf(p, entries) ==
  [bundle[p] EXCEPT
     !.files = [f \in DOMAIN bundle[p].files \cap entries |->
                  bundle[p].files[f]]]

Dispatch(by) ==
  dispatches' = Append(dispatches, [by |-> by, read |-> FALSE, entries |-> {}])

(* onAfterDevCompile, once it has read the entries of the project.           *)
AfterDevCompile(p) ==
  LET entries == FilesOf(p) \cap Existing
      now == StatsOf(p, entries)
  IN  /\ hook[p] = "compiled"
      /\ pending' = pending
           \cup getAffectedTestFiles(baseline[p], now, entries)
      /\ baseline' = [baseline EXCEPT ![p] = <<now>>]
      /\ IF hooksEnabled
         THEN hook' = [hook EXCEPT ![p] = "triggered"] /\ Dispatch(p)
         ELSE hook' = [hook EXCEPT ![p] = "watching"]
              /\ UNCHANGED dispatches
      /\ lost' = lost \cup TakenOver(p, baseline[p], now)
      /\ UNCHANGED <<headed, disk, setupDisk, bundle, loaded, hooksEnabled,
                     lastTestFiles, planned, queued, left, ran, boundVars>>

(* requestRerun: some files, or all of them, as if they had changed.         *)
RequestRerun(files) ==
  /\ hooksEnabled /\ requests < MaxRequests /\ requests' = requests + 1
  /\ files # {}
  /\ pending' = pending \cup files
  /\ Dispatch("request")
  /\ UNCHANGED <<headed, disk, setupDisk, bundleVars, hooksEnabled,
                 lastTestFiles, planned, cycleVars, edits, faults>>

-----------------------------------------------------------------------------
(* A planning pass: the passes of a headed session wait for each other.      *)
Turn(i) == i \in DOMAIN dispatches /\ (headed => i = 1)

ReadEntries(i) ==
  /\ Turn(i) /\ ~dispatches[i].read
  /\ dispatches' = [dispatches EXCEPT ![i].read = TRUE,
                                      ![i].entries = Existing]
  /\ UNCHANGED <<headed, disk, setupDisk, bundleVars, planVars, cycleVars,
                 boundVars>>

(* Mutant of Scope: only what was affected, even so.                         *)
ScopeOfAffected(entries, affected) == affected \cap entries

(* planWatchRerun: all files when their set has changed.                     *)
Scope(entries, affected) ==
  IF entries # lastTestFiles THEN entries ELSE affected \cap entries

Returned(by) ==
  hook' = IF by = "request" THEN hook ELSE [hook EXCEPT ![by] = "watching"]

Folded(scope) == <<scope \cup (IF queued = <<>> THEN {} ELSE queued[1])>>

(* The run under way of a headless session is cancelled.                     *)
Interrupted == left' = (IF left = <<>> \/ headed THEN left ELSE <<{}>>)

Cut == IF left = <<>> \/ headed THEN {} ELSE left[1]

(* Commit the set of files, drain what is pending, and signal core unless    *)
(* nothing is affected.                                                      *)
Plan(i) ==
  LET d == dispatches[i]
      scope == Scope(d.entries, pending)
      changed == d.entries # lastTestFiles
  IN  /\ Turn(i) /\ d.read
      /\ dispatches' = RemoveAt(dispatches, i)
      /\ Returned(d.by)
      /\ pending' = {}
      /\ lastTestFiles' = d.entries /\ planned' = TRUE
      /\ IF scope = {} /\ ~changed
         THEN UNCHANGED <<queued, left, lost>>
         ELSE /\ Interrupted
              /\ queued' = Folded(scope)
              /\ lost' = (lost \cup Cut) \ scope
      /\ UNCHANGED <<headed, disk, setupDisk, bundle, loaded, baseline,
                     hooksEnabled, ran, boundVars>>

(* The frames of a headed session do not follow in time: the pass is over.   *)
FramesTimeOut(i) ==
  LET d == dispatches[i]
  IN  /\ Turn(i) /\ headed /\ d.read /\ d.entries # lastTestFiles
      /\ d.entries # {}
      /\ faults < MaxFaults /\ faults' = faults + 1
      /\ dispatches' = RemoveAt(dispatches, i)
      /\ Returned(d.by)
      /\ pending' = {}
      /\ lastTestFiles' = d.entries /\ planned' = TRUE
      /\ lost' = lost \cup d.entries
      /\ UNCHANGED <<headed, disk, setupDisk, bundle, loaded, baseline,
                     hooksEnabled, queued, left, ran, edits, requests>>

-----------------------------------------------------------------------------
(* Cycles.  A scope is claimed when its cycle begins.                        *)
CycleStarts ==
  /\ left = <<>> /\ queued # <<>> /\ hooksEnabled
  /\ left' = <<queued[1] \cap lastTestFiles>>
  /\ lost' = lost \cup (queued[1] \ lastTestFiles)
  /\ queued' = <<>>
  /\ UNCHANGED <<headed, disk, setupDisk, bundleVars, planVars, dispatches,
                 ran, boundVars>>

(* A page of a headed session asks for the chunk of its file.                *)
LoadChunk(f) ==
  /\ headed /\ left # <<>> /\ f \in left[1] /\ f \notin loaded
  /\ loaded' = loaded \cup {f}
  /\ UNCHANGED <<headed, disk, setupDisk, bundle, hook, baseline, planVars,
                 dispatches, cycleVars, boundVars>>

(* A page gets the bundle as it is: the dev server holds it back while a     *)
(* compile is needed for the chunk.                                          *)
Serves(p, f) == headed =>
  f \in loaded /\ (f \in DOMAIN bundle[p].files \/ f \notin Existing)

RunFile(f) ==
  /\ left # <<>> /\ f \in left[1]
  /\ baseline[ProjectOf[f]] # <<>> /\ Serves(ProjectOf[f], f)
  /\ left' = <<left[1] \ {f}>>
  /\ IF headed /\ f \notin lastTestFiles
     THEN UNCHANGED <<ran, lost>>
     ELSE /\ ran' = [ran EXCEPT ![f] = VersionIn(bundle[ProjectOf[f]], f)]
          /\ lost' = IF f \in DOMAIN bundle[ProjectOf[f]].files
                     THEN lost \ {f} ELSE lost \cup {f}
  /\ UNCHANGED <<headed, disk, setupDisk, bundleVars, planVars, dispatches,
                 queued, boundVars>>

(* A fatal error ends a headed cycle.                                        *)
Fatal ==
  /\ headed /\ left # <<>> /\ left[1] # {}
  /\ faults < MaxFaults /\ faults' = faults + 1
  /\ lost' = lost \cup left[1]
  /\ left' = <<{}>>
  /\ UNCHANGED <<headed, disk, setupDisk, bundleVars, planVars, dispatches,
                 queued, ran, edits, requests>>

(* The first cycle enables the hooks: it leaves a session behind.            *)
CycleEnds ==
  /\ left = <<{}>> /\ left' = <<>>
  /\ hooksEnabled' = TRUE
  /\ UNCHANGED <<headed, disk, setupDisk, bundleVars, pending, lastTestFiles,
                 planned, dispatches, queued, ran, lost, boundVars>>

Next ==
  \/ EditSomething
  \/ \E p \in Projects : Compile(p) \/ AfterDevCompile(p)
  \/ \E files \in SUBSET lastTestFiles : RequestRerun(files)
  \/ \E i \in DOMAIN dispatches :
       ReadEntries(i) \/ Plan(i) \/ FramesTimeOut(i)
  \/ \E f \in Files : LoadChunk(f) \/ RunFile(f)
  \/ CycleStarts \/ Fatal \/ CycleEnds

Spec == Init /\ [][Next]_vars

-----------------------------------------------------------------------------
(* Properties.                                                               *)
TypeOK ==
  /\ \A p \in Projects : hook[p] \in {"compiled", "triggered", "watching"}
  /\ pending \subseteq Files /\ lastTestFiles \subseteq Files
  /\ \A f \in lost : f \in Files

Quiet ==
  /\ \A p \in Projects : hook[p] = "watching" /\ bundle[p] = Compiled(p)
  /\ dispatches = <<>> /\ queued = <<>> /\ left = <<>>

(* When all is quiet, a test file was run as it is, its setup file included, *)
(* or will be by the next trigger, as what was edited during the first cycle *)
(* is.  Lost are only the files that a cycle that was cut short or failed    *)
(* had yet to run, those a planning pass took out of the set after a later   *)
(* one had put them in, and those that were run before they were compiled.   *)
EditsReachTheBrowser ==
  Quiet => \A f \in Existing :
    \/ ran[f] = [own |-> disk[f], setup |-> setupDisk[ProjectOf[f]]]
    \/ f \in pending \cup lost
    \/ f \notin lastTestFiles /\ ~planned

(* Only what somebody changed, or asked for, waits to be run again: a chunk  *)
(* that a page made the compiler build is no change.                         *)
RerunsHaveAReason ==
  \A f \in pending :
    \/ requests > 0
    \/ disk[f] # (IF f \in Initial THEN 1 ELSE 0)
    \/ setupDisk[ProjectOf[f]] # 1

BrowserIsUpToDate == TypeOK /\ EditsReachTheBrowser /\ RerunsHaveAReason
=============================================================================
