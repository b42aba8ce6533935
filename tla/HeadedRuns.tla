----------------------------- MODULE HeadedRuns -----------------------------
(***************************************************************************)
(* Test files in the frames of one visible page, the container             *)
(* (browser/src/headedScheduler.ts): the registry of runs                  *)
(* (headedRunRegistry.ts), the cycles that mint them one after another,    *)
(* the commits of the file set, the transport between host and container   *)
(* (containerRpc.ts), and the container (browser-ui): its file set, what   *)
(* is rendered of it, the leases of its frames and their documents.        *)
(*                                                                         *)
(* What the host and the container send arrives in order, or is lost with  *)
(* the transport.  Test-name patterns and the UI's rerun during the first  *)
(* cycle are left out; a rerun of the UI is a cycle that is signalled.     *)
(***************************************************************************)
EXTENDS Integers, Sequences, SequencesExt, FiniteSets

CONSTANTS
  Paths, FirstFiles,         \* the paths a test file may have, has at first
  MaxRuns, MaxRebuilds, MaxEpoch,      \* bounds: runs, rebuilds, transports
  MaxFaults,                 \* bound: how often something goes wrong
  MaxTrouble,                \* bound: rebuilds and faults taken together
  Faults                     \* what may: a subset of FaultKinds

FaultKinds == {"drop", "reload", "replace", "slow", "fatal", "hook", "wedge",
               "hmr", "coverage"}

ASSUME HeadedAssumption ==
  /\ FirstFiles \subseteq Paths /\ FirstFiles # {}
  /\ Faults \subseteq FaultKinds
  /\ {MaxRuns, MaxRebuilds, MaxEpoch, MaxFaults, MaxTrouble}
       \subseteq Nat

VARIABLES
  faults,                    \* how often something went wrong
  files, version, acked,     \* currentTestFiles, headedFileSetVersion, its ack
  runs, minted,              \* runsById, with what became of the runs
  epoch, connected,          \* transportEpoch; has the host a transport
  first, wanted, scope, task,       \* is it the first cycle; the files of
                             \* the next; those left of this; its reload
  fatalError,                \* fatalErrorRef
  rerun, affected,           \* runDispatchRerunOnce; what it will signal
  down, up,                  \* what the host, the container has sent
  set, applied,              \* the container's fileSet; lastAppliedVersion
  shown, dirty, effects,     \* what is rendered; is a render, an effect due
  lease, doc                 \* of each frame: its lease; its document

hostVars == <<files, version, acked, rerun, affected>>
runVars == <<runs, minted>>
cycleVars == <<first, wanted, scope, task, fatalError>>
wireVars == <<epoch, connected, down, up>>
pageVars == <<set, applied, shown, dirty, effects, lease, doc>>
vars == <<faults, hostVars, runVars, cycleVars, wireVars, pageVars>>

RunIds == 1 .. MaxRuns
NoRun == [path |-> "", epoch |-> 0, phase |-> "none", boot |-> FALSE,
          cleanup |-> FALSE, handler |-> "none", need |-> 0, outcome |-> "",
          recorded |-> 0, when |-> ""]
Idle == [at |-> "idle", path |-> "", run |-> 0]
Blank == [run |-> 0, at |-> "blank"]
NoFiles == [files |-> {}, version |-> 0]
Live(r) == runs[r].phase \in {"open", "claimed"}

TypeOK ==
  /\ faults \in 0 .. MaxFaults /\ files \subseteq Paths
  /\ version \in 1 .. MaxRebuilds + 1 /\ acked \in 0 .. version
  /\ minted \in 0 .. MaxRuns /\ epoch \in 0 .. MaxEpoch
  /\ \A r \in RunIds :
       /\ runs[r].phase \in {"none", "open", "claimed", "gone"}
       /\ runs[r].handler \in {"none", "complete", "fatal", "recover",
                                "frames"}
       /\ runs[r].outcome \in {"", "handled", "failed", "obsolete"}
       /\ (runs[r].outcome = "") = (runs[r].phase # "gone")
  /\ first \in BOOLEAN
  /\ wanted \subseteq Paths /\ ToSet(scope) \subseteq Paths
  /\ task.at \in {"idle", "starting", "waiting"} /\ task.run \in 0 .. MaxRuns
  /\ rerun.at \in {"idle", "refreshing", "notifying", "waiting"}
  /\ {set, shown} \subseteq [files : SUBSET Paths, version : 0 .. version]
  /\ applied \in 0 .. version /\ dirty \in {"no", "lease", "files"}
  /\ \A p \in Paths :
       /\ lease[p] \in 0 .. MaxRuns /\ doc[p].run \in 0 .. MaxRuns
       /\ doc[p].at \in {"blank", "loading", "running", "announced", "wedged",
                         "over"}

NoPage ==
  /\ set' = NoFiles /\ applied' = 0 /\ shown' = NoFiles
  /\ dirty' = "no" /\ effects' = FALSE
  /\ lease' = [p \in Paths |-> 0] /\ doc' = [p \in Paths |-> Blank]

Init ==
  /\ faults = 0 /\ files = FirstFiles /\ version = 1 /\ acked = 0
  /\ runs = [r \in RunIds |-> NoRun] /\ minted = 0
  /\ epoch = 0 /\ connected = FALSE /\ down = <<>> /\ up = <<>>
  /\ first = TRUE /\ wanted = files /\ scope = <<>> /\ task = Idle
  /\ fatalError = FALSE
  /\ rerun = [at |-> "idle", need |-> 0, count |-> 0] /\ affected = {}
  /\ set = NoFiles /\ applied = 0 /\ shown = NoFiles
  /\ dirty = "no" /\ effects = FALSE
  /\ lease = [p \in Paths |-> 0] /\ doc = [p \in Paths |-> Blank]

Strikes(fault) ==
  /\ fault \in Faults /\ faults < MaxFaults
  /\ faults + rerun.count < MaxTrouble
  /\ faults' = faults + 1

(* A deadline passes when nothing it waits for is under way any more, unless *)
(* the machine is slow.                                                      *)
Frozen == \E p \in Paths : doc[p].at = "wedged"

Quiet ==
  \/ Frozen
  \/ /\ connected \/ epoch = MaxEpoch
     /\ down = <<>> /\ up = <<>> /\ dirty = "no" /\ ~effects
     /\ \A p \in Paths : doc[p].at \in {"blank", "over"}

Passes == IF Quiet THEN UNCHANGED faults ELSE Strikes("slow")

-----------------------------------------------------------------------------
(* The registry.                                                             *)
Settled(run, outcome) ==
  IF run.phase = "gone" THEN run
  ELSE [run EXCEPT !.phase = "gone", !.boot = FALSE, !.cleanup = FALSE,
                   !.outcome = outcome]

settle(r, outcome) ==
  runs' = [runs EXCEPT ![r] = Settled(@, outcome)]

(* Every sweep leaves the runs that are claimed to their handlers.           *)
sweepOpen(matching, outcome) ==
  [r \in RunIds |-> IF runs[r].phase = "open" /\ r \in matching
                    THEN Settled(runs[r], outcome) ELSE runs[r]]

retainPaths(paths) ==
  runs' = sweepOpen({r \in RunIds : runs[r].path \notin paths}, "obsolete")

(* Mutant of rejectAll: runs that are claimed are rejected as well.          *)
rejectLive ==
  runs' = [r \in RunIds |-> IF Live(r) THEN Settled(runs[r], "failed")
                            ELSE runs[r]]

rejectAll ==
  runs' = sweepOpen(RunIds, "failed")

setTransportEpoch(e) ==
  runs' = sweepOpen({r \in RunIds : runs[r].epoch < e}, "failed")

(* A run is minted in time, or it is early, when the frames of the committed *)
(* set were awaited in vain, or late, when coverage was started before.      *)
Minting ==
  IF task.at = "starting" THEN "late"
  ELSE IF acked < version THEN "early" ELSE "in time"

(* A run that is minted is sent to the container, or fails at once.          *)
mint(p) ==
  LET same == {r \in RunIds : runs[r].path = p}
      run == [NoRun EXCEPT !.path = p, !.epoch = epoch, !.phase = "open",
                           !.boot = TRUE, !.when = Minting]
  IN  /\ minted' = minted + 1
      /\ runs' = [sweepOpen(same, "obsolete") EXCEPT ![minted + 1] =
                    IF connected THEN run ELSE Settled(run, "failed")]

(* When a transport closes, the calls that wait for their answer fail.       *)
CallsFail ==
  rerun' = IF rerun.at \in {"refreshing", "notifying"}
           THEN [rerun EXCEPT !.at = "idle"] ELSE rerun

BootDeadline(r) ==
  /\ runs[r].boot /\ settle(r, "failed") /\ Passes
  /\ UNCHANGED <<hostVars, minted, cycleVars, wireVars, pageVars>>

(* A clean-up that takes too long claims its run, and the page is replaced.  *)
CleanupDeadline(r) ==
  /\ runs[r].phase = "open" /\ runs[r].cleanup /\ Passes
  /\ LET claimed == [runs EXCEPT ![r].phase = "claimed", ![r].cleanup = FALSE,
                                 ![r].handler = "recover"]
     IN  runs' = [q \in RunIds |-> IF claimed[q].phase = "open"
                    THEN Settled(claimed[q], "failed") ELSE claimed[q]]
  /\ acked' = 0
  /\ connected' = FALSE /\ down' = <<>> /\ up' = <<>>
  /\ NoPage
  /\ CallsFail
  /\ UNCHANGED <<files, version, affected, minted, cycleVars, epoch>>

RecoverLoaded(r) ==
  /\ runs[r].handler = "recover" /\ connected
  /\ runs' = [runs EXCEPT ![r].handler = "frames", ![r].need = version]
  /\ UNCHANGED <<faults, hostVars, minted, cycleVars, wireVars, pageVars>>

(* The handler of a claimed run ends: what it has to report is reported,     *)
(* unless it was a fatal error; a reporter's hook may fail.                  *)
Handled(r, outcome, recorded) ==
  runs' = [runs EXCEPT ![r] =
    [Settled(runs[r], outcome) EXCEPT
       !.handler = "none", !.recorded = runs[r].recorded + recorded]]

HandlerEnds(r) ==
  /\ \/ runs[r].handler \in {"complete", "fatal"}
     \/ runs[r].handler = "frames" /\ acked >= runs[r].need
  /\ IF runs[r].handler = "fatal"
     THEN Handled(r, "failed", 0) /\ fatalError' = TRUE /\ UNCHANGED faults
     ELSE /\ UNCHANGED fatalError
          /\ \/ Handled(r, "handled", 1) /\ UNCHANGED faults
             \/ Handled(r, "failed", 1) /\ Strikes("hook")
  /\ UNCHANGED <<hostVars, minted, first, wanted, scope, task,
                 wireVars, pageVars>>

RecoverTimesOut(r) ==
  /\ runs[r].handler = "frames" /\ acked < runs[r].need
  /\ Handled(r, "failed", 0) /\ Passes
  /\ UNCHANGED <<hostVars, minted, cycleVars, wireVars, pageVars>>

-----------------------------------------------------------------------------
(* The cycles of core: the first waits for the frames, a later one takes     *)
(* what was signalled and still exists (claimHeadedCycleScope).              *)
StartFirst ==
  /\ first /\ wanted # {} /\ acked >= version
  /\ wanted' = {} /\ scope' = SetToSeq(wanted)
  /\ UNCHANGED <<faults, hostVars, runVars, first, task, fatalError, wireVars,
                 pageVars>>

FirstTimesOut ==
  /\ first /\ wanted # {} /\ acked < version /\ Passes
  /\ wanted' = {} /\ fatalError' = TRUE
  /\ UNCHANGED <<hostVars, runVars, first, scope, task, wireVars,
                 pageVars>>

FirstEnds ==
  /\ first /\ wanted = {} /\ scope = <<>> /\ task.at = "idle"
  /\ first' = FALSE
  /\ UNCHANGED <<faults, hostVars, runVars, wanted, scope, task, fatalError,
                 wireVars, pageVars>>

StartCycle ==
  /\ ~first /\ scope = <<>> /\ task.at = "idle" /\ wanted # {}
  /\ wanted' = {} /\ scope' = SetToSeq(wanted \cap files)
  /\ fatalError' = FALSE
  /\ UNCHANGED <<faults, hostVars, runVars, first, task, wireVars, pageVars>>

(* The run of a file is minted, and then the container is told.              *)
reloadTestFile(p) ==
  /\ mint(p)
  /\ task' = [at |-> "waiting", path |-> p, run |-> minted + 1]
  /\ down' = IF connected
             THEN Append(down, [type |-> "reload", path |-> p,
                                run |-> minted + 1])
             ELSE down
  /\ UNCHANGED <<faults, hostVars, first, wanted, fatalError, epoch, connected,
                 up, pageVars>>

(* Unless the cycle has failed or the file is gone, it is reloaded; before   *)
(* that, the coverage session is started, which may take a while.            *)
NextFile ==
  LET p == Head(scope) IN
  /\ scope # <<>> /\ task.at = "idle" /\ minted < MaxRuns
  /\ scope' = Tail(scope)
  /\ \/ ~fatalError /\ p \in files /\ reloadTestFile(p)
     \/ /\ \/ (fatalError \/ p \notin files) /\ UNCHANGED <<task, faults>>
           \/ /\ ~fatalError /\ p \in files /\ Strikes("coverage")
              /\ task' = [at |-> "starting", path |-> p, run |-> 0]
        /\ UNCHANGED <<hostVars, runVars, first, wanted, fatalError, wireVars,
                       pageVars>>

CoverageStarted ==
  task.at = "starting" /\ reloadTestFile(task.path) /\ UNCHANGED scope

(* Mutant of FileEnds: the next file is started once the run is claimed.     *)
FileAnswers ==
  /\ task.at = "waiting" /\ runs[task.run].phase # "open"
  /\ task' = Idle
  /\ scope' = IF runs[task.run].outcome = "failed" THEN <<>> ELSE scope
  /\ UNCHANGED <<faults, hostVars, runVars, first, wanted, fatalError,
                 wireVars, pageVars>>

(* A run that fails ends the cycle.                                          *)
FileEnds ==
  /\ task.at = "waiting" /\ runs[task.run].phase = "gone"
  /\ task' = Idle
  /\ scope' = IF runs[task.run].outcome = "failed" THEN <<>> ELSE scope
  /\ UNCHANGED <<faults, hostVars, runVars, first, wanted, fatalError,
                 wireVars, pageVars>>

-----------------------------------------------------------------------------
(* A rebuild (runDispatchRerunOnce): the host's configuration is sent again  *)
(* while the entries are collected; the plan is committed: the runs of files *)
(* that are gone are settled, and the container is told; its frames are      *)
(* awaited, and the cycle is signalled.  A changed set is run whole, else    *)
(* what is affected is.                                                      *)
Rebuilds ==
  /\ ~first /\ rerun.at = "idle" /\ rerun.count < MaxRebuilds
  /\ faults + rerun.count < MaxTrouble
  /\ rerun' = [at |-> "refreshing", need |-> 0, count |-> rerun.count + 1]
  /\ down' = IF connected THEN Append(down, [type |-> "config"]) ELSE down
  /\ UNCHANGED <<faults, files, version, acked, affected, runVars, cycleVars,
                 epoch, connected, up, pageVars>>

Commit(new, some) ==
  /\ rerun.at = "refreshing" /\ [type |-> "config"] \notin ToSet(down)
  /\ IF new = files
     THEN /\ some # {} /\ wanted' = wanted \cup some
          /\ rerun' = [rerun EXCEPT !.at = "idle"]
          /\ UNCHANGED <<files, version, runs, down, affected>>
     ELSE /\ some = new
          /\ files' = new /\ version' = version + 1
          /\ retainPaths(new)
          /\ affected' = new
          /\ down' = IF connected
                     THEN Append(down, [type |-> "files", files |-> new,
                                        version |-> version + 1])
                     ELSE down
          /\ rerun' = [rerun EXCEPT !.at = "notifying", !.need = version + 1]
          /\ UNCHANGED wanted
  /\ UNCHANGED <<faults, acked, minted, first, scope, task, fatalError, epoch,
                 connected, up, pageVars>>

Notified ==
  /\ rerun.at = "notifying"
  /\ \A i \in DOMAIN down :
       down[i].type = "files" => down[i].version < rerun.need
  /\ rerun' = [rerun EXCEPT !.at = "waiting"]
  /\ UNCHANGED <<faults, files, version, acked, affected, runVars, cycleVars,
                 wireVars, pageVars>>

(* When the wait times out, nothing is signalled.                            *)
FramesReady ==
  /\ rerun.at = "waiting"
  /\ \/ /\ files = {} \/ acked >= rerun.need
        /\ wanted' = wanted \cup affected /\ UNCHANGED faults
     \/ /\ files # {} /\ acked < rerun.need /\ Passes
        /\ UNCHANGED wanted
  /\ rerun' = [rerun EXCEPT !.at = "idle"] /\ affected' = {}
  /\ UNCHANGED <<files, version, acked, runVars, first, scope, task,
                 fatalError, wireVars, pageVars>>

-----------------------------------------------------------------------------
(* The transport.  When it closes, pending calls fail; the page may be gone, *)
(* or connect again with what it has.                                        *)
Disconnect ==
  /\ connected' = FALSE /\ down' = <<>> /\ up' = <<>>
  /\ rejectAll
  /\ CallsFail
  /\ UNCHANGED <<files, version, acked, affected, minted, cycleVars, epoch>>

Drops ==
  connected /\ epoch < MaxEpoch /\ Strikes("drop") /\ Disconnect
    /\ UNCHANGED pageVars

PageReloads ==
  connected /\ epoch < MaxEpoch /\ Strikes("reload") /\ Disconnect /\ NoPage

(* A transport is attached, perhaps before the one it replaces has closed:   *)
(* the container asks for the file set, and acks what it shows.              *)
Attach ==
  /\ ~Frozen /\ epoch < MaxEpoch
  /\ epoch' = epoch + 1 /\ connected' = TRUE
  /\ setTransportEpoch(epoch + 1)
  /\ down' = <<>> /\ applied' = 0
  /\ up' = <<[type |-> "getTestFiles"]>> \o
       (IF shown.version = 0 THEN <<>>
        ELSE <<[type |-> "ready", version |-> shown.version]>>)
  /\ IF connected THEN CallsFail ELSE UNCHANGED rerun
  /\ UNCHANGED <<files, version, acked, affected, minted, cycleVars, set,
                 shown, dirty, effects, lease, doc>>

Connect == ~connected /\ Attach /\ UNCHANGED faults
Replaces == connected /\ Attach /\ Strikes("replace")

-----------------------------------------------------------------------------
(* The container.                                                            *)
Sends(messages) == up' = IF connected THEN up \o messages ELSE up

ContainerReceives ==
  LET m == Head(down) IN
  /\ down # <<>> /\ ~Frozen
  /\ down' = Tail(down)
  /\ \/ /\ m.type = "files" /\ m.version > applied
        /\ applied' = m.version /\ dirty' = "files"
        /\ set' = [files |-> m.files, version |-> m.version]
        /\ UNCHANGED lease
     \/ /\ m.type = "files" => m.version <= applied
        /\ m.type # "reload"
        /\ UNCHANGED <<applied, dirty, set, lease>>
     \/ /\ m.type = "reload"
        /\ lease' = [lease EXCEPT ![m.path] = m.run]
        /\ dirty' = IF dirty = "no" THEN "lease" ELSE dirty
        /\ UNCHANGED <<applied, set>>
  /\ UNCHANGED <<faults, hostVars, runVars, cycleVars, epoch, connected, up,
                 shown, effects, doc>>

(* A frame whose lease is new gets a new document.                           *)
Render ==
  /\ dirty # "no" /\ ~Frozen
  /\ dirty' = "no" /\ shown' = set /\ effects' = (effects \/ dirty = "files")
  /\ doc' = [p \in Paths |->
       IF p \notin set.files \/ lease[p] = 0 THEN Blank
       ELSE IF lease[p] # doc[p].run
       THEN [run |-> lease[p], at |-> "loading"] ELSE doc[p]]
  /\ UNCHANGED <<faults, hostVars, runVars, cycleVars, wireVars, set, applied,
                 lease>>

(* Mutant of Effects: every lease is dropped with a new file set.            *)
EffectsOfAll ==
  /\ effects /\ ~Frozen
  /\ effects' = FALSE
  /\ lease' = [p \in Paths |-> 0]
  /\ dirty' = IF dirty = "no" THEN "lease" ELSE dirty
  /\ Sends(<<[type |-> "ready", version |-> shown.version]>>)
  /\ UNCHANGED <<faults, hostVars, runVars, cycleVars, epoch, connected, down,
                 set, applied, shown, doc>>

(* Leases of files that are gone are dropped, and the frames are announced.  *)
Effects ==
  /\ effects /\ ~Frozen
  /\ effects' = FALSE
  /\ lease' = [p \in Paths |-> IF p \in shown.files THEN lease[p] ELSE 0]
  /\ dirty' = IF dirty = "no" THEN "lease" ELSE dirty
  /\ Sends(<<[type |-> "ready", version |-> shown.version]>>)
  /\ UNCHANGED <<faults, hostVars, runVars, cycleVars, epoch, connected, down,
                 set, applied, shown, doc>>

-----------------------------------------------------------------------------
(* The document of a frame (client/runner.ts).                               *)
Goes(p, to, messages) ==
  /\ ~Frozen
  /\ doc' = [doc EXCEPT ![p].at = to]
  /\ Sends(messages)
  /\ UNCHANGED <<hostVars, runVars, cycleVars, epoch, connected, down, set,
                 applied, shown, dirty, effects, lease>>

Says(p, what) == [type |-> what, run |-> doc[p].run]

(* It runs the tests if its frame still has the lease it was mounted for.    *)
Load(p) ==
  /\ doc[p].at = "loading"
  /\ IF lease[p] = doc[p].run THEN Goes(p, "running", <<Says(p, "start")>>)
     ELSE Goes(p, "blank", <<>>)
  /\ UNCHANGED faults

(* It waits for the host to know of its clean-up.                            *)
TestsEnd(p) ==
  /\ doc[p].at = "running" /\ UNCHANGED faults
  /\ Goes(p, "announced", <<Says(p, "cleanup")>>)

Announced(p) ==
  doc[p].at = "announced" /\ Says(p, "cleanup") \notin ToSet(up)

CleanupEnds(p) ==
  /\ Announced(p) /\ UNCHANGED faults
  /\ IF connected /\ Live(doc[p].run)
     THEN Goes(p, "over", <<Says(p, "cleaned"), Says(p, "complete")>>)
     ELSE Goes(p, "over", <<Says(p, "fatal")>>)

Fails(p) ==
  /\ doc[p].at = "running" /\ Strikes("fatal")
  /\ Goes(p, "over", <<Says(p, "fatal")>>)

(* A clean-up that blocks freezes the whole page.                            *)
Wedges(p) ==
  /\ Announced(p) /\ connected /\ Live(doc[p].run) /\ Strikes("wedge")
  /\ Goes(p, "wedged", <<>>)

HotReloads(p) ==
  /\ doc[p].at \in {"running", "announced", "over"} /\ Strikes("hmr")
  /\ Goes(p, "loading", <<>>)

-----------------------------------------------------------------------------
(* The host's one inbound gate.                                              *)
markFrameSetReady(v) ==
  acked' = IF v <= version /\ v > acked THEN v ELSE acked

(* Mutant of admit: no deadline for the clean-up that is announced.          *)
admitUntimed(m) ==
  LET run == runs[m.run]
      terminal == m.type \in {"complete", "fatal"}
      claims == terminal /\ run.phase = "open"
  IN  runs' = IF ~Live(m.run) THEN runs
        ELSE [runs EXCEPT ![m.run] =
          [run EXCEPT
             !.boot = FALSE,
             !.phase = IF claims THEN "claimed" ELSE @,
             !.handler = IF claims THEN m.type ELSE @]]

admit(m) ==
  LET run == runs[m.run]
      terminal == m.type \in {"complete", "fatal"}
      claims == terminal /\ run.phase = "open"
  IN  runs' = IF ~Live(m.run) THEN runs
        ELSE [runs EXCEPT ![m.run] =
          [run EXCEPT
             !.boot = FALSE,
             !.phase = IF claims THEN "claimed" ELSE @,
             !.handler = IF claims THEN m.type ELSE @,
             !.cleanup = IF m.type = "cleanup" /\ run.phase = "open" THEN TRUE
                         ELSE IF m.type = "cleaned" THEN FALSE ELSE @]]

HostReceives ==
  LET m == Head(up) IN
  /\ up # <<>>
  /\ up' = Tail(up)
  /\ \/ /\ m.type = "getTestFiles"
        /\ down' = Append(down, [type |-> "files", files |-> files,
                                 version |-> version])
        /\ UNCHANGED <<acked, runs>>
     \/ /\ m.type = "ready" /\ markFrameSetReady(m.version)
        /\ UNCHANGED <<down, runs>>
     \/ /\ m.type \notin {"getTestFiles", "ready"} /\ admit(m)
        /\ UNCHANGED <<down, acked>>
  /\ UNCHANGED <<faults, files, version, rerun, affected, minted, cycleVars,
                 epoch, connected, pageVars>>

-----------------------------------------------------------------------------
Rerun ==
  \/ Notified \/ FramesReady
  \/ \E new \in SUBSET Paths : \E some \in SUBSET new : Commit(new, some)
Cycles == StartFirst \/ FirstEnds \/ StartCycle \/ NextFile
            \/ CoverageStarted \/ FileEnds
Wire == Connect \/ ContainerReceives \/ HostReceives
Container == Render \/ Effects
Document(p) == Load(p) \/ TestsEnd(p) \/ CleanupEnds(p)
Registry(r) == RecoverLoaded(r) \/ HandlerEnds(r)
Deadlines ==
  \/ FirstTimesOut
  \/ \E r \in RunIds :
       \/ BootDeadline(r) \/ CleanupDeadline(r) \/ RecoverTimesOut(r)

Next ==
  \/ Cycles \/ Wire \/ Container \/ Deadlines \/ Rerun
  \/ \E p \in Paths : Document(p) \/ Fails(p) \/ Wedges(p) \/ HotReloads(p)
  \/ \E r \in RunIds : Registry(r)
  \/ Rebuilds \/ Drops \/ PageReloads \/ Replaces

Spec == Init /\ [][Next]_vars

(* As long as something that is under way can go on, something does.         *)
GoesOn ==
  \/ Cycles \/ Wire \/ Container \/ Deadlines \/ Rerun
  \/ \E p \in Paths : Document(p)
  \/ \E r \in RunIds : Registry(r)

FairSpec == Spec /\ WF_vars(GoesOn)

-----------------------------------------------------------------------------
(* Properties.                                                               *)

(* A run is settled by one settler, and its outcome is the truth: when its   *)
(* last message was admitted, or the deadline of its clean-up claimed it,    *)
(* its handler reports its file, once, and settles it; when it was swept or  *)
(* never booted, nothing is reported of it (headedRunRegistry.ts).           *)
SettledWithTheTruth ==
  \A r \in RunIds :
    /\ runs[r].recorded <= 1
    /\ runs[r].outcome = "handled" => runs[r].recorded = 1
    /\ runs[r].outcome = "obsolete" => runs[r].recorded = 0
    /\ runs[r].phase = "claimed" <=> runs[r].handler # "none"

(* Files run one after another: one run is live at most, the one the cycle   *)
(* waits for.                                                                *)
OneAtATime ==
  \A r \in RunIds : Live(r) => task.at = "waiting" /\ task.run = r

(* One file at a time, and one outcome for each.                             *)
RunsAreSettledOnce == SettledWithTheTruth /\ OneAtATime

(* An open run is one of a file of the committed set: "closes every open run *)
(* whose path left the committed set" (retainPaths), and a file whose frame  *)
(* is gone is granted none (enqueueHeadedReload) - unless the set changed    *)
(* while the coverage session of the file was being started.                 *)
OpenRunsAreCommitted ==
  \A r \in RunIds :
    runs[r].phase = "open" => runs[r].path \in files \/ runs[r].when = "late"

(* An open run that was delivered to the container has its frame's lease, if *)
(* it was minted in time: no other run, and no effect of an older file set,  *)
(* has taken it away.                                                        *)
OpenRunsAreLeased ==
  \A r \in RunIds :
    /\ runs[r].phase = "open" /\ runs[r].when = "in time"
    /\ connected /\ runs[r].epoch = epoch
    /\ \A i \in DOMAIN down : down[i].type # "reload"
    => lease[runs[r].path] = r

(* So a run that the cycle waits for can complete.                           *)
OpenRunsCanComplete == OpenRunsAreCommitted /\ OpenRunsAreLeased

(* A cycle ends, a rebuild is planned to its end, and a run is settled,      *)
(* whatever the container and its documents do; but a rebuild may wait for a *)
(* page that stays frozen.                                                   *)
CyclesEnd ==
  <>[](/\ (wanted = {} /\ scope = <<>>) \/ minted = MaxRuns
       /\ rerun.at = "idle" \/ Frozen
       /\ \A r \in RunIds : ~Live(r))

(* "Exactly one of `signalInvalidation` / `logWatchReady` must run on every  *)
(* exit path": every rebuild's rerun comes to its end.  (Not so: the calls   *)
(* to the container have no deadline, and a page that is frozen by the       *)
(* clean-up of a run that was settled meanwhile answers none.)               *)
RebuildsEnd == rerun.at # "idle" ~> rerun.at = "idle"
=============================================================================
