---------------------------- MODULE HeadlessRuns ----------------------------
(***************************************************************************)
(* Test files in headless pages (browser/src/headlessScheduler.ts): the    *)
(* runs of a watch session, one per cycle of core, their tokens and        *)
(* cancellation (runSession.ts), the workers of a run, each with a page    *)
(* for its next file or batch of files, the messages of the pages, the     *)
(* deadlines of clean-ups, and what is recorded (hostController.ts).       *)
(*                                                                         *)
(* A slot is a worker of a run.  Its messages are handled one at a time,   *)
(* each to the end of the reporters' hooks; requests of a page are handled *)
(* as they come.  An operation of the browser ends, be it by the driver's  *)
(* time-out, and so does a test; a clean-up may hang.                      *)
(***************************************************************************)
EXTENDS Integers, Sequences, SequencesExt, FiniteSets, FiniteSetsExt,
        Functions

CONSTANTS
  Files,        \* the test files of every run, in order
  MaxRuns,      \* bound: the runs of a session
  Options,      \* the configurations a session may have and, as bounds of
                \* it, its runs, how often something goes wrong and the
                \* cases of a file that may fail
  Faults        \* what may go wrong: a subset of FaultKinds

FaultKinds == {"context", "crash", "fatal", "hang", "hook"}

BusyMarks == {"no", "event", "coverage", "collect"}

HeadlessAssumption ==
  /\ Files \in Seq(STRING) /\ IsInjective(Files)
  /\ ToSet(Files) \cap BusyMarks = {}
  /\ MaxRuns \in Nat \ {0}
  /\ Options \subseteq [isolate : BOOLEAN, workers : Nat \ {0}, bail : Nat,
                   runs : 1 .. MaxRuns, faults : Nat, cases : Nat]
  /\ Faults \subseteq FaultKinds

VARIABLES
  faults,                    \* how often something went wrong
  options,                   \* the configuration: never changes
  cycle, phase, wanted,      \* core: its cycle, how far it is, is one queued
  recorded,                  \* stateManager: testModules of this cycle,
  running,                   \* and of runningModules the failed cases
  reports,                   \* results recorded of each file of each run
  fatalError,                \* fatalErrorRef
  token, active,             \* RunSessionLifecycle
  tokenOf, queue,            \* of each run
  cancelled,                 \* of each run, and what it was cancelled for
  at, batch,                 \* of each slot: how far runWorkerFiles is
  settled, ended, completed, \* settled; "done" or "crash"; completedFiles
  timer, overdue,            \* the deadline that runs; the one that has passed
  page, position, closing,   \* the page of a slot, and the failed cases
  cases,                     \* of its file
  mail, busy                 \* its dispatchQueue and the message handled

coreVars == <<cycle, phase, wanted, recorded, running, reports, fatalError>>
runVars == <<token, active, tokenOf, queue, cancelled>>
slotVars == <<at, batch, settled, ended, completed>>
timerVars == <<timer, overdue>>
pageVars == <<page, position, closing, cases>>
mailVars == <<mail, busy>>
vars == <<faults, options, coreVars, runVars, slotVars, timerVars, pageVars,
          mailVars>>

Runs == 1 .. MaxRuns
Slots == Runs \X (1 .. Len(Files))
RunOf(s) == s[1]
SlotsOf(r) == {s \in Slots : RunOf(s) = r}
FileSet == ToSet(Files)

Statuses == {"pass", "fail", "skip"}
Messages ==
  [type : {"file"}, file : FileSet, status : Statuses, counts : Nat]
    \cup [type : {"start", "case"}, file : FileSet]
    \cup [type : {"complete", "fatal"}]
Sources == {"page", "deadline", "bail"}
Records == [run : Runs, file : FileSet, status : Statuses, counts : Nat,
            source : Sources]

TypeOK ==
  /\ options \in Options /\ faults \in 0 .. options.faults
  /\ cycle \in 0 .. MaxRuns /\ wanted \in BOOLEAN
  /\ phase \in {"idle", "starting", "cancelling", "running"}
  /\ recorded \subseteq Records /\ \A f \in FileSet : running[f] \in Nat
  /\ active \in 0 .. MaxRuns /\ fatalError \in BOOLEAN
  /\ \A r \in Runs :
       /\ tokenOf[r] \in 0 .. token
       /\ cancelled[r] \in {"no", "superseded", "failed"}
       /\ ToSet(queue[r]) \subseteq FileSet
       /\ \A f \in FileSet : reports[r][f] \in Nat
  /\ \A s \in Slots :
       /\ at[s] \in {"none", "free", "draining", "context", "opening",
                     "racing", "failing", "cancelling", "closing", "over",
                     "rejected"}
       /\ ended[s] \in {"no", "done", "crash"} /\ settled[s] \in BOOLEAN
       /\ completed[s] \subseteq ToSet(batch[s])
       /\ timer[s] \in {"off", "file", "worker"}
       /\ overdue[s] \in {"no", "file", "worker"}
       /\ page[s] \in {"none", "load", "test", "cleanup", "worker", "over",
                       "dead", "closed"}
       /\ closing[s] \in BOOLEAN /\ cases[s] \in Nat
       /\ ToSet(mail[s]) \subseteq Messages
       /\ busy[s] \in BusyMarks \cup FileSet

Init ==
  /\ options \in Options /\ faults = 0
  /\ cycle = 0 /\ phase = "idle" /\ wanted = TRUE
  /\ recorded = {} /\ fatalError = FALSE
  /\ running = [f \in FileSet |-> 0]
  /\ reports = [r \in Runs |-> [f \in FileSet |-> 0]]
  /\ token = 0 /\ active = 0
  /\ tokenOf = [r \in Runs |-> 0] /\ cancelled = [r \in Runs |-> "no"]
  /\ queue = [r \in Runs |-> <<>>]
  /\ at = [s \in Slots |-> "none"] /\ batch = [s \in Slots |-> <<>>]
  /\ settled = [s \in Slots |-> FALSE] /\ ended = [s \in Slots |-> "no"]
  /\ completed = [s \in Slots |-> {}]
  /\ timer = [s \in Slots |-> "off"] /\ overdue = [s \in Slots |-> "no"]
  /\ page = [s \in Slots |-> "none"] /\ position = [s \in Slots |-> 0]
  /\ closing = [s \in Slots |-> FALSE] /\ cases = [s \in Slots |-> 0]
  /\ mail = [s \in Slots |-> <<>>] /\ busy = [s \in Slots |-> "no"]

(* Something goes wrong, as often as the session's bound allows.             *)
Strikes(fault) ==
  /\ fault \in Faults /\ faults < options.faults
  /\ faults' = faults + 1

-----------------------------------------------------------------------------
(* Runs and their tokens.                                                    *)
TokenKept(r) == FALSE

isTokenStale(r) == tokenOf[r] # token

IsCancelled(r) == cancelled[r] # "no"
Abandoned(r) == IsCancelled(r) \/ isTokenStale(r)

HasContext(s) ==
  at[s] \in {"opening", "racing", "failing", "cancelling"}
Gone(s) == page[s] \in {"none", "closed"}

(* Cancelling a run closes the contexts it has at that moment.               *)
Cancel(r, reason) ==
  /\ cancelled' = [cancelled EXCEPT ![r] = IF @ = "no" THEN reason ELSE @]
  /\ closing' =
       [s \in Slots |-> closing[s] \/ /\ ~IsCancelled(r) /\ RunOf(s) = r
                                      /\ HasContext(s)]

ContextsClosed(r) == \A s \in SlotsOf(r) : closing[s] => Gone(s)

Over(s) == at[s] \in {"none", "over", "rejected"}
DoneSettled(r) ==
  \/ \A s \in SlotsOf(r) : Over(s)
  \/ \E s \in SlotsOf(r) : at[s] = "rejected"

-----------------------------------------------------------------------------
(* Core runs one cycle after another.  A cycle starts with a state that is   *)
(* reset, tells the reporters, and then asks for the run.                    *)
StartCycle ==
  /\ phase = "idle" /\ wanted /\ cycle < options.runs
  /\ cycle' = cycle + 1 /\ phase' = "starting" /\ wanted' = FALSE
  /\ recorded' = {} /\ running' = [f \in FileSet |-> 0]
  /\ UNCHANGED <<faults, options, reports, fatalError, runVars, slotVars,
                 timerVars, pageVars, mailVars>>

CreateSession ==
  /\ token' = token + 1
  /\ active' = cycle
  /\ tokenOf' = [tokenOf EXCEPT ![cycle] = token + 1]
  /\ queue' = [queue EXCEPT ![cycle] = Files]
  /\ at' = [s \in Slots |->
       IF RunOf(s) = cycle /\ s[2] <= options.workers THEN "free" ELSE at[s]]
  /\ phase' = "running"

RunFiles ==
  /\ phase = "starting"
  /\ fatalError' = FALSE
  /\ IF active = 0
     THEN CreateSession /\ UNCHANGED <<cancelled, closing>>
     ELSE /\ phase' = "cancelling" /\ Cancel(active, "superseded")
          /\ UNCHANGED <<token, active, tokenOf, queue, at>>
  /\ UNCHANGED <<faults, options, cycle, wanted, recorded, running, reports,
                 batch, settled, ended, completed, timerVars, page, position,
                 cases, mailVars>>

RunReplaced ==
  /\ phase = "cancelling" /\ ContextsClosed(active) /\ DoneSettled(active)
  /\ CreateSession
  /\ UNCHANGED <<faults, options, cycle, wanted, recorded, running, reports,
                 fatalError, cancelled, batch, settled, ended, completed,
                 timerVars, pageVars, mailVars>>

(* run.done settles when all workers are over, or as soon as one rejects; in *)
(* that case the session stays the active one.                               *)
RunEnds ==
  /\ phase = "running" /\ DoneSettled(cycle)
  /\ phase' = "idle"
  /\ active' = IF \E s \in SlotsOf(cycle) : at[s] = "rejected"
               THEN active ELSE 0
  /\ UNCHANGED <<faults, options, cycle, wanted, recorded, running, reports,
                 fatalError, token, tokenOf, cancelled, queue, slotVars,
                 timerVars, pageVars, mailVars>>

(* A rebuild with files to run invalidates the token, cancels the run        *)
(* without closing its contexts, and queues a cycle.                         *)
Interrupt ==
  /\ cycle \in 1 .. options.runs - 1 /\ ~wanted
  /\ wanted' = TRUE
  /\ IF active # 0 /\ ~IsCancelled(active)
     THEN /\ token' = token + 1
          /\ cancelled' = [cancelled EXCEPT ![active] = "superseded"]
     ELSE UNCHANGED <<token, cancelled>>
  /\ UNCHANGED <<faults, options, cycle, phase, recorded, running, reports,
                 fatalError, active, tokenOf, queue, slotVars, timerVars,
                 pageVars, mailVars>>

-----------------------------------------------------------------------------
(* What is recorded: handleTestFileComplete.  A result counts as many failed *)
(* tests as cases of it failed; one without cases, by its status.            *)
Record(r, f, status, counts, source) ==
  /\ recorded' = recorded \cup
       {[run |-> r, file |-> f, status |-> status, counts |-> counts,
         source |-> source]}
  /\ running' = [running EXCEPT ![f] = 0]
  /\ reports' = [reports EXCEPT ![r][f] = @ + 1]

(* The count that bail looks at, getCountOfFailedTests.  Without bail it has *)
(* no use, and the messages of a file's start and its cases are left out.    *)
FailedTestsOfRunning == SumFunction(running)

FailedTests ==
  SumFunction(running) + SumFunction([x \in recorded |-> x.counts])

-----------------------------------------------------------------------------
(* A worker of a run (runFilesWithPool, runWorkerFiles).                     *)
BatchOf(r) ==
  LET size == (Len(Files) + options.workers - 1) \div options.workers
      n == IF options.isolate \/ options.bail > 0 THEN 1 ELSE size
  IN  SubSeq(queue[r], 1, Min({n, Len(queue[r])}))

PickNext(s) ==
  LET r == RunOf(s) IN
  /\ at[s] = "free" /\ queue[r] # <<>> /\ ~Abandoned(r)
  /\ IF options.bail > 0 /\ FailedTests >= options.bail
     THEN at' = [at EXCEPT ![s] = "draining"] /\ UNCHANGED <<queue, batch>>
     ELSE /\ at' = [at EXCEPT ![s] = "context"]
          /\ batch' = [batch EXCEPT ![s] = BatchOf(r)]
          /\ queue' = [queue EXCEPT ![r] =
                         SubSeq(@, Len(BatchOf(r)) + 1, Len(@))]
  /\ UNCHANGED <<faults, options, coreVars, token, active, tokenOf, cancelled,
                 settled, ended, completed, timerVars, pageVars, mailVars>>

(* Bail: what is left is recorded as skipped, whatever becomes of the run.   *)
Drain(s) ==
  LET r == RunOf(s) IN
  /\ at[s] = "draining"
  /\ IF queue[r] = <<>>
     THEN /\ at' = [at EXCEPT ![s] = "over"]
          /\ UNCHANGED <<queue, recorded, running, reports>>
     ELSE /\ Record(r, Head(queue[r]), "skip", 0, "bail")
          /\ queue' = [queue EXCEPT ![r] = Tail(@)]
          /\ UNCHANGED at
  /\ UNCHANGED <<faults, options, cycle, phase, wanted, fatalError, token,
                 active, tokenOf, cancelled, batch, settled, ended, completed,
                 timerVars, pageVars, mailVars>>

WorkerEnds(s) ==
  /\ at[s] = "free" /\ (queue[RunOf(s)] = <<>> \/ Abandoned(RunOf(s)))
  /\ at' = [at EXCEPT ![s] = "over"]
  /\ UNCHANGED <<faults, options, coreVars, runVars, batch, settled, ended,
                 completed, timerVars, pageVars, mailVars>>

ContextOpens(s) ==
  /\ at[s] = "context"
  /\ at' = [at EXCEPT ![s] = "opening"]
  /\ page' = [page EXCEPT ![s] = "load"]
  /\ position' = [position EXCEPT ![s] = 1]
  /\ UNCHANGED <<faults, options, coreVars, runVars, batch, settled, ended,
                 completed, timerVars, closing, cases, mailVars>>

ContextFails(s) ==
  /\ at[s] = "context" /\ Strikes("context")
  /\ at' = [at EXCEPT ![s] = "rejected"]
  /\ UNCHANGED <<options, coreVars, runVars, batch, settled, ended, completed,
                 timerVars, pageVars, mailVars>>

(* A step of runWorkerFiles that changes nothing but how far it is.          *)
Goes(s, to) ==
  /\ at' = [at EXCEPT ![s] = to]
  /\ UNCHANGED <<faults, options, coreVars, runVars, batch, settled, ended,
                 completed, timerVars, pageVars, mailVars>>

(* The page of a run that is abandoned is closed in the background.          *)
Leave(s) ==
  /\ at' = [at EXCEPT ![s] = IF Abandoned(RunOf(s)) THEN "free" ELSE "closing"]
  /\ closing' = [closing EXCEPT ![s] = TRUE]
  /\ timer' = [timer EXCEPT ![s] = "off"]
  /\ UNCHANGED <<faults, options, coreVars, runVars, batch, settled, ended,
                 completed, overdue, page, position, cases, mailVars>>

Fails(s) == IF Abandoned(RunOf(s)) THEN Leave(s) ELSE Goes(s, "failing")

(* page.goto: the page's client may run, and end, before it returns.         *)
Goto(s) ==
  /\ at[s] = "opening"
  /\ IF page[s] \in {"dead", "closed"} THEN Fails(s) ELSE Goes(s, "racing")

RaceToTheEnd(s) ==
  /\ at[s] = "racing"
  /\ \/ ended[s] = "done" /\ Leave(s)
     \/ ended[s] = "crash" /\ Fails(s)

Race(s) ==
  /\ at[s] = "racing"
  /\ \/ (ended[s] = "done" \/ IsCancelled(RunOf(s))) /\ Leave(s)
     \/ ended[s] = "crash" /\ Fails(s)

(* Once the coverage of the run is collected.                                *)
FailRun(s) ==
  /\ at[s] = "failing"
  /\ fatalError' = TRUE
  /\ Cancel(RunOf(s), "failed")
  /\ at' = [at EXCEPT ![s] = "cancelling"]
  /\ UNCHANGED <<faults, options, cycle, phase, wanted, recorded, running,
                 reports, token, active, tokenOf, queue, batch, settled, ended,
                 completed, timerVars, page, position, cases, mailVars>>

RunCancelled(s) ==
  at[s] = "cancelling" /\ ContextsClosed(RunOf(s)) /\ Leave(s)

(* The batch is over, its variables with it: what its page still sent is     *)
(* dropped, for the batch is settled.                                        *)
PageIsClosed(s) ==
  /\ at[s] = "closing" /\ Gone(s)
  /\ at' = [at EXCEPT ![s] = "free"]
  /\ batch' = [batch EXCEPT ![s] = <<>>]
  /\ settled' = [settled EXCEPT ![s] = FALSE]
  /\ ended' = [ended EXCEPT ![s] = "no"]
  /\ completed' = [completed EXCEPT ![s] = {}]
  /\ page' = [page EXCEPT ![s] = "none"]
  /\ position' = [position EXCEPT ![s] = 0]
  /\ closing' = [closing EXCEPT ![s] = FALSE]
  /\ cases' = [cases EXCEPT ![s] = 0]
  /\ mail' = [mail EXCEPT ![s] = <<>>]
  /\ UNCHANGED <<faults, options, coreVars, runVars, timerVars, busy>>

-----------------------------------------------------------------------------
(* The page.                                                                 *)
Dies(s, how) ==
  /\ page' = [page EXCEPT ![s] = how]
  /\ IF settled[s] \/ Abandoned(RunOf(s)) THEN UNCHANGED <<settled, ended>>
     ELSE /\ settled' = [settled EXCEPT ![s] = TRUE]
          /\ ended' = [ended EXCEPT ![s] = "crash"]
  /\ UNCHANGED <<options, coreVars, runVars, at, batch, completed, timerVars,
                 position, closing, cases, mailVars>>

PageCloses(s) ==
  closing[s] /\ ~Gone(s) /\ Dies(s, "closed") /\ UNCHANGED faults

PageCrashes(s) ==
  /\ page[s] \notin {"none", "dead", "closed"} /\ Dies(s, "dead")
  /\ Strikes("crash")

(* The client, client/runner.ts: for each of its files, the tests, the       *)
(* clean-up of the file and, after the last, of the worker, each announced   *)
(* by a request, and then the file's result.                                 *)
Sends(s, messages, next) ==
  /\ mail' = [mail EXCEPT ![s] = @ \o messages]
  /\ page' = [page EXCEPT ![s] = next]

Handled(s) == at[s] \in {"opening", "racing", "failing", "cancelling"}
Arm(s, which) ==
  timer' = [timer EXCEPT ![s] = IF Handled(s) THEN which ELSE @]

Fatal == <<[type |-> "fatal"]>>

Event(s, type) ==
  IF options.bail > 0
  THEN <<[type |-> type, file |-> batch[s][position[s]]]>> ELSE <<>>

Load(s) ==
  /\ page[s] = "load"
  /\ \/ Sends(s, Event(s, "start"), "test") /\ UNCHANGED faults
     \/ /\ \E sent \in {<<>>, Event(s, "start")} :
             Sends(s, sent \o Fatal, "over")
        /\ Strikes("fatal")
  /\ UNCHANGED <<options, coreVars, runVars, slotVars, timerVars, position,
                 closing, cases, busy>>

(* Whether its tests fail matters to bail only.                              *)
CaseFails(s) ==
  /\ page[s] = "test" /\ options.bail > 0 /\ cases[s] < options.cases
  /\ Sends(s, Event(s, "case"), "test")
  /\ cases' = [cases EXCEPT ![s] = @ + 1]
  /\ UNCHANGED <<faults, options, coreVars, runVars, slotVars, timerVars,
                 position, closing, busy>>

RunTests(s) ==
  /\ page[s] = "test"
  /\ IF isTokenStale(RunOf(s))
     THEN Sends(s, Fatal, "over") /\ UNCHANGED timer
     ELSE Sends(s, <<>>, "cleanup") /\ Arm(s, "file")
  /\ UNCHANGED <<faults, options, coreVars, runVars, slotVars, overdue,
                 position, closing, cases, busy>>

(* A result and what the count makes of it.  A clean-up, a hook or an error  *)
(* nobody caught fails a file whose cases passed, which counts for none; no  *)
(* case at all, for one.                                                     *)
Counts(s) ==
  CASE cases[s] > 0 -> {cases[s]}
    [] cases[s] = 0 /\ options.bail > 0 -> {0, 1}
    [] OTHER -> {0}

Passes(s) == IF cases[s] = 0 THEN {<<"pass", 0>>} ELSE {}
Outcomes(s) ==
  Passes(s) \cup IF options.bail = 0 THEN {} ELSE {"fail"} \X Counts(s)
Result(s, outcome) ==
  [type |-> "file", file |-> batch[s][position[s]], status |-> outcome[1],
   counts |-> outcome[2]]

CleanupEnds(s) ==
  LET last == position[s] = Len(batch[s]) IN
  /\ page[s] = "cleanup"
  /\ \/ /\ isTokenStale(RunOf(s))
        /\ Sends(s, Fatal, "over") /\ UNCHANGED <<timer, position>>
     \/ /\ ~isTokenStale(RunOf(s)) /\ last
        /\ Sends(s, <<>>, "worker") /\ Arm(s, "worker") /\ UNCHANGED position
     \/ /\ ~isTokenStale(RunOf(s)) /\ ~last
        /\ \E outcome \in Outcomes(s) :
             Sends(s, <<Result(s, outcome)>>, "test")
        /\ Arm(s, "off")
        /\ position' = [position EXCEPT ![s] = @ + 1]
  /\ UNCHANGED <<faults, options, coreVars, runVars, slotVars, overdue,
                 closing, cases, busy>>

WorkerCleanupEnds(s) ==
  /\ page[s] = "worker"
  /\ \E outcome \in Outcomes(s) :
       Sends(s, <<Result(s, outcome), [type |-> "complete"]>>, "over")
  /\ IF isTokenStale(RunOf(s)) THEN UNCHANGED timer ELSE Arm(s, "off")
  /\ UNCHANGED <<faults, options, coreVars, runVars, slotVars, overdue,
                 position, closing, cases, busy>>

-----------------------------------------------------------------------------
(* The messages of a page, one after the other.                              *)
MarkDone(s) ==
  /\ settled' = [settled EXCEPT ![s] = TRUE]
  /\ ended' = [ended EXCEPT ![s] = IF settled[s] THEN @ ELSE "done"]

Handle(s) ==
  /\ busy[s] = "no" /\ mail[s] # <<>>
  /\ mail' = [mail EXCEPT ![s] = Tail(@)]
  /\ LET m == Head(mail[s])
         stale == isTokenStale(RunOf(s)) IN
     CASE settled[s] \/ (m.type \in {"start", "case"} /\ stale) ->
            UNCHANGED <<recorded, running, reports, settled, ended, busy>>
       [] ~settled[s] /\ m.type = "fatal" ->
            /\ busy' = [busy EXCEPT ![s] = "coverage"]
            /\ UNCHANGED <<recorded, running, reports, settled, ended>>
       [] ~settled[s] /\ m.type = "complete" ->
            MarkDone(s) /\ UNCHANGED <<recorded, running, reports, busy>>
       [] ~settled[s] /\ m.type = "file" ->
            /\ IF stale THEN UNCHANGED <<recorded, running, reports>>
               ELSE Record(RunOf(s), m.file, m.status, m.counts, "page")
            /\ busy' = [busy EXCEPT ![s] = m.file]
            /\ UNCHANGED <<settled, ended>>
       [] OTHER ->
            /\ running' = [running EXCEPT ![m.file] =
                             IF m.type = "start" THEN 0 ELSE @ + 1]
            /\ busy' = [busy EXCEPT ![s] = "event"]
            /\ UNCHANGED <<recorded, reports, settled, ended>>
  /\ UNCHANGED <<faults, options, cycle, phase, wanted, fatalError, runVars,
                 at, batch, completed, timerVars, pageVars>>

(* The reporters' hooks for a file are over.                                 *)
FileHandled(s) ==
  /\ busy[s] \in FileSet
  /\ busy' = [busy EXCEPT ![s] = "no"]
  /\ completed' = [completed EXCEPT ![s] = @ \cup {busy[s]}]
  /\ IF options.isolate THEN MarkDone(s) ELSE UNCHANGED <<settled, ended>>
  /\ UNCHANGED <<faults, options, coreVars, runVars, at, batch, timerVars,
                 pageVars, mail>>

EventHandled(s) ==
  /\ busy[s] = "event"
  /\ busy' = [busy EXCEPT ![s] = "no"]
  /\ UNCHANGED <<faults, options, coreVars, runVars, slotVars, timerVars,
                 pageVars, mail>>

(* One of them threw, or the page sent a fatal error, which is dispatched    *)
(* once the page's coverage is collected: the run fails.                     *)
HookThrows(s) ==
  /\ busy[s] \in FileSet \cup {"event"} /\ Strikes("hook")
  /\ fatalError' = TRUE
  /\ MarkDone(s)
  /\ busy' = [busy EXCEPT ![s] = "collect"]
  /\ UNCHANGED <<options, cycle, phase, wanted, recorded, running, reports,
                 runVars, at, batch, completed, timerVars, pageVars, mail>>

FatalDispatched(s) ==
  /\ busy[s] = "coverage"
  /\ fatalError' = (fatalError \/ ~isTokenStale(RunOf(s)))
  /\ MarkDone(s)
  /\ busy' = [busy EXCEPT ![s] = "collect"]
  /\ UNCHANGED <<faults, options, cycle, phase, wanted, recorded, running,
                 reports, runVars, at, batch, completed, timerVars, pageVars,
                 mail>>

RunFails(s) ==
  /\ busy[s] = "collect"
  /\ Cancel(RunOf(s), "failed")
  /\ busy' = [busy EXCEPT ![s] = "no"]
  /\ UNCHANGED <<faults, options, coreVars, token, active, tokenOf, queue,
                 slotVars, timerVars, page, position, cases, mail>>

-----------------------------------------------------------------------------
(* The deadlines.  The one of a file's clean-up fails the file and those     *)
(* behind it; the one of the worker's closes the page.  Reporters' hooks are *)
(* assumed to end before a deadline that started with the next clean-up.     *)
PendingAll(s) == DOMAIN batch[s]

Pending(s) == {i \in DOMAIN batch[s] : batch[s][i] \notin completed[s]}

DeadlinePasses(s) ==
  /\ timer[s] # "off" /\ Strikes("hang")
  /\ at[s] = "racing" => ended[s] = "no" /\ ~IsCancelled(RunOf(s))
  /\ busy[s] = "no" /\ mail[s] = <<>>
  /\ timer' = [timer EXCEPT ![s] = "off"]
  /\ IF settled[s]
     THEN UNCHANGED <<recorded, running, reports, settled, completed, overdue,
                      closing>>
     ELSE /\ settled' = [settled EXCEPT ![s] = TRUE]
          /\ overdue' = [overdue EXCEPT ![s] = timer[s]]
          /\ IF timer[s] = "file"
             THEN LET f == batch[s][position[s]] IN
                  /\ \E n \in Counts(s) :
                       Record(RunOf(s), f, "fail", n, "deadline")
                  /\ completed' = [completed EXCEPT ![s] = @ \cup {f}]
                  /\ UNCHANGED closing
             ELSE /\ closing' = [closing EXCEPT ![s] = TRUE]
                  /\ UNCHANGED <<recorded, running, reports, completed>>
  /\ UNCHANGED <<options, cycle, phase, wanted, fatalError, runVars, at, batch,
                 ended, page, position, cases, mailVars>>

FileOverdue(s) ==
  /\ overdue[s] = "file"
  /\ IF Pending(s) = {}
     THEN /\ overdue' = [overdue EXCEPT ![s] = "no"]
          /\ ended' = [ended EXCEPT ![s] = "done"]
          /\ UNCHANGED <<recorded, running, reports, completed>>
     ELSE LET f == batch[s][Min(Pending(s))] IN
          /\ Record(RunOf(s), f, "fail", 1, "deadline")
          /\ completed' = [completed EXCEPT ![s] = @ \cup {f}]
          /\ UNCHANGED <<overdue, ended>>
  /\ UNCHANGED <<faults, options, cycle, phase, wanted, fatalError, runVars,
                 at, batch, settled, timer, pageVars, mailVars>>

WorkerOverdue(s) ==
  /\ overdue[s] = "worker" /\ Gone(s)
  /\ overdue' = [overdue EXCEPT ![s] = "no"]
  /\ ended' = [ended EXCEPT ![s] = "done"]
  /\ fatalError' = TRUE
  /\ UNCHANGED <<faults, options, cycle, phase, wanted, recorded, running,
                 reports, runVars, at, batch, settled, completed, timer,
                 pageVars, mailVars>>

-----------------------------------------------------------------------------
Core == StartCycle \/ RunFiles \/ RunReplaced \/ RunEnds

Worker(s) ==
  \/ PickNext(s) \/ Drain(s) \/ WorkerEnds(s) \/ ContextOpens(s) \/ Goto(s)
  \/ Race(s) \/ FailRun(s) \/ RunCancelled(s) \/ PageIsClosed(s)

Client(s) == Load(s) \/ RunTests(s)
Cleanups(s) == CleanupEnds(s) \/ WorkerCleanupEnds(s)
Host(s) ==
  \/ Handle(s) \/ FileHandled(s) \/ EventHandled(s) \/ FatalDispatched(s)
  \/ RunFails(s)

Next ==
  \/ Core \/ Interrupt
  \/ \E s \in Slots :
       \/ Worker(s) \/ ContextFails(s)
       \/ Client(s) \/ CaseFails(s) \/ Cleanups(s)
       \/ PageCloses(s) \/ PageCrashes(s) \/ Host(s) \/ HookThrows(s)
       \/ DeadlinePasses(s) \/ FileOverdue(s) \/ WorkerOverdue(s)

Spec == Init /\ [][Next]_vars

(* As long as something that is awaited can go on, something does: except    *)
(* that a clean-up may hang, and then its deadline passes, if it has one.    *)
GoesOn ==
  \/ Core
  \/ \E s \in Slots :
       \/ Worker(s) \/ Client(s) \/ PageCloses(s) \/ Host(s)
       \/ FileOverdue(s) \/ WorkerOverdue(s) \/ DeadlinePasses(s)
       \/ timer[s] # "off" /\ Cleanups(s)

FairSpec == Spec /\ WF_vars(GoesOn)

-----------------------------------------------------------------------------
(* Properties.                                                               *)

(* A file of a run is recorded once: by its page, by the deadline of a       *)
(* clean-up, its own or that of a file before it in the batch, or by bail    *)
(* (headlessScheduler.ts, `settled` and completedFiles); and when a run ends *)
(* that neither a rebuild nor an error has cut short, each file has been.    *)
RecordedOnce == \A r \in Runs, f \in FileSet : reports[r][f] <= 1
EveryFileRecorded ==
  phase = "idle" /\ cycle > 0 /\ active = 0 /\ ~IsCancelled(cycle)
      /\ ~fatalError =>
    \A f \in FileSet : reports[cycle][f] = 1
EachFileOnce == RecordedOnce /\ EveryFileRecorded

(* Of a run that ended or was superseded by a rebuild, no page is heard any  *)
(* more: its pages are closed, or its token is stale (runSession.ts).  A run *)
(* that failed keeps its token until the next.                               *)
SupersededIsSilent ==
  \A x \in recorded : x.run # cycle =>
    \/ x.source = "deadline" \/ cancelled[x.run] = "failed"
    \/ \E s \in SlotsOf(x.run) : at[s] = "rejected"

(* A worker that goes on with its run has closed the page it had (the number *)
(* of open pages stays at the concurrency limit); and with bail no more      *)
(* files of a run fail, for a case or for want of one, than the limit and    *)
(* what the other workers had begun (an earlier run, one of whose workers    *)
(* was rejected, may still add a late deadline to what the cycle has         *)
(* recorded).  What fails a file whose cases all passed is not counted, and  *)
(* so not bounded.                                                           *)
PagesClosedInBand ==
  \A s \in Slots : at[s] \in {"free", "draining", "context"} =>
    Gone(s) \/ Abandoned(RunOf(s))
BailBoundsTheFiles ==
  options.bail > 0 =>
    Cardinality({x \in recorded : x.run = cycle /\ x.counts > 0})
      <= options.bail - 1 + options.workers
WithinLimits == PagesClosedInBand /\ BailBoundsTheFiles

(* What a run may not do to the others, and to the host.                     *)
RunsKeepApart == TypeOK /\ SupersededIsSilent /\ WithinLimits

(* Every cycle ends: no page that crashes, hangs in a clean-up or is         *)
(* superseded holds it up, and a rebuild gets its cycle.  Every page is      *)
(* closed in the end.                                                        *)
AtRest ==
  /\ phase = "idle" /\ (~wanted \/ cycle = options.runs)
  /\ \A s \in Slots : Gone(s)

CyclesEnd == <>[]AtRest
=============================================================================
