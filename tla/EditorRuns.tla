----------------------------- MODULE EditorRuns -----------------------------
(***************************************************************************)
(* A run of tests in the VS Code extension (extension.ts startTestRun): a  *)
(* worker process for one target after the other (master.ts runTest and    *)
(* createChildProcess), which runs core and tells what happens in messages *)
(* (worker/index.ts, worker/reporter.ts), the reporter that writes them to *)
(* a TestRun of VS Code (testRunReporter.ts), and cancellation.            *)
(*                                                                         *)
(* Messages of a process come in order, those it sent before it ended too, *)
(* before its 'exit' or after.  A cycle of core ends, or its process does. *)
(***************************************************************************)
EXTENDS Integers, Sequences, SequencesExt, FiniteSets

CONSTANTS
  Requests,       \* [kind, continuous, targets: how many projects or files]
  MaxTargets,     \* bound: the most targets of a request
  MaxCycles,      \* bound: cycles of a continuous run
  MaxMail,        \* bound: messages of a worker under way
  MaxFaults       \* bound: processes that fail, end or reject, time-outs

VARIABLES
  request,        \* never changes
  at,             \* the target discoverTests is at; one more: it is over
  runs,           \* the TestRuns: [ended, of: the target and the cycle it
                  \* is for, got: the results it was given]
  cancelled,      \* the token of the request
  reporter,       \* of each target: [run, isFirstRun]
  creating,       \* and the cycles whose failure has its errors created
  proc,           \* its process
  closed, killed, \* its birpc was closed; by the extension, which kills it
  rpc,            \* the call of runTest
  finished,       \* its promise, which discoverTests awaits
  heard,          \* its listener of the token has run
  mail,           \* messages of its worker
  core,           \* the worker: [cycle, step]
  faults

runVars == <<request, at, runs, cancelled>>
callVars == <<rpc, finished, heard>>
procVars == <<proc, closed, killed>>
reportVars == <<reporter, creating>>
vars == <<runVars, reportVars, procVars, callVars, mail, core, faults>>

T == 1 .. MaxTargets
Pending == at <= request.targets
Coverage == request.kind = "coverage"
TestRun(t, cycle) == [ended |-> FALSE, of |-> <<t, cycle>>, got |-> {}]

Init ==
  /\ request \in Requests
  /\ at = 1 /\ runs = <<TestRun(1, 1)>>
  /\ cancelled = FALSE
  /\ reporter = [t \in T |-> [run |-> 1, isFirstRun |-> TRUE]]
  /\ creating = [t \in T |-> {}]
  /\ proc = [t \in T |-> "none"]
  /\ closed = [t \in T |-> FALSE] /\ killed = [t \in T |-> FALSE]
  /\ rpc = [t \in T |-> "none"]
  /\ finished = [t \in T |-> FALSE] /\ heard = [t \in T |-> FALSE]
  /\ mail = [t \in T |-> <<>>]
  /\ core = [t \in T |-> [cycle |-> 1, step |-> "start"]]
  /\ faults = 0

Fault == faults < MaxFaults /\ faults' = faults + 1

-----------------------------------------------------------------------------
(* startTestRun.  An error of one target ends the run: no other is run.      *)
EndRun(r) == runs' = [runs EXCEPT ![r].ended = TRUE]

Throws ==
  /\ at' = request.targets + 1
  /\ EndRun(1)

(* createChildProcess: core is not found, or the debugger's port is taken.   *)
SpawnThrows ==
  /\ Pending /\ proc[at] = "none"
  /\ Fault /\ Throws
  /\ UNCHANGED <<request, cancelled, reportVars, procVars, callVars, mail,
                 core>>

(* runTest waits for the debugger, if asked for, then calls the worker.      *)
Spawn ==
  /\ Pending /\ proc[at] = "none"
  /\ proc' = [proc EXCEPT ![at] = "alive"]
  /\ rpc' = [rpc EXCEPT ![at] = IF request.kind = "debug" THEN "attaching"
                                ELSE "pending"]
  /\ UNCHANGED <<runVars, reportVars, closed, killed, finished, heard, mail,
                 core, faults>>

Attached ==
  /\ Pending /\ rpc[at] = "attaching"
  /\ rpc' = [rpc EXCEPT ![at] = IF closed[at] THEN "rejected" ELSE "pending"]
  /\ UNCHANGED <<runVars, reportVars, procVars, finished, heard, mail, core,
                 faults>>

NotAttached ==
  /\ Pending /\ rpc[at] = "attaching"
  /\ Fault /\ Throws
  /\ rpc' = [rpc EXCEPT ![at] = "none"]
  /\ killed' = [killed EXCEPT ![at] = TRUE]
  /\ UNCHANGED <<request, cancelled, reportVars, proc, closed, finished, heard,
                 mail, core>>

Finished ==
  /\ Pending /\ finished[at]
  /\ at' = at + 1
  /\ IF at = request.targets THEN EndRun(1) ELSE UNCHANGED runs
  /\ UNCHANGED <<request, cancelled, reportVars, procVars, callVars, mail, core,
                 faults>>

-----------------------------------------------------------------------------
(* $close: calls in flight are rejected and the process is killed.           *)
Rejected(t) == IF rpc[t] = "pending" THEN "rejected" ELSE rpc[t]

Close(t) ==
  /\ closed' = [closed EXCEPT ![t] = TRUE]
  /\ killed' = [killed EXCEPT ![t] = TRUE]
  /\ rpc' = [rpc EXCEPT ![t] = Rejected(t)]

(* The user cancels: every call that has registered is finished.  One that   *)
(* registers later hears of it then.                                         *)
Cancel ==
  /\ Pending /\ ~cancelled
  /\ cancelled' = TRUE
  /\ UNCHANGED <<request, at, runs, reportVars, procVars, callVars, mail, core,
                 faults>>

Hears(t) ==
  /\ cancelled /\ ~heard[t]
  /\ rpc[t] \notin {"none", "attaching"}
  /\ heard' = [heard EXCEPT ![t] = TRUE]
  /\ Close(t)
  /\ finished' = [finished EXCEPT ![t] = TRUE]
  /\ UNCHANGED <<runVars, reportVars, proc, mail, core, faults>>

(* The process ends: it was killed, or by itself.  What it had sent comes.   *)
Exit(t) ==
  /\ proc[t] = "alive"
  /\ IF killed[t] THEN UNCHANGED faults ELSE Fault
  /\ proc' = [proc EXCEPT ![t] = "exited"]
  /\ UNCHANGED <<runVars, reportVars, closed, killed, callVars, mail, core>>

(* Mutant of HostExit: the exit of a worker is only logged.                  *)
HostExitLogged(t) ==
  /\ proc[t] = "exited"
  /\ proc' = [proc EXCEPT ![t] = "dead"]
  /\ UNCHANGED <<runVars, reportVars, closed, killed, callVars, mail, core,
                 faults>>

HostExit(t) ==
  /\ proc[t] = "exited"
  /\ proc' = [proc EXCEPT ![t] = "dead"]
  /\ IF closed[t] THEN UNCHANGED <<closed, killed, rpc>> ELSE Close(t)
  /\ UNCHANGED <<runVars, reportVars, finished, heard, mail, core, faults>>

-----------------------------------------------------------------------------
(* The worker: a cycle starts, reports a result, ends, and reports coverage  *)
(* unless a test failed; the call is answered after the first cycle.  It     *)
(* does not wait for what its reports do.                                    *)
Tell(t, kind) ==
  /\ Len(mail[t]) < MaxMail
  /\ mail' = [mail EXCEPT ![t] = Append(@, [kind |-> kind,
                                            cycle |-> core[t].cycle])]
Now(t, step) == core' = [core EXCEPT ![t].step = step]

Works(t) == proc[t] = "alive" /\ rpc[t] # "attaching" /\ rpc[t] # "none"

Starts(t) ==
  /\ Works(t) /\ core[t].step = "start"
  /\ Tell(t, "start") /\ Now(t, "tests")
  /\ UNCHANGED <<runVars, reportVars, procVars, callVars, faults>>

Reports(t) ==
  /\ Works(t) /\ core[t].step = "tests"
  /\ \E result \in {"pass", "fail"} : Tell(t, result) /\ Now(t, result)
  /\ UNCHANGED <<runVars, reportVars, procVars, callVars, faults>>

Ends(t) ==
  /\ Works(t) /\ core[t].step \in {"pass", "fail"}
  /\ Tell(t, "end")
  /\ Now(t, IF Coverage /\ core[t].step = "pass" THEN "coverage" ELSE "answer")
  /\ UNCHANGED <<runVars, reportVars, procVars, callVars, faults>>

Covers(t) ==
  /\ Works(t) /\ core[t].step = "coverage"
  /\ Tell(t, "coverage") /\ Now(t, "answer")
  /\ UNCHANGED <<runVars, reportVars, procVars, callVars, faults>>

Answers(t) ==
  /\ Works(t) /\ core[t].step = "answer"
  /\ IF core[t].cycle = 1 THEN Tell(t, "answer") ELSE UNCHANGED mail
  /\ Now(t, "idle")
  /\ UNCHANGED <<runVars, reportVars, procVars, callVars, faults>>

(* Core rejects: a config that does not load, an error of a reporter.        *)
Fails(t) ==
  /\ Works(t) /\ core[t].cycle = 1 /\ core[t].step \in {"start", "tests"}
  /\ Fault
  /\ Tell(t, "error") /\ Now(t, "failed")
  /\ UNCHANGED <<runVars, reportVars, procVars, callVars>>

(* A file changes in a continuous run.                                       *)
Reruns(t) ==
  /\ Works(t) /\ request.continuous
  /\ core[t].step = "idle" /\ core[t].cycle < MaxCycles
  /\ core' = [core EXCEPT ![t] = [cycle |-> @.cycle + 1, step |-> "start"]]
  /\ UNCHANGED <<runVars, reportVars, procVars, callVars, mail, faults>>

-----------------------------------------------------------------------------
(* The reporter: every cycle after the first has a TestRun of its own.  A    *)
(* TestRun that has ended takes nothing.                                     *)
onTestRunStart(t, cycle) ==
  /\ IF reporter[t].isFirstRun THEN UNCHANGED <<runs, reporter>>
     ELSE /\ runs' = Append(runs, TestRun(t, cycle))
          /\ reporter' = [reporter EXCEPT ![t].run = Len(runs) + 1]
  /\ UNCHANGED <<creating, finished>>

Write(t, cycle) ==
  runs' = [runs EXCEPT ![reporter[t].run].got =
             IF runs[reporter[t].run].ended THEN @
             ELSE @ \cup {<<t, cycle, "result">>}]

(* A failure is written once its errors are created, to the TestRun the      *)
(* reporter has by then.                                                     *)
onTestCaseResult(t, cycle, result) ==
  /\ IF result = "pass" THEN Write(t, cycle) /\ UNCHANGED creating
     ELSE /\ creating' = [creating EXCEPT ![t] = @ \cup {cycle}]
          /\ UNCHANGED runs
  /\ UNCHANGED <<reporter, finished>>

ErrorsCreated(t) ==
  /\ \E cycle \in creating[t] :
       /\ Write(t, cycle)
       /\ creating' = [creating EXCEPT ![t] = @ \ {cycle}]
  /\ UNCHANGED <<request, at, cancelled, reporter, procVars, callVars, mail,
                 core, faults>>

onRunOver(t) ==
  /\ UNCHANGED creating
  /\ reporter' = [reporter EXCEPT ![t].isFirstRun = FALSE]
  /\ IF reporter[t].isFirstRun
     THEN finished' = [finished EXCEPT ![t] = TRUE] /\ UNCHANGED runs
     ELSE EndRun(reporter[t].run) /\ UNCHANGED finished

(* Mutant of onTestRunEnd: coverage is not waited for.                       *)
onTestRunEndAlways(t) == onRunOver(t)

onTestRunEnd(t) ==
  IF Coverage THEN UNCHANGED <<runs, reportVars, finished>> ELSE onRunOver(t)

(* onCoverage of each file, then onCoverageEnd.                              *)
onCoverageEnd(t, cycle) ==
  /\ reporter' = [reporter EXCEPT ![t].isFirstRun = FALSE]
  /\ runs' = [runs EXCEPT ![reporter[t].run] =
       [@ EXCEPT !.got = IF runs[reporter[t].run].ended THEN @
                         ELSE @ \cup {<<t, cycle, "coverage">>},
                 !.ended = @ \/ ~reporter[t].isFirstRun]]
  /\ UNCHANGED creating
  /\ finished' = [finished EXCEPT ![t] = @ \/ reporter[t].isFirstRun]

Receives(t) ==
  /\ mail[t] # <<>> /\ Head(mail[t]).kind \notin {"answer", "error"}
  /\ mail' = [mail EXCEPT ![t] = Tail(@)]
  /\ LET m == Head(mail[t])
     IN  CASE m.kind = "start" -> onTestRunStart(t, m.cycle)
           [] m.kind \in {"pass", "fail"} ->
                onTestCaseResult(t, m.cycle, m.kind)
           [] m.kind = "end" -> onTestRunEnd(t)
           [] m.kind = "coverage" -> onCoverageEnd(t, m.cycle)
  /\ UNCHANGED <<request, at, cancelled, procVars, rpc, heard, core, faults>>

(* The answer of runTest, unless the call was rejected before.               *)
ReceivesAnswer(t) ==
  /\ mail[t] # <<>> /\ Head(mail[t]).kind \in {"answer", "error"}
  /\ mail' = [mail EXCEPT ![t] = Tail(@)]
  /\ rpc' = [rpc EXCEPT ![t] =
               IF @ # "pending" THEN @
               ELSE IF Head(mail[t]).kind = "answer" THEN "resolved"
               ELSE "rejected"]
  /\ UNCHANGED <<runVars, reportVars, procVars, finished, heard, core, faults>>

(* The call is not answered within ten minutes.                              *)
CallTimesOut(t) ==
  /\ rpc[t] = "pending" /\ Fault
  /\ rpc' = [rpc EXCEPT ![t] = "rejected"]
  /\ UNCHANGED <<runVars, reportVars, procVars, finished, heard, mail, core>>

(* Mutant of Settles: the worker of a call that failed is left.              *)
SettlesOnly(t) ==
  /\ rpc[t] \in {"resolved", "rejected"}
  /\ rpc' = [rpc EXCEPT ![t] = "settled"]
  /\ finished' = [finished EXCEPT ![t] = @ \/ rpc[t] = "rejected"]
  /\ IF request.continuous THEN UNCHANGED <<closed, killed>>
     ELSE /\ closed' = [closed EXCEPT ![t] = TRUE]
          /\ killed' = [killed EXCEPT ![t] = TRUE]
  /\ UNCHANGED <<runVars, reportVars, proc, heard, mail, core, faults>>

(* .catch and .finally of the call.                                          *)
Settles(t) ==
  /\ rpc[t] \in {"resolved", "rejected"}
  /\ rpc' = [rpc EXCEPT ![t] = "settled"]
  /\ finished' = [finished EXCEPT ![t] = @ \/ rpc[t] = "rejected"]
  /\ IF request.continuous /\ rpc[t] = "resolved"
     THEN UNCHANGED <<closed, killed>>
     ELSE /\ closed' = [closed EXCEPT ![t] = TRUE]
          /\ killed' = [killed EXCEPT ![t] = TRUE]
  /\ UNCHANGED <<runVars, reportVars, proc, heard, mail, core, faults>>

(* The extension is deactivated: every worker is closed.                     *)
Deactivate ==
  /\ Fault
  /\ closed' = [t \in T |-> closed[t] \/ proc[t] # "none"]
  /\ killed' = [t \in T |-> killed[t] \/ proc[t] # "none"]
  /\ rpc' = [t \in T |-> Rejected(t)]
  /\ UNCHANGED <<runVars, reportVars, proc, finished, heard, mail, core>>

Next ==
  \/ SpawnThrows \/ Spawn \/ Attached \/ NotAttached \/ Finished \/ Cancel
  \/ \E t \in T :
       \/ Hears(t) \/ Exit(t) \/ HostExit(t) \/ Receives(t)
       \/ ErrorsCreated(t) \/ ReceivesAnswer(t) \/ CallTimesOut(t)
       \/ Settles(t)
       \/ Starts(t) \/ Reports(t) \/ Ends(t) \/ Covers(t) \/ Answers(t)
       \/ Fails(t) \/ Reruns(t)
  \/ Deactivate

(* What was begun goes on; nobody has to cancel or to change a file.         *)
Fairness ==
  /\ WF_vars(Spawn) /\ WF_vars(Attached) /\ WF_vars(Finished)
  /\ \A t \in T :
       /\ WF_vars(Hears(t)) /\ WF_vars(HostExit(t))
       /\ WF_vars(Exit(t) /\ killed[t])
       /\ WF_vars(Receives(t)) /\ WF_vars(ReceivesAnswer(t))
       /\ WF_vars(ErrorsCreated(t)) /\ WF_vars(Settles(t))
       /\ WF_vars(Starts(t)) /\ WF_vars(Reports(t)) /\ WF_vars(Ends(t))
       /\ WF_vars(Covers(t)) /\ WF_vars(Answers(t))

Spec == Init /\ [][Next]_vars
FairSpec == Spec /\ Fairness

-----------------------------------------------------------------------------
(* Properties.                                                               *)
Working(t) == proc[t] \in {"alive", "exited"}

(* What a cycle reports comes while the reporter has the TestRun of that     *)
(* cycle, and before this ends, unless the user cancelled or something       *)
(* failed; so it is neither lost nor written elsewhere.  A run with coverage *)
(* whose first cycle failed goes on in its TestRun.                          *)
IsOf(r, cycle) == runs[r].of[2] = cycle \/ (r = 1 /\ Coverage)
Open(t) == ~runs[reporter[t].run].ended \/ cancelled \/ faults > 0

ComesInTime ==
  \A t \in T :
    mail[t] # <<>> /\ Head(mail[t]).kind \in {"pass", "fail", "coverage", "end"}
      => Open(t) /\ IsOf(reporter[t].run, Head(mail[t]).cycle)

(* A failure is written only when its errors have been created: it still can *)
(* be, to its own TestRun, until the end of its cycle has come.  From then   *)
(* on it may be lost, or go to the TestRun of a later cycle; but never to    *)
(* one of an earlier cycle, or of another target.                            *)
EndToCome(t, cycle) ==
  \/ core[t].cycle = cycle /\ core[t].step = "fail"
  \/ \E i \in DOMAIN mail[t] :
       mail[t][i].kind = "end" /\ mail[t][i].cycle = cycle

FailuresInTime ==
  \A t \in T : \A cycle \in creating[t] :
    EndToCome(t, cycle) => Open(t) /\ IsOf(reporter[t].run, cycle)

NothingElsewhere ==
  \A r \in DOMAIN runs : \A x \in runs[r].got :
    /\ r = 1 \/ x[1] = runs[r].of[1]
    /\ x[2] <= runs[r].of[2] \/ (r = 1 /\ Coverage)

ResultsAreKept == ComesInTime /\ FailuresInTime /\ NothingElsewhere

(* A request ends, leaves no worker behind unless it is continuous and its   *)
(* call succeeded, and so do the runs its later cycles began, unless they    *)
(* were cut short; but for coverage, which core does not report when a test  *)
(* failed.                                                                   *)
Unreported ==
  /\ Coverage /\ Pending
  /\ rpc[at] = "settled" /\ mail[at] = <<>> /\ ~finished[at]

RequestsSettled ==
  /\ runs[1].ended \/ Unreported
  /\ \A t \in T :
       Working(t) =>
         request.continuous /\ ~cancelled /\ core[t].step # "failed"
  /\ \A r \in DOMAIN runs :
       runs[r].ended \/ Coverage \/ cancelled \/ faults > 0

RequestsEnd == <>[]RequestsSettled
=============================================================================
