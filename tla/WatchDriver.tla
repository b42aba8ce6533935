----------------------------- MODULE WatchDriver -----------------------------
(***************************************************************************)
(* The watch cycle driver, createWatchCycleDriver of core/watchSession.ts: *)
(* one queue of cycles for every executor of a watch session (the node     *)
(* pool, the browser host) and every trigger (a rebuild, a shortcut key).  *)
(* A call of runCycle either queues a cycle behind `tail` or folds into    *)
(* the cycle its executor queued last.  All cycles share the stateManager, *)
(* which each cycle resets, and the snapshotManager.                       *)
(*                                                                         *)
(* A cycle is identified by the call that queued it, whose options it has  *)
(* but for the files other calls folded into it.  The build id (the number *)
(* of cycles begun), traces and the ready banner are left out.             *)
(***************************************************************************)
EXTENDS Naturals, Sequences

CONSTANTS
  Executors,    \* the executors of the session
  Files,        \* test files
  Calls,        \* the calls of runCycle its triggers make
  MaxCalls,     \* bound: calls made in the session
  LateEvents    \* a cycle that was rejected may leave test files running

(* The options of a call, `updateSnapshot` resolved when it is made.  A call *)
(* without a file list (listed = FALSE) leaves the scope to the executor.    *)
CallOptions ==
  [executor : Executors,
   trigger : {"none", "invalidation", "run-all", "run-failed",
              "update-snapshot"},
   mode : {"all", "on-demand"},
   update : {"session", "all"},
   listed : BOOLEAN,
   files : SUBSET Files]

ASSUME DriverAssumption ==
  /\ Calls \subseteq CallOptions
  /\ MaxCalls \in Nat
  /\ LateEvents \in BOOLEAN

VARIABLES
  calls,     \* the calls made so far
  cycleOf,   \* for each call, the cycle whose promise it was given
  phase,     \* for each call, how far the cycle it queued has come
  scope,     \* and the file list of that cycle
  pending,   \* for each executor, the cycle it queued last (0: none)
  settled,   \* the executors whose first cycle has settled
  closing,   \* isSessionClosing()
  state,     \* the cycles whose events the stateManager holds
  summary,   \* the cycles whose snapshots the snapshotManager counts
  late       \* rejected cycles that left test files running

vars == <<calls, cycleOf, phase, scope, pending, settled, closing, state,
          summary, late>>
queueVars == <<calls, cycleOf, scope, pending>>

Ids == DOMAIN calls
Active == {"notifying", "running", "finalizing"}
Over == {"done", "failed", "folded"}
Phases == {"queued"} \cup Active \cup Over

Init ==
  /\ calls = <<>> /\ cycleOf = <<>> /\ phase = <<>> /\ scope = <<>>
  /\ pending = [e \in Executors |-> 0]
  /\ settled = {}
  /\ closing = FALSE
  /\ state = {} /\ summary = {} /\ late = {}

(* Mutant: neither the trigger nor the update it asks for is compared.       *)
canFoldAnyTrigger(queued, incoming) ==
  /\ queued.mode = incoming.mode
  /\ queued.listed = incoming.listed

-----------------------------------------------------------------------------
(* Whether a call may fold its request into a queued cycle.                  *)
canFold(queued, incoming) ==
  /\ queued.trigger # "none"
  /\ queued.trigger = incoming.trigger
  /\ queued.mode = incoming.mode
  /\ queued.update = incoming.update
  /\ queued.listed = incoming.listed

(* Mutant: it is closed after the run.                                       *)
isOpenUntilDone(c) == phase[c] \notin Over

(* A cycle takes further files until it begins.                              *)
isOpen(c) == phase[c] = "queued"

(* Folding unites the file lists.                                            *)
FoldedFiles(c, call) == scope[c] \cup call.files

(* runCycle(executor, options)                                               *)
RunCycle(call) ==
  LET queued == pending[call.executor]
      fold == /\ queued # 0
              /\ isOpen(queued)
              /\ canFold(calls[queued], call)
      id == Len(calls) + 1
  IN /\ Len(calls) < MaxCalls
     /\ calls' = Append(calls, call)
     /\ \/ /\ fold
           /\ cycleOf' = Append(cycleOf, queued)
           /\ phase' = Append(phase, "folded")
           /\ scope' = Append([scope EXCEPT
                                 ![queued] = FoldedFiles(queued, call)], {})
           /\ UNCHANGED pending
        \/ /\ ~fold
           /\ cycleOf' = Append(cycleOf, id)
           /\ phase' = Append(phase, "queued")
           /\ scope' = Append(scope, call.files)
           /\ pending' = [pending EXCEPT ![call.executor] = id]
     /\ UNCHANGED <<settled, closing, state, summary, late>>

(* Mutant: the chain hands the rejection of a cycle to the next one.         *)
TailResolved(c) == \A d \in 1..(c - 1) : phase[d] \in {"done", "folded"}

(* `tail` is settled: every cycle queued earlier is over, resolved or not.   *)
TailSettled(c) == \A d \in 1..(c - 1) : phase[d] \in Over

(* Mutant: an executor is past its first cycle as soon as any other is.      *)
PrepareCycleStateOfRerun(c) ==
  /\ state' = IF calls[c].executor \in settled THEN {} ELSE state
  /\ summary' = IF calls[c].executor \in settled THEN {} ELSE summary

(* prepareWatchCycleState: a first cycle keeps the snapshot summary.         *)
PrepareCycleState(c) ==
  /\ state' = {}
  /\ summary' = IF calls[c].executor \in settled THEN {} ELSE summary

(* The head of the queue begins: runOne, up to its first await.              *)
Begin(c) ==
  /\ phase[c] = "queued"
  /\ TailSettled(c)
  /\ \/ /\ closing
        /\ phase' = [phase EXCEPT ![c] = "done"]
        /\ UNCHANGED <<state, summary>>
     \/ /\ ~closing
        /\ phase' = [phase EXCEPT ![c] = "notifying"]
        /\ PrepareCycleState(c)
  /\ UNCHANGED <<queueVars, settled, closing, late>>

(* The reporters were told: executor.runCycle(...) is called.                *)
Notified(c) ==
  /\ phase[c] = "notifying"
  /\ phase' = [phase EXCEPT ![c] = "running"]
  /\ UNCHANGED <<queueVars, settled, closing, state, summary, late>>

(* An event of a test file of the cycle reaches the shared managers.         *)
Event(c) ==
  /\ phase[c] = "running" \/ c \in late
  /\ state' = state \cup {c}
  /\ summary' = summary \cup {c}
  /\ UNCHANGED <<queueVars, phase, settled, closing, late>>

(* The last test file a rejected cycle left running has ended.               *)
LateEnds(c) ==
  /\ c \in late
  /\ late' = late \ {c}
  /\ UNCHANGED <<queueVars, phase, settled, closing, state, summary>>

(* The finally clause: also a first cycle that failed is past startup.       *)
Settle(c) == settled' = settled \cup {calls[c].executor}

(* The executor's outcome is finalized, unless the session is closing: the   *)
(* results are then about the teardown.                                      *)
Ran(c) ==
  /\ phase[c] = "running"
  /\ \/ /\ closing
        /\ phase' = [phase EXCEPT ![c] = "done"]
        /\ Settle(c)
     \/ /\ ~closing
        /\ phase' = [phase EXCEPT ![c] = "finalizing"]
        /\ UNCHANGED settled
  /\ UNCHANGED <<queueVars, closing, state, summary, late>>

Finalized(c) ==
  /\ phase[c] = "finalizing"
  /\ phase' = [phase EXCEPT ![c] = "done"]
  /\ Settle(c)
  /\ UNCHANGED <<queueVars, closing, state, summary, late>>

(* A reporter, the executor or the finalization throws.                      *)
Fail(c) ==
  /\ phase[c] \in Active
  /\ phase' = [phase EXCEPT ![c] = "failed"]
  /\ Settle(c)
  /\ late' \in {late, IF LateEvents /\ phase[c] = "running"
                        THEN late \cup {c} ELSE late}
  /\ UNCHANGED <<queueVars, closing, state, summary>>

(* The teardown of the session is requested.                                 *)
Close ==
  /\ ~closing
  /\ closing' = TRUE
  /\ UNCHANGED <<queueVars, phase, settled, state, summary, late>>

-----------------------------------------------------------------------------
CycleStep(c) ==
  Begin(c) \/ Notified(c) \/ Ran(c) \/ Finalized(c) \/ Fail(c)

Next ==
  \/ \E call \in Calls : RunCycle(call)
  \/ \E c \in Ids : CycleStep(c) \/ Event(c) \/ LateEnds(c)
  \/ Close

Spec == Init /\ [][Next]_vars

(* Promise callbacks run, and what a cycle awaits settles: the reporters'    *)
(* hooks, the executor and the finalization.                                 *)
FairSpec == Spec /\ WF_vars(\E c \in Ids : CycleStep(c))

-----------------------------------------------------------------------------
TypeOK ==
  /\ calls \in Seq(Calls) /\ Len(calls) <= MaxCalls
  /\ cycleOf \in [Ids -> Ids]
  /\ phase \in [Ids -> Phases]
  /\ scope \in [Ids -> SUBSET Files]
  /\ pending \in [Executors -> Ids \cup {0}]
  /\ settled \subseteq Executors
  /\ closing \in BOOLEAN
  /\ state \subseteq Ids /\ summary \subseteq Ids /\ late \subseteq Ids

(* A cycle covers exactly the files of the calls that were given its         *)
(* promise, and it does to them what each of these calls asked for: no call  *)
(* is answered by a cycle that skips its files or has other options, and no  *)
(* snapshot is rewritten that no `u` selected.                               *)
Answers(c) == {i \in Ids : cycleOf[i] = c}
SameButFiles(a, b) == [a EXCEPT !.files = {}] = [b EXCEPT !.files = {}]
ScopeIsWhatWasAsked ==
  \A c \in Ids :
    /\ phase[c] # "folded" => scope[c] = UNION {calls[i].files :
                                                 i \in Answers(c)}
    /\ \A i \in Answers(c) : SameButFiles(calls[i], calls[c])

(* The cycles whose test files may have reported after they were rejected.   *)
Rejected == {c \in Ids : LateEvents /\ phase[c] = "failed"}

(* What the stateManager holds while a cycle runs is the cycle's own, or was *)
(* reported too late by a rejected one: the bail gates and the verdict never *)
(* count the failures of another cycle.                                      *)
StateIsOwn ==
  \A c \in Ids :
    phase[c] \in {"running", "finalizing"} => state \subseteq {c} \cup Rejected

(* The snapshot summary never counts two cycles of one executor: a summary   *)
(* is only carried over into the first cycle of another executor.            *)
SummaryOnePerExecutor ==
  \A c, d \in summary \ Rejected :
    calls[c].executor = calls[d].executor => c = d

(* The three together: what a cycle runs, and what it counts, is its own.    *)
CyclesKeepApart ==
  ScopeIsWhatWasAsked /\ StateIsOwn /\ SummaryOnePerExecutor

(* Whoever awaits a cycle is answered, whatever happened to earlier cycles.  *)
CallSettles ==
  <>[](\A i \in Ids : phase[cycleOf[i]] \in {"done", "failed"})

(* The requests a caller sees.                                               *)
Stage ==
  [i \in Ids |->
     LET p == phase[cycleOf[i]] IN
     IF p = "queued" THEN "waiting"
     ELSE IF p \in Active THEN "served" ELSE "answered"]
Covered == UNION {scope[c] : c \in {d \in Ids : phase[d] \in Active}}

Batches == INSTANCE BatchedRequests WITH stage <- Stage, covered <- Covered

(* The driver serves requests in batches, one batch at a time, each of them  *)
(* begun after the last of its requests was made, the oldest request first.  *)
ServesInBatches == Batches!Spec
==============================================================================
