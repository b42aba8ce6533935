--------------------------- MODULE RunnerContract ---------------------------
(***************************************************************************)
(* What a PoolRunner promises the pool (packages/core/src/pool/pool.ts):   *)
(* the view of a runner that WorkerPool is written against.  A runner is   *)
(* usable from its start until the first sign of trouble and never again;  *)
(* it takes one task at a time, only while usable; it answers every task   *)
(* once; when a stop() of it returns, the runner is gone.                  *)
(***************************************************************************)
EXTENDS Naturals

CONSTANT Tasks      \* the tasks a runner is handed in its life

VARIABLES
  phase,      \* "new", "starting", "usable", "unusable" or "gone"
  answer,     \* of each task: "unsent", "sent", "lost", "resolved", "rejected"
  returned    \* how many calls of stop() have returned

vars == <<phase, answer, returned>>

Init ==
  /\ phase = "new"
  /\ answer = [t \in Tasks |-> "unsent"]
  /\ returned = 0

Start ==
  /\ phase = "new"
  /\ phase' \in {"starting", "unusable"}
  /\ UNCHANGED <<answer, returned>>

(* A usable runner without a task is handed one.                             *)
Send(t) ==
  /\ answer[t] = "unsent"
  /\ \A u \in Tasks : answer[u] \notin {"sent", "lost"}
  /\ answer' = [answer EXCEPT ![t] = "sent"]

(* start() resolves; the caller sends at once the task it spawned it for.    *)
Started(t) ==
  /\ phase = "starting"
  /\ phase' = "usable"
  /\ Send(t)
  /\ UNCHANGED returned

Reuse(t) ==
  /\ phase = "usable"
  /\ Send(t)
  /\ UNCHANGED <<phase, returned>>

(* A task resolves; the runner may turn out to be unusable with it.          *)
Resolve(t) ==
  /\ answer[t] = "sent"
  /\ answer' = [answer EXCEPT ![t] = "resolved"]
  /\ phase \in {"usable", "unusable"}
  /\ phase' \in {phase, "unusable"}
  /\ UNCHANGED returned

(* The runner loses its health or its worker.  A task it works on is then    *)
(* lost, unless a graceful stop() still lets the worker answer it.           *)
Degrade ==
  /\ \/ phase \notin {"new", "gone"} /\ phase' = "unusable"
     \/ phase # "new" /\ phase' = "gone"
  /\ \/ answer' = [t \in Tasks |-> IF answer[t] = "sent" THEN "lost"
                                   ELSE answer[t]]
     \/ phase' = "unusable" /\ UNCHANGED answer
  /\ returned' \in {returned} \cup (IF phase' = "gone" THEN {returned + 1}
                                                       ELSE {})

Reject(t) ==
  /\ answer[t] = "lost"
  /\ answer' = [answer EXCEPT ![t] = "rejected"]
  /\ UNCHANGED <<phase, returned>>

(* A stop() returns only when the runner is gone.                            *)
StopReturns ==
  /\ phase = "gone"
  /\ returned' = returned + 1
  /\ UNCHANGED <<phase, answer>>

Next ==
  \/ Start
  \/ \E t \in Tasks : Started(t) \/ Reuse(t) \/ Resolve(t) \/ Reject(t)
  \/ Degrade
  \/ StopReturns

Spec == Init /\ [][Next]_vars

=============================================================================
