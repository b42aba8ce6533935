--------------------------- MODULE BatchedRequests ---------------------------
(***************************************************************************)
(* What the watch loop of core/watchSession.ts promises whoever asks it    *)
(* for a cycle, whichever executor and trigger is behind the request: a    *)
(* request waits, is served by one run together with requests that ask the *)
(* same thing, and is answered when that run is over.  Runs never overlap, *)
(* the oldest waiting request is in the next one, the run covers exactly   *)
(* the files of the requests it serves, and it begins after the last of    *)
(* them was made.  A session that closes may answer without serving.       *)
(***************************************************************************)
EXTENDS Naturals, Sequences

CONSTANT Calls   \* the requests that can be made

VARIABLES
  calls,    \* the requests made so far, in order
  stage,    \* for each of them: "waiting", "served" or "answered"
  covered   \* the files of the run in progress

vars == <<calls, stage, covered>>

Waiting == {i \in DOMAIN calls : stage[i] = "waiting"}
Served == {i \in DOMAIN calls : stage[i] = "served"}

\* Two requests that one run can serve: they differ in their files only.
Agree(a, b) ==
  [a EXCEPT !.files = {}] = [b EXCEPT !.files = {}]

Init == calls = <<>> /\ stage = <<>> /\ covered = {}

Ask(call) ==
  /\ calls' = Append(calls, call)
  /\ stage' = Append(stage, "waiting")
  /\ UNCHANGED covered

\* A batch: requests that agree, the oldest waiting one among them.
Batch(S) ==
  /\ S # {}
  /\ \A i \in S : Agree(calls[i], calls[CHOOSE j \in S : TRUE])
  /\ \E i \in S : \A j \in Waiting : i <= j

Serve(S) ==
  /\ Served = {}
  /\ Batch(S)
  /\ stage' = [i \in DOMAIN stage |->
                 IF i \in S THEN "served" ELSE stage[i]]
  /\ covered' = UNION {calls[i].files : i \in S}
  /\ UNCHANGED calls

Answer ==
  /\ Served # {}
  /\ stage' = [i \in DOMAIN stage |->
                 IF i \in Served THEN "answered" ELSE stage[i]]
  /\ covered' = {}
  /\ UNCHANGED calls

Refuse(S) ==
  /\ Served = {}
  /\ Batch(S)
  /\ stage' = [i \in DOMAIN stage |->
                 IF i \in S THEN "answered" ELSE stage[i]]
  /\ UNCHANGED <<calls, covered>>

Next ==
  \/ \E call \in Calls : Ask(call)
  \/ \E S \in SUBSET Waiting : Serve(S) \/ Refuse(S)
  \/ Answer

Spec == Init /\ [][Next]_vars
==============================================================================
