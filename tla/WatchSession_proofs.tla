------------------------ MODULE WatchSession_proofs -------------------------
(* Theorems about the watch session.  First its driver (WatchDriver), for    *)
(* every number of calls, executors, files: cycles keep apart, and the       *)
(* driver implements BatchedRequests.  Then WatchTeardown: a session whose   *)
(* close arrives outside the three windows of CloseIn leaves nothing behind, *)
(* runs its tests within their global setup, and drives its cycles as        *)
(* WatchDriver does.                                                         *)
EXTENDS WatchTeardown, SequenceTheorems, TLAPS

(* The inductive invariant, in parts.                                        *)

(* A call that was folded was given the promise of an earlier cycle of its   *)
(* executor, and a cycle that of itself.                                     *)
QueueInv ==
  /\ \A e \in Executors : pending[e] # 0 => calls[pending[e]].executor = e
  /\ \A i \in Ids : /\ phase[i] # "folded" <=> cycleOf[i] = i
                    /\ phase[cycleOf[i]] # "folded"
                    /\ cycleOf[i] <= i

(* A cycle begins when every earlier one is over.                            *)
OrderInv ==
  \A c, d \in Ids : d < c /\ phase[c] \notin {"queued", "folded"}
                      => phase[d] \in Over

(* What the stateManager holds from the moment a cycle has reset it.         *)
StateInv ==
  /\ late \subseteq Rejected
  /\ \A c \in Ids : phase[c] \in Active => state \subseteq {c} \cup Rejected

(* Who the snapshotManager may count: a cycle that ran, whose executor is    *)
(* past its first cycle when it is over, and which is not of the executor of *)
(* the cycle in progress.                                                    *)
SummaryInv ==
  /\ \A c \in Ids : phase[c] = "failed" => calls[c].executor \in settled
  /\ \A c \in summary :
       /\ phase[c] \in {"running", "finalizing", "done", "failed"}
       /\ phase[c] \in Over => calls[c].executor \in settled
  /\ \A d \in Ids : phase[d] \in Active =>
       \A c \in summary \ Rejected :
         calls[c].executor = calls[d].executor => c = d

IInv ==
  /\ TypeOK
  /\ QueueInv
  /\ OrderInv
  /\ ScopeIsWhatWasAsked
  /\ StateInv
  /\ SummaryInv
  /\ SummaryOnePerExecutor

-----------------------------------------------------------------------------
(* Lists.                                                                    *)

LEMMA ListOf ==
  ASSUME NEW S, NEW n \in Nat, NEW f \in [1..n -> S]
  PROVE  f \in Seq(S) /\ Len(f) = n
OBVIOUS

LEMMA AppendTo ==
  ASSUME NEW S, NEW f \in Seq(S), NEW x \in S
  PROVE  LET n == Len(f) IN
         /\ Append(f, x) \in [1..(n + 1) -> S]
         /\ Append(f, x)[n + 1] = x
         /\ \A i \in 1..n : Append(f, x)[i] = f[i]
<1>1. /\ Append(f, x) \in Seq(S)
      /\ Len(Append(f, x)) = Len(f) + 1
      /\ \A i \in 1..Len(f) : Append(f, x)[i] = f[i]
      /\ Append(f, x)[Len(f) + 1] = x
  BY AppendProperties
<1>2. Append(f, x) \in [1..(Len(f) + 1) -> S]
  BY <1>1, LenProperties
<1> QED BY <1>1, <1>2

(* The files of a set of calls.                                              *)
LEMMA FilesOfSame ==
  ASSUME NEW A, NEW f, NEW g, \A i \in A : f[i] = g[i]
  PROVE  UNION {f[i].files : i \in A} = UNION {g[i].files : i \in A}
<1>1. {f[i].files : i \in A} = {g[i].files : i \in A}
  OBVIOUS
<1> QED BY <1>1

LEMMA FilesOfMore ==
  ASSUME NEW A, NEW f, NEW x
  PROVE  UNION {f[i].files : i \in A \cup {x}} =
           (UNION {f[i].files : i \in A}) \cup f[x].files
<1>1. {f[i].files : i \in A \cup {x}} =
        {f[i].files : i \in A} \cup {f[x].files}
  OBVIOUS
<1>2. \A X, y : UNION (X \cup {y}) = (UNION X) \cup y
  OBVIOUS
<1> QED BY <1>1, <1>2

LEMMA FilesOfOne ==
  ASSUME NEW f, NEW x
  PROVE  UNION {f[i].files : i \in {x}} = f[x].files
OBVIOUS

(* The calls are a list, its members are options.                            *)
LEMMA CallsFacts ==
  ASSUME TypeOK
  PROVE  /\ Len(calls) \in Nat
         /\ Ids = 1..Len(calls)
         /\ calls \in [Ids -> Calls]
         /\ \A i \in Ids : /\ calls[i] \in CallOptions
                           /\ calls[i].executor \in Executors
                           /\ calls[i].files \in SUBSET Files
BY DriverAssumption, LenProperties DEF TypeOK, Ids, CallOptions

(* Options that differ in their files only.                                  *)
LEMMA SameFields ==
  ASSUME NEW a \in CallOptions, NEW b \in CallOptions
  PROVE  SameButFiles(a, b) <=>
           /\ a.executor = b.executor /\ a.trigger = b.trigger
           /\ a.mode = b.mode /\ a.update = b.update /\ a.listed = b.listed
<1>1. \A c \in {a, b} :
        [c EXCEPT !.files = {}] =
          [executor |-> c.executor, trigger |-> c.trigger, mode |-> c.mode,
           update |-> c.update, listed |-> c.listed, files |-> {}]
  BY DEF CallOptions
<1> QED BY <1>1 DEF SameButFiles

-----------------------------------------------------------------------------
LEMMA InitEstablishes == Init => IInv
<1> SUFFICES ASSUME Init PROVE IInv
  OBVIOUS
<1>1. Ids = {} /\ Len(calls) = 0 /\ calls \in Seq(Calls)
  BY DEF Init, Ids
<1>2. \A S : <<>> \in [{} -> S]
  OBVIOUS
<1>3. /\ cycleOf \in [Ids -> Ids]
      /\ phase \in [Ids -> Phases]
      /\ scope \in [Ids -> SUBSET Files]
  BY <1>1, <1>2, Zenon DEF Init
<1>4. calls \in Seq(Calls) /\ Len(calls) <= MaxCalls
  BY <1>1, DriverAssumption
<1>5. pending \in [Executors -> Ids \cup {0}]
  BY DEF Init
<1>6. /\ settled \subseteq Executors /\ closing \in BOOLEAN
      /\ state \subseteq Ids /\ summary \subseteq Ids /\ late \subseteq Ids
  BY DEF Init
<1>7. TypeOK
  BY <1>3, <1>4, <1>5, <1>6 DEF TypeOK
<1> QED BY <1>1, <1>7
     DEF Init, IInv, QueueInv, OrderInv, ScopeIsWhatWasAsked, StateInv,
         SummaryInv, SummaryOnePerExecutor, Rejected

(* One cycle at a time.                                                      *)
LEMMA OneActive ==
  ASSUME IInv, NEW c \in Ids, NEW d \in Ids,
         phase[c] \in Active, phase[d] \in Active
  PROVE  c = d
BY CallsFacts DEF IInv, OrderInv, Active, Over

(* Every cycle queued before the one in progress is over, those after it     *)
(* have not begun.                                                           *)
LEMMA OthersRest ==
  ASSUME IInv, NEW c \in Ids, phase[c] \in Active, NEW d \in Ids, d # c
  PROVE  phase[d] \in Over \cup {"queued"}
BY CallsFacts, OneActive DEF IInv, TypeOK, Phases


-----------------------------------------------------------------------------
(* A step that moves one cycle on, from `p` to `q`.                          *)
Moves(c, q) ==
  /\ phase' = [phase EXCEPT ![c] = q]
  /\ UNCHANGED queueVars

(* Moving a cycle keeps the type, the queue and the scopes.                  *)
LEMMA MoveKeepsQueue ==
  ASSUME IInv, NEW c \in Ids, NEW q \in Phases \ {"folded"}, Moves(c, q),
         phase[c] # "folded"
  PROVE  /\ Ids' = Ids
         /\ phase' \in [Ids -> Phases]
         /\ \A i \in Ids : phase'[i] = IF i = c THEN q ELSE phase[i]
         /\ QueueInv'
         /\ ScopeIsWhatWasAsked'
<1> USE DEF Moves, queueVars
<1>1. Ids' = Ids
  BY DEF Ids
<1>2. phase' \in [Ids -> Phases]
  BY DEF IInv, TypeOK
<1>3. \A i \in Ids : phase'[i] = IF i = c THEN q ELSE phase[i]
  BY DEF IInv, TypeOK
<1>4. \A i \in Ids : phase'[i] = "folded" <=> phase[i] = "folded"
  BY <1>3
<1>5. cycleOf \in [Ids -> Ids]
  BY DEF IInv, TypeOK
<1>6. QueueInv'
  BY <1>1, <1>4, <1>5 DEF IInv, QueueInv
<1>7. \A d : Answers(d)' = Answers(d)
  BY <1>1 DEF Answers
<1>8. ScopeIsWhatWasAsked'
  BY <1>1, <1>4, <1>7 DEF IInv, ScopeIsWhatWasAsked, SameButFiles
<1> QED BY <1>1, <1>2, <1>3, <1>6, <1>8

(* A rejected cycle stays rejected.                                          *)
LEMMA RejectedGrows ==
  ASSUME IInv, NEW c \in Ids, NEW q \in Phases \ {"folded"}, Moves(c, q),
         phase[c] \notin Over
  PROVE  /\ Rejected' = IF q = "failed" /\ LateEvents THEN Rejected \cup {c}
                        ELSE Rejected
         /\ Rejected \subseteq Rejected'
BY MoveKeepsQueue DEF Rejected, Over

(* A cycle that is in progress, or begins, has only cycles before it that    *)
(* are over, and those after it have not begun.                              *)
LEMMA MoveKeepsOrder ==
  ASSUME IInv, NEW c \in Ids, NEW q \in Phases \ {"folded"}, Moves(c, q),
         phase[c] \in Active \/ (phase[c] = "queued" /\ TailSettled(c))
  PROVE  /\ OrderInv'
         /\ \A d \in Ids \ {c} : phase[d] \in Over \cup {"queued"}
<1>1. phase[c] \notin Over
  BY DEF Active, Over
<1>2. /\ Ids' = Ids
      /\ \A i \in Ids : phase'[i] = IF i = c THEN q ELSE phase[i]
  BY <1>1, MoveKeepsQueue DEF Over
<1>3. \A d \in Ids : d < c => phase[d] \in Over
  BY CallsFacts DEF IInv, OrderInv, TailSettled, Active
<1>4. \A d \in Ids : c < d => phase[d] \in {"queued", "folded"}
  BY <1>1 DEF IInv, OrderInv
<1>5. \A d \in Ids \ {c} : phase[d] \in Over \cup {"queued"}
  BY <1>3, <1>4, CallsFacts DEF IInv, Over
<1>6. OrderInv'
  BY <1>1, <1>2, <1>3, <1>4, CallsFacts DEF OrderInv, IInv
<1> QED BY <1>5, <1>6

LEMMA BeginPreserves ==
  ASSUME IInv, NEW c \in Ids, Begin(c)
  PROVE  IInv'
<1> DEFINE q == IF closing THEN "done" ELSE "notifying"
<1>1. Moves(c, q) /\ q \in Phases \ {"folded"} /\ UNCHANGED <<settled, late>>
  BY DEF Begin, Moves, Phases, Active, Over
<1>2. phase[c] = "queued" /\ TailSettled(c)
  BY DEF Begin
<1>3. UNCHANGED queueVars /\ closing' = closing
  BY DEF Begin
<1>4. /\ state' = IF closing THEN state ELSE {}
      /\ summary' = IF ~closing /\ calls[c].executor \in settled THEN {}
                    ELSE summary
  BY DEF Begin, PrepareCycleState
<1> HIDE DEF q
<1>5. /\ Ids' = Ids
      /\ phase' \in [Ids -> Phases]
      /\ \A i \in Ids : phase'[i] = IF i = c THEN q ELSE phase[i]
      /\ QueueInv' /\ ScopeIsWhatWasAsked' /\ OrderInv'
      /\ \A d \in Ids \ {c} : phase[d] \in Over \cup {"queued"}
  BY <1>1, <1>2, MoveKeepsQueue, MoveKeepsOrder
<1>6. Rejected' = Rejected
  BY <1>1, <1>2, RejectedGrows DEF q, Over
<1>7. TypeOK'
  BY <1>1, <1>3, <1>4, <1>5 DEF IInv, TypeOK, queueVars, Ids
<1>8. c \notin summary
  BY <1>2 DEF IInv, SummaryInv
<1>9. StateInv'
  BY <1>1, <1>4, <1>5, <1>6 DEF IInv, StateInv, q, Active, Over
<1>10. SummaryOnePerExecutor'
  BY <1>3, <1>4, <1>6 DEF IInv, SummaryOnePerExecutor, queueVars
<1>11. ASSUME NEW d \in summary'
       PROVE  /\ phase'[d] \in {"running", "finalizing", "done", "failed"}
              /\ phase'[d] \in Over => calls'[d].executor \in settled'
  BY <1>1, <1>3, <1>4, <1>5, <1>8, <1>11
     DEF IInv, TypeOK, SummaryInv, queueVars
<1>12. ASSUME NEW d \in Ids, phase'[d] \in Active,
              NEW e \in summary' \ Rejected
       PROVE  calls[e].executor # calls[d].executor
  <2>1. d = c /\ ~closing
    BY <1>5, <1>12 DEF q, Active, Over
  <2>2. e \in summary /\ calls[c].executor \notin settled
    BY <1>4, <1>12, <2>1
  <2>3. e \in Ids /\ e # c /\ phase[e] \in Over
    BY <1>5, <1>8, <2>2 DEF IInv, TypeOK, SummaryInv
  <2>4. calls[e].executor \in settled
    BY <2>2, <2>3 DEF IInv, SummaryInv
  <2> QED BY <2>1, <2>2, <2>4
<1>13. \A d \in Ids : phase'[d] = "failed" => calls[d].executor \in settled'
  BY <1>1, <1>5 DEF IInv, SummaryInv, q
<1>14. SummaryInv'
  BY <1>3, <1>5, <1>6, <1>11, <1>12, <1>13 DEF SummaryInv, queueVars
<1> QED BY <1>5, <1>7, <1>9, <1>10, <1>14 DEF IInv

(* The steps of the cycle in progress that leave the managers alone.         *)
LEMMA ActivePreserves ==
  ASSUME IInv, NEW c \in Ids, NEW q \in Phases \ {"folded"}, Moves(c, q),
         phase[c] \in Active, q \notin {"queued", "notifying"},
         phase[c] = "notifying" => q \in {"running", "failed"},
         settled' = IF q \in Over THEN settled \cup {calls[c].executor}
                    ELSE settled,
         UNCHANGED <<closing, state, summary>>,
         late' \subseteq Ids, late' \subseteq Rejected'
  PROVE  IInv'
<1>1. /\ Ids' = Ids
      /\ phase' \in [Ids -> Phases]
      /\ \A i \in Ids : phase'[i] = IF i = c THEN q ELSE phase[i]
      /\ QueueInv' /\ ScopeIsWhatWasAsked' /\ OrderInv'
      /\ \A d \in Ids \ {c} : phase[d] \in Over \cup {"queued"}
  BY MoveKeepsQueue, MoveKeepsOrder DEF Active
<1>2. Rejected \subseteq Rejected'
  BY RejectedGrows DEF Active, Over
<1>3. calls[c].executor \in Executors /\ UNCHANGED queueVars
  BY CallsFacts DEF IInv, Moves
<1>4. TypeOK'
  BY <1>1, <1>3 DEF IInv, TypeOK, queueVars, Ids
<1>5. StateInv'
  <2> SUFFICES ASSUME NEW d \in Ids, phase'[d] \in Active
               PROVE  state' \subseteq {d} \cup Rejected'
    BY <1>1 DEF StateInv
  <2>1. d = c
    BY <1>1 DEF Active, Over
  <2> QED BY <1>2, <2>1 DEF IInv, StateInv
<1>6. SummaryOnePerExecutor'
  BY <1>2, <1>3 DEF IInv, SummaryOnePerExecutor, queueVars
<1>7. ASSUME NEW d \in summary'
      PROVE  /\ phase'[d] \in {"running", "finalizing", "done", "failed"}
             /\ phase'[d] \in Over => calls'[d].executor \in settled'
  <2>1. CASE d = c
    BY <1>1, <1>3, <2>1 DEF Phases, Active, Over, queueVars
  <2>2. CASE d # c
    BY <1>1, <1>3, <1>7, <2>2 DEF IInv, TypeOK, SummaryInv, queueVars
  <2> QED BY <2>1, <2>2
<1>8. ASSUME NEW d \in Ids, phase'[d] \in Active,
             NEW e \in summary' \ Rejected',
             calls[e].executor = calls[d].executor
      PROVE  e = d
  <2>1. d = c
    BY <1>1, <1>8 DEF Active, Over
  <2> QED BY <1>2, <1>8, <2>1 DEF IInv, SummaryInv
<1>9. \A d \in Ids : phase'[d] = "failed" => calls[d].executor \in settled'
  BY <1>1, <1>3 DEF IInv, SummaryInv, Over
<1>10. SummaryInv'
  BY <1>1, <1>3, <1>7, <1>8, <1>9 DEF SummaryInv, queueVars
<1> QED BY <1>1, <1>4, <1>5, <1>6, <1>10 DEF IInv

LEMMA NotifiedPreserves ==
  ASSUME IInv, NEW c \in Ids, Notified(c)
  PROVE  IInv'
<1>1. Moves(c, "running") /\ phase[c] = "notifying"
  BY DEF Notified, Moves
<1>2. late' \subseteq Ids /\ late' \subseteq Rejected'
  BY <1>1, RejectedGrows
     DEF IInv, TypeOK, StateInv, Notified, Phases, Active, Over
<1> QED BY <1>1, <1>2, ActivePreserves
        DEF Notified, Phases, Active, Over

LEMMA RanPreserves ==
  ASSUME IInv, NEW c \in Ids, Ran(c)
  PROVE  IInv'
<1> DEFINE q == IF closing THEN "done" ELSE "finalizing"
<1>1. Moves(c, q) /\ phase[c] = "running"
  BY DEF Ran, Moves
<1>2. q \in Phases \ {"folded"} /\ (q \in Over <=> closing)
  BY DEF Phases, Active, Over
<1>3. settled' = IF q \in Over THEN settled \cup {calls[c].executor}
                 ELSE settled
  BY <1>2 DEF Ran, Settle
<1>4. q \notin {"queued", "notifying"}
  OBVIOUS
<1> HIDE DEF q
<1>5. late' \subseteq Ids /\ late' \subseteq Rejected'
  BY <1>1, <1>2, RejectedGrows DEF IInv, TypeOK, StateInv, Ran, Over
<1>6. UNCHANGED <<closing, state, summary>>
  BY DEF Ran
<1> QED BY <1>1, <1>2, <1>3, <1>4, <1>5, <1>6, ActivePreserves DEF Active

LEMMA FinalizedPreserves ==
  ASSUME IInv, NEW c \in Ids, Finalized(c)
  PROVE  IInv'
<1>1. Moves(c, "done") /\ phase[c] = "finalizing"
  BY DEF Finalized, Moves
<1>2. late' \subseteq Ids /\ late' \subseteq Rejected'
  BY <1>1, RejectedGrows
     DEF IInv, TypeOK, StateInv, Finalized, Phases, Over
<1> QED BY <1>1, <1>2, ActivePreserves
        DEF Finalized, Settle, Phases, Active, Over

LEMMA FailPreserves ==
  ASSUME IInv, NEW c \in Ids, Fail(c)
  PROVE  IInv'
<1>1. Moves(c, "failed") /\ phase[c] \in Active
  BY DEF Fail, Moves
<1>2. /\ late' \subseteq Rejected'
      /\ late' \subseteq Ids
  BY <1>1, RejectedGrows
     DEF IInv, TypeOK, StateInv, Fail, Phases, Active, Over
<1> QED BY <1>1, <1>2, ActivePreserves DEF Fail, Settle, Phases, Active, Over

-----------------------------------------------------------------------------
LEMMA EventPreserves ==
  ASSUME IInv, NEW c \in Ids, Event(c)
  PROVE  IInv'
<1> USE DEF Event, queueVars
<1>1. /\ Ids' = Ids /\ Rejected' = Rejected
      /\ QueueInv' /\ OrderInv' /\ ScopeIsWhatWasAsked'
  BY DEF IInv, Ids, Rejected, QueueInv, OrderInv, ScopeIsWhatWasAsked,
         Answers, SameButFiles
<1>2. TypeOK'
  BY <1>1 DEF IInv, TypeOK, Ids
<1>3. phase[c] \in Active \/ c \in Rejected
  BY DEF IInv, StateInv, Active
<1>4. StateInv'
  BY <1>1, <1>3, OneActive DEF IInv, StateInv
<1>5. CASE phase[c] = "running"
  <2>1. SummaryOnePerExecutor'
    BY <1>1, <1>5 DEF IInv, SummaryOnePerExecutor, SummaryInv, Active
  <2>2. SummaryInv'
    BY <1>1, <1>5, OneActive DEF IInv, SummaryInv, Active, Over
  <2> QED BY <1>1, <1>2, <1>4, <2>1, <2>2 DEF IInv
<1>6. CASE c \in late
  <2>1. c \in Rejected
    BY <1>6 DEF IInv, StateInv
  <2>2. summary' \ Rejected' = summary \ Rejected
    BY <1>1, <2>1
  <2>3. phase[c] = "failed" /\ calls[c].executor \in settled
    BY <2>1 DEF IInv, SummaryInv, Rejected
  <2>4. SummaryInv'
    BY <1>1, <2>1, <2>2, <2>3 DEF IInv, SummaryInv, Rejected
  <2>5. SummaryOnePerExecutor'
    BY <1>1, <2>2 DEF IInv, SummaryOnePerExecutor
  <2> QED BY <1>1, <1>2, <1>4, <2>4, <2>5 DEF IInv
<1> QED BY <1>5, <1>6

LEMMA LateEndsPreserves ==
  ASSUME IInv, NEW c \in Ids, LateEnds(c)
  PROVE  IInv'
BY DEF LateEnds, queueVars, IInv, TypeOK, Ids, Rejected, QueueInv, OrderInv,
       ScopeIsWhatWasAsked, Answers, SameButFiles, StateInv, SummaryInv,
       SummaryOnePerExecutor

LEMMA ClosePreserves ==
  ASSUME IInv, Close
  PROVE  IInv'
BY SMTT(30)
   DEF Close, queueVars, IInv, TypeOK, Ids, Rejected, QueueInv, OrderInv,
       ScopeIsWhatWasAsked, Answers, SameButFiles, StateInv, SummaryInv,
       SummaryOnePerExecutor

LEMMA StutterPreserves ==
  ASSUME IInv, UNCHANGED vars
  PROVE  IInv'
BY DEF vars, IInv, TypeOK, Ids, Rejected, QueueInv, OrderInv,
       ScopeIsWhatWasAsked, Answers, SameButFiles, StateInv, SummaryInv,
       SummaryOnePerExecutor

(* What a call adds to the lists.                                            *)
LEMMA RunCycleFacts ==
  ASSUME TypeOK, NEW call \in Calls, RunCycle(call)
  PROVE  LET n == Len(calls) IN
         /\ Ids = 1..n /\ Ids' = 1..(n + 1) /\ n + 1 <= MaxCalls
         /\ n \in Nat
         /\ calls' \in Seq(Calls) /\ Len(calls') = n + 1
         /\ calls' \in [1..(n + 1) -> Calls]
         /\ \A i \in Ids : calls'[i] = calls[i]
         /\ calls'[n + 1] = call
         /\ cycleOf' \in [Ids' -> Ids']
         /\ \A i \in Ids : cycleOf'[i] = cycleOf[i]
         /\ phase' \in [Ids' -> Phases]
         /\ \A i \in Ids : phase'[i] = phase[i]
         /\ scope' \in [Ids' -> SUBSET Files]
         /\ \/ /\ cycleOf'[n + 1] = n + 1 /\ phase'[n + 1] = "queued"
               /\ scope'[n + 1] = call.files
               /\ \A i \in Ids : scope'[i] = scope[i]
               /\ pending' = [pending EXCEPT ![call.executor] = n + 1]
            \/ LET q == pending[call.executor] IN
               /\ q \in Ids /\ phase[q] = "queued" /\ canFold(calls[q], call)
               /\ cycleOf'[n + 1] = q /\ phase'[n + 1] = "folded"
               /\ \A i \in Ids : scope'[i] = IF i = q
                                   THEN scope[q] \cup call.files ELSE scope[i]
               /\ pending' = pending
<1> DEFINE n == Len(calls)
           q == pending[call.executor]
           N == 1..(n + 1)
           F == SUBSET Files
<1>1. /\ n \in Nat /\ Ids = 1..n /\ calls \in [1..n -> Calls]
      /\ call \in CallOptions
      /\ call.executor \in Executors /\ call.files \in SUBSET Files
  BY CallsFacts, DriverAssumption DEF CallOptions
<1>2. /\ calls' = Append(calls, call) /\ n < MaxCalls /\ MaxCalls \in Nat
      /\ calls \in Seq(Calls)
  BY DriverAssumption DEF RunCycle, TypeOK
<1>3. calls' \in Seq(Calls) /\ Len(calls') = n + 1
  BY <1>2, AppendProperties
<1>4. /\ calls' \in [1..(n + 1) -> Calls]
      /\ \A i \in Ids : calls'[i] = calls[i]
      /\ calls'[n + 1] = call
  BY <1>1, <1>2, AppendTo
<1>5. Ids' = 1..(n + 1) /\ n + 1 <= MaxCalls
  BY <1>1, <1>2, <1>4 DEF Ids
<1>6. /\ cycleOf \in [1..n -> 1..(n + 1)]
      /\ phase \in [1..n -> Phases]
      /\ scope \in [1..n -> SUBSET Files]
      /\ q \in 0..n
  BY <1>1 DEF TypeOK
<1>7. /\ cycleOf \in Seq(N) /\ Len(cycleOf) = n
      /\ phase \in Seq(Phases) /\ Len(phase) = n
      /\ scope \in Seq(F) /\ Len(scope) = n
  BY <1>1, <1>6, ListOf
<1>8. {} \in F /\ call.files \in F /\ n + 1 \in N
  BY <1>1
<1>9. q # 0 => q \in N
  BY <1>1, <1>6
<1> HIDE DEF n, q, N, F
<1>10. CASE /\ q # 0 /\ isOpen(q) /\ canFold(calls[q], call)
           /\ cycleOf' = Append(cycleOf, q)
           /\ phase' = Append(phase, "folded")
           /\ scope' = Append([scope EXCEPT ![q] = FoldedFiles(q, call)], {})
           /\ UNCHANGED pending
  <2> DEFINE g == [scope EXCEPT ![q] = FoldedFiles(q, call)]
  <2>1. /\ g \in [1..n -> SUBSET Files]
        /\ \A i \in 1..n : g[i] = IF i = q THEN scope[q] \cup call.files
                                  ELSE scope[i]
    BY <1>1, <1>6 DEF FoldedFiles
  <2>2. "folded" \in Phases /\ q \in N /\ q \in Ids
    BY <1>1, <1>6, <1>10, <1>9 DEF Phases, Over
  <2>3. /\ cycleOf' \in [1..(n + 1) -> N]
        /\ \A i \in 1..n : cycleOf'[i] = cycleOf[i]
        /\ cycleOf'[n + 1] = q
    BY <1>7, <1>10, <2>2, AppendTo
  <2>4. /\ phase' \in [1..(n + 1) -> Phases]
        /\ \A i \in 1..n : phase'[i] = phase[i]
        /\ phase'[n + 1] = "folded"
    BY <1>7, <1>10, <2>2, AppendTo
  <2> HIDE DEF g
  <2>5. g \in Seq(F) /\ Len(g) = n
    BY <1>1, <2>1, ListOf DEF F
  <2>6. /\ Append(g, {}) \in [1..(n + 1) -> F]
        /\ \A i \in 1..n : Append(g, {})[i] = g[i]
    BY <1>8, <2>5, AppendTo
  <2>7. /\ scope' \in [1..(n + 1) -> F]
        /\ \A i \in 1..n : scope'[i] = IF i = q THEN scope[q] \cup call.files
                                       ELSE scope[i]
    BY <1>10, <2>1, <2>6 DEF g
  <2>8. phase[q] = "queued"
    BY <1>10 DEF isOpen
  <2> QED BY <1>1, <1>3, <1>4, <1>5, <1>10, <2>2, <2>3, <2>4, <2>7, <2>8
             DEF n, q, N, F
<1>11. CASE /\ cycleOf' = Append(cycleOf, n + 1)
           /\ phase' = Append(phase, "queued")
           /\ scope' = Append(scope, call.files)
           /\ pending' = [pending EXCEPT ![call.executor] = n + 1]
  <2>1. "queued" \in Phases /\ n + 1 \in N
    BY <1>8 DEF Phases
  <2>2. /\ cycleOf' \in [1..(n + 1) -> N]
        /\ \A i \in 1..n : cycleOf'[i] = cycleOf[i]
        /\ cycleOf'[n + 1] = n + 1
    BY <1>7, <1>11, <2>1, AppendTo
  <2>3. /\ phase' \in [1..(n + 1) -> Phases]
        /\ \A i \in 1..n : phase'[i] = phase[i]
        /\ phase'[n + 1] = "queued"
    BY <1>7, <1>11, <2>1, AppendTo
  <2>4. /\ scope' \in [1..(n + 1) -> F]
        /\ \A i \in 1..n : scope'[i] = scope[i]
        /\ scope'[n + 1] = call.files
    BY <1>7, <1>8, <1>11, AppendTo
  <2> QED BY <1>1, <1>3, <1>4, <1>5, <1>11, <2>2, <2>3, <2>4 DEF n, N, F
<1> QED BY <1>10, <1>11 DEF RunCycle, n, q

LEMMA RunCyclePreserves ==
  ASSUME IInv, NEW call \in Calls, RunCycle(call)
  PROVE  IInv'
<1> DEFINE n == Len(calls)
           new == n + 1
           q == pending[call.executor]
           fold == phase'[new] = "folded"
<1>1. /\ n \in Nat /\ Ids = 1..n /\ Ids' = 1..new /\ new <= MaxCalls
      /\ calls' \in Seq(Calls) /\ Len(calls') = new
      /\ \A i \in Ids : calls'[i] = calls[i]
      /\ calls'[new] = call
      /\ cycleOf' \in [Ids' -> Ids']
      /\ \A i \in Ids : cycleOf'[i] = cycleOf[i]
      /\ phase' \in [Ids' -> Phases]
      /\ \A i \in Ids : phase'[i] = phase[i]
      /\ scope' \in [Ids' -> SUBSET Files]
  BY RunCycleFacts DEF IInv
<1>2. \/ /\ ~fold /\ cycleOf'[new] = new /\ phase'[new] = "queued"
         /\ scope'[new] = call.files
         /\ \A i \in Ids : scope'[i] = scope[i]
         /\ pending' = [pending EXCEPT ![call.executor] = new]
      \/ /\ fold /\ q \in Ids /\ phase[q] = "queued" /\ canFold(calls[q], call)
         /\ cycleOf'[new] = q
         /\ \A i \in Ids : scope'[i] = IF i = q THEN scope[q] \cup call.files
                                       ELSE scope[i]
         /\ pending' = pending
  BY RunCycleFacts DEF IInv
<1>3. /\ UNCHANGED <<settled, closing, state, summary, late>>
      /\ call.executor \in Executors /\ call \in CallOptions
  BY DriverAssumption DEF RunCycle, CallOptions
<1>4. /\ Ids' = Ids \cup {new} /\ new \notin Ids /\ Ids \subseteq Ids'
      /\ new \in Ids'
  BY <1>1
<1>5. /\ cycleOf \in [Ids -> Ids] /\ pending \in [Executors -> Ids \cup {0}]
      /\ state \subseteq Ids /\ summary \subseteq Ids /\ late \subseteq Ids
      /\ settled \subseteq Executors /\ closing \in BOOLEAN
  BY DEF IInv, TypeOK
<1>6. TypeOK'
  <2>1. pending' \in [Executors -> Ids' \cup {0}]
    BY <1>2, <1>4, <1>5
  <2> QED BY <1>1, <1>3, <1>4, <1>5, <2>1 DEF TypeOK
<1>7. QueueInv'
  <2>1. ASSUME NEW e \in Executors, pending'[e] # 0
        PROVE  calls'[pending'[e]].executor = e
    <3>1. CASE pending'[e] = pending[e]
      BY <1>1, <1>5, <2>1, <3>1 DEF IInv, QueueInv
    <3>2. CASE pending'[e] # pending[e]
      BY <1>1, <1>2, <1>3, <1>5, <3>2
    <3> QED BY <3>1, <3>2
  <2>2. ASSUME NEW i \in Ids
        PROVE  /\ phase'[i] # "folded" <=> cycleOf'[i] = i
               /\ phase'[cycleOf'[i]] # "folded"
               /\ cycleOf'[i] <= i
    <3>1. /\ cycleOf'[i] = cycleOf[i] /\ cycleOf[i] \in Ids
          /\ phase'[i] = phase[i]
      BY <1>1, <1>5
    <3>2. phase'[cycleOf[i]] = phase[cycleOf[i]]
      BY <1>1, <3>1
    <3>3. /\ phase[i] # "folded" <=> cycleOf[i] = i
          /\ phase[cycleOf[i]] # "folded"
          /\ cycleOf[i] <= i
      BY DEF IInv, QueueInv
    <3> QED BY <3>1, <3>2, <3>3
  <2>3. /\ phase'[new] # "folded" <=> cycleOf'[new] = new
        /\ phase'[cycleOf'[new]] # "folded"
        /\ cycleOf'[new] <= new
    BY <1>1, <1>2, <1>4
  <2> QED BY <1>4, <2>1, <2>2, <2>3 DEF QueueInv
<1>8. OrderInv'
  BY <1>1, <1>2 DEF IInv, OrderInv
<1>9. Rejected' = Rejected
  BY <1>1, <1>2, <1>4 DEF Rejected
<1>10. StateInv'
  BY <1>1, <1>2, <1>3, <1>4, <1>9 DEF IInv, StateInv, Active
<1>11. SummaryInv'
  <2>1. phase'[new] \notin Active \cup {"failed"}
    BY <1>2 DEF Active
  <2>2. \A c \in Ids' : phase'[c] = "failed" =>
                          calls'[c].executor \in settled'
    BY <1>1, <1>3, <1>4, <2>1 DEF IInv, SummaryInv
  <2>3. \A c \in summary' :
          /\ phase'[c] \in {"running", "finalizing", "done", "failed"}
          /\ phase'[c] \in Over => calls'[c].executor \in settled'
    BY <1>1, <1>3, <1>5 DEF IInv, SummaryInv
  <2>4. \A d \in Ids' : phase'[d] \in Active =>
          \A c \in summary' \ Rejected' :
            calls'[c].executor = calls'[d].executor => c = d
    BY <1>1, <1>3, <1>4, <1>5, <1>9, <2>1 DEF IInv, SummaryInv
  <2> QED BY <2>2, <2>3, <2>4 DEF SummaryInv
<1>12. SummaryOnePerExecutor'
  BY <1>1, <1>3, <1>5, <1>9 DEF IInv, SummaryOnePerExecutor
<1>13. ScopeIsWhatWasAsked'
  <2> DEFINE After(c) == {i \in Ids' : cycleOf'[i] = c}
  <2> HIDE DEF n, new, q
  <2>1. \A i \in Ids : cycleOf'[i] = cycleOf[i] /\ cycleOf'[i] # new
    BY <1>1, <1>4, <1>5
  <2>2. ASSUME NEW c \in Ids, ~(fold /\ c = q)
        PROVE  /\ After(c) = Answers(c)
               /\ scope'[c] = scope[c]
    <3>1. cycleOf'[new] # c
      BY <1>2, <1>4, <2>2
    <3> QED BY <1>2, <1>4, <2>1, <2>2, <3>1 DEF Answers
  <2>3. fold => /\ After(q) = Answers(q) \cup {new}
                /\ scope'[q] = scope[q] \cup call.files
    BY <1>2, <1>4, <2>1 DEF Answers
  <2>4. After(new) = IF fold THEN {} ELSE {new}
    <3>1. cycleOf'[new] = new <=> ~fold
      BY <1>2, <1>4
    <3> QED BY <1>4, <2>1, <3>1 DEF Answers
  <2>5. fold => SameButFiles(call, calls[q])
    <3>1. fold => /\ q \in Ids /\ q # 0 /\ calls[q].executor = call.executor
                  /\ call \in CallOptions /\ calls[q] \in CallOptions
      BY <1>1, <1>2, <1>3, CallsFacts DEF IInv, QueueInv, q
    <3>2. fold => canFold(calls[q], call)
      BY <1>2
    <3> QED BY <3>1, <3>2, SameFields DEF canFold
  <2>6. ASSUME NEW c \in Ids
        PROVE  /\ phase'[c] # "folded" =>
                    scope'[c] = UNION {calls'[i].files : i \in After(c)}
               /\ \A i \in After(c) : SameButFiles(calls'[i], calls'[c])
    <3>1. Answers(c) \subseteq Ids
      BY DEF Answers
    <3>2. /\ phase[c] # "folded" =>
               scope[c] = UNION {calls[i].files : i \in Answers(c)}
          /\ \A i \in Answers(c) : SameButFiles(calls[i], calls[c])
      BY DEF IInv, ScopeIsWhatWasAsked
    <3>3. UNION {calls'[i].files : i \in Answers(c)} =
            UNION {calls[i].files : i \in Answers(c)}
      BY <1>1, <3>1, FilesOfSame
    <3>4. CASE fold /\ c = q
      <4>1. UNION {calls'[i].files : i \in Answers(c) \cup {new}} =
              (UNION {calls'[i].files : i \in Answers(c)}) \cup call.files
        BY <1>1, FilesOfMore
      <4>2. UNION {calls'[i].files : i \in After(c)} =
              (UNION {calls[i].files : i \in Answers(c)}) \cup call.files
        BY <2>3, <3>4, <3>3, <4>1
      <4>3. phase[c] # "folded"
        BY <1>2, <3>4
      <4> QED BY <1>1, <2>3, <2>5, <3>1, <3>2, <3>4, <4>2, <4>3
    <3>5. CASE ~(fold /\ c = q)
      BY <1>1, <2>2, <3>1, <3>2, <3>5, <3>3
    <3> QED BY <3>4, <3>5
  <2>7. /\ phase'[new] # "folded" =>
             scope'[new] = UNION {calls'[i].files : i \in After(new)}
        /\ \A i \in After(new) : SameButFiles(calls'[i], calls'[new])
    <3>1. CASE fold
      BY <2>4, <3>1
    <3>2. CASE ~fold
      <4>1. /\ After(new) = {new} /\ scope'[new] = call.files
            /\ calls'[new] = call
        BY <1>1, <1>2, <2>4, <3>2
      <4>2. UNION {calls'[i].files : i \in {new}} = call.files
        BY <4>1, FilesOfOne
      <4> HIDE DEF After
      <4>3. \A i \in After(new) : calls'[i] = calls'[new]
        BY <4>1
      <4> QED BY <4>1, <4>2, <4>3 DEF SameButFiles
    <3> QED BY <3>1, <3>2
  <2>8. \A c : Answers(c)' = After(c)
    BY DEF Answers
  <2> QED BY <1>4, <2>6, <2>7, <2>8 DEF ScopeIsWhatWasAsked
<1> QED BY <1>6, <1>7, <1>8, <1>10, <1>11, <1>12, <1>13 DEF IInv

-----------------------------------------------------------------------------
LEMMA NextPreserves == IInv /\ [Next]_vars => IInv'
<1> SUFFICES ASSUME IInv, [Next]_vars PROVE IInv'
  OBVIOUS
<1>1. ASSUME NEW call \in Calls, RunCycle(call) PROVE IInv'
  BY <1>1, RunCyclePreserves
<1>2. ASSUME NEW c \in Ids, CycleStep(c) PROVE IInv'
  BY <1>2, BeginPreserves, NotifiedPreserves, RanPreserves,
     FinalizedPreserves, FailPreserves DEF CycleStep
<1>3. ASSUME NEW c \in Ids, Event(c) \/ LateEnds(c) PROVE IInv'
  BY <1>3, EventPreserves, LateEndsPreserves
<1> QED BY <1>1, <1>2, <1>3, ClosePreserves, StutterPreserves DEF Next

THEOREM Invariance == Spec => []IInv
BY InitEstablishes, NextPreserves, PTL DEF Spec

(* What a cycle runs, and what it counts, is its own, whatever is called,    *)
(* folded, rejected or closed, and in whatever order.                        *)
THEOREM Apart == Spec => []CyclesKeepApart
<1>1. IInv => CyclesKeepApart
  BY DEF IInv, CyclesKeepApart, StateInv, StateIsOwn, Active
<1> QED BY <1>1, Invariance, PTL

-----------------------------------------------------------------------------
(* The refinement of BatchedRequests.                                        *)

StageOf(p) ==
  IF p = "queued" THEN "waiting" ELSE IF p \in Active THEN "served"
  ELSE "answered"

LEMMA StageFacts ==
  ASSUME IInv
  PROVE  /\ Stage = [i \in Ids |-> StageOf(phase[cycleOf[i]])]
         /\ Batches!Waiting = {i \in Ids : phase[cycleOf[i]] = "queued"}
         /\ Batches!Served = {i \in Ids : phase[cycleOf[i]] \in Active}
<1>1. Stage = [i \in Ids |-> StageOf(phase[cycleOf[i]])]
  BY DEF Stage, StageOf
<1> QED BY <1>1 DEF Batches!Waiting, Batches!Served, StageOf, Active, Ids

(* The files of at most one cycle in progress.                               *)
LEMMA CoveredByOne ==
  ASSUME NEW I, NEW ph, NEW sc, NEW c \in I, ph[c] \in Active,
         \A d \in I : ph[d] \in Active => d = c
  PROVE  UNION {sc[d] : d \in {e \in I : ph[e] \in Active}} = sc[c]
<1>1. {e \in I : ph[e] \in Active} = {c}
  OBVIOUS
<1>2. {sc[d] : d \in {c}} = {sc[c]}
  OBVIOUS
<1> QED BY <1>1, <1>2

LEMMA CoveredByNone ==
  ASSUME NEW I, NEW ph, NEW sc, \A d \in I : ph[d] \notin Active
  PROVE  UNION {sc[d] : d \in {e \in I : ph[e] \in Active}} = {}
<1>1. {e \in I : ph[e] \in Active} = {}
  OBVIOUS
<1> QED BY <1>1

(* A cycle that moves takes the requests it answers with it.                 *)
LEMMA MoveRestages ==
  ASSUME IInv, NEW c \in Ids, NEW q \in Phases \ {"folded"}, Moves(c, q),
         phase[c] # "folded"
  PROVE  Stage' = [i \in Ids |-> IF i \in Answers(c) THEN StageOf(q)
                                 ELSE Stage[i]]
<1>1. /\ Ids' = Ids
      /\ \A i \in Ids : phase'[i] = IF i = c THEN q ELSE phase[i]
      /\ cycleOf' = cycleOf /\ cycleOf \in [Ids -> Ids]
  BY MoveKeepsQueue DEF Moves, queueVars, IInv, TypeOK
<1>2. Stage' = [i \in Ids |-> StageOf(phase'[cycleOf[i]])]
  BY <1>1 DEF Stage, StageOf
<1>3. \A i \in Ids : /\ cycleOf[i] \in Ids
                     /\ i \in Answers(c) <=> cycleOf[i] = c
  BY <1>1 DEF Answers
<1>4. \A i \in Ids : StageOf(phase'[cycleOf[i]]) =
                       IF i \in Answers(c) THEN StageOf(q) ELSE Stage[i]
  BY <1>1, <1>3, StageFacts
<1> QED BY <1>2, <1>4

(* A cycle that begins answers a batch that may be served.                   *)
LEMMA BeginsABatch ==
  ASSUME IInv, NEW c \in Ids, phase[c] = "queued", TailSettled(c)
  PROVE  /\ Batches!Batch(Answers(c))
         /\ Answers(c) \in SUBSET Batches!Waiting
         /\ Batches!Served = {}
         /\ \A d \in Ids : phase[d] \notin Active
<1>1. /\ cycleOf \in [Ids -> Ids] /\ Ids = 1..Len(calls) /\ Len(calls) \in Nat
      /\ \A i \in Ids : cycleOf[i] \in Ids /\ cycleOf[i] <= i
      /\ cycleOf[c] = c
  BY CallsFacts DEF IInv, TypeOK, QueueInv
<1>2. \A d \in Ids : d < c => phase[d] \in Over
  BY <1>1 DEF TailSettled
<1>3. \A d \in Ids : phase[d] \notin Active
  <2> SUFFICES ASSUME NEW d \in Ids, phase[d] \in Active PROVE FALSE
    OBVIOUS
  <2>1. d < c \/ c < d
    BY <1>1 DEF Active
  <2> QED BY <1>2, <2>1 DEF IInv, OrderInv, Active, Over
<1>4. Batches!Served = {}
  BY <1>1, <1>3, StageFacts
<1>5. Answers(c) \in SUBSET Batches!Waiting
  BY StageFacts DEF Answers
<1>6. c \in Answers(c)
  BY <1>1 DEF Answers
<1>7. \A i, j \in Answers(c) : Batches!Agree(calls[i], calls[j])
  BY DEF IInv, ScopeIsWhatWasAsked, SameButFiles, Batches!Agree
<1>8. \A j \in Batches!Waiting : c <= j
  <2> SUFFICES ASSUME NEW j \in Ids, phase[cycleOf[j]] = "queued"
               PROVE  c <= j
    BY StageFacts
  <2>1. ~(cycleOf[j] < c)
    BY <1>1, <1>2 DEF Over
  <2> QED BY <1>1, <2>1
<1>9. (CHOOSE j \in Answers(c) : TRUE) \in Answers(c)
  BY <1>6
<1>10. Batches!Batch(Answers(c))
  BY <1>6, <1>7, <1>8, <1>9 DEF Batches!Batch
<1> QED BY <1>3, <1>4, <1>5, <1>10

LEMMA InitMaps == Init => Batches!Init
<1> SUFFICES ASSUME Init PROVE Batches!Init
  OBVIOUS
<1>1. Ids = {}
  BY DEF Init, Ids
<1>2. Covered = {}
  BY <1>1 DEF Covered
<1>3. Stage = <<>>
  BY <1>1 DEF Stage
<1> QED BY <1>2, <1>3 DEF Init, Batches!Init

LEMMA RunCycleAsks ==
  ASSUME IInv, NEW call \in Calls, RunCycle(call)
  PROVE  Batches!Ask(call)
<1> DEFINE n == Len(calls)
           new == n + 1
           q == pending[call.executor]
<1>1. /\ n \in Nat /\ Ids = 1..n /\ Ids' = 1..new
      /\ cycleOf' \in [Ids' -> Ids']
      /\ \A i \in Ids : cycleOf'[i] = cycleOf[i]
      /\ \A i \in Ids : phase'[i] = phase[i]
  BY RunCycleFacts DEF IInv
<1>2. \/ /\ cycleOf'[new] = new /\ phase'[new] = "queued"
         /\ \A i \in Ids : scope'[i] = scope[i]
      \/ /\ q \in Ids /\ phase[q] = "queued"
         /\ cycleOf'[new] = q /\ phase'[new] = "folded"
         /\ \A i \in Ids : i # q => scope'[i] = scope[i]
  BY RunCycleFacts DEF IInv
<1>3. /\ phase'[new] \in {"queued", "folded"}
      /\ phase'[cycleOf'[new]] = "queued"
      /\ \A i \in Ids : phase[i] # "queued" => scope'[i] = scope[i]
  BY <1>1, <1>2
<1>4. cycleOf \in [Ids -> Ids]
  BY DEF IInv, TypeOK
<1>5. Stage' = Append(Stage, "waiting")
  <2>1. Stage \in [1..n -> {"waiting", "served", "answered"}]
    BY <1>1, StageFacts DEF StageOf
  <2>2. /\ Stage \in Seq({"waiting", "served", "answered"})
        /\ Len(Stage) = n
    BY <1>1, <2>1, ListOf
  <2>3. /\ Append(Stage, "waiting") \in
             [1..new -> {"waiting", "served", "answered"}]
        /\ Append(Stage, "waiting")[new] = "waiting"
        /\ \A i \in 1..n : Append(Stage, "waiting")[i] = Stage[i]
    BY <2>2, AppendTo
  <2>4. Stage' = [i \in 1..new |-> StageOf(phase'[cycleOf'[i]])]
    BY <1>1 DEF Stage, StageOf
  <2>5. \A i \in 1..n : StageOf(phase'[cycleOf'[i]]) = Stage[i]
    BY <1>1, <1>4, StageFacts
  <2>6. StageOf(phase'[cycleOf'[new]]) = "waiting"
    BY <1>3 DEF StageOf
  <2>7. \A i \in 1..new : i \in 1..n \/ i = new
    BY <1>1
  <2> HIDE DEF n, new
  <2>8. \A i \in 1..new : StageOf(phase'[cycleOf'[i]]) =
                            Append(Stage, "waiting")[i]
    BY <2>3, <2>5, <2>6, <2>7
  <2> QED BY <2>3, <2>4, <2>8
<1>6. Covered' = Covered
  <2>1. {d \in Ids' : phase'[d] \in Active} = {d \in Ids : phase[d] \in Active}
    <3>1. Ids' = Ids \cup {new} /\ phase'[new] \notin Active
      BY <1>1, <1>3 DEF Active
    <3> QED BY <1>1, <3>1
  <2>2. \A d \in Ids : phase[d] \in Active => scope'[d] = scope[d]
    BY <1>3 DEF Active
  <2>3. {scope'[d] : d \in {e \in Ids : phase[e] \in Active}} =
          {scope[d] : d \in {e \in Ids : phase[e] \in Active}}
    BY <2>2
  <2>4. Covered' =
          UNION {scope'[d] : d \in {e \in Ids' : phase'[e] \in Active}}
    BY DEF Covered
  <2> QED BY <2>1, <2>3, <2>4 DEF Covered
<1> QED BY <1>5, <1>6 DEF RunCycle, Batches!Ask

LEMMA BeginServes ==
  ASSUME IInv, NEW c \in Ids, Begin(c)
  PROVE  IF closing THEN Batches!Refuse(Answers(c))
         ELSE Batches!Serve(Answers(c))
<1> DEFINE q == IF closing THEN "done" ELSE "notifying"
<1>1. /\ Moves(c, q) /\ q \in Phases \ {"folded"}
      /\ phase[c] = "queued" /\ TailSettled(c)
      /\ calls' = calls /\ scope' = scope
  BY DEF Begin, Moves, queueVars, Phases, Active, Over
<1>2. /\ Batches!Batch(Answers(c)) /\ Batches!Served = {}
      /\ \A d \in Ids : phase[d] \notin Active
  BY <1>1, BeginsABatch
<1> HIDE DEF q
<1>3. /\ Ids' = Ids
      /\ \A i \in Ids : phase'[i] = IF i = c THEN q ELSE phase[i]
  BY <1>1, MoveKeepsQueue
<1>4. Stage' = [i \in Ids |-> IF i \in Answers(c) THEN StageOf(q)
                              ELSE Stage[i]]
  BY <1>1, MoveRestages
<1>5. DOMAIN Stage = Ids
  BY DEF Stage
<1>6. Covered = {}
  BY <1>2, CoveredByNone DEF Covered
<1>7. Covered' = UNION {scope[d] : d \in {e \in Ids : phase'[e] \in Active}}
  BY <1>1, <1>3 DEF Covered
<1>8. CASE closing
  <2>1. \A d \in Ids : phase'[d] \notin Active
    BY <1>2, <1>3, <1>8 DEF q, Active
  <2>2. Covered' = {}
    BY <1>7, <2>1, CoveredByNone
  <2>3. StageOf(q) = "answered"
    BY <1>8 DEF q, StageOf, Active
  <2> QED BY <1>1, <1>2, <1>4, <1>5, <1>6, <1>8, <2>2, <2>3
             DEF Batches!Refuse
<1>9. CASE ~closing
  <2>1. /\ phase'[c] \in Active
        /\ \A d \in Ids : phase'[d] \in Active => d = c
    BY <1>2, <1>3, <1>9 DEF q, Active
  <2>2. Covered' = scope[c]
    BY <1>7, <2>1, CoveredByOne
  <2>3. scope[c] = UNION {calls[i].files : i \in Answers(c)}
    BY <1>1 DEF IInv, ScopeIsWhatWasAsked
  <2>4. StageOf(q) = "served"
    BY <1>9 DEF q, StageOf, Active
  <2> QED BY <1>1, <1>2, <1>4, <1>5, <1>9, <2>2, <2>3, <2>4
             DEF Batches!Serve
<1> QED BY <1>8, <1>9

(* A cycle that is over answers what it served, and nothing else was.        *)
LEMMA OverAnswers ==
  ASSUME IInv, NEW c \in Ids, NEW q \in {"done", "failed"}, Moves(c, q),
         phase[c] \in Active
  PROVE  Batches!Answer
<1>1. /\ q \in Phases \ {"folded"} /\ phase[c] # "folded"
      /\ calls' = calls /\ scope' = scope /\ StageOf(q) = "answered"
  BY DEF Moves, queueVars, Phases, Active, Over, StageOf
<1>2. /\ Ids' = Ids
      /\ \A i \in Ids : phase'[i] = IF i = c THEN q ELSE phase[i]
  BY <1>1, MoveKeepsQueue
<1>3. Stage' = [i \in Ids |-> IF i \in Answers(c) THEN "answered"
                              ELSE Stage[i]]
  BY <1>1, MoveRestages
<1>4. DOMAIN Stage = Ids
  BY DEF Stage
<1>5. cycleOf \in [Ids -> Ids] /\ cycleOf[c] = c
  BY <1>1 DEF IInv, TypeOK, QueueInv
<1>6. Batches!Served = Answers(c)
  <2>1. \A i \in Ids : phase[cycleOf[i]] \in Active <=> cycleOf[i] = c
    BY <1>5, OneActive
  <2> QED BY <2>1, StageFacts DEF Answers
<1>7. Answers(c) # {}
  BY <1>5 DEF Answers
<1>8. \A d \in Ids : phase'[d] \notin Active
  BY <1>2, OneActive DEF Active
<1>9. Covered' = {}
  <2>1. Covered' = UNION {scope[d] : d \in {e \in Ids : phase'[e] \in Active}}
    BY <1>1, <1>2 DEF Covered
  <2> QED BY <1>8, <2>1, CoveredByNone
<1> QED BY <1>1, <1>3, <1>4, <1>6, <1>7, <1>9 DEF Batches!Answer

(* A cycle that goes on, and steps of the managers, are not seen.            *)
LEMMA GoingOnIsNotSeen ==
  ASSUME IInv, NEW c \in Ids, NEW q \in Active, Moves(c, q),
         phase[c] \in Active
  PROVE  UNCHANGED Batches!vars
<1>1. /\ q \in Phases \ {"folded"} /\ phase[c] # "folded"
      /\ calls' = calls /\ scope' = scope /\ StageOf(q) = "served"
  BY DEF Moves, queueVars, Phases, Active, Over, StageOf
<1>2. /\ Ids' = Ids
      /\ \A i \in Ids : phase'[i] = IF i = c THEN q ELSE phase[i]
  BY <1>1, MoveKeepsQueue
<1>3. Stage' = [i \in Ids |-> IF i \in Answers(c) THEN "served" ELSE Stage[i]]
  BY <1>1, MoveRestages
<1>4. \A i \in Answers(c) : Stage[i] = "served"
  BY StageFacts DEF Answers, StageOf, Active
<1>5. Stage' = Stage
  BY <1>3, <1>4, StageFacts
<1>6. {d \in Ids' : phase'[d] \in Active} = {d \in Ids : phase[d] \in Active}
  BY <1>2
<1>7. Covered' = Covered
  BY <1>1, <1>6 DEF Covered
<1> QED BY <1>1, <1>5, <1>7 DEF Batches!vars

LEMMA QuietIsNotSeen ==
  ASSUME UNCHANGED <<queueVars, phase>>
  PROVE  UNCHANGED Batches!vars
BY DEF queueVars, Batches!vars, Stage, Covered, Ids

(* Every step of the driver is a step of BatchedRequests, or stutters.       *)
LEMMA StepMaps == IInv /\ [Next]_vars => [Batches!Next]_Batches!vars
<1> SUFFICES ASSUME IInv, [Next]_vars
             PROVE  [Batches!Next]_Batches!vars
  OBVIOUS
<1>1. ASSUME NEW call \in Calls, RunCycle(call)
      PROVE  Batches!Next
  BY <1>1, RunCycleAsks DEF Batches!Next
<1>2. ASSUME NEW c \in Ids, Begin(c)
      PROVE  Batches!Next
  <2>1. Answers(c) \in SUBSET Batches!Waiting
    BY <1>2, BeginsABatch DEF Begin
  <2> QED BY <1>2, <2>1, BeginServes DEF Batches!Next
<1>3. ASSUME NEW c \in Ids, Notified(c)
      PROVE  UNCHANGED Batches!vars
  BY <1>3, GoingOnIsNotSeen DEF Notified, Moves, Active
<1>4. ASSUME NEW c \in Ids, Ran(c)
      PROVE  Batches!Next \/ UNCHANGED Batches!vars
  <2>1. CASE closing
    <3>1. Batches!Answer
      BY <1>4, <2>1, OverAnswers DEF Ran, Moves, Active
    <3> QED BY <3>1 DEF Batches!Next
  <2>2. CASE ~closing
    BY <1>4, <2>2, GoingOnIsNotSeen DEF Ran, Moves, Active
  <2> QED BY <2>1, <2>2
<1>5. ASSUME NEW c \in Ids, Finalized(c) \/ Fail(c)
      PROVE  Batches!Next
  <2>1. Batches!Answer
    BY <1>5, OverAnswers DEF Finalized, Fail, Moves, Active
  <2> QED BY <2>1 DEF Batches!Next
<1>6. ASSUME NEW c \in Ids, Event(c) \/ LateEnds(c)
      PROVE  UNCHANGED Batches!vars
  BY <1>6, QuietIsNotSeen DEF Event, LateEnds
<1>7. ASSUME Close \/ UNCHANGED vars
      PROVE  UNCHANGED Batches!vars
  BY <1>7, QuietIsNotSeen DEF Close, vars, queueVars
<1> QED BY <1>1, <1>2, <1>3, <1>4, <1>5, <1>6, <1>7 DEF Next, CycleStep

(* The driver serves whoever asks it for a cycle in batches, one at a time,  *)
(* each begun after the last of its requests was made, the oldest first.     *)
THEOREM InBatches == Spec => ServesInBatches
BY Invariance, InitMaps, StepMaps, PTL
   DEF Spec, ServesInBatches, Batches!Spec

-----------------------------------------------------------------------------
(* The session.                                                              *)

(* The inductive invariant, in parts.                                        *)

(* Before the launch nothing of the session is up; what follows the browser  *)
(* stage has the browser's global setup behind it.                           *)
BootInv ==
  /\ boot \in {"installing", "validating", "staging"} =>
       calls = <<>> /\ server = "none" /\ ~runtime
  /\ boot = "staging" /\ HasSetup(browser) => setup[browser] = "running"
  /\ HasSetup(browser) /\ (boot = "starting" \/ calls # <<>> \/ runtime)
       => setup[browser] = "done"
  /\ boot = "failing" => \/ server = "failed" \/ node \notin sides
                         \/ calls = <<>> /\ server = "none" /\ ~runtime
  /\ boot = "awaiting" => node \notin sides /\ calls # <<>>

(* An executor is at work while its cycle runs; only the node executor has   *)
(* resources to wait for and a global setup to run.                          *)
WorkInv ==
  /\ \A e \in Executors : work[e] # "idle" => Running(e)
  /\ work[browser] \in {"idle", "tests"}
  /\ work[node] = "setup" <=> setup[node] = "running"
  /\ setup[node] = "running" => HasSetup(node) /\ server \in {"up", "none"}
  /\ HasSetup(node) /\ work[node] = "tests" =>
       setup[node] \in {"done", "failed"}

(* A global setup that is done has its teardown registered, until the drain. *)
SetupInv ==
  \A e \in Executors : HasSetup(e) /\ setup[e] = "done" =>
    e \in callbacks \/ closer \in {"drained", "closed"}

(* The close is under way.                                                   *)
ClosingInv == closing <=> closer # "none"

(* A close that arrives outside the windows of CloseIn meets no cycle that   *)
(* will start something, and what each of its steps released stays so.       *)
CloseInv ==
  /\ ClosingInv
  /\ closing => ~Notifying
  /\ closing /\ boot = "installing" => browser \in sides
  /\ closing /\ boot = "staging" => closer = "pending" /\ awaited = "staging"
  /\ closing /\ HasSetup(node) /\ Running(node) =>
       setup[node] \in {"done", "failed"} \/ server = "failed"
  /\ closer \in {"node", "draining", "drained", "closed"} => ~runtime
  /\ closer \in {"draining", "drained", "closed"} =>
       server \in {"none", "failed"}
  /\ closer \in {"drained", "closed"} => callbacks = {}
  /\ closer = "closed" => owners = {}

SessionInv ==
  /\ IInv
  /\ TypeOKTeardown
  /\ BootInv
  /\ WorkInv
  /\ SetupInv
  /\ CloseInv
  /\ BrowserSetupFirst

-----------------------------------------------------------------------------
(* The steps of the driver that a step of the session takes.                 *)

LEMMA ExecutorsFacts ==
  /\ node \in Executors /\ browser \in Executors /\ node # browser
  /\ \A e \in Executors : e = node \/ e = browser
BY TeardownAssumption

LEMMA CloseSessionDrives ==
  ASSUME ClosingInv, CloseSession,
         UNCHANGED <<queueVars, phase, settled, state, summary, late>>
  PROVE  Close \/ UNCHANGED vars
BY DEF ClosingInv, CloseSession, Close, vars, queueVars

LEMMA DrivesCycles ==
  ASSUME ClosingInv, [NextTeardown]_tvars
  PROVE  [Next]_vars
<1>1. \A e \in Executors : Options(e, "none") \in Calls
                           /\ Options(e, "invalidation") \in Calls
  BY TeardownAssumption
<1>2. ASSUME RequestClose \/ StartupFails PROVE [Next]_vars
  BY <1>2, CloseSessionDrives DEF RequestClose, StartupFails, Next
<1>3. ASSUME Launch PROVE [Next]_vars
  BY <1>1, <1>3, ExecutorsFacts DEF Launch, Next
<1>4. ASSUME BootStep, ~StartupFails PROVE [Next]_vars
  <2>1. ASSUME Staged PROVE [Next]_vars
    BY <1>3, <2>1 DEF Staged
  <2>2. ASSUME Started PROVE [Next]_vars
    BY <1>3, <2>2 DEF Started
  <2>3. ASSUME Installed \/ Validated \/ Launched \/ Left
        PROVE  UNCHANGED vars
    BY <2>3 DEF Installed, Validated, Launched, Left, bootRest
  <2> QED BY <1>4, <2>1, <2>2, <2>3 DEF BootStep
<1>5. ASSUME ServerSettles \/ CloserStep \/ UNCHANGED tvars
      PROVE  UNCHANGED vars
  BY <1>5 DEF ServerSettles, CloserStep, PendingSettled, CloseBrowser,
              CloseNode, Drain, Closed, closerRest, tvars
<1>6. ASSUME NEW e \in Executors, Rebuild(e) PROVE Next
  BY <1>1, <1>6 DEF Rebuild, Next
<1>7. ASSUME NEW c \in Ids, CycleNext(c) PROVE [Next]_vars
  BY <1>7 DEF CycleNext, DriverStep, StartCycle, GotResources, SetupSettles,
              CycleRan, CycleFails, Next, CycleStep
<1> QED BY <1>2, <1>4, <1>5, <1>6, <1>7 DEF NextTeardown, BootStep

-----------------------------------------------------------------------------
(* What these steps change of what the session sees: whose cycle runs, and   *)
(* whether the reporters are being told of one.                              *)

LEMMA SeenOfCall ==
  ASSUME IInv, NEW call \in Calls, RunCycle(call)
  PROVE  /\ \A e : Running(e)' <=> Running(e)
         /\ Notifying' <=> Notifying
         /\ calls' # <<>>
         /\ closing' = closing
<1> DEFINE new == Len(calls) + 1
<1>1. /\ Len(calls) \in Nat /\ Ids = 1..Len(calls) /\ Ids' = 1..new
      /\ Len(calls') = new
      /\ \A i \in Ids : calls'[i] = calls[i] /\ phase'[i] = phase[i]
      /\ phase'[new] \in {"queued", "folded"}
  BY RunCycleFacts DEF IInv
<1>2. Ids' = Ids \cup {new}
  BY <1>1
<1>3. calls' # <<>>
  BY <1>1
<1> HIDE DEF new
<1> QED BY <1>1, <1>2, <1>3 DEF Running, Notifying, RunCycle

LEMMA SeenOfMove ==
  ASSUME IInv, NEW c \in Ids, NEW q \in Phases \ {"folded"}, Moves(c, q),
         phase[c] \in Active \cup {"queued"},
         phase[c] = "queued" => TailSettled(c)
  PROVE  /\ calls' = calls
         /\ \A e : Running(e)' <=> q = "running" /\ e = calls[c].executor
         /\ Notifying' <=> q = "notifying"
         /\ phase[c] \in Active =>
              \A e : Running(e) =>
                      phase[c] = "running" /\ e = calls[c].executor
         /\ phase[c] = "running" => Running(calls[c].executor)
         /\ phase[c] = "queued" => \A e : ~Running(e)
<1>1. /\ Ids' = Ids
      /\ \A i \in Ids : phase'[i] = IF i = c THEN q ELSE phase[i]
      /\ calls' = calls
  BY MoveKeepsQueue DEF Moves, queueVars, Active
<1>2. \A d \in Ids \ {c} : phase[d] \in Over \cup {"queued"}
  BY MoveKeepsOrder
<1> QED BY <1>1, <1>2 DEF Running, Notifying, Over, Active

LEMMA SeenOfNothing ==
  ASSUME UNCHANGED <<queueVars, phase>>
  PROVE  /\ calls' = calls
         /\ \A e : Running(e)' <=> Running(e)
         /\ Notifying' <=> Notifying
BY DEF queueVars, Running, Notifying, Ids

-----------------------------------------------------------------------------
(* The steps preserve the invariant.                                         *)

SessionRest ==
  TypeOKTeardown /\ BootInv /\ WorkInv /\ SetupInv /\ CloseInv
  /\ BrowserSetupFirst

LEMMA RequestClosePreserves ==
  ASSUME CloseIn = {}, SessionInv, TypeOK', RequestClose
  PROVE  SessionRest'
<1> USE DEF ClosingInv, SessionInv, RequestClose
<1>1. /\ calls' = calls /\ \A e : Running(e)' <=> Running(e)
      /\ Notifying' <=> Notifying
  BY SeenOfNothing
<1>2. closing' = TRUE /\ closer' = "pending"
  BY DEF CloseSession
<1>3. awaited' = IF boot \in {"validating", "staging"} THEN boot ELSE "none"
  BY DEF CloseSession
<1>4. TypeOKTeardown'
  BY <1>2, <1>3 DEF TypeOKTeardown
<1>5. /\ ~Notifying /\ ~NodeSetupAhead
      /\ boot = "installing" => browser \in sides
  BY DEF CloseMayArrive
<1>6. \A e : HasSetup(e)' <=> HasSetup(e)
  BY DEF HasSetup
<1>7. BootInv' /\ WorkInv' /\ BrowserSetupFirst'
  BY <1>1, <1>6 DEF BootInv, WorkInv, BrowserSetupFirst
<1>8. SetupInv'
  BY <1>2, <1>6 DEF SetupInv, CloseInv
<1>9. HasSetup(node) /\ Running(node) => setup[node] \in {"done", "failed"}
  BY <1>5, ExecutorsFacts DEF NodeSetupAhead, Running, TypeOKTeardown
<1>10. CloseInv'
  BY <1>1, <1>2, <1>3, <1>5, <1>6, <1>9 DEF CloseInv
<1> QED BY <1>4, <1>7, <1>8, <1>10 DEF SessionRest

LEMMA ServerSettlesPreserves ==
  ASSUME CloseIn = {}, SessionInv, TypeOK', ServerSettles
  PROVE  SessionRest'
<1> USE ExecutorsFacts DEF ClosingInv, SessionInv, ServerSettles
<1>1. UNCHANGED <<queueVars, phase>> /\ closing' = closing
  BY DEF vars, queueVars
<1>2. /\ calls' = calls /\ \A e : Running(e)' <=> Running(e)
      /\ Notifying' <=> Notifying
  BY <1>1, SeenOfNothing
<1>3. \A e : HasSetup(e)' <=> HasSetup(e)
  BY DEF HasSetup
<1>4. TypeOKTeardown'
  BY DEF TypeOKTeardown, StartupPhases
<1>5. BootInv' /\ BrowserSetupFirst'
  BY <1>2, <1>3 DEF BootInv, BrowserSetupFirst, TypeOKTeardown, CloseInv
<1>6. WorkInv'
  BY <1>2, <1>3 DEF WorkInv, BootInv, TypeOKTeardown, CloseInv
<1>7. SetupInv'
  BY <1>3 DEF SetupInv, TypeOKTeardown, CloseInv
<1>8. CloseInv'
  BY <1>1, <1>2, <1>3 DEF CloseInv, BootInv, WorkInv, TypeOKTeardown
<1> QED BY <1>4, <1>5, <1>6, <1>7, <1>8 DEF SessionRest

(* The steps of the startup that call for nothing.                           *)
QuietBoot == Validated \/ Launched \/ Left

LEMMA QuietBootPreserves ==
  ASSUME CloseIn = {}, SessionInv, TypeOK', QuietBoot
  PROVE  SessionRest'
<1> USE ExecutorsFacts
    DEF ClosingInv, SessionInv, QuietBoot, Validated, EnterStage, Launched, Left,
        Enter, bootRest
<1>1. UNCHANGED <<queueVars, phase>> /\ closing' = closing
  BY DEF vars, queueVars
<1>2. /\ calls' = calls /\ \A e : Running(e)' <=> Running(e)
      /\ Notifying' <=> Notifying
  BY <1>1, SeenOfNothing
<1>3. \A e : HasSetup(e)' <=> HasSetup(e)
  BY DEF HasSetup
<1>4. TypeOKTeardown'
  BY DEF TypeOKTeardown, StartupPhases
<1>5. BootInv' /\ BrowserSetupFirst'
  BY <1>2, <1>3 DEF BootInv, BrowserSetupFirst, TypeOKTeardown, CloseInv
<1>6. WorkInv'
  BY <1>2, <1>3 DEF WorkInv, BootInv, TypeOKTeardown, CloseInv
<1>7. SetupInv'
  BY <1>3 DEF SetupInv, TypeOKTeardown, CloseInv
<1>8. /\ boot' # "installing" /\ (boot' = "staging" => ~closing)
      /\ UNCHANGED <<closer, awaited, runtime, server, callbacks, owners>>
      /\ setup'[node] = setup[node]
  BY DEF TypeOKTeardown
<1> HIDE DEF QuietBoot
<1>9. CloseInv'
  BY <1>1, <1>2, <1>3, <1>8 DEF CloseInv
<1> QED BY <1>4, <1>5, <1>6, <1>7, <1>9 DEF SessionRest

LEMMA CloserStepPreserves ==
  ASSUME CloseIn = {}, SessionInv, TypeOK', CloserStep
  PROVE  SessionRest'
<1> USE ExecutorsFacts
    DEF ClosingInv, SessionInv, CloserStep, PendingSettled, CloseBrowser,
        CloseNode, Drain, Closed, closerRest
<1>1. UNCHANGED <<queueVars, phase>> /\ closing' = closing
  BY DEF vars, queueVars
<1>2. /\ calls' = calls /\ \A e : Running(e)' <=> Running(e)
      /\ Notifying' <=> Notifying
  BY <1>1, SeenOfNothing
<1>3. \A e : HasSetup(e)' <=> HasSetup(e)
  BY DEF HasSetup
<1>4. TypeOKTeardown'
  BY DEF TypeOKTeardown, StartupPhases
<1>5. BootInv' /\ BrowserSetupFirst'
  BY <1>2, <1>3 DEF BootInv, BrowserSetupFirst, TypeOKTeardown, CloseInv
<1>6. WorkInv'
  BY <1>2, <1>3 DEF WorkInv, BootInv, TypeOKTeardown, CloseInv
<1>7. SetupInv'
  BY <1>3 DEF SetupInv, TypeOKTeardown, CloseInv
<1>8. CloseInv'
  BY <1>1, <1>2, <1>3 DEF CloseInv, BootInv, WorkInv, TypeOKTeardown
<1> QED BY <1>4, <1>5, <1>6, <1>7, <1>8 DEF SessionRest

LEMMA InstalledPreserves ==
  ASSUME CloseIn = {}, SessionInv, TypeOK', Installed
  PROVE  SessionRest'
<1> USE ExecutorsFacts
    DEF ClosingInv, SessionInv, Installed, EnterStage, EnterStarting,
        EnsureRunResources, AddCleanup, Enter, bootRest
<1>1. UNCHANGED <<queueVars, phase>> /\ closing' = closing
  BY DEF vars, queueVars
<1>2. /\ calls' = calls /\ \A e : Running(e)' <=> Running(e)
      /\ Notifying' <=> Notifying
  BY <1>1, SeenOfNothing
<1>3. \A e : HasSetup(e)' <=> HasSetup(e)
  BY DEF HasSetup
<1>4. TypeOKTeardown'
  BY DEF TypeOKTeardown, StartupPhases
<1>5. BootInv' /\ BrowserSetupFirst'
  BY <1>2, <1>3 DEF BootInv, BrowserSetupFirst, TypeOKTeardown, CloseInv,
                    HasSetup
<1>6. \A e : ~Running(e)
  BY DEF BootInv, Running, Ids
<1>7. WorkInv'
  BY <1>2, <1>3, <1>6 DEF WorkInv, BootInv, TypeOKTeardown, CloseInv
<1>8. SetupInv'
  BY <1>3 DEF SetupInv, TypeOKTeardown, CloseInv
<1>9. CloseInv'
  BY <1>1, <1>2, <1>3 DEF CloseInv, BootInv, WorkInv, TypeOKTeardown
<1> QED BY <1>4, <1>5, <1>7, <1>8, <1>9 DEF SessionRest

LEMMA StartupFailsPreserves ==
  ASSUME CloseIn = {}, SessionInv, TypeOK', StartupFails
  PROVE  SessionRest'
<1> USE ExecutorsFacts DEF ClosingInv, SessionInv, StartupFails
<1>1. /\ calls' = calls /\ \A e : Running(e)' <=> Running(e)
      /\ Notifying' <=> Notifying
  BY SeenOfNothing
<1>2. /\ closing' = TRUE
      /\ closer' = IF closer = "none" THEN "pending" ELSE closer
      /\ awaited' = IF closer = "none" THEN "none" ELSE awaited
  BY DEF CloseSession, CloseInv
<1>3. \A e : HasSetup(e)' <=> HasSetup(e)
  BY DEF HasSetup
<1>4. TypeOKTeardown'
  BY <1>2 DEF TypeOKTeardown, StartupPhases
<1>5. BootInv' /\ WorkInv' /\ BrowserSetupFirst'
  BY <1>1, <1>3 DEF BootInv, WorkInv, BrowserSetupFirst
<1>6. SetupInv'
  BY <1>2, <1>3 DEF SetupInv, CloseInv
<1>7. HasSetup(node) /\ Running(node) => server = "failed"
  <2>1. Running(node) => calls # <<>>
    BY DEF Running, Ids
  <2> QED BY <2>1 DEF BootInv, HasSetup
<1>8. CloseInv'
  BY <1>1, <1>2, <1>3, <1>7 DEF CloseInv
<1> QED BY <1>4, <1>5, <1>6, <1>8 DEF SessionRest

LEMMA RebuildPreserves ==
  ASSUME CloseIn = {}, SessionInv, TypeOK', NEW e \in Executors, Rebuild(e)
  PROVE  SessionRest'
<1> USE ExecutorsFacts DEF ClosingInv, SessionInv, Rebuild, sessionVars
<1>1. /\ UNCHANGED sessionVars
      /\ \E call \in Calls : RunCycle(call)
  BY TeardownAssumption
<1>2. /\ \A x : Running(x)' <=> Running(x)
      /\ Notifying' <=> Notifying
      /\ calls' # <<>> /\ closing' = closing
  BY <1>1, SeenOfCall
<1>3. \A side : HasSetup(side)' <=> HasSetup(side)
  BY DEF HasSetup
<1>4. TypeOKTeardown'
  BY <1>1, <1>2 DEF TypeOKTeardown, StartupPhases, At
<1>5. BootInv' /\ BrowserSetupFirst'
  BY <1>1, <1>2, <1>3 DEF BootInv, BrowserSetupFirst, TypeOKTeardown, CloseInv
<1>6. WorkInv'
  BY <1>1, <1>2, <1>3 DEF WorkInv, BootInv, TypeOKTeardown, CloseInv, At
<1>7. SetupInv'
  BY <1>1, <1>3 DEF SetupInv, TypeOKTeardown, CloseInv, WorkInv, At
<1>8. CloseInv'
  BY <1>1, <1>2, <1>3 DEF CloseInv, BootInv, WorkInv, TypeOKTeardown, At
<1> QED BY <1>4, <1>5, <1>6, <1>7, <1>8 DEF SessionRest

LEMMA BeginInSessionPreserves ==
  ASSUME CloseIn = {}, SessionInv, TypeOK', NEW c \in Ids, Begin(c),
         UNCHANGED sessionVars
  PROVE  SessionRest'
<1> USE DEF ClosingInv, SessionInv, sessionVars
<1> DEFINE q == IF closing THEN "done" ELSE "notifying"
<1>1. /\ Moves(c, q) /\ q \in Phases \ {"folded"}
      /\ phase[c] = "queued" /\ TailSettled(c) /\ closing' = closing
  BY DEF Begin, Moves, Phases, Active, Over
<1>2. q # "running" /\ (closing => q # "notifying")
  OBVIOUS
<1> HIDE DEF q
<1>3. /\ calls' = calls /\ \A e : ~Running(e) /\ ~Running(e)'
      /\ closing => ~Notifying'
  BY <1>1, <1>2, SeenOfMove DEF Active
<1>4. \A e : HasSetup(e)' <=> HasSetup(e)
  BY DEF HasSetup
<1>5. TypeOKTeardown'
  BY DEF TypeOKTeardown
<1>6. BootInv' /\ WorkInv' /\ SetupInv' /\ BrowserSetupFirst'
  BY <1>3, <1>4 DEF BootInv, WorkInv, SetupInv, BrowserSetupFirst
<1>7. CloseInv'
  BY <1>1, <1>3, <1>4 DEF CloseInv
<1> QED BY <1>5, <1>6, <1>7 DEF SessionRest

LEMMA FinalizedInSessionPreserves ==
  ASSUME CloseIn = {}, SessionInv, TypeOK', NEW c \in Ids,
         Finalized(c),
         UNCHANGED sessionVars
  PROVE  SessionRest'
<1> USE ExecutorsFacts DEF ClosingInv, SessionInv, sessionVars
<1>1. /\ Moves(c, "done") /\ "done" \in Phases \ {"folded"}
      /\ phase[c] = "finalizing"
      /\ closing' = closing
  BY DEF Begin, Notified, Ran, Finalized, Fail, Moves, Phases, Active, Over
<1>2. /\ calls' = calls
      /\ \A e : Running(e)' <=> "done" = "running" /\ e = calls[c].executor
      /\ Notifying' <=> "done" = "notifying"
      /\ \A e : Running(e) => phase[c] = "running" /\ e = calls[c].executor
      /\ phase[c] = "running" => Running(calls[c].executor)
      /\ calls[c].executor \in Executors
  BY <1>1, SeenOfMove, CallsFacts DEF IInv, Active
<1>3. \A e : HasSetup(e)' <=> HasSetup(e)
  BY DEF HasSetup
<1>4. TypeOKTeardown'
  BY <1>1, <1>2 DEF TypeOKTeardown, StartupPhases, At
<1>5. BootInv' /\ BrowserSetupFirst'
  BY <1>1, <1>2, <1>3 DEF BootInv, BrowserSetupFirst, TypeOKTeardown, CloseInv
<1>6. WorkInv'
  BY <1>1, <1>2, <1>3 DEF WorkInv, BootInv, TypeOKTeardown, CloseInv, At
<1>7. SetupInv'
  BY <1>1, <1>3 DEF SetupInv, TypeOKTeardown, CloseInv, WorkInv, At
<1>8. CloseInv'
  BY <1>1, <1>2, <1>3 DEF CloseInv, BootInv, WorkInv, TypeOKTeardown, At
<1> QED BY <1>4, <1>5, <1>6, <1>7, <1>8 DEF SessionRest

LEMMA StartCyclePreserves ==
  ASSUME CloseIn = {}, SessionInv, TypeOK', NEW c \in Ids,
         StartCycle(c)
  PROVE  SessionRest'
<1> USE ExecutorsFacts
    DEF ClosingInv, SessionInv, StartCycle, EnsureRunResources, cycleRest
<1>1. /\ Moves(c, "running") /\ "running" \in Phases \ {"folded"}
      /\ phase[c] = "notifying"
      /\ closing' = closing
  BY DEF Begin, Notified, Ran, Finalized, Fail, Moves, Phases, Active, Over
<1>2. /\ calls' = calls
      /\ \A e : Running(e)' <=> "running" = "running" /\ e = calls[c].executor
      /\ Notifying' <=> "running" = "notifying"
      /\ \A e : Running(e) => phase[c] = "running" /\ e = calls[c].executor
      /\ phase[c] = "running" => Running(calls[c].executor)
      /\ calls[c].executor \in Executors
  BY <1>1, SeenOfMove, CallsFacts DEF IInv, Active
<1>3. calls # <<>> /\ ~closing
  BY <1>1 DEF CloseInv, Notifying, Ids

<1>4. \A e : HasSetup(e)' <=> HasSetup(e)
  BY DEF HasSetup
<1>5. TypeOKTeardown'
  BY <1>1, <1>2 DEF TypeOKTeardown, StartupPhases, At
<1>6. BootInv' /\ BrowserSetupFirst'
  BY <1>1, <1>2, <1>4, <1>3
     DEF BootInv, BrowserSetupFirst, TypeOKTeardown, CloseInv
<1>7. WorkInv'
  BY <1>1, <1>2, <1>4, <1>3 DEF WorkInv, BootInv, TypeOKTeardown, CloseInv, At
<1>8. SetupInv'
  BY <1>1, <1>4 DEF SetupInv, TypeOKTeardown, CloseInv, WorkInv, At
<1>9. CloseInv'
  BY <1>1, <1>2, <1>4, <1>3 DEF CloseInv, BootInv, WorkInv, TypeOKTeardown, At
<1> QED BY <1>5, <1>6, <1>7, <1>8, <1>9 DEF SessionRest

LEMMA CycleFailsPreserves ==
  ASSUME CloseIn = {}, SessionInv, TypeOK', NEW c \in Ids,
         CycleFails(c)
  PROVE  SessionRest'
<1> USE ExecutorsFacts DEF ClosingInv, SessionInv, CycleFails, cycleRest
<1>1. /\ Moves(c, "failed") /\ "failed" \in Phases \ {"folded"}
      /\ phase[c] \in Active
      /\ closing' = closing
  BY DEF Begin, Notified, Ran, Finalized, Fail, Moves, Phases, Active, Over
<1>2. /\ calls' = calls
      /\ \A e : Running(e)' <=> "failed" = "running" /\ e = calls[c].executor
      /\ Notifying' <=> "failed" = "notifying"
      /\ \A e : Running(e) => phase[c] = "running" /\ e = calls[c].executor
      /\ phase[c] = "running" => Running(calls[c].executor)
      /\ calls[c].executor \in Executors
  BY <1>1, SeenOfMove, CallsFacts DEF IInv, Active

<1>3. \A e : HasSetup(e)' <=> HasSetup(e)
  BY DEF HasSetup
<1>4. TypeOKTeardown'
  BY <1>1, <1>2 DEF TypeOKTeardown, StartupPhases, At
<1>5. BootInv' /\ BrowserSetupFirst'
  BY <1>1, <1>2, <1>3 DEF BootInv, BrowserSetupFirst, TypeOKTeardown, CloseInv
<1>6. WorkInv'
  BY <1>1, <1>2, <1>3 DEF WorkInv, BootInv, TypeOKTeardown, CloseInv, At
<1>7. SetupInv'
  BY <1>1, <1>3 DEF SetupInv, TypeOKTeardown, CloseInv, WorkInv, At
<1>8. CloseInv'
  BY <1>1, <1>2, <1>3 DEF CloseInv, BootInv, WorkInv, TypeOKTeardown, At
<1> QED BY <1>4, <1>5, <1>6, <1>7, <1>8 DEF SessionRest

LEMMA CycleRanPreserves ==
  ASSUME CloseIn = {}, SessionInv, TypeOK', NEW c \in Ids, CycleRan(c)
  PROVE  SessionRest'
<1> USE ExecutorsFacts DEF ClosingInv, SessionInv, CycleRan, cycleRest
<1> DEFINE q == IF closing THEN "done" ELSE "finalizing"
           x == calls[c].executor
<1>1. /\ Moves(c, q) /\ q \in Phases \ {"folded"}
      /\ phase[c] = "running" /\ closing' = closing
  BY DEF Ran, Moves, Phases, Active, Over
<1>2. q \notin {"running", "notifying"}
  OBVIOUS
<1> HIDE DEF q
<1>3. /\ calls' = calls /\ \A e : ~Running(e)'
      /\ \A e : Running(e) => e = x
      /\ ~Notifying' /\ x \in Executors
  BY <1>1, <1>2, SeenOfMove, CallsFacts DEF IInv, Active
<1>4. work[x] \in {"tests", "errors"}
  BY DEF At
<1> HIDE DEF x
<1>5. \A e : HasSetup(e)' <=> HasSetup(e)
  BY DEF HasSetup
<1>6. work' = [work EXCEPT ![x] = "idle"]
  BY DEF x
<1>7. TypeOKTeardown'
  BY <1>6 DEF TypeOKTeardown
<1>8. BootInv' /\ SetupInv' /\ BrowserSetupFirst'
  BY <1>3, <1>5 DEF BootInv, SetupInv, BrowserSetupFirst
<1>9. WorkInv'
  BY <1>3, <1>4, <1>5, <1>6 DEF WorkInv, TypeOKTeardown
<1>10. CloseInv'
  BY <1>1, <1>3, <1>5 DEF CloseInv
<1> QED BY <1>7, <1>8, <1>9, <1>10 DEF SessionRest

LEMMA GotResourcesPreserves ==
  ASSUME CloseIn = {}, SessionInv, TypeOK', NEW c \in Ids,
         GotResources(c)
  PROVE  SessionRest'
<1> USE ExecutorsFacts
    DEF ClosingInv, SessionInv, GotResources, ClaimsSetup, cycleRest, vars,
        queueVars
<1>1. UNCHANGED <<queueVars, phase>> /\ closing' = closing
  OBVIOUS
<1>2. /\ calls' = calls /\ \A e : Running(e)' <=> Running(e)
      /\ Notifying' <=> Notifying
      /\ Running(calls[c].executor) /\ calls[c].executor \in Executors
  BY <1>1, SeenOfNothing, CallsFacts DEF IInv, At, Running
<1>3. \A e : HasSetup(e)' <=> HasSetup(e)
  BY DEF HasSetup
<1>4. TypeOKTeardown'
  BY <1>1, <1>2 DEF TypeOKTeardown, StartupPhases, At
<1>5. BootInv' /\ BrowserSetupFirst'
  BY <1>1, <1>2, <1>3 DEF BootInv, BrowserSetupFirst, TypeOKTeardown, CloseInv
<1>6. WorkInv'
  BY <1>1, <1>2, <1>3 DEF WorkInv, BootInv, TypeOKTeardown, CloseInv, At
<1>7. SetupInv'
  BY <1>1, <1>3 DEF SetupInv, TypeOKTeardown, CloseInv, WorkInv, At
<1>8. CloseInv'
  BY <1>1, <1>2, <1>3 DEF CloseInv, BootInv, WorkInv, TypeOKTeardown, At
<1> QED BY <1>4, <1>5, <1>6, <1>7, <1>8 DEF SessionRest

LEMMA SetupSettlesPreserves ==
  ASSUME CloseIn = {}, SessionInv, TypeOK', NEW c \in Ids,
         SetupSettles(c)
  PROVE  SessionRest'
<1> USE ExecutorsFacts
    DEF ClosingInv, SessionInv, SetupSettles, cycleRest, vars, queueVars
<1>1. UNCHANGED <<queueVars, phase>> /\ closing' = closing
  OBVIOUS
<1>2. /\ calls' = calls /\ \A e : Running(e)' <=> Running(e)
      /\ Notifying' <=> Notifying
      /\ Running(calls[c].executor) /\ calls[c].executor \in Executors
  BY <1>1, SeenOfNothing, CallsFacts DEF IInv, At, Running
<1>3. \A e : HasSetup(e)' <=> HasSetup(e)
  BY DEF HasSetup
<1>4. TypeOKTeardown'
  BY <1>1, <1>2 DEF TypeOKTeardown, StartupPhases, At
<1>5. BootInv' /\ BrowserSetupFirst'
  BY <1>1, <1>2, <1>3 DEF BootInv, BrowserSetupFirst, TypeOKTeardown, CloseInv
<1>6. WorkInv'
  BY <1>1, <1>2, <1>3 DEF WorkInv, BootInv, TypeOKTeardown, CloseInv, At
<1>7. SetupInv'
  BY <1>1, <1>3 DEF SetupInv, TypeOKTeardown, CloseInv, WorkInv, At
<1>8. CloseInv'
  BY <1>1, <1>2, <1>3 DEF CloseInv, BootInv, WorkInv, TypeOKTeardown, At
<1> QED BY <1>4, <1>5, <1>6, <1>7, <1>8 DEF SessionRest

(* The launch calls for a cycle of the browser, or for none.                 *)
LEMMA SeenOfLaunch ==
  ASSUME IInv, Launch
  PROVE  /\ \A e : Running(e)' <=> Running(e)
         /\ Notifying' <=> Notifying
         /\ closing' = closing /\ server' = server
         /\ browser \in sides => calls' # <<>>
         /\ browser \notin sides => calls' = calls
         /\ boot' = IF browser \in sides /\ node \notin sides
                    THEN "awaiting" ELSE "over"
<1>1. CASE browser \in sides
  <2>1. RunCycle(Options(browser, "none"))
        /\ Options(browser, "none") \in Calls
    BY <1>1, TeardownAssumption DEF Launch
  <2> QED BY <1>1, <2>1, SeenOfCall DEF Launch
<1>2. CASE browser \notin sides
  BY <1>2, SeenOfNothing DEF Launch, vars, queueVars
<1> QED BY <1>1, <1>2

LEMMA StartedPreserves ==
  ASSUME CloseIn = {}, SessionInv, TypeOK', Started
  PROVE  SessionRest'
<1> USE ExecutorsFacts DEF ClosingInv, SessionInv, Started
<1>1. /\ \A e : Running(e)' <=> Running(e)
      /\ Notifying' <=> Notifying
      /\ closing' = closing /\ server' = server
      /\ calls' = calls \/ (calls' # <<>> /\ browser \in sides)
  BY SeenOfLaunch, SeenOfNothing DEF vars, queueVars
<1>2. /\ boot' \in {"awaiting", "over", "failing", "leaving"}
      /\ boot' = "failing" => server = "failed"
      /\ boot' = "awaiting" => node \notin sides /\ calls' # <<>>
  BY SeenOfLaunch
<1>3. \A e : HasSetup(e)' <=> HasSetup(e)
  BY DEF HasSetup
<1>4. TypeOKTeardown'
  BY <1>1, <1>2 DEF TypeOKTeardown, StartupPhases
<1>5. BootInv'
  BY <1>1, <1>2, <1>3 DEF BootInv
<1>6. WorkInv' /\ SetupInv' /\ BrowserSetupFirst'
  BY <1>1, <1>3 DEF WorkInv, SetupInv, BrowserSetupFirst
<1>7. CloseInv'
  BY <1>1, <1>2, <1>3 DEF CloseInv
<1> QED BY <1>4, <1>5, <1>6, <1>7 DEF SessionRest

LEMMA StagedPreserves ==
  ASSUME CloseIn = {}, SessionInv, TypeOK', Staged
  PROVE  SessionRest'
<1> USE ExecutorsFacts DEF ClosingInv, SessionInv
<1>1. /\ boot = "staging" /\ calls = <<>> /\ server = "none" /\ ~runtime
      /\ \A e : ~Running(e)
      /\ work[node] = "idle" /\ work[browser] = "idle"
      /\ setup[node] # "running"
  BY DEF Staged, BootInv, WorkInv, Running, Ids
<1>2. /\ UNCHANGED <<sides, closer, awaited, owners, runtime, work>>
      /\ \A e : HasSetup(e)' <=> HasSetup(e)
  BY DEF Staged, HasSetup
<1>3. CASE /\ setup' = [setup EXCEPT ![browser] = IF @ = "running" THEN "done"
                                                  ELSE @]
           /\ callbacks' = callbacks \cup {e \in {browser} : HasSetup(e)}
           /\ IF ~closing /\ node \notin sides THEN Launch
              ELSE /\ UNCHANGED vars
                   /\ IF closing THEN boot' = "leaving" /\ UNCHANGED server
                      ELSE boot' = "starting" /\ EnsureRunResources
  <2>1. /\ \A e : ~Running(e)'
        /\ Notifying' <=> Notifying
        /\ closing' = closing
        /\ calls' = <<>> \/ ~closing
        /\ boot' \in {"awaiting", "over", "leaving", "starting"}
        /\ boot' = "awaiting" => node \notin sides /\ calls' # <<>>
    BY <1>1, <1>3, SeenOfLaunch, SeenOfNothing DEF vars, queueVars
  <2>2. /\ server' \in {"none", "starting"}
        /\ server' = "starting" => ~closing
    BY <1>1, <1>3, SeenOfLaunch DEF EnsureRunResources
  <2>3. /\ HasSetup(browser) => setup'[browser] = "done"
        /\ setup'[node] = setup[node]
        /\ setup' \in [Executors ->
                         {"none", "running", "done", "failed"}]
    BY <1>1, <1>3 DEF BootInv, TypeOKTeardown
  <2>4. /\ callbacks' \subseteq Executors /\ callbacks \subseteq callbacks'
        /\ HasSetup(browser) => browser \in callbacks'
    BY <1>3 DEF TypeOKTeardown
  <2>5. TypeOKTeardown'
    BY <1>2, <2>1, <2>2, <2>3, <2>4 DEF TypeOKTeardown, StartupPhases
  <2>6. BootInv' /\ BrowserSetupFirst'
    BY <1>1, <1>2, <2>1, <2>3 DEF BootInv, BrowserSetupFirst
  <2>7. WorkInv' /\ SetupInv'
    BY <1>1, <1>2, <2>3, <2>4 DEF WorkInv, SetupInv
  <2>8. CloseInv'
    BY <1>1, <1>2, <2>1, <2>2 DEF CloseInv
  <2> QED BY <2>5, <2>6, <2>7, <2>8 DEF SessionRest
<1>4. CASE /\ HasSetup(browser)
           /\ boot' = "failing"
           /\ setup' = [setup EXCEPT ![browser] = "failed"]
           /\ UNCHANGED <<vars, callbacks, server>>
  <2>1. /\ calls' = calls /\ closing' = closing
        /\ \A e : Running(e)' <=> Running(e)
        /\ Notifying' <=> Notifying
    BY <1>4, SeenOfNothing DEF vars, queueVars
  <2>2. TypeOKTeardown'
    BY <1>2, <1>4 DEF TypeOKTeardown, StartupPhases
  <2>3. BootInv' /\ BrowserSetupFirst'
    BY <1>1, <1>2, <1>4, <2>1 DEF BootInv, BrowserSetupFirst
  <2>4. WorkInv' /\ SetupInv'
    BY <1>1, <1>2, <1>4, <2>1 DEF WorkInv, SetupInv, TypeOKTeardown
  <2>5. CloseInv'
    BY <1>1, <1>2, <1>4, <2>1 DEF CloseInv
  <2> QED BY <2>2, <2>3, <2>4, <2>5 DEF SessionRest
<1> QED BY <1>3, <1>4 DEF Staged

-----------------------------------------------------------------------------
LEMMA SessionInit == InitTeardown => SessionInv
<1> SUFFICES ASSUME InitTeardown PROVE SessionInv
  OBVIOUS
<1> USE ExecutorsFacts, TeardownAssumption DEF InitTeardown
<1>1. IInv
  BY InitEstablishes
<1>2. calls = <<>> /\ Ids = {} /\ ~closing
  BY DEF Init, Ids
<1>3. TypeOKTeardown
  BY <1>1 DEF IInv, TypeOKTeardown, StartupPhases
<1>4. ~Notifying /\ \A e : ~Running(e)
  BY <1>2 DEF Notifying, Running
<1> QED BY <1>1, <1>2, <1>3, <1>4
        DEF SessionInv, BootInv, WorkInv, SetupInv, CloseInv,
            ClosingInv, BrowserSetupFirst

LEMMA SessionNext ==
  CloseIn = {} /\ SessionInv /\ [NextTeardown]_tvars => SessionInv'
<1> SUFFICES ASSUME CloseIn = {}, SessionInv, [NextTeardown]_tvars
             PROVE  SessionInv'
  OBVIOUS
<1>1. IInv'
  BY DrivesCycles, NextPreserves DEF SessionInv, CloseInv
<1>2. TypeOK'
  BY <1>1 DEF IInv
<1>3. CASE UNCHANGED tvars
  <2>1. SessionRest'
    <3>1. /\ UNCHANGED <<queueVars, phase>>
          /\ UNCHANGED <<closing, sessionVars>>
      BY <1>3 DEF tvars, vars, queueVars
    <3>2. /\ calls' = calls /\ \A e : Running(e)' <=> Running(e)
          /\ Notifying' <=> Notifying
      BY <3>1, SeenOfNothing
    <3>3. \A e : HasSetup(e)' <=> HasSetup(e)
      BY <3>1 DEF HasSetup, sessionVars
    <3> QED BY <1>2, <3>1, <3>2, <3>3
            DEF SessionInv, SessionRest, TypeOKTeardown, BootInv, WorkInv,
                SetupInv, CloseInv, ClosingInv, BrowserSetupFirst,
                sessionVars
  <2> QED BY <1>1, <2>1 DEF SessionInv, SessionRest
<1>4. ASSUME NextTeardown PROVE SessionRest'
  <2>1. ASSUME RequestClose \/ ServerSettles PROVE SessionRest'
    BY <1>2, <2>1, RequestClosePreserves, ServerSettlesPreserves
  <2>2. ASSUME BootStep PROVE SessionRest'
    BY <1>2, <2>2, InstalledPreserves, StagedPreserves, StartedPreserves,
       StartupFailsPreserves, QuietBootPreserves DEF BootStep, QuietBoot
  <2>3. ASSUME CloserStep PROVE SessionRest'
    BY <1>2, <2>3, CloserStepPreserves
  <2>4. ASSUME NEW e \in Executors, Rebuild(e) PROVE SessionRest'
    BY <1>2, <2>4, RebuildPreserves
  <2>5. ASSUME NEW c \in Ids, CycleNext(c) PROVE SessionRest'
    BY <1>2, <2>5, BeginInSessionPreserves, FinalizedInSessionPreserves,
       StartCyclePreserves, GotResourcesPreserves, SetupSettlesPreserves,
       CycleRanPreserves, CycleFailsPreserves DEF CycleNext, DriverStep
  <2> QED BY <1>4, <2>1, <2>2, <2>3, <2>4, <2>5 DEF NextTeardown
<1> QED BY <1>1, <1>3, <1>4 DEF SessionInv, SessionRest

(* Whatever the windows in which a close may arrive.                         *)
LEMMA ClosingInit == InitTeardown => ClosingInv
BY DEF InitTeardown, Init, ClosingInv

LEMMA ClosingNext == ClosingInv /\ [NextTeardown]_tvars => ClosingInv'
<1> SUFFICES ASSUME ClosingInv, [NextTeardown]_tvars
             PROVE  ClosingInv'
  OBVIOUS
<1>1. ASSUME RequestClose \/ StartupFails PROVE ClosingInv'
  BY <1>1 DEF RequestClose, StartupFails, CloseSession, ClosingInv
<1>2. ASSUME BootStep, ~StartupFails PROVE closing' = closing
  <2>1. ASSUME Launch PROVE closing' = closing
    BY <2>1 DEF Launch, RunCycle, vars
  <2> QED BY <1>2, <2>1
             DEF BootStep, Installed, Validated, Staged, Started, Launched,
                 Left, bootRest, vars
<1>3. ASSUME BootStep, ~StartupFails PROVE closer' = closer
  BY <1>3 DEF BootStep, Installed, Validated, Staged, Started, Launched,
              Left, bootRest
<1>4. ASSUME CloserStep
      PROVE  /\ closer # "none" /\ closer' # "none" /\ closing' = closing
  BY <1>4 DEF CloserStep, PendingSettled, CloseBrowser, CloseNode, Drain,
              Closed, closerRest, vars
<1>5. ASSUME ServerSettles \/ UNCHANGED tvars
      PROVE  UNCHANGED <<closing, closer>>
  BY <1>5 DEF ServerSettles, tvars, sessionVars, vars
<1>6. ASSUME NEW e \in Executors, Rebuild(e)
      PROVE  UNCHANGED <<closing, closer>>
  BY <1>6 DEF Rebuild, RunCycle, sessionVars
<1>7. ASSUME NEW c \in Ids, CycleNext(c)
      PROVE  UNCHANGED <<closing, closer>>
  <2>1. ASSUME Begin(c) \/ Notified(c) \/ Ran(c) \/ Finalized(c) \/ Fail(c)
        PROVE  closing' = closing
    BY <2>1 DEF Begin, Notified, Ran, Finalized, Fail
  <2> QED BY <1>7, <2>1
             DEF CycleNext, DriverStep, StartCycle, GotResources,
                 SetupSettles, CycleRan, CycleFails, cycleRest, sessionVars,
                 vars
<1> QED BY <1>1, <1>2, <1>3, <1>4, <1>5, <1>6, <1>7
        DEF NextTeardown, BootStep, ClosingInv

(* A session drives its cycles as WatchDriver does, whenever it is closed:   *)
(* what is proved of the driver holds in a session.                          *)
THEOREM SessionDrives == SpecTeardown => Spec
<1>1. InitTeardown => Init
  BY DEF InitTeardown
<1> QED BY <1>1, ClosingInit, ClosingNext, DrivesCycles, PTL
        DEF SpecTeardown, Spec

(* So no cycle of a session counts another's results, or skips the files it  *)
(* was asked for.                                                            *)
THEOREM SessionApart == SpecTeardown => []CyclesKeepApart
BY SessionDrives, Apart, PTL

LEMMA WindowsStay == CloseIn = {} => [](CloseIn = {})
OBVIOUS

THEOREM SessionInvariance == CloseIn = {} /\ SpecTeardown => []SessionInv
BY WindowsStay, SessionInit, SessionNext, PTL DEF SpecTeardown

(* A close that arrives outside the windows of CloseIn leaves nothing of the *)
(* session for the next one, tests run within their global setup, and the    *)
(* browser's global setup is done before the dev server starts.              *)
THEOREM Contained == CloseIn = {} /\ SpecTeardown => []SessionIsContained
<1>1. SessionInv => SessionIsContained
  <2> SUFFICES ASSUME SessionInv PROVE SessionIsContained
    OBVIOUS
  <2> USE DEF SessionInv
  <2>1. TestsWithinSetup
    <3> SUFFICES ASSUME NEW e \in Executors, HasSetup(e), Testing(e),
                        setup[e] # "failed"
                 PROVE  e \in callbacks
      BY DEF TestsWithinSetup
    <3>1. CASE e = node
      BY <3>1, ExecutorsFacts DEF Testing, WorkInv, SetupInv, CloseInv
    <3>2. CASE e = browser
      BY <3>2, ExecutorsFacts DEF Testing, BootInv, SetupInv, CloseInv
    <3> QED BY <3>1, <3>2, ExecutorsFacts
  <2>2. NothingOutlivesClose
    BY DEF NothingOutlivesClose, CloseInv
  <2> QED BY <2>1, <2>2 DEF SessionIsContained
<1> QED BY <1>1, SessionInvariance, PTL

=============================================================================
