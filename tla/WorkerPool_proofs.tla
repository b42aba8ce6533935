-------------------------- MODULE WorkerPool_proofs --------------------------
(* Theorems about WorkerPool, for every number of tasks and workers.         *)
EXTENDS WorkerPool, CollectionLemmas, FiniteSetTheorems, TLAPS

(* Runners that occupy a slot.                                               *)
InFlight == active \cup Range(idle) \cup stopping

(* The inductive invariant, in parts.                                        *)

(* A parked caller waits in one place, once.                                 *)
QueuesInv ==
  /\ IsInjective(slotWaiters)
  /\ IsInjective(ready)
  /\ Range(slotWaiters) \cap Range(ready) = {}
  /\ \A t \in Range(slotWaiters) \cup Range(ready) : call[t] = "parked"
  /\ closing # "open" => slotWaiters = <<>>

(* The acquireRunner loop runs only in an open pool.                         *)
TurnInv == turn # None => call[turn] = "acquiring" /\ closing = "open"

(* A runner is in at most one of the three collections.                      *)
PoolInv ==
  /\ IsInjective(idle)
  /\ active \cap stopping = {}
  /\ Range(idle) \cap (active \cup stopping) = {}

(* A worker process belongs to a runner the pool accounts for.               *)
RunnersInv ==
  /\ \A r \in Tasks : call[r] \in {"idle", "acquiring", "parked"}
                        => runner[r] = "none"
  /\ \A r \in Tasks : runner[r] = "starting" <=> call[r] = "starting"
  /\ \A r \in Tasks : runner[r] = "starting" => r \in active
  /\ Alive \subseteq InFlight
  /\ \A r \in InFlight : runner[r] # "none"

(* A task that was sent owns its runner until it releases it.                *)
ServesInv ==
  \A t \in Tasks : call[t] \in {"running", "lost"} =>
    /\ serves[t] \in Tasks
    /\ runner[serves[t]] \notin {"none", "starting"}
    /\ closing # "closed" => serves[t] \in active

(* Until the pool is closed, the ids in use are those of the runners in      *)
(* flight, each with its own.                                                *)
IdsInv ==
  closing # "closed" =>
    /\ \A r \in InFlight : workerId[r] \in slotInUse
    /\ \A id \in slotInUse : \E r \in InFlight : workerId[r] = id
    /\ \A r1, r2 \in InFlight : workerId[r1] = workerId[r2] => r1 = r2

CapacityInv == closing # "closed" => Cardinality(InFlight) <= MaxWorkers

(* What close() has already waited for.                                      *)
ClosingInv ==
  /\ closing = "stopping" => active \cup Range(idle) \subseteq closeWaits
  /\ closing = "draining" =>
       /\ \A r \in active \cup Range(idle) : runner[r] = "exited"
       /\ \A r \in stopping \ closeWaits : runner[r] = "exited"
  /\ closing = "closed" => Alive = {}

IInv ==
  /\ TypeOK
  /\ QueuesInv
  /\ TurnInv
  /\ PoolInv
  /\ RunnersInv
  /\ ServesInv
  /\ RunnerServesOneTask
  /\ IdsInv
  /\ CapacityInv
  /\ ClosingInv

-----------------------------------------------------------------------------
(* Counting.                                                                 *)

LEMMA CardinalityOfRange ==
  ASSUME NEW s \in Seq(Tasks), IsInjective(s)
  PROVE  IsFiniteSet(Range(s)) /\ Cardinality(Range(s)) = Len(s)
<1>1. Len(s) \in Nat /\ s \in [1..Len(s) -> Range(s)]
  BY LenProperties DEF Range
<1>2. s \in Bijection(1..Len(s), Range(s))
  BY <1>1 DEF Bijection, Injection, Surjection, Range
<1>3. ExistsBijection(1..Len(s), Range(s))
  BY <1>2 DEF ExistsBijection
<1> QED BY <1>1, <1>3, FS_CountingElements, FS_NatBijection

LEMMA DisjointUnion ==
  ASSUME NEW A, NEW B, IsFiniteSet(A), IsFiniteSet(B), A \cap B = {}
  PROVE  /\ IsFiniteSet(A \cup B)
         /\ Cardinality(A \cup B) = Cardinality(A) + Cardinality(B)
<1>1. /\ IsFiniteSet(A \cup B)
      /\ Cardinality(A \cup B) =
           Cardinality(A) + Cardinality(B) - Cardinality(A \cap B)
  BY FS_Union
<1>2. Cardinality(A \cap B) = 0
  BY FS_EmptySet, Zenon
<1>3. Cardinality(A) \in Nat /\ Cardinality(B) \in Nat
  BY FS_CardinalityType
<1> QED BY <1>1, <1>2, <1>3

(* The slots counted by inFlightCount are those of distinct runners.         *)
LEMMA InFlightCountIsCardinality ==
  ASSUME TypeOK, PoolInv
  PROVE  /\ IsFiniteSet(InFlight)
         /\ InFlightCount = Cardinality(InFlight)
         /\ InFlightCount \in Nat
<1> DEFINE R == Range(idle)
<1>1. IsFiniteSet(active) /\ IsFiniteSet(stopping)
  BY PoolAssumption, FS_Subset DEF TypeOK
<1>2. IsFiniteSet(R) /\ Cardinality(R) = Len(idle)
  BY CardinalityOfRange DEF TypeOK, PoolInv
<1>3. active \cap R = {} /\ (active \cup R) \cap stopping = {}
  BY DEF PoolInv
<1>4. InFlight = (active \cup R) \cup stopping
  BY DEF InFlight
<1> HIDE DEF R
<1>5. /\ IsFiniteSet(active \cup R)
      /\ Cardinality(active \cup R) = Cardinality(active) + Cardinality(R)
  BY <1>1, <1>2, <1>3, DisjointUnion
<1> DEFINE C == active \cup R
<1> HIDE DEF C
<1>6. /\ IsFiniteSet(C \cup stopping)
      /\ Cardinality(C \cup stopping) = Cardinality(C) + Cardinality(stopping)
  BY <1>1, <1>3, <1>5, DisjointUnion DEF C
<1>7. Cardinality(InFlight) \in Nat /\ IsFiniteSet(InFlight)
  BY <1>4, <1>6, FS_CardinalityType DEF C
<1>8. Cardinality(InFlight) = Cardinality(C) + Cardinality(stopping)
  BY <1>4, <1>6 DEF C
<1>9. Cardinality(C) = Cardinality(active) + Len(idle)
  BY <1>2, <1>5 DEF C
<1>10. InFlightCount = Cardinality(InFlight)
  BY <1>8, <1>9 DEF InFlightCount
<1> QED BY <1>7, <1>10

(* A caller that gets past the capacity check finds a free id: the throw of  *)
(* acquireWorkerId is unreachable.                                           *)
LEMMA FreeIdExists ==
  ASSUME TypeOK, PoolInv, IdsInv, closing # "closed",
         InFlightCount < MaxWorkers
  PROVE  FreeIds # {}
<1> SUFFICES ASSUME FreeIds = {} PROVE FALSE
  OBVIOUS
<1>1. slotInUse = 1..MaxWorkers
  BY DEF FreeIds, TypeOK
<1> DEFINE idOf == [r \in InFlight |-> workerId[r]]
<1>2. idOf \in Surjection(InFlight, slotInUse)
  BY DEF Surjection, IdsInv
<1>3. Cardinality(slotInUse) <= Cardinality(InFlight)
  BY <1>2, InFlightCountIsCardinality, FS_Surjection
<1>4. Cardinality(slotInUse) = MaxWorkers
  BY <1>1, FS_Interval, PoolAssumption
<1> QED BY <1>3, <1>4, InFlightCountIsCardinality, PoolAssumption

LEMMA Members ==
  ASSUME TypeOK
  PROVE  /\ InFlight \subseteq Tasks
         /\ Range(idle) \subseteq Tasks
         /\ Range(slotWaiters) \subseteq Tasks
         /\ Range(ready) \subseteq Tasks
BY RangeOfSeq DEF TypeOK, InFlight

-----------------------------------------------------------------------------
(* What the pool's helpers do to the invariant's state.                      *)

LEMMA WakeOneFacts ==
  ASSUME TypeOK, QueuesInv, WakeOne
  PROVE  /\ slotWaiters' \in Seq(Tasks)
         /\ ready' \in Seq(Tasks)
         /\ IsInjective(slotWaiters')
         /\ IsInjective(ready')
         /\ Range(slotWaiters') \cap Range(ready') = {}
         /\ Range(slotWaiters') \cup Range(ready') =
              Range(slotWaiters) \cup Range(ready)
         /\ slotWaiters = <<>> => slotWaiters' = <<>>
         /\ slotWaiters # <<>> => ready' # <<>>
<1>1. CASE slotWaiters = <<>>
  BY <1>1 DEF WakeOne, queueVars, TypeOK, QueuesInv
<1>2. CASE slotWaiters # <<>>
  <2> DEFINE h == Head(slotWaiters)
  <2>1. slotWaiters' = Tail(slotWaiters) /\ ready' = Append(ready, h)
    BY <1>2 DEF WakeOne
  <2>2. /\ h \in Range(slotWaiters)
        /\ Tail(slotWaiters) \in Seq(Tasks)
        /\ Range(Tail(slotWaiters)) = Range(slotWaiters) \ {h}
        /\ IsInjective(Tail(slotWaiters))
    BY <1>2, TailFacts DEF TypeOK, QueuesInv
  <2>3. h \in Tasks /\ h \notin Range(ready)
    BY <2>2, RangeOfSeq DEF TypeOK, QueuesInv
  <2> HIDE DEF h
  <2>4. ready \in Seq(Tasks) /\ IsInjective(ready)
    BY DEF TypeOK, QueuesInv
  <2>5. /\ Append(ready, h) \in Seq(Tasks)
        /\ Append(ready, h) # <<>>
        /\ Range(Append(ready, h)) = Range(ready) \cup {h}
        /\ IsInjective(Append(ready, h))
    BY <2>3, <2>4, AppendFacts
  <2> QED BY <1>2, <2>1, <2>2, <2>3, <2>5 DEF QueuesInv
<1> QED BY <1>1, <1>2

(* Parking the caller whose loop is executing.                               *)
LEMMA ParkFacts ==
  ASSUME IInv, NEW t \in Tasks, turn = t, Park(t), UNCHANGED closing
  PROVE  /\ call' \in [Tasks -> CallStates]
         /\ slotWaiters' \in Seq(Tasks)
         /\ ready' \in Seq(Tasks)
         /\ serves' = serves
         /\ turn' = None
         /\ \A u \in Tasks : call'[u] = IF u = t THEN "parked" ELSE call[u]
         /\ QueuesInv'
<1>1. call[t] = "acquiring" /\ closing = "open"
  BY PoolAssumption DEF IInv, TurnInv
<1>2. t \notin Range(slotWaiters) \cup Range(ready)
  BY <1>1 DEF IInv, QueuesInv
<1>3. /\ slotWaiters' \in Seq(Tasks)
      /\ Range(slotWaiters') = Range(slotWaiters) \cup {t}
      /\ IsInjective(slotWaiters')
  BY <1>2, AppendFacts DEF Park, IInv, TypeOK, QueuesInv
<1>4. \A u \in Tasks : call'[u] = IF u = t THEN "parked" ELSE call[u]
  BY DEF Park, IInv, TypeOK
<1>5. call' \in [Tasks -> CallStates]
  BY DEF Park, IInv, TypeOK, CallStates
<1>6. QueuesInv'
  <2>1. \A u \in Range(slotWaiters') \cup Range(ready') : call'[u] = "parked"
    BY <1>3, <1>4, RangeOfSeq DEF Park, IInv, TypeOK, QueuesInv
  <2> QED BY <1>1, <1>2, <1>3, <2>1 DEF Park, IInv, QueuesInv
<1> QED BY <1>3, <1>4, <1>5, <1>6 DEF Park, IInv, TypeOK

(* Releasing a runner: it leaves `active` for the idle list or for the       *)
(* background stop, and a caller may be woken.                               *)
LEMMA ReleaseFacts ==
  ASSUME IInv, NEW r \in Tasks, NEW ok \in BOOLEAN, Release(r, ok),
         runner[r] # "none", r \notin Range(idle) \cup stopping,
         closing # "closed" => r \in active
  PROVE  /\ active' = active \ {r}
         /\ idle' \in Seq(Tasks)
         /\ stopping' \in SUBSET Tasks
         /\ Range(idle') \cup stopping' = Range(idle) \cup stopping \cup {r}
         /\ IsInjective(idle')
         /\ Range(idle') \cap stopping' = {}
         /\ closing # "open" => /\ idle' = idle
                                /\ stopping' = stopping \cup {r}
         /\ cleanup' \in [Tasks -> {"none", "asked", "done", "failed"}]
         /\ slotWaiters' \in Seq(Tasks)
         /\ ready' \in Seq(Tasks)
         /\ IsInjective(slotWaiters')
         /\ IsInjective(ready')
         /\ Range(slotWaiters') \cap Range(ready') = {}
         /\ Range(slotWaiters') \cup Range(ready') =
              Range(slotWaiters) \cup Range(ready)
         /\ slotWaiters = <<>> => slotWaiters' = <<>>
         /\ slotWaiters # <<>> => r \in stopping' \/ ready' # <<>>
<1>1. CASE ok /\ Keeps(r)
  <2>1. /\ idle' = Append(idle, r) /\ stopping' = stopping
        /\ cleanup' = cleanup /\ active' = active \ {r} /\ WakeOne
        /\ closing = "open"
    BY <1>1 DEF Release, Keeps
  <2>2. /\ idle' \in Seq(Tasks)
        /\ Range(idle') = Range(idle) \cup {r}
        /\ IsInjective(idle')
    BY <2>1, AppendFacts DEF IInv, TypeOK, PoolInv
  <2>3. Range(idle') \cap stopping' = {}
    BY <2>1, <2>2 DEF IInv, PoolInv
  <2> QED BY <2>1, <2>2, <2>3, WakeOneFacts DEF IInv, TypeOK
<1>2. CASE ~(ok /\ Keeps(r))
  <2>1. /\ idle' = idle /\ stopping' = stopping \cup {r}
        /\ active' = active \ {r} /\ UNCHANGED queueVars
        /\ AskCleanup({r}) \/ UNCHANGED cleanup
    BY <1>2 DEF Release
  <2>2. cleanup' \in [Tasks -> {"none", "asked", "done", "failed"}]
    BY <2>1 DEF AskCleanup, IInv, TypeOK
  <2> QED BY <2>1, <2>2 DEF IInv, TypeOK, PoolInv, QueuesInv, queueVars
<1> QED BY <1>1, <1>2

-----------------------------------------------------------------------------
(* The invariant holds initially.                                            *)
LEMMA InitEstablishes == Init => IInv
<1> SUFFICES ASSUME Init PROVE IInv
  OBVIOUS
<1> USE PoolAssumption DEF Init
<1>1. TypeOK
  <2>1. workerId \in [Tasks -> 0..MaxWorkers]
    OBVIOUS
  <2>2. /\ call \in [Tasks -> CallStates]
        /\ runner \in [Tasks -> RunnerStates]
    BY DEF CallStates, RunnerStates
  <2>3. <<>> \in Seq(Tasks)
    OBVIOUS
  <2> QED BY <2>1, <2>2, <2>3 DEF TypeOK
<1>2. Range(idle) = {} /\ Range(slotWaiters) = {} /\ Range(ready) = {}
  BY DEF Range
<1>3. IsInjective(idle) /\ IsInjective(slotWaiters) /\ IsInjective(ready)
  BY DEF IsInjective
<1>4. QueuesInv /\ TurnInv /\ PoolInv /\ ServesInv /\ RunnerServesOneTask
  BY <1>2, <1>3
     DEF QueuesInv, TurnInv, PoolInv, ServesInv, RunnerServesOneTask
<1>5. InFlight = {} /\ Alive = {}
  BY <1>2 DEF InFlight, Alive
<1>6. RunnersInv /\ IdsInv /\ ClosingInv
  BY <1>5 DEF RunnersInv, IdsInv, ClosingInv
<1>7. CapacityInv
  BY <1>5, FS_EmptySet DEF CapacityInv
<1> QED BY <1>1, <1>4, <1>6, <1>7 DEF IInv

(* A step that leaves queues, collections and processes alone.               *)
LEMMA StutterPreserves ==
  ASSUME IInv, UNCHANGED vars
  PROVE  IInv'
BY SMTT(60)
DEF IInv, TypeOK, QueuesInv, TurnInv, PoolInv, RunnersInv, ServesInv,
       RunnerServesOneTask, IdsInv, CapacityInv, ClosingInv, InFlight, Alive,
       vars, callVars, queueVars, poolVars, procVars, gateVars, errVars,
       drainVars, closeVars

(* What is known of the caller whose acquireRunner loop is executing.        *)
LEMMA TurnFacts ==
  ASSUME IInv, NEW t \in Tasks, turn = t
  PROVE  /\ call[t] = "acquiring"
         /\ closing = "open"
         /\ runner[t] = "none"
         /\ t \notin InFlight
         /\ turn # None
BY PoolAssumption DEF IInv, TurnInv, RunnersInv, InFlight

LEMMA DispatchPreserves ==
  ASSUME IInv, NEW t \in Tasks, Dispatch(t)
  PROVE  IInv'
<1> USE DEF IInv, Dispatch, Enter, queueVars, poolVars, procVars, gateVars,
            errVars, drainVars, closeVars
<1>1. /\ call' \in [Tasks -> CallStates]
      /\ call[t] = "idle" /\ call'[t] \in {"acquiring", "rejected"}
      /\ \A u \in Tasks \ {t} : call'[u] = call[u]
  BY DEF TypeOK, CallStates
<1>2. TypeOK'
  BY <1>1 DEF TypeOK
<1>3. QueuesInv'
  BY <1>1, RangeOfSeq DEF QueuesInv, TypeOK
<1>4. TurnInv'
  BY <1>1 DEF TurnInv, TypeOK
<1>5. RunnersInv'
  <2>1. Alive' = Alive /\ InFlight' = InFlight
    BY DEF Alive, InFlight
  <2>2. runner[t] = "none"
    BY <1>1 DEF RunnersInv
  <2> QED BY <1>1, <2>1, <2>2 DEF RunnersInv
<1>6. ServesInv' /\ RunnerServesOneTask'
  BY <1>1 DEF ServesInv, RunnerServesOneTask
<1>7. PoolInv' /\ IdsInv' /\ CapacityInv' /\ ClosingInv'
  BY DEF PoolInv, IdsInv, CapacityInv, ClosingInv, InFlight, Alive
<1> QED BY <1>2, <1>3, <1>4, <1>5, <1>6, <1>7

LEMMA ResumePreserves ==
  ASSUME IInv, Resume
  PROVE  IInv'
<1> DEFINE t == Head(ready)
<1> USE DEF IInv, Resume, Enter, poolVars, procVars, gateVars, errVars,
            drainVars, closeVars
<1>1. /\ t \in Range(ready)
      /\ ready' \in Seq(Tasks)
      /\ Range(ready') = Range(ready) \ {t}
      /\ IsInjective(ready')
  BY TailFacts DEF TypeOK, QueuesInv
<1>2. t \in Tasks /\ call[t] = "parked"
  BY <1>1, RangeOfSeq DEF TypeOK, QueuesInv
<1>3. /\ call' \in [Tasks -> CallStates]
      /\ call'[t] \in {"acquiring", "rejected"}
      /\ \A u \in Tasks \ {t} : call'[u] = call[u]
      /\ turn' = None \/ (turn' = t /\ closing = "open"
                          /\ call'[t] = "acquiring")
  BY <1>2 DEF TypeOK, CallStates
<1> HIDE DEF t
<1>4. TypeOK'
  BY <1>1, <1>2, <1>3 DEF TypeOK
<1>5. QueuesInv'
  BY <1>1, <1>3, RangeOfSeq, SMTT(60) DEF QueuesInv, TypeOK
<1>6. TurnInv'
  BY <1>3 DEF TurnInv
<1>7. RunnersInv'
  <2>1. Alive' = Alive /\ InFlight' = InFlight
    BY DEF Alive, InFlight
  <2>2. runner[t] = "none"
    BY <1>2 DEF RunnersInv
  <2> QED BY <1>2, <1>3, <2>1, <2>2 DEF RunnersInv
<1>8. ServesInv' /\ RunnerServesOneTask'
  BY <1>3 DEF ServesInv, RunnerServesOneTask
<1>9. PoolInv' /\ IdsInv' /\ CapacityInv' /\ ClosingInv'
  BY DEF PoolInv, IdsInv, CapacityInv, ClosingInv, InFlight, Alive
<1> QED BY <1>4, <1>5, <1>6, <1>7, <1>8, <1>9

-----------------------------------------------------------------------------
(* The branches of acquireRunner.                                            *)

LEMMA NewestIdleFacts ==
  ASSUME IInv, NEW e, NEW i \in NewestIdleFor(e)
  PROVE  /\ i \in 1..Len(idle)
         /\ EnvOf[idle[i]] = e
         /\ idle[i] \in Tasks
         /\ idle[i] \in Range(idle)
         /\ RemoveAt(idle, i) \in Seq(Tasks)
         /\ Range(RemoveAt(idle, i)) = Range(idle) \ {idle[i]}
         /\ IsInjective(RemoveAt(idle, i))
<1>1. i \in 1..Len(idle) /\ EnvOf[idle[i]] = e
  BY DEF NewestIdleFor, IdleFor
<1>2. idle \in Seq(Tasks) /\ IsInjective(idle)
  BY DEF IInv, TypeOK, PoolInv
<1>3. /\ RemoveAt(idle, i) \in Seq(Tasks)
      /\ Range(RemoveAt(idle, i)) = Range(idle) \ {idle[i]}
      /\ IsInjective(RemoveAt(idle, i))
  BY <1>1, <1>2, RemoveAtFacts
<1>4. idle[i] \in Tasks /\ idle[i] \in Range(idle)
  BY <1>1, <1>2, LenProperties DEF Range
<1> QED BY <1>1, <1>3, <1>4

LEMMA AcquireReusePreserves ==
  ASSUME IInv, NEW t \in Tasks, AcquireReuse(t)
  PROVE  IInv'
<1>1. PICK i \in NewestIdleFor(EnvOf[t]) :
        /\ runner[idle[i]] = "usable"
        /\ idle' = RemoveAt(idle, i)
        /\ active' = active \cup {idle[i]}
        /\ serves' = [serves EXCEPT ![t] = idle[i]]
  BY DEF AcquireReuse
<1> DEFINE r == idle[i]
<1>2. /\ EnvOf[r] = EnvOf[t]
      /\ r \in Tasks
      /\ r \in Range(idle)
      /\ idle' \in Seq(Tasks)
      /\ Range(idle') = Range(idle) \ {r}
      /\ IsInjective(idle')
  BY <1>1, NewestIdleFacts
<1>3. /\ runner[r] = "usable"
      /\ active' = active \cup {r}
      /\ serves' = [serves EXCEPT ![t] = r]
  BY <1>1
<1> HIDE DEF r
<1>4. /\ turn = t /\ call[t] = "acquiring"
      /\ closing = "open" /\ runner[t] = "none"
  BY TurnFacts DEF AcquireReuse
<1>5. /\ call' \in [Tasks -> CallStates]
      /\ call' = [call EXCEPT ![t] = "running"]
      /\ call'[t] = "running"
      /\ \A u \in Tasks \ {t} : call'[u] = call[u]
      /\ serves' \in [Tasks -> Tasks \cup {None}]
      /\ serves'[t] = r
      /\ \A u \in Tasks \ {t} : serves'[u] = serves[u]
      /\ turn' = None
      /\ UNCHANGED <<options, queueVars, stopping, procVars, gateVars,
                     errVars, drainVars, closeVars>>
  BY <1>2, <1>3 DEF AcquireReuse, IInv, TypeOK, CallStates
<1> USE DEF IInv, queueVars, procVars, gateVars, errVars, drainVars, closeVars
<1>6. TypeOK'
  BY <1>2, <1>3, <1>5 DEF TypeOK
<1>7. QueuesInv'
  BY <1>4, <1>5 DEF QueuesInv
<1>8. TurnInv' /\ PoolInv'
  BY <1>2, <1>3, <1>5 DEF TurnInv, PoolInv
<1>9. InFlight' = InFlight /\ Alive' = Alive
  BY <1>2, <1>3, <1>5 DEF InFlight, Alive
<1>10. IdsInv' /\ CapacityInv' /\ ClosingInv'
  BY <1>4, <1>5, <1>9 DEF IdsInv, CapacityInv, ClosingInv
<1>11. RunnersInv'
  BY <1>3, <1>4, <1>5, <1>9 DEF RunnersInv
<1>12. ServesInv'
  BY <1>2, <1>3, <1>5 DEF ServesInv
<1>13. RunnerServesOneTask'
  <2>1. r \notin Range(idle') \cup stopping'
    BY <1>2, <1>5 DEF PoolInv
  <2>2. \A u \in Tasks \ {t} : call[u] \in {"running", "lost"} =>
          serves[u] # r /\ serves[u] \notin Range(idle') \cup stopping'
    BY <1>2, <1>5 DEF RunnerServesOneTask
  <2> QED BY <1>2, <1>5, <2>1, <2>2 DEF RunnerServesOneTask
<1> QED BY <1>6, <1>7, <1>8, <1>10, <1>11, <1>12, <1>13

(* A runner that is not working on a task moves from the idle list to the    *)
(* background stop.                                                          *)
LEMMA DisposePreserves ==
  ASSUME IInv, NEW r \in Range(idle), Dispose(r),
         idle' \in Seq(Tasks), IsInjective(idle'),
         Range(idle') = Range(idle) \ {r},
         UNCHANGED <<active, runner, closing>>
  PROVE  /\ stopping' \in SUBSET Tasks
         /\ cleanup' \in [Tasks -> {"none", "asked", "done", "failed"}]
         /\ PoolInv'
         /\ InFlight' = InFlight
         /\ Alive' = Alive
<1>1. r \in Tasks
  BY RangeOfSeq DEF IInv, TypeOK
<1>2. stopping' = stopping \cup {r}
  BY DEF Dispose
<1>3. cleanup' \in [Tasks -> {"none", "asked", "done", "failed"}]
  BY DEF Dispose, AskCleanup, IInv, TypeOK
<1>4. PoolInv'
  BY <1>2 DEF IInv, PoolInv
<1>5. InFlight' = InFlight /\ Alive' = Alive
  BY <1>2 DEF InFlight, Alive
<1> QED BY <1>1, <1>2, <1>3, <1>4, <1>5 DEF IInv, TypeOK

LEMMA AcquireDropStalePreserves ==
  ASSUME IInv, NEW t \in Tasks, AcquireDropStale(t)
  PROVE  IInv'
<1>1. PICK i \in NewestIdleFor(EnvOf[t]) :
        idle' = RemoveAt(idle, i) /\ Dispose(idle[i])
  BY DEF AcquireDropStale
<1> DEFINE r == idle[i]
<1>2. /\ r \in Range(idle)
      /\ Dispose(r)
      /\ idle' \in Seq(Tasks)
      /\ Range(idle') = Range(idle) \ {r}
      /\ IsInjective(idle')
  BY <1>1, NewestIdleFacts
<1> HIDE DEF r
<1>3. /\ turn = t
      /\ UNCHANGED <<options, callVars, queueVars, active, procVars, gateVars,
                     stopErrors, reports, drainVars, closeVars>>
  BY DEF AcquireDropStale
<1>4. /\ stopping' \in SUBSET Tasks
      /\ stopping' = stopping \cup {r}
      /\ cleanup' \in [Tasks -> {"none", "asked", "done", "failed"}]
      /\ PoolInv'
      /\ InFlight' = InFlight
      /\ Alive' = Alive
  BY <1>2, <1>3, DisposePreserves DEF procVars, closeVars, Dispose
<1>5. closing = "open"
  BY <1>3, TurnFacts
<1> USE <1>3 DEF IInv, callVars, queueVars, procVars, gateVars, drainVars,
                 closeVars
<1>6. TypeOK'
  BY <1>2, <1>4 DEF TypeOK
<1>7. QueuesInv' /\ TurnInv'
  BY DEF QueuesInv, TurnInv
<1>8. RunnersInv' /\ IdsInv' /\ CapacityInv' /\ ClosingInv'
  BY <1>4, <1>5 DEF RunnersInv, IdsInv, CapacityInv, ClosingInv
<1>9. ServesInv' /\ RunnerServesOneTask'
  BY <1>2, <1>4 DEF ServesInv, RunnerServesOneTask
<1> QED BY <1>4, <1>6, <1>7, <1>8, <1>9

LEMMA AcquireParkFullPreserves ==
  ASSUME IInv, NEW t \in Tasks, AcquireParkFull(t)
  PROVE  IInv'
<1>1. /\ turn = t /\ Park(t)
      /\ UNCHANGED <<options, active, procVars, gateVars, stopErrors, reports,
                     drainVars, closeVars>>
  BY DEF AcquireParkFull
<1>2. /\ closing = "open" /\ call[t] = "acquiring" /\ runner[t] = "none"
  BY <1>1, TurnFacts
<1>3. /\ call' \in [Tasks -> CallStates]
      /\ slotWaiters' \in Seq(Tasks)
      /\ ready' \in Seq(Tasks)
      /\ serves' = serves
      /\ turn' = None
      /\ \A u \in Tasks : call'[u] = IF u = t THEN "parked" ELSE call[u]
      /\ QueuesInv'
  BY <1>1, ParkFacts DEF closeVars
<1>4. /\ idle' \in Seq(Tasks)
      /\ Range(idle') \cup stopping' = Range(idle) \cup stopping
      /\ stopping' \in SUBSET Tasks
      /\ cleanup' \in [Tasks -> {"none", "asked", "done", "failed"}]
      /\ PoolInv'
      /\ InFlight' = InFlight
      /\ Alive' = Alive
  <2>1. CASE idle = <<>>
    BY <1>1, <2>1 DEF AcquireParkFull, ShedColdest, IInv, TypeOK, PoolInv,
                      InFlight, Alive, procVars
  <2>2. CASE idle # <<>>
    <3>1. idle' = Tail(idle) /\ Dispose(Head(idle))
      BY <2>2 DEF AcquireParkFull, ShedColdest
    <3>2. /\ Head(idle) \in Range(idle)
          /\ Tail(idle) \in Seq(Tasks)
          /\ Range(Tail(idle)) = Range(idle) \ {Head(idle)}
          /\ IsInjective(Tail(idle))
      BY <2>2, TailFacts DEF IInv, TypeOK, PoolInv
    <3>3. /\ stopping' \in SUBSET Tasks
          /\ cleanup' \in [Tasks -> {"none", "asked", "done", "failed"}]
          /\ PoolInv'
          /\ InFlight' = InFlight
          /\ Alive' = Alive
      BY <1>1, <3>1, <3>2, DisposePreserves DEF procVars, closeVars
    <3>4. stopping' = stopping \cup {Head(idle)}
      BY <3>1 DEF Dispose
    <3> QED BY <3>1, <3>2, <3>3, <3>4
  <2> QED BY <2>1, <2>2
<1> USE <1>1 DEF IInv, procVars, gateVars, drainVars, closeVars
<1>5. TypeOK'
  BY <1>3, <1>4 DEF TypeOK
<1>6. TurnInv' /\ ServesInv'
  BY <1>3 DEF TurnInv, ServesInv
<1>7. RunnersInv'
  BY <1>2, <1>3, <1>4 DEF RunnersInv
<1>8. RunnerServesOneTask'
  BY <1>3, <1>4 DEF RunnerServesOneTask
<1>9. IdsInv' /\ CapacityInv' /\ ClosingInv'
  BY <1>2, <1>4 DEF IdsInv, CapacityInv, ClosingInv
<1> QED BY <1>3, <1>4, <1>5, <1>6, <1>7, <1>8, <1>9

LEMMA AcquireDeferPreserves ==
  ASSUME IInv, NEW t \in Tasks, AcquireDefer(t)
  PROVE  IInv'
<1>1. /\ turn = t /\ Park(t) /\ polling' = TRUE
      /\ UNCHANGED <<options, poolVars, procVars, sampled, errVars, drainVars,
                     closeVars>>
  BY DEF AcquireDefer
<1>2. closing = "open" /\ call[t] = "acquiring" /\ runner[t] = "none"
  BY <1>1, TurnFacts
<1>3. /\ call' \in [Tasks -> CallStates]
      /\ slotWaiters' \in Seq(Tasks)
      /\ ready' \in Seq(Tasks)
      /\ serves' = serves
      /\ turn' = None
      /\ \A u \in Tasks : call'[u] = IF u = t THEN "parked" ELSE call[u]
      /\ QueuesInv'
  BY <1>1, ParkFacts DEF closeVars
<1> USE <1>1 DEF IInv, poolVars, procVars, errVars, drainVars, closeVars
<1>4. TypeOK'
  BY <1>3 DEF TypeOK
<1>5. TurnInv' /\ ServesInv' /\ RunnerServesOneTask' /\ PoolInv'
  BY <1>3 DEF TurnInv, ServesInv, RunnerServesOneTask, PoolInv
<1>6. InFlight' = InFlight /\ Alive' = Alive
  BY DEF InFlight, Alive
<1>7. RunnersInv'
  BY <1>2, <1>3, <1>6 DEF RunnersInv
<1>8. IdsInv' /\ CapacityInv' /\ ClosingInv'
  BY <1>2, <1>6 DEF IdsInv, CapacityInv, ClosingInv
<1> QED BY <1>3, <1>4, <1>5, <1>7, <1>8

LEMMA AcquireSpawnPreserves ==
  ASSUME IInv, NEW t \in Tasks, AcquireSpawn(t)
  PROVE  IInv'
<1>1. /\ call[t] = "acquiring" /\ closing = "open"
      /\ runner[t] = "none" /\ t \notin InFlight
  BY TurnFacts DEF AcquireSpawn
<1>2. PICK id \in LowestFreeId :
        /\ workerId' = [workerId EXCEPT ![t] = id]
        /\ slotInUse' = slotInUse \cup {id}
  BY DEF AcquireSpawn
<1>3. id \in 1..MaxWorkers /\ id \notin slotInUse
  BY <1>2 DEF LowestFreeId, FreeIds
<1>4. /\ call' \in [Tasks -> CallStates]
      /\ \A u \in Tasks : call'[u] = IF u = t THEN "starting" ELSE call[u]
      /\ runner' \in [Tasks -> RunnerStates]
      /\ \A u \in Tasks : runner'[u] = IF u = t THEN "starting" ELSE runner[u]
      /\ active' = active \cup {t}
      /\ turn' = None
      /\ UNCHANGED <<options, serves, queueVars, idle, stopping, gateVars,
                     errVars, drainVars, closeVars>>
  BY DEF AcquireSpawn, IInv, TypeOK, CallStates, RunnerStates
<1>5. /\ workerId' \in [Tasks -> 0..MaxWorkers]
      /\ \A u \in Tasks : workerId'[u] = IF u = t THEN id ELSE workerId[u]
      /\ slotInUse' \in SUBSET (1..MaxWorkers)
  <2>1. id \in 0..MaxWorkers
    BY <1>3
  <2> QED BY <1>2, <1>3, <2>1 DEF IInv, TypeOK
<1>6. InFlight' = InFlight \cup {t} /\ Alive' = Alive \cup {t}
  BY <1>4 DEF InFlight, Alive
<1>7. CapacityInv'
  <2>1. /\ IsFiniteSet(InFlight)
        /\ InFlightCount = Cardinality(InFlight)
        /\ InFlightCount \in Nat
    BY InFlightCountIsCardinality DEF IInv
  <2>2. Cardinality(InFlight \cup {t}) = Cardinality(InFlight) + 1
    BY <1>1, <2>1, FS_AddElement
  <2>3. InFlightCount < MaxWorkers
    BY DEF AcquireSpawn
  <2> QED BY <1>6, <2>1, <2>2, <2>3, PoolAssumption DEF CapacityInv
<1> USE DEF IInv, queueVars, gateVars, errVars, drainVars, closeVars
<1>8. TypeOK'
  BY <1>4, <1>5 DEF TypeOK
<1>9. QueuesInv' /\ TurnInv'
  BY <1>1, <1>4, Members DEF QueuesInv, TurnInv
<1>10. PoolInv'
  BY <1>1, <1>4 DEF PoolInv, InFlight
<1>11. RunnersInv'
  BY <1>1, <1>4, <1>6, Members DEF RunnersInv
<1>12. ServesInv' /\ RunnerServesOneTask'
  BY <1>1, <1>4 DEF ServesInv, RunnerServesOneTask
<1>13. IdsInv'
  <2>1. \A r \in InFlight : r \in Tasks /\ workerId[r] # id
    BY <1>1, <1>3, RangeOfSeq DEF IdsInv, InFlight, TypeOK
  <2> QED BY <1>1, <1>2, <1>5, <1>6, <2>1 DEF IdsInv
<1>14. ClosingInv'
  BY <1>1, <1>4 DEF ClosingInv
<1> QED BY <1>7, <1>8, <1>9, <1>10, <1>11, <1>12, <1>13, <1>14

-----------------------------------------------------------------------------
(* Starts, results and losses of runners.                                    *)

LEMMA StartOkPreserves ==
  ASSUME IInv, NEW t \in Tasks, StartOk(t)
  PROVE  IInv'
<1>1. /\ turn = None /\ call[t] = "starting"
      /\ UNCHANGED <<options, turn, queueVars, poolVars, workerId, slotInUse,
                     gateVars, errVars, drainVars, closeVars>>
  BY DEF StartOk
<1>2. runner[t] = "starting" /\ t \in active
  BY <1>1 DEF IInv, RunnersInv
<1>3. /\ call' \in [Tasks -> CallStates]
      /\ \A u \in Tasks : call'[u] = IF u = t THEN "running" ELSE call[u]
      /\ runner' \in [Tasks -> RunnerStates]
      /\ \A u \in Tasks : runner'[u] = IF u = t THEN "usable" ELSE runner[u]
      /\ serves' \in [Tasks -> Tasks \cup {None}]
      /\ \A u \in Tasks : serves'[u] = IF u = t THEN t ELSE serves[u]
  BY DEF StartOk, IInv, TypeOK, CallStates, RunnerStates
<1> USE <1>1 DEF IInv, queueVars, poolVars, gateVars, errVars, drainVars,
                 closeVars
<1>4. TypeOK'
  BY <1>3 DEF TypeOK
<1>5. QueuesInv' /\ TurnInv' /\ PoolInv'
  BY <1>3, Members DEF QueuesInv, TurnInv, PoolInv
<1>6. InFlight' = InFlight /\ Alive' = Alive
  BY <1>2, <1>3 DEF InFlight, Alive
<1>7. RunnersInv'
  BY <1>2, <1>3, <1>6, Members DEF RunnersInv
<1>8. ServesInv'
  BY <1>2, <1>3 DEF ServesInv
<1>9. RunnerServesOneTask'
  <2>1. t \notin Range(idle) \cup stopping
    BY <1>2 DEF PoolInv
  <2>2. \A u \in Tasks : call[u] \in {"running", "lost"} => serves[u] # t
    BY <1>2 DEF ServesInv
  <2> QED BY <1>3, <2>1, <2>2 DEF RunnerServesOneTask
<1>10. IdsInv' /\ CapacityInv'
  BY <1>6 DEF IdsInv, CapacityInv
<1>11. ClosingInv'
  BY <1>2, <1>3, <1>6 DEF ClosingInv, Alive
<1> QED BY <1>4, <1>5, <1>7, <1>8, <1>9, <1>10, <1>11

LEMMA StartFailPreserves ==
  ASSUME IInv, NEW t \in Tasks, StartFail(t)
  PROVE  IInv'
<1>1. /\ turn = None /\ call[t] = "starting"
      /\ active' = active \ {t} /\ stopping' = stopping \cup {t}
      /\ UNCHANGED <<options, serves, turn, queueVars, idle, workerId,
                     slotInUse, gateVars, stopErrors, reports, drainVars,
                     closeVars>>
  BY DEF StartFail
<1>2. runner[t] = "starting" /\ t \in active
  BY <1>1 DEF IInv, RunnersInv
<1>3. PICK s \in {"unusable", "exited"} :
        /\ runner' = [runner EXCEPT ![t] = s]
        /\ cleanup' = IF s = "exited"
                      THEN [cleanup EXCEPT ![t] = "none"] ELSE cleanup
  BY DEF StartFail
<1>4. /\ call' \in [Tasks -> CallStates]
      /\ \A u \in Tasks : call'[u] = IF u = t THEN "rejected" ELSE call[u]
      /\ runner' \in [Tasks -> RunnerStates]
      /\ \A u \in Tasks : runner'[u] = IF u = t THEN s ELSE runner[u]
      /\ cleanup' \in [Tasks -> {"none", "asked", "done", "failed"}]
  BY <1>3 DEF StartFail, IInv, TypeOK, CallStates, RunnerStates
<1> USE <1>1 DEF IInv, queueVars, gateVars, drainVars, closeVars
<1>5. TypeOK'
  BY <1>4 DEF TypeOK
<1>6. QueuesInv' /\ TurnInv' /\ PoolInv'
  BY <1>2, <1>4, Members DEF QueuesInv, TurnInv, PoolInv
<1>7. InFlight' = InFlight /\ Alive' \subseteq Alive
  BY <1>2, <1>4 DEF InFlight, Alive
<1>8. RunnersInv'
  BY <1>2, <1>4, <1>7, Members DEF RunnersInv
<1>9. ServesInv'
  BY <1>2, <1>4 DEF ServesInv
<1>10. RunnerServesOneTask'
  <2>1. \A u \in Tasks : call[u] \in {"running", "lost"} => serves[u] # t
    BY <1>2 DEF ServesInv
  <2> QED BY <1>4, <2>1 DEF RunnerServesOneTask
<1>11. IdsInv' /\ CapacityInv'
  BY <1>7 DEF IdsInv, CapacityInv
<1>12. closing # "draining" /\ closing # "closed"
  BY <1>2 DEF ClosingInv, Alive
<1>13. ClosingInv'
  BY <1>12 DEF ClosingInv
<1> QED BY <1>5, <1>6, <1>8, <1>9, <1>10, <1>11, <1>13

(* A task settles and releases its runner.                                   *)
LEMMA SettlePreserves ==
  ASSUME IInv, NEW t \in Tasks, call[t] \in {"running", "lost"}, turn = None,
         NEW x \in {"resolved", "rejected"}, call' = [call EXCEPT ![t] = x],
         NEW ok \in BOOLEAN, Release(serves[t], ok),
         runner' = runner \/ (runner[serves[t]] = "usable" /\
                     runner' = [runner EXCEPT ![serves[t]] = "unusable"]),
         sampled' \in BOOLEAN,
         UNCHANGED <<options, serves, turn, workerId, slotInUse, polling,
                     stopErrors, reports, drainVars, closeVars>>
  PROVE  IInv'
<1> DEFINE r == serves[t]
<1>1. /\ r \in Tasks
      /\ runner[r] \notin {"none", "starting"}
      /\ closing # "closed" => r \in active
      /\ r \notin Range(idle) \cup stopping
      /\ \A u \in Tasks \ {t} :
           call[u] \in {"running", "lost"} => serves[u] # r
  BY DEF IInv, ServesInv, RunnerServesOneTask
<1>2. Release(r, ok)
  OBVIOUS
<1>3. /\ runner' \in [Tasks -> RunnerStates]
      /\ \A u \in Tasks : u # r => runner'[u] = runner[u]
      /\ runner'[r] = runner[r] \/ (runner[r] = "usable"
                                    /\ runner'[r] = "unusable")
  BY <1>1 DEF IInv, TypeOK, RunnerStates
<1> HIDE DEF r
<1>4. /\ call' \in [Tasks -> CallStates]
      /\ \A u \in Tasks : call'[u] = IF u = t THEN x ELSE call[u]
  BY DEF IInv, TypeOK, CallStates
<1>5. /\ active' = active \ {r}
      /\ idle' \in Seq(Tasks)
      /\ stopping' \in SUBSET Tasks
      /\ Range(idle') \cup stopping' = Range(idle) \cup stopping \cup {r}
      /\ IsInjective(idle')
      /\ Range(idle') \cap stopping' = {}
      /\ closing # "open" => /\ idle' = idle
                             /\ stopping' = stopping \cup {r}
      /\ cleanup' \in [Tasks -> {"none", "asked", "done", "failed"}]
      /\ slotWaiters' \in Seq(Tasks)
      /\ ready' \in Seq(Tasks)
      /\ IsInjective(slotWaiters')
      /\ IsInjective(ready')
      /\ Range(slotWaiters') \cap Range(ready') = {}
      /\ Range(slotWaiters') \cup Range(ready') =
           Range(slotWaiters) \cup Range(ready)
      /\ slotWaiters = <<>> => slotWaiters' = <<>>
  BY <1>1, <1>2, ReleaseFacts
<1> USE DEF IInv, drainVars, closeVars
<1>6. TypeOK'
  BY <1>3, <1>4, <1>5 DEF TypeOK
<1>7. QueuesInv'
  BY <1>4, <1>5, Members DEF QueuesInv
<1>8. TurnInv'
  BY DEF TurnInv
<1>9. PoolInv'
  BY <1>1, <1>5 DEF PoolInv
<1>10. InFlight' = InFlight \cup {r} /\ Alive' = Alive
  <2>1. Alive' = Alive
    BY <1>1, <1>3 DEF Alive
  <2> QED BY <1>5, <2>1 DEF InFlight
<1>11. closing # "closed" => InFlight' = InFlight
  BY <1>1, <1>10 DEF InFlight
<1>12. RunnersInv'
  <2>1. \A u \in InFlight' : runner'[u] # "none"
    BY <1>1, <1>3, <1>10, Members DEF RunnersInv
  <2>2. \A u \in Tasks : runner'[u] = "starting" <=> runner[u] = "starting"
    BY <1>1, <1>3
  <2>3. \A u \in Tasks : runner[u] = "starting" => u \in active'
    BY <1>1, <1>5 DEF RunnersInv
  <2>4. \A u \in Tasks : call'[u] \in {"idle", "acquiring", "parked"}
                           => runner'[u] = "none"
    BY <1>1, <1>3, <1>4 DEF RunnersInv
  <2> QED BY <1>4, <1>10, <2>1, <2>2, <2>3, <2>4 DEF RunnersInv
<1>13. ServesInv'
  BY <1>1, <1>3, <1>4, <1>5 DEF ServesInv
<1>14. RunnerServesOneTask'
  BY <1>1, <1>4, <1>5 DEF RunnerServesOneTask
<1>15. IdsInv' /\ CapacityInv'
  BY <1>11 DEF IdsInv, CapacityInv
<1>16. ClosingInv'
  BY <1>1, <1>3, <1>5, <1>10, Members DEF ClosingInv, TypeOK
<1> QED BY <1>6, <1>7, <1>8, <1>9, <1>12, <1>13, <1>14, <1>15, <1>16

LEMMA TaskResolvesPreserves ==
  ASSUME IInv, NEW t \in Tasks, TaskResolves(t)
  PROVE  IInv'
<1>1. PICK ok \in BOOLEAN :
        /\ runner' = IF ok THEN runner
                     ELSE [runner EXCEPT ![serves[t]] = "unusable"]
        /\ Release(serves[t], ok)
  BY DEF TaskResolves
<1>2. sampled' \in BOOLEAN
  BY PoolAssumption DEF TaskResolves, Gated, IInv, TypeOK
<1> QED BY <1>1, <1>2, SettlePreserves DEF TaskResolves

LEMMA TaskRejectsPreserves ==
  ASSUME IInv, NEW t \in Tasks, TaskRejects(t)
  PROVE  IInv'
<1>1. sampled' \in BOOLEAN
  BY DEF TaskRejects, gateVars, IInv, TypeOK
<1> QED BY <1>1, SettlePreserves DEF TaskRejects, procVars, gateVars

(* A worker that fails or exits takes its task with it.                      *)
LEMMA LosePreserves ==
  ASSUME IInv, NEW r \in Tasks, LoseTaskOf(r), turn = None,
         NEW s \in {"unusable", "exited"},
         runner[r] \in {"usable", "unusable"},
         s = "unusable" => r \in InFlight /\ runner[r] = "usable",
         runner' = [runner EXCEPT ![r] = s],
         cleanup' \in [Tasks -> {"none", "asked", "done", "failed"}],
         stopErrors' \in SUBSET Tasks,
         UNCHANGED <<options, serves, turn, queueVars, poolVars, workerId,
                     slotInUse, gateVars, reports, drainVars, closeVars>>
  PROVE  IInv'
<1>1. /\ call' \in [Tasks -> CallStates]
      /\ \A t \in Tasks : call'[t] = IF call[t] = "running" /\ serves[t] = r
                                     THEN "lost" ELSE call[t]
      /\ runner' \in [Tasks -> RunnerStates]
      /\ \A u \in Tasks : runner'[u] = IF u = r THEN s ELSE runner[u]
  BY DEF LoseTaskOf, IInv, TypeOK, CallStates, RunnerStates
<1> USE DEF IInv, queueVars, poolVars, gateVars, drainVars, closeVars
<1>2. TypeOK'
  BY <1>1 DEF TypeOK
<1>3. QueuesInv' /\ TurnInv' /\ PoolInv'
  BY <1>1, Members DEF QueuesInv, TurnInv, PoolInv
<1>4. InFlight' = InFlight /\ Alive' \subseteq Alive
  BY <1>1 DEF InFlight, Alive
<1>5. RunnersInv'
  BY <1>1, <1>4, Members DEF RunnersInv
<1>6. ServesInv' /\ RunnerServesOneTask'
  BY <1>1 DEF ServesInv, RunnerServesOneTask
<1>7. IdsInv' /\ CapacityInv'
  BY <1>4 DEF IdsInv, CapacityInv
<1>8. ClosingInv'
  BY <1>1, <1>4, Members DEF ClosingInv, Alive, TypeOK
<1> QED BY <1>2, <1>3, <1>5, <1>6, <1>7, <1>8

LEMMA RunnerPoisonedPreserves ==
  ASSUME IInv, NEW r \in Tasks, RunnerPoisoned(r)
  PROVE  IInv'
<1>1. r \in InFlight
  BY DEF RunnerPoisoned, InFlight
<1>2. /\ cleanup' \in [Tasks -> {"none", "asked", "done", "failed"}]
      /\ stopErrors' \in SUBSET Tasks
      /\ reports' = reports
  BY DEF RunnerPoisoned, errVars, IInv, TypeOK
<1> QED BY <1>1, <1>2, LosePreserves DEF RunnerPoisoned

LEMMA RunnerExitsPreserves ==
  ASSUME IInv, NEW r \in Tasks, RunnerExits(r)
  PROVE  IInv'
<1>1. /\ cleanup' \in [Tasks -> {"none", "asked", "done", "failed"}]
      /\ stopErrors' \in SUBSET Tasks
  <2>1. CASE cleanup[r] = "asked"
    BY <2>1 DEF RunnerExits, IInv, TypeOK
  <2>2. CASE cleanup[r] # "asked"
    BY <2>2 DEF RunnerExits, IInv, TypeOK
  <2> QED BY <2>1, <2>2
<1> QED BY <1>1, LosePreserves DEF RunnerExits

-----------------------------------------------------------------------------
(* Background stops, the gate's poll, draining and closing.                  *)

LEMMA StopSettlesPreserves ==
  ASSUME IInv, NEW r \in Tasks, StopSettles(r)
  PROVE  IInv'
<1>1. /\ r \in stopping /\ runner[r] = "exited"
      /\ stopping' = stopping \ {r}
      /\ slotInUse' = slotInUse \ {workerId[r]}
      /\ UNCHANGED queueVars \/ WakeOne
      /\ UNCHANGED <<options, callVars, active, idle, runner, workerId,
                     gateVars, errVars, drainVars, closeVars>>
  BY DEF StopSettles, StopDone
<1>2. /\ slotWaiters' \in Seq(Tasks)
      /\ ready' \in Seq(Tasks)
      /\ IsInjective(slotWaiters')
      /\ IsInjective(ready')
      /\ Range(slotWaiters') \cap Range(ready') = {}
      /\ Range(slotWaiters') \cup Range(ready') =
           Range(slotWaiters) \cup Range(ready)
      /\ slotWaiters = <<>> => slotWaiters' = <<>>
  BY <1>1, WakeOneFacts DEF IInv, TypeOK, QueuesInv, queueVars
<1> USE DEF IInv, callVars, gateVars, errVars, drainVars, closeVars
<1>3. TypeOK'
  BY <1>1, <1>2 DEF TypeOK
<1>4. QueuesInv' /\ TurnInv' /\ PoolInv'
  BY <1>1, <1>2, Members DEF QueuesInv, TurnInv, PoolInv
<1>5. InFlight' = InFlight \ {r} /\ Alive' = Alive /\ r \notin Alive
  BY <1>1 DEF InFlight, Alive, PoolInv
<1>6. RunnersInv'
  BY <1>1, <1>5, Members DEF RunnersInv
<1>7. ServesInv' /\ RunnerServesOneTask'
  BY <1>1 DEF ServesInv, RunnerServesOneTask
<1>8. IdsInv'
  <2>1. r \in InFlight
    BY <1>1 DEF InFlight
  <2> QED BY <1>1, <1>5, <2>1 DEF IdsInv
<1>9. CapacityInv'
  <2>1. IsFiniteSet(InFlight)
    BY InFlightCountIsCardinality
  <2>2. /\ IsFiniteSet(InFlight')
        /\ Cardinality(InFlight') <= Cardinality(InFlight)
    BY <1>5, <2>1, FS_Subset
  <2>3. Cardinality(InFlight) \in Nat /\ Cardinality(InFlight') \in Nat
    BY <2>1, <2>2, FS_CardinalityType
  <2> QED BY <1>1, <2>2, <2>3, PoolAssumption DEF CapacityInv
<1>10. ClosingInv'
  BY <1>1, <1>5 DEF ClosingInv
<1> QED BY <1>3, <1>4, <1>6, <1>7, <1>8, <1>9, <1>10

LEMMA GatePollPreserves ==
  ASSUME IInv, GatePoll
  PROVE  IInv'
<1>1. /\ UNCHANGED queueVars \/ WakeOne
      /\ polling' \in BOOLEAN
      /\ UNCHANGED <<options, callVars, poolVars, procVars, sampled, errVars,
                     drainVars, closeVars>>
  BY DEF GatePoll, IInv, TypeOK
<1>2. /\ slotWaiters' \in Seq(Tasks)
      /\ ready' \in Seq(Tasks)
      /\ IsInjective(slotWaiters')
      /\ IsInjective(ready')
      /\ Range(slotWaiters') \cap Range(ready') = {}
      /\ Range(slotWaiters') \cup Range(ready') =
           Range(slotWaiters) \cup Range(ready)
      /\ slotWaiters = <<>> => slotWaiters' = <<>>
  BY <1>1, WakeOneFacts DEF IInv, TypeOK, QueuesInv, queueVars
<1> USE <1>1 DEF IInv, callVars, poolVars, procVars, errVars, drainVars,
                 closeVars
<1>3. TypeOK'
  BY <1>2 DEF TypeOK
<1>4. QueuesInv'
  BY <1>2, Members DEF QueuesInv
<1>5. InFlight' = InFlight /\ Alive' = Alive
  BY DEF InFlight, Alive
<1>6. /\ TurnInv' /\ PoolInv' /\ RunnersInv' /\ ServesInv'
      /\ RunnerServesOneTask'
  BY <1>5 DEF TurnInv, PoolInv, RunnersInv, ServesInv, RunnerServesOneTask
<1>7. IdsInv' /\ CapacityInv' /\ ClosingInv'
  BY <1>5 DEF IdsInv, CapacityInv, ClosingInv
<1> QED BY <1>3, <1>4, <1>6, <1>7

(* A step of a drain or of close() that moves no runner and wakes nobody.    *)
LEMMA QuietPreserves ==
  ASSUME IInv, TypeOK', ClosingInv',
         UNCHANGED <<callVars, queueVars, poolVars, workerId, slotInUse>>,
         \A r \in Tasks : \/ runner'[r] = runner[r]
                          \/ runner[r] = "usable" /\ runner'[r] = "unusable",
         closing = "open" => closing' = "open",
         closing = "closed" => closing' = "closed"
  PROVE  IInv'
<1> USE DEF IInv, callVars, queueVars, poolVars
<1>1. InFlight' = InFlight /\ Alive' = Alive
  BY DEF InFlight, Alive
<1>2. closing # "open" => turn = None
  BY DEF TurnInv
<1>3. closing' = "closed" \/ closing # "closed"
  OBVIOUS
<1>4. QueuesInv' /\ TurnInv' /\ PoolInv'
  BY <1>2 DEF QueuesInv, TurnInv, PoolInv
<1>5. RunnersInv'
  BY <1>1, Members DEF RunnersInv
<1>6. ServesInv' /\ RunnerServesOneTask'
  BY <1>3 DEF ServesInv, RunnerServesOneTask
<1>7. IdsInv' /\ CapacityInv'
  BY <1>1, <1>3 DEF IdsInv, CapacityInv
<1> QED BY <1>4, <1>5, <1>6, <1>7

LEMMA DrainPreserves ==
  ASSUME IInv, DrainBegin \/ DrainWatch \/ DrainOneShot
  PROVE  IInv'
<1>1. /\ UNCHANGED <<options, callVars, queueVars, poolVars, workerId,
                     slotInUse, gateVars, closeVars>>
      /\ \A r \in Tasks : \/ runner'[r] = runner[r]
                          \/ runner[r] = "usable" /\ runner'[r] = "unusable"
      /\ runner' \in [Tasks -> RunnerStates]
      /\ cleanup' \in [Tasks -> {"none", "asked", "done", "failed"}]
      /\ stopErrors' \in SUBSET Tasks
      /\ reports' \in [Tasks -> Nat]
      /\ drain' \in {"none", "waiting", "done"}
      /\ drainWaits' \in SUBSET Tasks
  <2>1. CASE DrainBegin
    BY <2>1 DEF DrainBegin, IInv, TypeOK, procVars, errVars
  <2>2. CASE DrainWatch
    BY <2>2 DEF DrainWatch, ReportErrors, IInv, TypeOK, procVars
  <2>3. CASE DrainOneShot
    <3>1. PICK failed \in SUBSET {r \in Range(idle) : runner[r] = "usable"
                                                      /\ cleanup[r] = "none"} :
            /\ runner' = [r \in Tasks |-> IF r \in failed THEN "unusable"
                                          ELSE runner[r]]
            /\ cleanup' = [r \in Tasks |->
                 IF r \in failed THEN "failed"
                 ELSE IF r \in {q \in Range(idle) : runner[q] = "usable"
                                                    /\ cleanup[q] = "none"}
                      THEN "done" ELSE cleanup[r]]
            /\ ReportErrors(stopErrors \cup failed)
      BY <2>3 DEF DrainOneShot
    <3>2. /\ runner' \in [Tasks -> RunnerStates]
          /\ cleanup' \in [Tasks -> {"none", "asked", "done", "failed"}]
          /\ reports' \in [Tasks -> Nat]
      BY <3>1 DEF IInv, TypeOK, RunnerStates, ReportErrors
    <3>3. \A r \in Tasks : \/ runner'[r] = runner[r]
                           \/ runner[r] = "usable" /\ runner'[r] = "unusable"
      BY <3>1
    <3> QED BY <2>3, <3>1, <3>2, <3>3
            DEF DrainOneShot, ReportErrors, IInv, TypeOK
  <2> QED BY <2>1, <2>2, <2>3
<1> USE DEF gateVars, closeVars
<1>2. TypeOK'
  BY <1>1 DEF IInv, TypeOK, callVars, queueVars, poolVars
<1>3. ClosingInv'
  BY <1>1, Members, SMTT(60) DEF IInv, ClosingInv, Alive, TypeOK, poolVars
<1> QED BY <1>1, <1>2, <1>3, QuietPreserves

LEMMA CloseBeginPreserves ==
  ASSUME IInv, CloseBegin
  PROVE  IInv'
<1>1. /\ closing = "open" /\ closing' = "stopping" /\ turn = None
      /\ polling' = FALSE
      /\ ready' = ready \o slotWaiters
      /\ slotWaiters' = <<>>
      /\ closeWaits' = active \cup Range(idle)
      /\ UNCHANGED <<options, callVars, poolVars, procVars, sampled,
                     stopErrors, reports, drainVars>>
  BY DEF CloseBegin
<1>2. /\ ready' \in Seq(Tasks)
      /\ Range(ready') = Range(ready) \cup Range(slotWaiters)
      /\ IsInjective(ready')
  BY <1>1, ConcatFacts DEF IInv, TypeOK, QueuesInv
<1>3. Range(slotWaiters') = {} /\ IsInjective(slotWaiters')
  BY <1>1 DEF Range, IsInjective
<1>4. cleanup' \in [Tasks -> {"none", "asked", "done", "failed"}]
  BY DEF CloseBegin, AskCleanup, IInv, TypeOK
<1> USE <1>1 DEF IInv, callVars, poolVars, procVars, drainVars
<1>5. TypeOK'
  <2>1. slotWaiters' \in Seq(Tasks)
    OBVIOUS
  <2>2. closeWaits' \in SUBSET Tasks
    BY Members DEF TypeOK
  <2>3. ready' \in Seq(Tasks)
    BY <1>2
  <2> HIDE <1>1
  <2>4. UNCHANGED <<options, callVars, poolVars, procVars, sampled,
                    stopErrors, reports, drainVars>>
        /\ closing' = "stopping" /\ polling' = FALSE
    BY <1>1
  <2> QED BY <1>4, <2>1, <2>2, <2>3, <2>4 DEF TypeOK
<1>6. QueuesInv'
  BY <1>2, <1>3 DEF QueuesInv
<1>7. InFlight' = InFlight /\ Alive' = Alive
  BY DEF InFlight, Alive
<1>8. /\ TurnInv' /\ PoolInv' /\ RunnersInv' /\ ServesInv'
      /\ RunnerServesOneTask'
  BY <1>7 DEF TurnInv, PoolInv, RunnersInv, ServesInv, RunnerServesOneTask
<1>9. IdsInv' /\ CapacityInv' /\ ClosingInv'
  BY <1>7 DEF IdsInv, CapacityInv, ClosingInv
<1> QED BY <1>5, <1>6, <1>8, <1>9

LEMMA CloseStoppedPreserves ==
  ASSUME IInv, CloseStopped
  PROVE  IInv'
<1> USE DEF CloseStopped, callVars, queueVars, poolVars, procVars, gateVars,
            errVars, drainVars
<1>1. TypeOK'
  BY DEF IInv, TypeOK
<1>2. ClosingInv'
  BY DEF IInv, ClosingInv
<1> QED BY <1>1, <1>2, QuietPreserves

LEMMA CloseEndPreserves ==
  ASSUME IInv, CloseEnd
  PROVE  IInv'
<1>1. /\ closing = "draining" /\ closing' = "closed" /\ turn = None
      /\ closeWaits \cap stopping = {} /\ closeWaits' = {}
      /\ idle' = <<>> /\ active' = {}
      /\ ReportErrors(stopErrors)
      /\ UNCHANGED <<options, callVars, queueVars, stopping, procVars,
                     gateVars, cleanup, drainVars>>
  BY DEF CloseEnd
<1>2. Range(idle') = {} /\ IsInjective(idle')
  BY <1>1 DEF Range, IsInjective
<1> USE <1>1 DEF IInv, callVars, queueVars, procVars, gateVars, drainVars
<1>3. TypeOK'
  BY DEF TypeOK, ReportErrors
<1>4. Alive = {} /\ Alive' = {}
  BY DEF RunnersInv, ClosingInv, InFlight, Alive
<1>5. InFlight' \subseteq InFlight
  BY <1>2 DEF InFlight
<1>6. QueuesInv' /\ TurnInv' /\ PoolInv' /\ ServesInv'
  BY <1>2 DEF QueuesInv, TurnInv, PoolInv, ServesInv
<1>7. RunnersInv'
  BY <1>4, <1>5 DEF RunnersInv, Alive
<1>8. RunnerServesOneTask'
  BY <1>2 DEF RunnerServesOneTask
<1>9. IdsInv' /\ CapacityInv' /\ ClosingInv'
  BY <1>4 DEF IdsInv, CapacityInv, ClosingInv
<1> QED BY <1>3, <1>6, <1>7, <1>8, <1>9

-----------------------------------------------------------------------------
(* The theorems.                                                             *)

LEMMA NextPreserves == IInv /\ [Next]_vars => IInv'
<1> SUFFICES ASSUME IInv, [Next]_vars PROVE IInv'
  OBVIOUS
<1>1. ASSUME NEW t \in Tasks, Dispatch(t) \/ Acquire(t) PROVE IInv'
  BY <1>1, DispatchPreserves, AcquireReusePreserves,
     AcquireDropStalePreserves, AcquireParkFullPreserves,
     AcquireDeferPreserves, AcquireSpawnPreserves DEF Acquire
<1>2. ASSUME NEW t \in Tasks,
             \/ StartOk(t) \/ StartFail(t) \/ TaskResolves(t)
             \/ TaskRejects(t)
      PROVE  IInv'
  BY <1>2, StartOkPreserves, StartFailPreserves, TaskResolvesPreserves,
     TaskRejectsPreserves
<1>3. ASSUME NEW t \in Tasks,
             RunnerPoisoned(t) \/ RunnerExits(t) \/ StopSettles(t)
      PROVE  IInv'
  BY <1>3, RunnerPoisonedPreserves, RunnerExitsPreserves,
     StopSettlesPreserves
<1>4. CASE Resume \/ GatePoll
  BY <1>4, ResumePreserves, GatePollPreserves
<1>5. CASE DrainBegin \/ DrainWatch \/ DrainOneShot
  BY <1>5, DrainPreserves
<1>6. CASE CloseBegin \/ CloseStopped \/ CloseEnd
  BY <1>6, CloseBeginPreserves, CloseStoppedPreserves, CloseEndPreserves
<1>7. CASE Finished \/ UNCHANGED vars
  BY <1>7, StutterPreserves DEF Finished
<1> QED BY <1>1, <1>2, <1>3, <1>4, <1>5, <1>6, <1>7 DEF Next

(* The inductive invariant holds in every reachable state.                   *)
THEOREM Invariance == Spec => []IInv
BY InitEstablishes, NextPreserves, PTL DEF Spec

(* Every variable keeps its type.                                            *)
THEOREM TypeCorrect == Spec => []TypeOK
<1>1. IInv => TypeOK
  BY DEF IInv
<1> QED BY <1>1, Invariance, PTL

(* At no time do more than MaxWorkers worker processes exist (pool.ts:20-26),*)
(* whatever the callers, the workers and close() do.                         *)
THEOREM Capacity == Spec => []CapacityRespected
<1>1. IInv => CapacityRespected
  <2> SUFFICES ASSUME IInv PROVE CapacityRespected
    OBVIOUS
  <2>1. CASE closing = "closed"
    <3>1. Alive = {}
      BY <2>1 DEF IInv, ClosingInv
    <3> QED BY <3>1, FS_EmptySet, PoolAssumption DEF CapacityRespected
  <2>2. CASE closing # "closed"
    <3>1. IsFiniteSet(InFlight) /\ Alive \subseteq InFlight
      BY InFlightCountIsCardinality DEF IInv, RunnersInv
    <3>2. /\ IsFiniteSet(Alive)
          /\ Cardinality(Alive) <= Cardinality(InFlight)
      BY <3>1, FS_Subset
    <3>3. Cardinality(InFlight) <= MaxWorkers
      BY <2>2 DEF IInv, CapacityInv
    <3>4. Cardinality(Alive) \in Nat /\ Cardinality(InFlight) \in Nat
      BY <3>1, <3>2, FS_CardinalityType
    <3> QED BY <3>2, <3>3, <3>4, PoolAssumption DEF CapacityRespected
  <2> QED BY <2>1, <2>2
<1> QED BY <1>1, Invariance, PTL

(* Two workers that exist at the same time have different ids                *)
(* (pool.ts:31-38).                                                          *)
THEOREM DistinctIds == Spec => []WorkerIdsDistinct
<1>1. IInv => WorkerIdsDistinct
  BY DEF IInv, WorkerIdsDistinct, IdsInv, RunnersInv, ClosingInv
<1> QED BY <1>1, Invariance, PTL

(* acquireWorkerId never throws (pool.ts:229-241).                           *)
THEOREM IdAvailable == Spec => []IdAlwaysAvailable
<1>1. IInv => IdAlwaysAvailable
  BY FreeIdExists DEF IInv, IdAlwaysAvailable, TurnInv
<1> QED BY <1>1, Invariance, PTL

(* A runner works on one task at a time, of its own environment, and is      *)
(* neither idle nor being stopped meanwhile (pool.ts:131-149).               *)
THEOREM OneTaskPerRunner == Spec => []RunnerServesOneTask
<1>1. IInv => RunnerServesOneTask
  BY DEF IInv
<1> QED BY <1>1, Invariance, PTL

(* The accounts of a pool: capacity, ids and tasks of its workers, however   *)
(* they are spawned, reused, stopped and lost.                               *)
THEOREM Accounts == Spec => []WorkersAreAccountedFor
  BY TypeCorrect, Capacity, DistinctIds, IdAvailable, OneTaskPerRunner, PTL
     DEF WorkersAreAccountedFor

-----------------------------------------------------------------------------
(* Nobody is left behind: what the second inductive invariant adds.          *)

(* Each failed cleanup was handed to a caller once, or is kept to be.        *)
ErrorsInv ==
  /\ \A r \in stopErrors : cleanup[r] = "failed"
  /\ \A r \in Tasks : cleanup[r] = "failed" =>
       /\ reports[r] = IF r \in stopErrors THEN 0 ELSE 1
       /\ runner[r] \notin {"none", "starting"}
  /\ \A r \in Tasks : cleanup[r] # "failed" => reports[r] = 0
  /\ closing = "closed" => stopErrors = {}

(* While a drain waits no task is under way, and it waits for every stop.    *)
DrainInv ==
  drain = "waiting" =>
    /\ \A t \in Tasks : Settled(t) \/ call[t] = "idle"
    /\ stopping \subseteq drainWaits

WakingInv == IInv /\ ParkedHasWaker /\ ErrorsInv /\ DrainInv

LEMMA WakingInit == Init => WakingInv
<1> SUFFICES ASSUME Init PROVE WakingInv
  OBVIOUS
<1>1. IInv
  BY InitEstablishes
<1>2. ParkedHasWaker /\ DrainInv
  BY DEF Init, ParkedHasWaker, DrainInv
<1>3. ErrorsInv
  BY DEF Init, ErrorsInv
<1> QED BY <1>1, <1>2, <1>3 DEF WakingInv

(* The loop of acquireRunner leaves a waker behind when it parks its caller. *)
LEMMA AcquireLeavesWaker ==
  ASSUME IInv, NEW t \in Tasks, Acquire(t)
  PROVE  ParkedHasWaker'
<1>1. CASE AcquireReuse(t)
  BY <1>1 DEF AcquireReuse, ParkedHasWaker
<1>2. CASE AcquireDropStale(t)
  <2>1. turn' # None
    BY <1>2, PoolAssumption DEF AcquireDropStale, callVars
  <2> QED BY <2>1 DEF ParkedHasWaker
<1>3. CASE AcquireParkFull(t)
  <2>1. CASE idle = <<>>
    <3>1. Range(idle) = {}
      BY <2>1 DEF Range
    <3>2. active \cup stopping # {}
      <4> SUFFICES ASSUME active \cup stopping = {} PROVE FALSE
        OBVIOUS
      <4>1. InFlight = {}
        BY <3>1 DEF InFlight
      <4>2. InFlightCount = 0
        BY <4>1, InFlightCountIsCardinality, FS_EmptySet DEF IInv
      <4> QED BY <1>3, <4>2, PoolAssumption DEF AcquireParkFull
    <3> QED BY <1>3, <2>1, <3>2
            DEF AcquireParkFull, ShedColdest, ParkedHasWaker
  <2>2. CASE idle # <<>>
    <3>1. stopping' = stopping \cup {Head(idle)}
      BY <1>3, <2>2 DEF AcquireParkFull, ShedColdest, Dispose
    <3> QED BY <3>1 DEF ParkedHasWaker
  <2> QED BY <2>1, <2>2
<1>4. CASE AcquireDefer(t)
  <2>1. InFlightCount > 0
    BY <1>4 DEF AcquireDefer, GateAnswers
  <2>2. polling' = TRUE /\ UNCHANGED <<active, idle, stopping>>
    BY <1>4 DEF AcquireDefer, poolVars
  <2>3. active \cup stopping # {} \/ idle # <<>>
    <3> SUFFICES ASSUME active \cup stopping = {}, idle = <<>> PROVE FALSE
      OBVIOUS
    <3>1. InFlight = {}
      BY DEF InFlight, Range
    <3>2. InFlightCount = 0
      BY <3>1, InFlightCountIsCardinality, FS_EmptySet DEF IInv
    <3> QED BY <2>1, <3>2
  <2> QED BY <2>2, <2>3 DEF ParkedHasWaker
<1>5. CASE AcquireSpawn(t)
  BY <1>5 DEF AcquireSpawn, ParkedHasWaker
<1> QED BY <1>1, <1>2, <1>3, <1>4, <1>5 DEF Acquire

(* A caller that is parked when a slot is released is woken.                 *)
LEMMA WakeLeavesWaker ==
  ASSUME IInv, WakeOne
  PROVE  ParkedHasWaker'
<1>1. slotWaiters' = <<>> \/ ready' # <<>>
  BY WakeOneFacts DEF IInv
<1> QED BY <1>1 DEF ParkedHasWaker

LEMMA ReleaseLeavesWaker ==
  ASSUME IInv, NEW r \in Tasks, NEW ok \in BOOLEAN, Release(r, ok)
  PROVE  ParkedHasWaker'
<1>1. CASE ok /\ Keeps(r)
  BY <1>1, WakeLeavesWaker DEF Release
<1>2. CASE ~(ok /\ Keeps(r))
  BY <1>2 DEF Release, ParkedHasWaker
<1> QED BY <1>1, <1>2

LEMMA NextLeavesWaker ==
  ASSUME IInv, ParkedHasWaker, [Next]_vars
  PROVE  ParkedHasWaker'
<1>1. ASSUME NEW t \in Tasks, Dispatch(t) PROVE ParkedHasWaker'
  BY <1>1, PoolAssumption
     DEF Dispatch, Enter, ParkedHasWaker, IInv, QueuesInv, queueVars
<1>2. ASSUME NEW t \in Tasks, StartOk(t) PROVE ParkedHasWaker'
  BY <1>2 DEF StartOk, ParkedHasWaker, queueVars, poolVars, gateVars
<1>3. ASSUME NEW t \in Tasks, StartFail(t) PROVE ParkedHasWaker'
  BY <1>3 DEF StartFail, ParkedHasWaker
<1>4. ASSUME NEW t \in Tasks, TaskResolves(t) \/ TaskRejects(t)
      PROVE  ParkedHasWaker'
  <2>1. serves[t] \in Tasks
    BY <1>4 DEF TaskResolves, TaskRejects, IInv, ServesInv
  <2>2. \E ok \in BOOLEAN : Release(serves[t], ok)
    BY <1>4 DEF TaskResolves, TaskRejects
  <2> QED BY <2>1, <2>2, ReleaseLeavesWaker
<1>5. ASSUME NEW r \in Tasks, RunnerPoisoned(r) \/ RunnerExits(r)
      PROVE  ParkedHasWaker'
  BY <1>5 DEF RunnerPoisoned, RunnerExits, ParkedHasWaker, queueVars,
              poolVars, gateVars
<1>6. ASSUME NEW r \in Tasks, StopSettles(r) PROVE ParkedHasWaker'
  <2>1. CASE closing = "closed"
    BY <1>6, <2>1 DEF StopSettles, ParkedHasWaker, IInv, QueuesInv, queueVars
  <2>2. CASE closing # "closed"
    BY <1>6, <2>2, WakeLeavesWaker DEF StopSettles
  <2> QED BY <2>1, <2>2
<1>7. CASE Resume
  BY <1>7, PoolAssumption, RangeOfSeq
     DEF Resume, Enter, ParkedHasWaker, IInv, TypeOK, QueuesInv
<1>8. CASE GatePoll
  <2>1. CASE slotWaiters = <<>> \/ closing # "open"
    BY <1>8, <2>1 DEF GatePoll, ParkedHasWaker, IInv, QueuesInv, queueVars
  <2>2. CASE ~(slotWaiters = <<>> \/ closing # "open")
    BY <1>8, <2>2, WakeLeavesWaker DEF GatePoll
  <2> QED BY <2>1, <2>2
<1>9. CASE DrainBegin \/ DrainWatch \/ DrainOneShot \/ CloseStopped
  BY <1>9 DEF DrainBegin, DrainWatch, DrainOneShot, CloseStopped,
              ParkedHasWaker, callVars, queueVars, poolVars, gateVars
<1>10. CASE CloseBegin \/ CloseEnd
  BY <1>10 DEF CloseBegin, CloseEnd, ParkedHasWaker, IInv, QueuesInv,
               queueVars
<1>11. CASE Finished \/ UNCHANGED vars
  BY <1>11 DEF Finished, ParkedHasWaker, vars, callVars, queueVars, poolVars,
               gateVars
<1> QED BY <1>1, <1>2, <1>3, <1>4, <1>5, <1>6, <1>7, <1>8, <1>9, <1>10,
           <1>11, AcquireLeavesWaker DEF Next

(* Asking for a cleanup neither fails one nor forgets a failure.             *)
LEMMA AskedFacts ==
  ASSUME IInv, NEW rs, AskCleanup(rs) \/ UNCHANGED cleanup
  PROVE  \A r \in Tasks : cleanup'[r] = "failed" <=> cleanup[r] = "failed"
BY DEF AskCleanup, IInv, TypeOK

(* Steps in which no cleanup fails and no error is reported.                 *)
LEMMA ErrorsKept ==
  ASSUME ErrorsInv, stopErrors' = stopErrors, reports' = reports,
         \A r \in Tasks : cleanup'[r] = "failed" <=> cleanup[r] = "failed",
         \A r \in Tasks : runner[r] \notin {"none", "starting"}
                            => runner'[r] \notin {"none", "starting"},
         closing' = closing \/ closing' # "closed",
         stopErrors \subseteq Tasks
  PROVE  ErrorsInv'
<1>1. \A r \in stopErrors' : cleanup'[r] = "failed"
  BY DEF ErrorsInv
<1>2. ASSUME NEW r \in Tasks, cleanup'[r] = "failed"
      PROVE  /\ reports'[r] = IF r \in stopErrors' THEN 0 ELSE 1
             /\ runner'[r] \notin {"none", "starting"}
  BY <1>2 DEF ErrorsInv
<1>3. \A r \in Tasks : cleanup'[r] # "failed" => reports'[r] = 0
  BY DEF ErrorsInv
<1>4. closing' = "closed" => stopErrors' = {}
  BY DEF ErrorsInv
<1> QED BY <1>1, <1>2, <1>3, <1>4 DEF ErrorsInv

(* The errors that are handed to a caller are no longer kept.                *)
LEMMA ErrorsReported ==
  ASSUME TypeOK, ErrorsInv, NEW failed \in SUBSET Tasks,
         ReportErrors(stopErrors \cup failed),
         \A r \in failed : cleanup[r] # "failed" /\ cleanup'[r] = "failed"
                           /\ runner[r] \notin {"none", "starting"},
         \A r \in Tasks \ failed : cleanup'[r] = "failed"
                                     <=> cleanup[r] = "failed",
         \A r \in Tasks : runner[r] \notin {"none", "starting"}
                            => runner'[r] \notin {"none", "starting"}
  PROVE  ErrorsInv'
<1>1. stopErrors' = {}
  BY DEF ReportErrors
<1>2. ASSUME NEW r \in Tasks
      PROVE  reports'[r] = IF r \in stopErrors \cup failed
                           THEN reports[r] + 1 ELSE reports[r]
  BY DEF ReportErrors
<1>3. ASSUME NEW r \in Tasks, cleanup'[r] = "failed"
      PROVE  reports'[r] = 1 /\ runner'[r] \notin {"none", "starting"}
  <2>1. CASE r \in failed
    <3>1. reports[r] = 0
      BY <2>1 DEF ErrorsInv
    <3> QED BY <1>2, <2>1, <3>1
  <2>2. CASE r \notin failed
    <3>1. cleanup[r] = "failed" /\ runner[r] \notin {"none", "starting"}
      BY <1>3, <2>2 DEF ErrorsInv
    <3>2. CASE r \in stopErrors
      <4>1. reports[r] = 0
        BY <3>1, <3>2 DEF ErrorsInv
      <4> QED BY <1>2, <3>1, <3>2, <4>1
    <3>3. CASE r \notin stopErrors
      <4>1. reports[r] = 1
        BY <3>1, <3>3 DEF ErrorsInv
      <4> QED BY <1>2, <2>2, <3>1, <3>3, <4>1
    <3> QED BY <3>2, <3>3
  <2> QED BY <2>1, <2>2
<1>4. ASSUME NEW r \in Tasks, cleanup'[r] # "failed"
      PROVE  reports'[r] = 0
  <2>1. r \notin failed /\ cleanup[r] # "failed"
    BY <1>4
  <2>2. r \notin stopErrors /\ reports[r] = 0
    BY <2>1 DEF ErrorsInv
  <2> QED BY <1>2, <2>1, <2>2
<1> QED BY <1>1, <1>3, <1>4 DEF ErrorsInv

(* The same when no further cleanup has failed.                              *)
LEMMA AllReported ==
  ASSUME TypeOK, ErrorsInv, ReportErrors(stopErrors), cleanup' = cleanup,
         runner' = runner
  PROVE  ErrorsInv'
<1> DEFINE failed == {}
<1>1. failed \in SUBSET Tasks /\ stopErrors \cup failed = stopErrors
  OBVIOUS
<1>2. ReportErrors(stopErrors \cup failed)
  BY <1>1
<1>3. \A r \in failed : cleanup[r] # "failed" /\ cleanup'[r] = "failed"
                        /\ runner[r] \notin {"none", "starting"}
  OBVIOUS
<1> HIDE DEF failed
<1> QED BY <1>1, <1>2, <1>3, ErrorsReported

LEMMA NextAccountsErrors ==
  ASSUME IInv, ErrorsInv, [Next]_vars
  PROVE  ErrorsInv'
<1>0. TypeOK /\ stopErrors \subseteq Tasks
  BY DEF IInv, TypeOK
<1>1. ASSUME NEW t \in Tasks,
             Dispatch(t) \/ AcquireReuse(t) \/ AcquireDefer(t)
      PROVE  ErrorsInv'
  BY <1>0, <1>1, ErrorsKept
     DEF Dispatch, AcquireReuse, AcquireDefer, errVars, procVars, closeVars
<1>2. ASSUME NEW t \in Tasks, AcquireDropStale(t) \/ AcquireParkFull(t)
      PROVE  ErrorsInv'
  <2>1. UNCHANGED <<stopErrors, reports, runner, closing>>
    BY <1>2 DEF AcquireDropStale, AcquireParkFull, procVars, closeVars
  <2>2. \E rs : AskCleanup(rs) \/ UNCHANGED cleanup
    BY <1>2 DEF AcquireDropStale, AcquireParkFull, ShedColdest, Dispose
  <2>3. \A r \in Tasks : cleanup'[r] = "failed" <=> cleanup[r] = "failed"
    BY <2>2, AskedFacts
  <2> QED BY <1>0, <2>1, <2>3, ErrorsKept
<1>3. ASSUME NEW t \in Tasks, AcquireSpawn(t) PROVE ErrorsInv'
  <2>1. runner[t] = "none"
    BY <1>3, TurnFacts DEF AcquireSpawn
  <2>2. UNCHANGED <<stopErrors, reports, cleanup, closing>>
    BY <1>3 DEF AcquireSpawn, errVars, closeVars
  <2>3. \A r \in Tasks : runner[r] \notin {"none", "starting"}
                           => runner'[r] \notin {"none", "starting"}
    BY <1>0, <1>3, <2>1 DEF AcquireSpawn, TypeOK
  <2> QED BY <1>0, <2>2, <2>3, ErrorsKept
<1>4. ASSUME NEW t \in Tasks, StartOk(t) PROVE ErrorsInv'
  <2>1. UNCHANGED <<stopErrors, reports, cleanup, closing>>
    BY <1>4 DEF StartOk, errVars, closeVars
  <2>2. \A r \in Tasks : runner[r] \notin {"none", "starting"}
                           => runner'[r] \notin {"none", "starting"}
    BY <1>0, <1>4 DEF StartOk, TypeOK
  <2> QED BY <1>0, <2>1, <2>2, ErrorsKept
<1>5. ASSUME NEW t \in Tasks, StartFail(t) PROVE ErrorsInv'
  <2>1. UNCHANGED <<stopErrors, reports, closing>>
    BY <1>5 DEF StartFail, closeVars
  <2>2. runner[t] = "starting"
    BY <1>5 DEF StartFail, IInv, RunnersInv
  <2>3. cleanup[t] # "failed"
    BY <2>2 DEF ErrorsInv
  <2>4. \/ cleanup' = [cleanup EXCEPT ![t] = "none"]
        \/ cleanup' = cleanup
    BY <1>5 DEF StartFail
  <2>5. \A r \in Tasks : cleanup'[r] = "failed" <=> cleanup[r] = "failed"
    BY <1>0, <2>3, <2>4 DEF TypeOK
  <2>6. \A r \in Tasks : runner[r] \notin {"none", "starting"}
                           => runner'[r] \notin {"none", "starting"}
    BY <1>0, <1>5 DEF StartFail, TypeOK
  <2> QED BY <1>0, <2>1, <2>5, <2>6, ErrorsKept
<1>6. ASSUME NEW t \in Tasks, TaskResolves(t) \/ TaskRejects(t)
      PROVE  ErrorsInv'
  <2>1. UNCHANGED <<stopErrors, reports, closing>>
    BY <1>6 DEF TaskResolves, TaskRejects, closeVars
  <2>2. \E ok \in BOOLEAN : Release(serves[t], ok)
    BY <1>6 DEF TaskResolves, TaskRejects
  <2>3. \E rs : AskCleanup(rs) \/ UNCHANGED cleanup
    BY <2>2 DEF Release
  <2>4. \A r \in Tasks : cleanup'[r] = "failed" <=> cleanup[r] = "failed"
    BY <2>3, AskedFacts
  <2>5. \/ runner' = runner
        \/ runner' = [runner EXCEPT ![serves[t]] = "unusable"]
    BY <1>6 DEF TaskResolves, TaskRejects, procVars
  <2>6. \A r \in Tasks : runner[r] \notin {"none", "starting"}
                           => runner'[r] \notin {"none", "starting"}
    BY <1>0, <2>5 DEF TypeOK
  <2> QED BY <1>0, <2>1, <2>4, <2>6, ErrorsKept
<1>7. ASSUME NEW q \in Tasks, RunnerPoisoned(q) PROVE ErrorsInv'
  <2>1. UNCHANGED <<stopErrors, reports, cleanup, closing>>
    BY <1>7 DEF RunnerPoisoned, errVars, closeVars
  <2>2. \A r \in Tasks : runner[r] \notin {"none", "starting"}
                           => runner'[r] \notin {"none", "starting"}
    BY <1>0, <1>7 DEF RunnerPoisoned, TypeOK
  <2> QED BY <1>0, <2>1, <2>2, ErrorsKept
<1>8. ASSUME NEW q \in Tasks, RunnerExits(q) PROVE ErrorsInv'
  <2>1. /\ runner[q] \notin {"none", "starting"}
        /\ runner' = [runner EXCEPT ![q] = "exited"]
        /\ UNCHANGED <<reports, closing>>
    BY <1>8 DEF RunnerExits, closeVars
  <2>2. \A r \in Tasks : runner[r] \notin {"none", "starting"}
                           => runner'[r] \notin {"none", "starting"}
    BY <1>0, <2>1 DEF TypeOK
  <2>3. CASE UNCHANGED <<cleanup, stopErrors>>
    BY <1>0, <2>1, <2>2, <2>3, ErrorsKept
  <2>4. CASE /\ cleanup[q] = "asked" /\ stopErrors' = stopErrors
             /\ cleanup' = [cleanup EXCEPT ![q] = "done"]
    <3>1. \A r \in Tasks : cleanup'[r] = "failed" <=> cleanup[r] = "failed"
      BY <1>0, <2>4 DEF TypeOK
    <3> QED BY <1>0, <2>1, <2>2, <2>4, <3>1, ErrorsKept
  <2>5. CASE /\ cleanup[q] = "asked" /\ stopErrors' = stopErrors \cup {q}
             /\ cleanup' = [cleanup EXCEPT ![q] = "failed"]
    <3>1. reports[q] = 0 /\ q \notin stopErrors
      BY <2>5 DEF ErrorsInv
    <3>2. \A r \in Tasks : cleanup'[r] = IF r = q THEN "failed"
                                                  ELSE cleanup[r]
      BY <1>0, <2>5 DEF TypeOK
    <3>3. \A r \in stopErrors' : cleanup'[r] = "failed"
      BY <1>0, <2>5, <3>2 DEF ErrorsInv
    <3>4. ASSUME NEW r \in Tasks, cleanup'[r] = "failed"
          PROVE  /\ reports'[r] = IF r \in stopErrors' THEN 0 ELSE 1
                 /\ runner'[r] \notin {"none", "starting"}
      <4>1. CASE r = q
        BY <2>1, <2>2, <2>5, <3>1, <4>1
      <4>2. CASE r # q
        <5>1. cleanup[r] = "failed"
            /\ (r \in stopErrors' <=> r \in stopErrors)
          BY <2>5, <3>2, <3>4, <4>2
        <5> QED BY <2>1, <2>2, <5>1 DEF ErrorsInv
      <4> QED BY <4>1, <4>2
    <3>5. \A r \in Tasks : cleanup'[r] # "failed" => reports'[r] = 0
      BY <2>1, <3>2 DEF ErrorsInv
    <3>6. closing # "closed"
      BY <2>1, <1>8 DEF IInv, ClosingInv, Alive, RunnerExits
    <3> QED BY <2>1, <3>3, <3>4, <3>5, <3>6 DEF ErrorsInv
  <2> QED BY <1>8, <2>3, <2>4, <2>5 DEF RunnerExits
<1>9. ASSUME NEW q \in Tasks, StopSettles(q) PROVE ErrorsInv'
  BY <1>0, <1>9, ErrorsKept DEF StopSettles, errVars, closeVars
<1>10. CASE Resume \/ GatePoll \/ DrainBegin \/ CloseStopped
  BY <1>0, <1>10, ErrorsKept
     DEF Resume, GatePoll, DrainBegin, CloseStopped, errVars, procVars,
         closeVars
<1>11. CASE DrainWatch
  <2>1. ReportErrors(stopErrors) /\ UNCHANGED <<cleanup, runner>>
    BY <1>11 DEF DrainWatch, procVars
  <2> QED BY <1>0, <2>1, AllReported
<1>12. CASE DrainOneShot
  <2> DEFINE asked == {r \in Range(idle) : runner[r] = "usable"
                                           /\ cleanup[r] = "none"}
  <2>1. PICK failed \in SUBSET asked :
          /\ runner' = [r \in Tasks |-> IF r \in failed THEN "unusable"
                                        ELSE runner[r]]
          /\ cleanup' = [r \in Tasks |-> IF r \in failed THEN "failed"
                                         ELSE IF r \in asked THEN "done"
                                         ELSE cleanup[r]]
          /\ ReportErrors(stopErrors \cup failed)
    BY <1>12 DEF DrainOneShot
  <2>2. failed \in SUBSET Tasks
    BY <1>0, <2>1, Members
  <2>3. \A r \in failed : cleanup[r] # "failed" /\ cleanup'[r] = "failed"
                          /\ runner[r] \notin {"none", "starting"}
    BY <2>1, <2>2
  <2>4. \A r \in Tasks \ failed : cleanup'[r] = "failed"
                                    <=> cleanup[r] = "failed"
    BY <2>1
  <2>5. \A r \in Tasks : runner[r] \notin {"none", "starting"}
                           => runner'[r] \notin {"none", "starting"}
    BY <2>1
  <2> QED BY <1>0, <2>1, <2>2, <2>3, <2>4, <2>5, ErrorsReported
<1>13. CASE CloseBegin
  <2>1. UNCHANGED <<stopErrors, reports, runner>> /\ closing' = "stopping"
    BY <1>13 DEF CloseBegin, procVars
  <2>2. \E rs : AskCleanup(rs) \/ UNCHANGED cleanup
    BY <1>13 DEF CloseBegin
  <2>3. \A r \in Tasks : cleanup'[r] = "failed" <=> cleanup[r] = "failed"
    BY <2>2, AskedFacts
  <2> QED BY <1>0, <2>1, <2>3, ErrorsKept
<1>14. CASE CloseEnd
  <2>1. ReportErrors(stopErrors) /\ UNCHANGED <<cleanup, runner>>
    BY <1>14 DEF CloseEnd, procVars
  <2> QED BY <1>0, <2>1, AllReported
<1>15. CASE Finished \/ UNCHANGED vars
  BY <1>0, <1>15, ErrorsKept DEF Finished, vars, errVars, procVars, closeVars
<1> QED BY <1>1, <1>2, <1>3, <1>4, <1>5, <1>6, <1>7, <1>8, <1>9, <1>10,
           <1>11, <1>12, <1>13, <1>14, <1>15 DEF Next, Acquire

(* While a drain waits, no task is under way that could retire a runner.     *)
LEMMA NextDrains ==
  ASSUME IInv, DrainInv, [Next]_vars
  PROVE  DrainInv'
<1> SUFFICES ASSUME drain' = "waiting"
             PROVE  /\ \A t \in Tasks : (Settled(t) \/ call[t] = "idle")'
                    /\ stopping' \subseteq drainWaits'
  BY DEF DrainInv
<1>1. CASE DrainBegin
  BY <1>1 DEF DrainBegin, Settled, callVars, poolVars
<1>2. CASE ~DrainBegin
  <2>1. drain = "waiting" /\ drainWaits' = drainWaits
    BY <1>2 DEF Next, Acquire, Dispatch, AcquireReuse, AcquireDropStale,
       AcquireParkFull, AcquireDefer, AcquireSpawn, StartOk, StartFail,
       TaskResolves, TaskRejects, RunnerPoisoned, RunnerExits, StopSettles,
       Resume, GatePoll, DrainWatch, DrainOneShot, CloseBegin, CloseStopped,
       CloseEnd, Finished, drainVars, vars
  <2>2. \A t \in Tasks : call[t] \in {"resolved", "rejected", "idle"}
    BY <2>1 DEF DrainInv, Settled
  <2>3. stopping \subseteq drainWaits
    BY <2>1 DEF DrainInv
  <2>4. turn = None
    BY <2>2 DEF IInv, TypeOK, TurnInv
  <2>5. \A t \in Tasks : ~Acquire(t)
    BY <2>4, PoolAssumption
       DEF Acquire, AcquireReuse, AcquireDropStale, AcquireParkFull,
           AcquireDefer, AcquireSpawn
  <2>6. \A t \in Tasks : ~(\/ Dispatch(t) \/ StartOk(t) \/ StartFail(t)
                           \/ TaskResolves(t) \/ TaskRejects(t))
    BY <2>1, <2>2 DEF Dispatch, StartOk, StartFail, TaskResolves, TaskRejects
  <2>7. ~Resume
    <3>1. ready # <<>> => /\ Head(ready) \in Range(ready)
                          /\ Range(ready) \subseteq Tasks
      BY TailFacts, Members DEF IInv, TypeOK, QueuesInv
    <3> QED BY <2>2, <3>1 DEF Resume, IInv, QueuesInv
  <2>8. call' = call /\ stopping' \subseteq stopping
    <3>1. ASSUME NEW r \in Tasks, RunnerPoisoned(r) \/ RunnerExits(r)
          PROVE  call' = call /\ stopping' \subseteq stopping
      <4>1. call' = [t \in Tasks |-> call[t]]
        BY <2>2, <3>1 DEF RunnerPoisoned, RunnerExits, LoseTaskOf
      <4>2. call' = call
        BY <4>1 DEF IInv, TypeOK
      <4> QED BY <3>1, <4>2 DEF RunnerPoisoned, RunnerExits, poolVars
    <3>2. ASSUME NEW r \in Tasks, StopSettles(r)
          PROVE  call' = call /\ stopping' \subseteq stopping
      BY <3>2 DEF StopSettles, callVars
    <3>3. CASE GatePoll \/ DrainWatch \/ DrainOneShot \/ CloseBegin
               \/ CloseStopped \/ CloseEnd \/ Finished \/ UNCHANGED vars
      BY <3>3 DEF GatePoll, DrainWatch, DrainOneShot, CloseBegin,
         CloseStopped, CloseEnd, Finished, vars, callVars, poolVars
    <3> QED BY <1>2, <2>5, <2>6, <2>7, <3>1, <3>2, <3>3 DEF Next
  <2> QED BY <2>1, <2>2, <2>3, <2>8 DEF Settled
<1> QED BY <1>1, <1>2

LEMMA WakingNext == WakingInv /\ [Next]_vars => WakingInv'
BY NextPreserves, NextLeavesWaker, NextAccountsErrors, NextDrains
   DEF WakingInv

(* Nobody waits for ever: a parked caller has a waker, every failed cleanup  *)
(* is reported once, and a drain finds every stop (in every reachable state).*)
THEOREM Waking == Spec => []WakingInv
BY WakingInit, WakingNext, PTL DEF Spec

(* No wakeup is lost (pool.ts:151-179), and close() leaves no worker, no     *)
(* caller and no unreported error behind (pool.ts:329-359).                  *)
THEOREM Stranded == Spec => []NobodyIsStranded
<1>1. WakingInv => NobodyIsStranded
  <2> SUFFICES ASSUME WakingInv PROVE NobodyIsStranded
    OBVIOUS
  <2>1. ParkedHasWaker
    BY DEF WakingInv
  <2>2. ASSUME closing = "closed" PROVE Alive = {} /\ slotWaiters = <<>>
    BY <2>2 DEF WakingInv, IInv, ClosingInv, QueuesInv
  <2>3. ASSUME closing = "closed", NEW t \in Tasks PROVE call[t] # "starting"
    BY <2>2, <2>3 DEF WakingInv, IInv, RunnersInv, Alive
  <2>4. ASSUME closing = "closed", NEW r \in Tasks, cleanup[r] = "failed"
        PROVE  reports[r] = 1
    BY <2>4 DEF WakingInv, ErrorsInv
  <2> QED BY <2>1, <2>2, <2>3, <2>4 DEF NobodyIsStranded, CloseLeavesNothing
<1> QED BY <1>1, Waking, PTL

(* A drain collects every runner retired and every stop error recorded       *)
(* before it returns (pool.ts:63-92).                                        *)
THEOREM Drained == Spec => DrainCollects
<1>1. WakingInv /\ [Next]_vars =>
        [drain = "waiting" /\ drain' # "waiting" /\ closing = "open"
           => stopping' = {} /\ stopErrors' = {}]_vars
  <2> SUFFICES ASSUME WakingInv, [Next]_vars, drain = "waiting",
                      drain' # "waiting"
               PROVE  stopping' = {} /\ stopErrors' = {}
    OBVIOUS
  <2>1. DrainWatch \/ DrainOneShot
    BY DEF Next, Acquire, Dispatch, AcquireReuse, AcquireDropStale,
       AcquireParkFull, AcquireDefer, AcquireSpawn, StartOk, StartFail,
       TaskResolves, TaskRejects, RunnerPoisoned, RunnerExits, StopSettles,
       Resume, GatePoll, DrainBegin, CloseBegin, CloseStopped, CloseEnd,
       Finished, drainVars, vars
  <2>2. /\ drainWaits \cap stopping = {}
        /\ stopping' = stopping /\ stopErrors' = {}
    BY <2>1 DEF DrainWatch, DrainOneShot, DrainAwaited, ReportErrors, poolVars
  <2>3. stopping \subseteq drainWaits
    BY DEF WakingInv, DrainInv
  <2> QED BY <2>2, <2>3
<1> QED BY <1>1, Waking, PTL DEF Spec, DrainCollects

=============================================================================
