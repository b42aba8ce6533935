------------------------- MODULE TestDispatch_proofs -------------------------
(* Theorems about TestDispatch, for every set of files, every number of      *)
(* cases, workers and cycles, and every limit of failed tests.               *)
EXTENDS TestDispatch, CollectionLemmas

(* The variables are functions on the files and paths.                       *)
Shape ==
  /\ DOMAIN case = Files /\ DOMAIN result = Files
  /\ at = [f \in Files |-> at[f]]
  /\ runningModules = [p \in Paths |-> runningModules[p]]

(* The steps of a file, and what they leave alone.                           *)
FileStep(f) == Prepare(f) \/ RunCase(f) \/ RunFile(f) \/ Report(f)

Frame(f) ==
  /\ cycle' = cycle /\ bail' = bail
  /\ at[f] \notin {"idle", "done", "failed"}
  /\ \A g \in Files : g # f =>
       /\ at'[g] = at[g] /\ case'[g] = case[g] /\ result'[g] = result[g]
       /\ g \in testModules' <=> g \in testModules
  /\ \A p \in Paths : p # PathOf[f] => runningModules'[p] = runningModules[p]
  /\ testModules' \subseteq Files /\ told \subseteq told'
  /\ Shape'

(* What a step of a file leaves alone.                                       *)
LEMMA FrameOfStep ==
  ASSUME TypeOK, Shape, NEW f \in Files, FileStep(f)
  PROVE  Frame(f)
<1> USE DEF Frame, Shape, stateVars
<1>0. /\ DOMAIN at = Files /\ DOMAIN runningModules = Paths
      /\ PathOf[f] \in Paths /\ testModules \subseteq Files
  BY DispatchAssumption DEF TypeOK
<1>1. CASE BuildTask(f)
  BY <1>0, <1>1 DEF BuildTask
<1>2. CASE Enqueue(f)
  BY <1>0, <1>2 DEF Enqueue
<1>3. CASE StartTask(f)
  BY <1>0, <1>3 DEF StartTask
<1>4. ASSUME NEW k \in CaseIds(f), AskBail(f, k) PROVE Frame(f)
  BY <1>0, <1>4 DEF AskBail
<1>5. ASSUME NEW k \in CaseIds(f), StartCase(f, k) PROVE Frame(f)
  BY <1>0, <1>5 DEF StartCase, OnTestCaseStart
<1>6. ASSUME NEW k \in CaseIds(f), EndCase(f, k) PROVE Frame(f)
  <2>1. PICK s \in Ended :
          /\ case' = [case EXCEPT ![f][k] = s]
          /\ runningModules' = OnTestCaseResult(f, k, s)
          /\ told' = told \cup {CaseResult(f, k, s)}
    BY <1>6 DEF EndCase
  <2>2. runningModules' = [p \in Paths |-> runningModules'[p]]
    BY <1>0, <2>1 DEF OnTestCaseResult
  <2>3. \A p \in Paths : p # PathOf[f] =>
          runningModules'[p] = runningModules[p]
    BY <1>0, <2>1 DEF OnTestCaseResult
  <2> QED BY <1>0, <1>6, <2>1, <2>2, <2>3 DEF EndCase
<1>7. CASE SkipFile(f)
  BY <1>0, <1>7 DEF SkipFile, Answer, OnTestFileResult
<1>8. CASE StartFile(f)
  BY <1>0, <1>8 DEF StartFile
<1>9. CASE LoadFile(f)
  BY <1>0, <1>9 DEF LoadFile, OnTestFileStart
<1>10. CASE LoadFails(f)
  BY <1>0, <1>10 DEF LoadFails, Answer, OnTestFileResult
<1>11. CASE EndFile(f)
  BY <1>0, <1>11 DEF EndFile, Answer, OnTestFileResult
<1>12. CASE Crash(f)
  BY <1>0, <1>12 DEF Crash, OnTestFileResult, InWorker
<1>13. CASE Replay(f)
  BY <1>0, <1>13 DEF Replay, OnTestFileResult
<1>14. CASE ReplayThrows(f)
  BY <1>0, <1>14 DEF ReplayThrows
<1>15. CASE ReportFile(f)
  BY <1>0, <1>15 DEF ReportFile
<1> QED
  BY <1>1, <1>2, <1>3, <1>4, <1>5, <1>6, <1>7, <1>8, <1>9, <1>10, <1>11,
     <1>12, <1>13, <1>14, <1>15
     DEF FileStep, Prepare, RunCase, RunFile, Report

(* The cases that run, that are under way, and those a crash makes of them.  *)
Running(f) == {k \in CaseIds(f) : case[f][k] = "running"}
UnderWay(f) == {k \in CaseIds(f) : case[f][k] \in {"admitted", "running"}}
CrashedOf(f) == {CaseResult(f, k, "fail") : k \in Running(f)}

(* The stages of a file, of which these come before its worker is asked to   *)
(* run its tests.                                                            *)
Before == {"idle", "building", "gated", "queued", "starting", "loading"}

LifeOf(f) ==
  /\ at[f] # "ended"
  /\ at[f] = "idle" <=> Cycle[f] > cycle
  /\ at[f] \in Before \cup {"tests"} => result[f] = None
  /\ at[f] \in Before => \A k \in CaseIds(f) : case[f][k] = "todo"
  /\ at[f] \in {"replaying", "reporting", "done"} =>
       result[f].status # "none"

LifeInv == cycle >= 1 /\ \A f \in Files : LifeOf(f)

(* Unless a cycle was cut short, every cycle before this one is done.        *)
CutInv == Undisturbed \/ \E f \in Files : Cycle[f] < cycle /\ at[f] = "failed"

(* Steps keep what a stage of a file says of it.                             *)
LEMMA LifeKept ==
  ASSUME TypeOK, Shape, LifeInv, [Next]_vars
  PROVE  LifeInv'
<1> USE DEF Shape, stateVars
<1>0. /\ DOMAIN at = Files /\ DOMAIN runningModules = Paths
      /\ cycle \in Nat /\ \A g \in Files : Cycle[g] \in Nat
  BY DispatchAssumption DEF TypeOK
<1>a. ASSUME NEW f \in Files, FileStep(f) PROVE LifeInv'
  <2>1. Frame(f)
    BY <1>a, FrameOfStep
  <2>2. SUFFICES LifeOf(f)'
    BY <1>0, <2>1 DEF LifeInv, LifeOf, Frame
  <2>0. LifeOf(f) /\ PathOf[f] \in Paths
    BY DispatchAssumption DEF LifeInv
  <2> USE DEF LifeOf, Before, None
  <2>3. CASE BuildTask(f)
    BY <1>0, <2>0, <2>3 DEF BuildTask
  <2>4. CASE Enqueue(f)
    BY <1>0, <2>0, <2>4 DEF Enqueue
  <2>5. CASE StartTask(f)
    BY <1>0, <2>0, <2>5 DEF StartTask
  <2>6. ASSUME NEW k \in CaseIds(f), AskBail(f, k) PROVE LifeOf(f)'
    BY <1>0, <2>0, <2>6 DEF AskBail
  <2>7. ASSUME NEW k \in CaseIds(f), StartCase(f, k) PROVE LifeOf(f)'
    BY <1>0, <2>0, <2>7 DEF StartCase
  <2>8. ASSUME NEW k \in CaseIds(f), EndCase(f, k) PROVE LifeOf(f)'
    BY <1>0, <2>0, <2>8 DEF EndCase
  <2>9. CASE SkipFile(f)
    BY <1>0, <2>0, <2>9 DEF SkipFile, Answer
  <2>10. CASE StartFile(f)
    BY <1>0, <2>0, <2>10 DEF StartFile
  <2>11. CASE LoadFile(f)
    BY <1>0, <2>0, <2>11 DEF LoadFile
  <2>12. CASE LoadFails(f)
    BY <1>0, <2>0, <2>12 DEF LoadFails, Answer
  <2>13. CASE EndFile(f)
    BY <1>0, <2>0, <2>13 DEF EndFile, Answer
  <2>14. CASE Crash(f)
    BY <1>0, <2>0, <2>14 DEF Crash, InWorker, WorkerErrorToResult
  <2>15. CASE Replay(f)
    BY <1>0, <2>0, <2>15 DEF Replay
  <2>16. CASE ReplayThrows(f)
    BY <1>0, <2>0, <2>16 DEF ReplayThrows
  <2>17. CASE ReportFile(f)
    BY <1>0, <2>0, <2>17 DEF ReportFile
  <2> QED
    BY <1>a, <2>3, <2>4, <2>5, <2>6, <2>7, <2>8, <2>9, <2>10, <2>11,
       <2>12, <2>13, <2>14, <2>15, <2>16, <2>17
       DEF FileStep, Prepare, RunCase, RunFile, Report
<1>b. CASE NextCycle
  BY <1>0, <1>b DEF NextCycle, LifeInv, LifeOf, Before
<1>c. CASE UNCHANGED vars
  BY <1>c DEF vars, LifeInv, LifeOf
<1> QED
  BY <1>a, <1>b, <1>c DEF Next, FileStep

(* In an undisturbed cycle, it is the files of this cycle that step.         *)
LEMMA QuietStep ==
  ASSUME TypeOK, Shape, LifeInv, CutInv, NEW f \in Files, FileStep(f),
         Undisturbed'
  PROVE  Undisturbed /\ Now(f) /\ Now(f)'
<1>1. Frame(f)
  BY FrameOfStep
<1>2. Undisturbed
  <2>1. ASSUME NEW g \in Files, Cycle[g] < cycle, at[g] = "failed"
        PROVE  FALSE
    BY <1>1, <2>1 DEF Frame, Undisturbed
  <2> QED BY <2>1 DEF CutInv
<1>3. /\ ~ (Cycle[f] > cycle) /\ ~ (Cycle[f] < cycle)
      /\ cycle \in Nat /\ Cycle[f] \in Nat
  BY <1>1, <1>2, DispatchAssumption
     DEF Frame, Undisturbed, LifeInv, LifeOf, TypeOK
<1> QED BY <1>1, <1>2, <1>3 DEF Now, Frame

(* An undisturbed cycle follows on one whose files are all done.             *)
LEMMA QuietCycle ==
  ASSUME TypeOK, Shape, LifeInv, CutInv, NextCycle, Undisturbed'
  PROVE  Undisturbed /\ \A f \in Files : Now(f) => at[f] = "done"
<1>1. /\ cycle \in Nat /\ cycle' = cycle + 1
      /\ \A g \in Files : Cycle[g] \in Nat
      /\ \A g \in Files : Cycle[g] # cycle + 1 => at'[g] = at[g]
  BY DispatchAssumption DEF NextCycle, TypeOK
<1> QED BY <1>1 DEF Undisturbed, Now

(* A cycle that was cut short leaves a failed file behind for good.          *)
LEMMA CutKept ==
  ASSUME TypeOK, Shape, LifeInv, CutInv, [Next]_vars
  PROVE  CutInv'
<1>0. cycle \in Nat /\ \A g \in Files : Cycle[g] \in Nat
  BY DispatchAssumption DEF TypeOK
<1>1. ASSUME NEW f \in Files, FileStep(f) PROVE CutInv'
  <2>1. Frame(f)
    BY <1>1, FrameOfStep
  <2>2. CASE \E g \in Files : Cycle[g] < cycle /\ at[g] = "failed"
    BY <2>1, <2>2 DEF Frame, CutInv
  <2>3. CASE Undisturbed
    <3>1. ~ (Cycle[f] < cycle)
      BY <2>1, <2>3 DEF Frame, Undisturbed
    <3> QED BY <2>1, <2>3, <3>1 DEF Frame, Undisturbed, CutInv
  <2> QED BY <2>2, <2>3 DEF CutInv
<1>2. CASE NextCycle
  <2>1. /\ cycle' = cycle + 1
        /\ \A g \in Files : Cycle[g] <= cycle => at'[g] = at[g]
    BY <1>0, <1>2 DEF NextCycle
  <2>2. CASE \E g \in Files : Cycle[g] < cycle /\ at[g] = "failed"
    BY <1>0, <2>1, <2>2 DEF CutInv
  <2>3. CASE Undisturbed /\ \E g \in Files : Now(g) /\ at[g] = "failed"
    BY <1>0, <2>1, <2>3 DEF CutInv, Now
  <2>4. CASE Undisturbed /\ \A g \in Files : Now(g) => at[g] = "done"
    BY <1>0, <2>1, <2>4 DEF CutInv, Undisturbed, Now
  <2> QED
    BY <1>2, <2>2, <2>3, <2>4 DEF CutInv, NextCycle, Settled
<1>3. CASE UNCHANGED vars
  BY <1>3 DEF vars, CutInv, Undisturbed
<1> QED BY <1>1, <1>2, <1>3 DEF Next, FileStep

(* The values of the variables.                                              *)
Modules ==
  [open : BOOLEAN, running : SUBSET (Paths \X Nat), results : SUBSET
     [id : Paths \X Nat, file : Files, status : Ended]]

Stages == {"idle", "building", "gated", "queued", "replaying", "reporting"}
            \cup InWorker \cup Settled

CaseStages == {"todo", "admitted", "refused", "running"} \cup Ended

TypesOf(f) ==
  /\ at[f] \in Stages
  /\ case[f] \in [CaseIds(f) -> CaseStages]
  /\ result[f].status \in Status
  /\ runningModules[PathOf[f]] \in Modules

Results == [id : Paths \X Nat, file : Files, status : Ended]

(* Steps keep the types.                                                     *)
LEMMA TypesKept ==
  ASSUME TypeOK, Shape, [Next]_vars
  PROVE  TypeOK' /\ Shape'
<1> USE DEF Shape, stateVars
<1>0. /\ DOMAIN at = Files /\ DOMAIN runningModules = Paths
      /\ cycle \in Nat /\ \A g \in Files : TypesOf(g) /\ PathOf[g] \in Paths
  BY DispatchAssumption
     DEF TypeOK, TypesOf, Modules, Stages, CaseStages
<1>a. ASSUME NEW f \in Files, FileStep(f) PROVE TypeOK'
  <2>1. Frame(f)
    BY <1>a, FrameOfStep
  <2>0. TypesOf(f) /\ PathOf[f] \in Paths
    BY <1>0
  <2>2. SUFFICES TypesOf(f)'
    <3>1. at' \in [Files -> Stages]
      BY <1>0, <2>1, <2>2 DEF Frame, TypesOf
    <3>2. /\ bail' \in Bails /\ cycle' \in Nat
          /\ testModules' \subseteq Files
      BY <1>a, <2>1 DEF Frame, TypeOK
    <3>3. \A g \in Files : /\ case'[g] \in [CaseIds(g) -> CaseStages]
                           /\ result'[g].status \in Status
      BY <1>0, <2>1, <2>2 DEF Frame, TypesOf
    <3>4. \A p \in Paths : runningModules'[p] \in Modules
      BY <2>1, <2>2 DEF Frame, TypesOf, TypeOK, Modules
    <3>5. runningModules' \in [Paths -> Modules]
      BY <2>1, <3>4 DEF Frame
    <3> QED BY <3>1, <3>2, <3>3, <3>5
            DEF TypeOK, Stages, CaseStages, Modules
  <2> USE DEF TypesOf, Stages, CaseStages, InWorker, Settled, Ended, Status
  <2>3. Absent \in Modules /\ Fresh \in Modules
    BY DEF Absent, Fresh, Modules
  <2>4. \A k \in CaseIds(f) : IdOf(f, k) \in Paths \X Nat
    BY <2>0 DEF IdOf, CaseIds
  <2>5. CASE BuildTask(f)
    BY <1>0, <2>0, <2>5 DEF BuildTask
  <2>6. CASE Enqueue(f)
    BY <1>0, <2>0, <2>6 DEF Enqueue
  <2>7. CASE StartTask(f)
    BY <1>0, <2>0, <2>7 DEF StartTask
  <2>8. ASSUME NEW k \in CaseIds(f), AskBail(f, k) PROVE TypesOf(f)'
    BY <1>0, <2>0, <2>8 DEF AskBail
  <2>9. ASSUME NEW k \in CaseIds(f), StartCase(f, k) PROVE TypesOf(f)'
    <3> DEFINE m == runningModules[PathOf[f]]
    <3>1. runningModules'[PathOf[f]] =
            [open |-> TRUE, running |-> m.running \cup {IdOf(f, k)},
             results |-> m.results]
      BY <1>0, <2>0, <2>9 DEF StartCase, OnTestCaseStart
    <3>2. m \in Modules
      BY <2>0
    <3> HIDE DEF m
    <3>3. runningModules'[PathOf[f]] \in Modules
      BY <2>4, <3>1, <3>2 DEF Modules
    <3> QED BY <1>0, <2>0, <2>9, <3>3 DEF StartCase
  <2>10. ASSUME NEW k \in CaseIds(f), EndCase(f, k) PROVE TypesOf(f)'
    <3> DEFINE m == runningModules[PathOf[f]]
    <3>1. PICK s \in Ended :
            /\ case' = [case EXCEPT ![f][k] = s]
            /\ runningModules' = OnTestCaseResult(f, k, s)
      BY <2>10 DEF EndCase
    <3>2. runningModules'[PathOf[f]] =
            [open |-> TRUE, running |-> m.running \ {IdOf(f, k)},
             results |-> m.results \cup {CaseResult(f, k, s)}]
      BY <1>0, <2>0, <3>1 DEF OnTestCaseResult
    <3>3. CaseResult(f, k, s) \in
            [id : Paths \X Nat, file : Files, status : Ended]
      BY <2>4, <3>1 DEF CaseResult
    <3>4. m \in Modules
      BY <2>0
    <3> HIDE DEF m
    <3>5. runningModules'[PathOf[f]] \in Modules
      BY <3>2, <3>3, <3>4 DEF Modules
    <3> QED BY <1>0, <2>0, <2>10, <3>1, <3>5 DEF EndCase
  <2>11. CASE SkipFile(f)
    BY <1>0, <2>0, <2>3, <2>11 DEF SkipFile, Answer, OnTestFileResult
  <2>12. CASE StartFile(f)
    BY <1>0, <2>0, <2>12 DEF StartFile
  <2>13. CASE LoadFile(f)
    BY <1>0, <2>0, <2>3, <2>13 DEF LoadFile, OnTestFileStart
  <2>14. CASE LoadFails(f)
    BY <1>0, <2>0, <2>3, <2>14 DEF LoadFails, Answer, OnTestFileResult
  <2>15. CASE EndFile(f)
    BY <1>0, <2>0, <2>3, <2>15 DEF EndFile, Answer, OnTestFileResult
  <2>16. CASE Crash(f)
    BY <1>0, <2>0, <2>3, <2>16
       DEF Crash, OnTestFileResult, WorkerErrorToResult
  <2>17. CASE Replay(f)
    BY <1>0, <2>0, <2>3, <2>17 DEF Replay, OnTestFileResult
  <2>18. CASE ReplayThrows(f)
    BY <1>0, <2>0, <2>18 DEF ReplayThrows, None
  <2>19. CASE ReportFile(f)
    BY <1>0, <2>0, <2>19 DEF ReportFile
  <2> QED
    BY <1>0, <1>a, <2>5, <2>6, <2>7, <2>8, <2>9, <2>10, <2>11,
       <2>12, <2>13, <2>14, <2>15, <2>16, <2>17, <2>18, <2>19
       DEF FileStep, Prepare, RunCase, RunFile, Report
<1>b. CASE NextCycle
  <2>1. /\ bail' = bail /\ cycle' \in Nat /\ case' = case /\ result' = result
        /\ testModules' = {} /\ runningModules' = [p \in Paths |-> Absent]
        /\ at' = [f \in Files |->
                    IF Cycle[f] = cycle + 1 THEN "building" ELSE at[f]]
    BY <1>0, <1>b DEF NextCycle
  <2>2. Absent \in Modules
    BY DEF Absent, Modules
  <2>3. at' \in [Files -> Stages]
    BY <1>0, <2>1 DEF TypesOf, Stages
  <2>4. runningModules' \in [Paths -> Modules]
    BY <2>1, <2>2
  <2> QED BY <2>1, <2>3, <2>4 DEF TypeOK, Stages, Modules
<1>c. CASE UNCHANGED vars
  BY <1>c DEF vars, TypeOK
<1>d. Shape'
  <2>1. ASSUME NEW f \in Files, FileStep(f) PROVE Shape'
    BY <2>1, FrameOfStep DEF Frame
  <2> QED BY <2>1 DEF Next, FileStep, NextCycle, vars
<1> QED
  BY <1>a, <1>b, <1>c, <1>d DEF Next, FileStep

(* A gate that is released stays released.                                   *)
LEMMA ReleasedStays ==
  ASSUME TypeOK, Shape, LifeInv, [Next]_vars, NEW f \in Files, Released(f)
  PROVE  Released(f)'
<1>0. /\ DOMAIN at = Files /\ cycle \in Nat
      /\ LifeOf(f) /\ Cycle[f] \in Nat
  BY DispatchAssumption DEF TypeOK, LifeInv
<1>1. ASSUME NEW g \in Files, FileStep(g) PROVE Released(f)'
  <2>1. CASE f # g
    BY <1>1, <2>1, FrameOfStep DEF Frame, Released
  <2>2. CASE f = g
    BY <1>0, <1>1, <2>2
       DEF FileStep, Prepare, RunCase, RunFile, Report, Released, BuildTask,
           Enqueue, StartTask, AskBail, StartCase, EndCase, SkipFile, Answer,
           StartFile, LoadFile, LoadFails, EndFile, Crash, Replay,
           ReplayThrows, ReportFile
  <2> QED BY <2>1, <2>2
<1>2. CASE NextCycle
  BY <1>0, <1>2 DEF NextCycle, Released, LifeOf
<1>3. CASE UNCHANGED vars
  BY <1>3 DEF vars, Released
<1> QED BY <1>1, <1>2, <1>3 DEF Next, FileStep

(* A file is not dispatched before the gate of the entry before it is        *)
(* released.                                                                 *)
GateInv ==
  \A q \in DOMAIN Entries : \A j \in DOMAIN Entries[q] :
    j > 1 /\ Dispatched(Entries[q][j]) => Released(Entries[q][j - 1])

(* A file that is dispatched in a step has found the gates before it         *)
(* released.                                                                 *)
LEMMA DispatchedOnce ==
  ASSUME TypeOK, Shape, LifeInv, [Next]_vars, NEW f \in Files,
         Dispatched(f)', ~ Dispatched(f)
  PROVE  \A e \in Previous(f) : Released(e)
<1>0. /\ DOMAIN at = Files /\ cycle \in Nat
      /\ LifeOf(f) /\ Cycle[f] \in Nat
  BY DispatchAssumption DEF TypeOK, LifeInv
<1>1. ASSUME NEW g \in Files, FileStep(g), ~ Enqueue(f) PROVE FALSE
  <2>1. Frame(g)
    BY <1>1, FrameOfStep
  <2>2. f = g
    BY <2>1 DEF Frame, Dispatched, Released, BuildFailed
  <2>3. ~ Released(f) /\ Released(f)'
    BY <2>1, <2>2 DEF Frame, Dispatched, BuildFailed
  <2>4. BuildTask(f)
    BY <1>0, <1>1, <2>2, <2>3
       DEF FileStep, Prepare, RunCase, RunFile, Report, Released, InWorker,
           Enqueue, StartTask, AskBail, StartCase, EndCase, SkipFile,
           StartFile, LoadFile, LoadFails, EndFile, Crash, Replay,
           ReplayThrows, ReportFile
  <2>5. BuildFailed(f)'
    BY <1>0, <2>3, <2>4 DEF BuildTask, Released, BuildFailed, LifeOf, Before
  <2> QED BY <2>5 DEF Dispatched
<1>2. NextCycle => FALSE
  BY <1>0 DEF NextCycle, Dispatched, Released, BuildFailed, LifeOf
<1>3. UNCHANGED vars => FALSE
  BY DEF vars, Dispatched, Released, BuildFailed
<1> QED BY <1>1, <1>2, <1>3 DEF Next, FileStep, Enqueue

(* Steps keep the order of the gates.                                        *)
LEMMA GateKept ==
  ASSUME TypeOK, Shape, LifeInv, GateInv, [Next]_vars
  PROVE  GateInv'
<1> SUFFICES ASSUME NEW q \in DOMAIN Entries, NEW j \in DOMAIN Entries[q],
                    j > 1, Dispatched(Entries[q][j])'
             PROVE  Released(Entries[q][j - 1])'
  BY DEF GateInv
<1> DEFINE f == Entries[q][j]
           e == Entries[q][j - 1]
<1>1. /\ Entries[q] \in Seq(Files) /\ DOMAIN Entries[q] = 1 .. Len(Entries[q])
      /\ Len(Entries[q]) \in Nat
      /\ f \in Files /\ e \in Files /\ j \in 2 .. Len(Entries[q])
  BY DispatchAssumption
<1>2. CASE Dispatched(f)
  BY <1>1, <1>2, ReleasedStays DEF GateInv
<1>3. CASE ~ Dispatched(f)
  <2>1. e \in Previous(f)
    BY <1>1 DEF Previous
  <2> HIDE DEF f, e
  <2>2. Dispatched(f)'
    BY DEF f
  <2>3. Released(e)
    BY <1>1, <1>3, <2>1, <2>2, DispatchedOnce
  <2>4. Released(e)'
    BY <1>1, <2>3, ReleasedStays
  <2> QED BY <2>4 DEF e
<1> QED BY <1>2, <1>3

(* Where each gate waits for the one before it, files are in order: of the   *)
(* files behind an undispatched one, the last undispatched one could not be  *)
(* prepared.                                                                 *)
LEMMA GatesOrder == GateInv => EnqueuedInOrder
<1> SUFFICES
      ASSUME GateInv, NEW q \in DOMAIN Entries, NEW i \in DOMAIN Entries[q],
             NEW j \in DOMAIN Entries[q], i < j, Dispatched(Entries[q][j]),
             ~ Dispatched(Entries[q][i])
      PROVE  \E k \in i .. j - 1 : BuildFailed(Entries[q][k])
  BY DEF EnqueuedInOrder
<1>1. DOMAIN Entries[q] = 1 .. Len(Entries[q]) /\ Len(Entries[q]) \in Nat
  BY DispatchAssumption
<1> DEFINE Behind == {k \in i .. j - 1 : ~ Dispatched(Entries[q][k])}
<1>2. PICK k \in Behind : \A m \in Behind : m <= k
  <2>1. Behind \in SUBSET Nat /\ i \in Behind /\ \A m \in Behind : m <= j
    BY <1>1
  <2>2. j \in Nat
    BY <1>1
  <2> HIDE DEF Behind
  <2> QED BY <2>1, <2>2, GreatestExists
<1>3. Dispatched(Entries[q][k + 1])
  BY <1>1, <1>2
<1>4. Released(Entries[q][k])
  <2>1. k + 1 \in DOMAIN Entries[q] /\ k + 1 > 1 /\ (k + 1) - 1 = k
    BY <1>1, <1>2
  <2> QED BY <1>3, <2>1 DEF GateInv
<1> QED BY <1>2, <1>4 DEF Dispatched

(* No path is run twice in a cycle: what the state manager keeps of a        *)
(* running file, it keeps by path, so two projects that run one path share   *)
(* it.                                                                       *)
PathsApart ==
  \A f, g \in Files : Cycle[f] = Cycle[g] /\ PathOf[f] = PathOf[g] => f = g

(* What the state manager says of a file of the cycle: its result once it is *)
(* recorded, what its worker has reported until then; and nothing of a path  *)
(* that no file of the cycle has.                                            *)
RunningIds(f) == {IdOf(f, k) : k \in Running(f)}

ModuleOf(f) ==
  /\ f \in testModules <=> Recorded(f)
  /\ Recorded(f) => /\ runningModules[PathOf[f]].results = {}
                    /\ runningModules[PathOf[f]].running = {}
  /\ ~ Recorded(f) => /\ runningModules[PathOf[f]].results = Reported(f)
                      /\ runningModules[PathOf[f]].running = RunningIds(f)

ModulesInv ==
  Undisturbed =>
    /\ \A f \in testModules : Now(f)
    /\ \A f \in Files : Now(f) => ModuleOf(f)
    /\ \A p \in Paths : (\A f \in Files : Now(f) => PathOf[f] # p) =>
         runningModules[p].results = {} /\ runningModules[p].running = {}

(* A file none of whose cases has begun.                                     *)
LEMMA NothingYet ==
  ASSUME NEW f \in Files, \A k \in CaseIds(f) : case[f][k] = "todo"
  PROVE  /\ Reported(f) = {} /\ Running(f) = {} /\ UnderWay(f) = {}
         /\ RunningIds(f) = {} /\ CrashedOf(f) = {} /\ Died(f) = {}
  BY DEF Reported, Running, UnderWay, RunningIds, CrashedOf, Died, Ended

(* What depends on the cases of a file alone.                                *)
LEMMA CasesAlone ==
  ASSUME NEW f \in Files, case'[f] = case[f]
  PROVE  /\ Reported(f)' = Reported(f) /\ Running(f)' = Running(f)
         /\ UnderWay(f)' = UnderWay(f) /\ RunningIds(f)' = RunningIds(f)
         /\ CrashedOf(f)' = CrashedOf(f)
  BY DEF Reported, Running, UnderWay, RunningIds, CrashedOf, Ended

(* What the start of a case does to its file and to the entry of its path.   *)
LEMMA CaseStarts ==
  ASSUME TypeOK, Shape, NEW f \in Files, NEW k \in CaseIds(f),
         StartCase(f, k)
  PROVE  /\ Reported(f)' = Reported(f)
         /\ RunningIds(f)' = RunningIds(f) \cup {IdOf(f, k)}
         /\ UnderWay(f)' = UnderWay(f)
         /\ runningModules'[PathOf[f]].results =
              runningModules[PathOf[f]].results
         /\ runningModules'[PathOf[f]].running =
              runningModules[PathOf[f]].running \cup {IdOf(f, k)}
<1>1. /\ case[f] \in [CaseIds(f) -> CaseStages] /\ DOMAIN case = Files
      /\ DOMAIN runningModules = Paths /\ PathOf[f] \in Paths
  BY DispatchAssumption DEF TypeOK, Shape, CaseStages
<1>2. /\ case[f][k] = "admitted"
      /\ \A j \in CaseIds(f) :
           case'[f][j] = IF j = k THEN "running" ELSE case[f][j]
  BY <1>1 DEF StartCase
<1>3. /\ Reported(f)' = Reported(f) /\ Running(f)' = Running(f) \cup {k}
      /\ UnderWay(f)' = UnderWay(f)
  <2>1. \A j \in CaseIds(f) :
          /\ case'[f][j] \in Ended <=> case[f][j] \in Ended
          /\ case[f][j] \in Ended => case'[f][j] = case[f][j]
    BY <1>2 DEF Ended
  <2>2. Reported(f)' = Reported(f)
    BY <2>1 DEF Reported
  <2>3. Running(f)' = Running(f) \cup {k} /\ UnderWay(f)' = UnderWay(f)
    BY <1>2 DEF Running, UnderWay
  <2> QED BY <2>2, <2>3
<1>4. RunningIds(f)' = RunningIds(f) \cup {IdOf(f, k)}
  BY <1>3 DEF RunningIds
<1>5. runningModules'[PathOf[f]] =
        [open |-> TRUE,
         running |-> runningModules[PathOf[f]].running \cup {IdOf(f, k)},
         results |-> runningModules[PathOf[f]].results]
  BY <1>1 DEF StartCase, OnTestCaseStart
<1> QED BY <1>3, <1>4, <1>5

(* A case ends with a status.                                                *)
EndsWith(f, k, s) ==
  /\ case[f][k] = "running"
  /\ case' = [case EXCEPT ![f][k] = s]
  /\ runningModules' = OnTestCaseResult(f, k, s)
  /\ told' = told \cup {CaseResult(f, k, s)}

(* What the end of a case does.                                              *)
LEMMA CaseEnds ==
  ASSUME TypeOK, Shape, NEW f \in Files, NEW k \in CaseIds(f),
         NEW s \in Ended, EndsWith(f, k, s)
  PROVE  /\ Reported(f)' = Reported(f) \cup {CaseResult(f, k, s)}
         /\ RunningIds(f)' = RunningIds(f) \ {IdOf(f, k)}
         /\ UnderWay(f)' = UnderWay(f) \ {k} /\ k \in UnderWay(f)
         /\ runningModules'[PathOf[f]].results =
              runningModules[PathOf[f]].results \cup {CaseResult(f, k, s)}
         /\ runningModules'[PathOf[f]].running =
              runningModules[PathOf[f]].running \ {IdOf(f, k)}
<1>1. /\ case[f] \in [CaseIds(f) -> CaseStages] /\ DOMAIN case = Files
      /\ DOMAIN runningModules = Paths /\ PathOf[f] \in Paths
  BY DispatchAssumption DEF TypeOK, Shape, CaseStages
<1>2. /\ case[f][k] = "running"
      /\ \A j \in CaseIds(f) :
           case'[f][j] = IF j = k THEN s ELSE case[f][j]
  BY <1>1 DEF EndsWith
<1>3. Reported(f)' = Reported(f) \cup {CaseResult(f, k, s)}
  <2>1. case'[f][k] = s /\ case[f][k] \notin Ended
    BY <1>2 DEF Ended
  <2>2. \A j \in CaseIds(f) \ {k} : case'[f][j] = case[f][j]
    BY <1>2
  <2>3. \A x : x \in Reported(f)' <=>
          \E j \in CaseIds(f) : case'[f][j] \in Ended
                                  /\ x = CaseResult(f, j, case'[f][j])
    BY DEF Reported
  <2>4. \A x : x \in Reported(f) <=>
          \E j \in CaseIds(f) : case[f][j] \in Ended
                                  /\ x = CaseResult(f, j, case[f][j])
    BY DEF Reported
  <2>5. \A x : x \in Reported(f)' <=>
          x \in Reported(f) \/ x = CaseResult(f, k, s)
    BY <2>1, <2>2, <2>3, <2>4
  <2> QED BY <2>5
<1>4. /\ Running(f)' = Running(f) \ {k} /\ k \in Running(f)
      /\ UnderWay(f)' = UnderWay(f) \ {k} /\ k \in UnderWay(f)
  BY <1>2 DEF Running, UnderWay, Ended
<1>5. RunningIds(f)' = RunningIds(f) \ {IdOf(f, k)}
  <2>1. \A j \in CaseIds(f) : IdOf(f, j) = IdOf(f, k) => j = k
    BY DEF IdOf
  <2> QED BY <1>4, <2>1 DEF RunningIds, Running
<1>6. runningModules'[PathOf[f]] =
        [open |-> TRUE,
         running |-> runningModules[PathOf[f]].running \ {IdOf(f, k)},
         results |-> runningModules[PathOf[f]].results
                       \cup {CaseResult(f, k, s)}]
  BY <1>1 DEF EndsWith, OnTestCaseResult
<1> QED BY <1>3, <1>4, <1>5, <1>6

(* What the question about a case does.                                      *)
LEMMA CaseAsked ==
  ASSUME TypeOK, Shape, NEW f \in Files, NEW k \in CaseIds(f), AskBail(f, k)
  PROVE  /\ Reported(f)' = Reported(f) /\ RunningIds(f)' = RunningIds(f)
         /\ UnderWay(f)' = IF Refuses THEN UnderWay(f)
                           ELSE UnderWay(f) \cup {k}
         /\ k \notin UnderWay(f)
<1>1. /\ case[f] \in [CaseIds(f) -> CaseStages] /\ DOMAIN case = Files
  BY DispatchAssumption DEF TypeOK, Shape, CaseStages
<1>2. /\ case[f][k] = "todo"
      /\ \A j \in CaseIds(f) \ {k} : case'[f][j] = case[f][j]
      /\ case'[f][k] = IF Refuses THEN "refused" ELSE "admitted"
  BY <1>1 DEF AskBail
<1>3. \A j \in CaseIds(f) :
        /\ case'[f][j] \in Ended <=> case[f][j] \in Ended
        /\ case[f][j] \in Ended => case'[f][j] = case[f][j]
        /\ case'[f][j] = "running" <=> case[f][j] = "running"
  BY <1>2 DEF Ended
<1>4. Reported(f)' = Reported(f)
  BY <1>3 DEF Reported
<1>5. RunningIds(f)' = RunningIds(f)
  BY <1>3 DEF RunningIds, Running
<1>6. /\ UnderWay(f)' = IF Refuses THEN UnderWay(f) ELSE UnderWay(f) \cup {k}
      /\ k \notin UnderWay(f)
  BY <1>2 DEF UnderWay
<1> QED BY <1>4, <1>5, <1>6

(* Steps of a file keep what the state manager says of it.                   *)
LEMMA ModuleKept ==
  ASSUME TypeOK, Shape, LifeInv, NEW f \in Files, FileStep(f), ModuleOf(f)
  PROVE  ModuleOf(f)'
<1>0. /\ DOMAIN at = Files /\ DOMAIN result = Files /\ DOMAIN case = Files
      /\ DOMAIN runningModules = Paths /\ PathOf[f] \in Paths
      /\ LifeOf(f) /\ Frame(f)
  BY DispatchAssumption, FrameOfStep DEF TypeOK, Shape, LifeInv
<1> USE DEF stateVars
<1>1. ASSUME case' = case, UNCHANGED stateVars, Recorded(f)' = Recorded(f)
      PROVE  ModuleOf(f)'
  BY <1>1, CasesAlone DEF ModuleOf
<1>2. ASSUME OnTestFileResult(f), at'[f] = "reporting"
      PROVE  ModuleOf(f)'
  BY <1>0, <1>2 DEF OnTestFileResult, ModuleOf, Recorded, Absent
<1>3. CASE BuildTask(f)
  BY <1>0, <1>1, <1>3 DEF BuildTask, Recorded, LifeOf, Before
<1>4. CASE Enqueue(f)
  BY <1>0, <1>1, <1>4 DEF Enqueue, Recorded
<1>5. CASE StartTask(f)
  BY <1>0, <1>1, <1>5 DEF StartTask, Recorded
<1>6. ASSUME NEW k \in CaseIds(f), AskBail(f, k) PROVE ModuleOf(f)'
  BY <1>0, <1>6, CaseAsked DEF AskBail, ModuleOf, Recorded
<1>7. ASSUME NEW k \in CaseIds(f), StartCase(f, k) PROVE ModuleOf(f)'
  BY <1>0, <1>7, CaseStarts DEF StartCase, ModuleOf, Recorded
<1>8. ASSUME NEW k \in CaseIds(f), EndCase(f, k) PROVE ModuleOf(f)'
  <2>1. PICK s \in Ended : EndsWith(f, k, s)
    BY <1>8 DEF EndCase, EndsWith
  <2>2. /\ Recorded(f)' = Recorded(f) /\ testModules' = testModules
        /\ ~ Recorded(f)
    BY <1>8 DEF EndCase, Recorded
  <2>3. /\ Reported(f)' = Reported(f) \cup {CaseResult(f, k, s)}
        /\ RunningIds(f)' = RunningIds(f) \ {IdOf(f, k)}
        /\ runningModules'[PathOf[f]].results =
             runningModules[PathOf[f]].results \cup {CaseResult(f, k, s)}
        /\ runningModules'[PathOf[f]].running =
             runningModules[PathOf[f]].running \ {IdOf(f, k)}
    BY <2>1, CaseEnds
  <2>4. /\ runningModules[PathOf[f]].results = Reported(f)
        /\ runningModules[PathOf[f]].running = RunningIds(f)
    BY <2>2 DEF ModuleOf
  <2>5. /\ runningModules'[PathOf[f]].results = Reported(f)'
        /\ runningModules'[PathOf[f]].running = RunningIds(f)'
    BY <2>3, <2>4
  <2> QED BY <2>2, <2>5 DEF ModuleOf
<1>9. CASE SkipFile(f)
  BY <1>0, <1>2, <1>9 DEF SkipFile, Answer
<1>10. CASE StartFile(f)
  BY <1>0, <1>1, <1>10 DEF StartFile, Recorded
<1>11. CASE LoadFile(f)
  <2>1. /\ Reported(f) = {} /\ RunningIds(f) = {}
        /\ Reported(f)' = {} /\ RunningIds(f)' = {}
    BY <1>0, <1>11, NothingYet, CasesAlone DEF LoadFile, LifeOf, Before
  <2>2. runningModules'[PathOf[f]] = Fresh
    BY <1>0, <1>11 DEF LoadFile, OnTestFileStart
  <2>3. Fresh.results = {} /\ Fresh.running = {}
    BY DEF Fresh, Absent
  <2>4. testModules' = testModules /\ ~ Recorded(f) /\ ~ Recorded(f)'
    BY <1>0, <1>11 DEF LoadFile, Recorded
  <2> QED BY <2>1, <2>2, <2>3, <2>4 DEF ModuleOf
<1>12. CASE LoadFails(f)
  BY <1>0, <1>2, <1>12 DEF LoadFails, Answer
<1>13. CASE EndFile(f)
  BY <1>0, <1>2, <1>13 DEF EndFile, Answer
<1>14. CASE Crash(f)
  BY <1>0, <1>1, <1>2, <1>14 DEF Crash, Recorded, InWorker
<1>15. CASE Replay(f)
  BY <1>0, <1>2, <1>15 DEF Replay
<1>16. CASE ReplayThrows(f)
  BY <1>0, <1>1, <1>16 DEF ReplayThrows, Recorded
<1>17. CASE ReportFile(f)
  BY <1>0, <1>1, <1>17 DEF ReportFile, Recorded, LifeOf, None
<1> QED
  BY <1>3, <1>4, <1>5, <1>6, <1>7, <1>8, <1>9, <1>10, <1>11, <1>12,
     <1>13, <1>14, <1>15, <1>16, <1>17
     DEF FileStep, Prepare, RunCase, RunFile, Report

(* Steps keep what the state manager says of the cycle: files that step have *)
(* paths of their own.                                                       *)
LEMMA ModulesKept ==
  ASSUME PathsApart, TypeOK, Shape, LifeInv, CutInv, ModulesInv, [Next]_vars
  PROVE  ModulesInv'
<1> USE DEF stateVars
<1>1. ASSUME NEW f \in Files, FileStep(f), Undisturbed' PROVE ModulesInv'
  <2>1. Frame(f) /\ Undisturbed /\ Now(f) /\ Now(f)'
    BY <1>1, FrameOfStep, QuietStep
  <2>2. \A g \in Files : Now(g)' = Now(g)
    BY <2>1 DEF Frame, Now
  <2>3. ModuleOf(f)'
    BY <1>1, <2>1, ModuleKept DEF ModulesInv
  <2>4. ASSUME NEW g \in Files, g # f, Now(g) PROVE ModuleOf(g)'
    <3>1. PathOf[g] # PathOf[f] /\ PathOf[g] \in Paths
      BY <2>1, <2>4, DispatchAssumption DEF PathsApart, Now
    <3>2. runningModules'[PathOf[g]] = runningModules[PathOf[g]]
      BY <2>1, <3>1 DEF Frame
    <3>3. Recorded(g)' = Recorded(g) /\ case'[g] = case[g]
      BY <2>1, <2>4 DEF Frame, Recorded
    <3>4. g \in testModules' <=> g \in testModules
      BY <2>1, <2>4 DEF Frame
    <3>5. ModuleOf(g)
      BY <2>1, <2>4 DEF ModulesInv
    <3> QED BY <3>2, <3>3, <3>4, <3>5, CasesAlone DEF ModuleOf
  <2>5. \A g \in testModules' : Now(g)'
    BY <2>1, <2>2 DEF Frame, ModulesInv
  <2>6. ASSUME NEW p \in Paths, \A g \in Files : Now(g)' => PathOf[g] # p
        PROVE  /\ runningModules'[p].results = {}
               /\ runningModules'[p].running = {}
    <3>1. p # PathOf[f]
      BY <2>1, <2>6
    <3>2. runningModules'[p] = runningModules[p]
      BY <2>1, <3>1 DEF Frame
    <3> QED BY <2>1, <2>2, <2>6, <3>2 DEF ModulesInv
  <2> QED BY <2>2, <2>3, <2>4, <2>5, <2>6 DEF ModulesInv
<1>2. ASSUME NextCycle, Undisturbed' PROVE ModulesInv'
  <2>1. /\ cycle \in Nat /\ cycle' = cycle + 1
        /\ \A g \in Files : Cycle[g] \in Nat /\ PathOf[g] \in Paths
    BY <1>2, DispatchAssumption DEF NextCycle, TypeOK
  <2>2. /\ testModules' = {} /\ case' = case /\ result' = result
        /\ \A p \in Paths : /\ runningModules'[p].results = {}
                            /\ runningModules'[p].running = {}
    BY <1>2 DEF NextCycle, Absent
  <2>3. ASSUME NEW g \in Files, Now(g)' PROVE ModuleOf(g)'
    <3>1. Cycle[g] = cycle + 1
      BY <2>1, <2>3 DEF Now
    <3>2. at'[g] = "building" /\ at[g] = "idle"
      BY <1>2, <2>1, <3>1 DEF NextCycle, LifeInv, LifeOf
    <3>3. \A k \in CaseIds(g) : case[g][k] = "todo"
      BY <3>2 DEF LifeInv, LifeOf, Before
    <3>4. Reported(g)' = {} /\ RunningIds(g)' = {}
      BY <2>2, <3>3, NothingYet, CasesAlone
    <3> QED BY <2>1, <2>2, <3>2, <3>4 DEF ModuleOf, Recorded
  <2> QED BY <2>2, <2>3 DEF ModulesInv
<1>3. CASE UNCHANGED vars
  <2>1. \A g \in Files : case'[g] = case[g] /\ Recorded(g)' = Recorded(g)
                           /\ Now(g)' = Now(g)
    BY <1>3 DEF vars, Recorded, Now
  <2>2. \A g \in Files : ModuleOf(g) => ModuleOf(g)'
    BY <1>3, <2>1, CasesAlone DEF vars, ModuleOf
  <2>3. Undisturbed' = Undisturbed
    BY <1>3 DEF vars, Undisturbed
  <2> QED BY <1>3, <2>1, <2>2, <2>3 DEF vars, ModulesInv, TypeOK
<1> QED BY <1>1, <1>2, <1>3 DEF Next, FileStep, ModulesInv

(* What is to be replayed is what the worker did and what it died under.     *)
ReplayInv ==
  \A f \in Files :
    Undisturbed /\ at[f] = "replaying" =>
      result[f].cases = Reported(f) \cup CrashedOf(f)

(* The reporters have been told of each case that has ended.                 *)
ToldInv == \A f \in Files : Reported(f) \subseteq told

(* The crashed cases are those that were running.                            *)
LEMMA CrashedAre ==
  ASSUME NEW f \in Files, runningModules[PathOf[f]].running = RunningIds(f)
  PROVE  CrashedCases(f) = CrashedOf(f)
  BY DEF CrashedCases, CrashedOf, RunningIds, CaseResult

(* What waits to be replayed is what the worker did.                         *)
LEMMA ReplayKept ==
  ASSUME TypeOK, Shape, LifeInv, CutInv, ModulesInv, ReplayInv, [Next]_vars
  PROVE  ReplayInv'
<1> USE DEF stateVars
<1>1. ASSUME NEW f \in Files, FileStep(f), Undisturbed' PROVE ReplayInv'
  <2>1. Frame(f) /\ Undisturbed /\ Now(f)
    BY <1>1, FrameOfStep, QuietStep
  <2>2. \A g \in Files : g # f => /\ at'[g] = at[g] /\ case'[g] = case[g]
                                  /\ result'[g] = result[g]
    BY <2>1 DEF Frame
  <2>3. \A g \in Files : g # f /\ at'[g] = "replaying" =>
          result'[g].cases = Reported(g)' \cup CrashedOf(g)'
    BY <2>1, <2>2, CasesAlone DEF ReplayInv
  <2>4. ASSUME at'[f] = "replaying"
        PROVE  result'[f].cases = Reported(f)' \cup CrashedOf(f)'
    <3>0. DOMAIN at = Files /\ DOMAIN result = Files
      BY DEF TypeOK, Shape
    <3>2. Crash(f)
      BY <3>0, <1>1, <2>4
         DEF FileStep, Prepare, RunCase, RunFile, Report, BuildTask, Enqueue,
             StartTask, AskBail, StartCase, EndCase, SkipFile, Answer,
             StartFile, LoadFile, LoadFails, EndFile, Replay, ReplayThrows,
             ReportFile
    <3>3. case' = case /\ result'[f] = WorkerErrorToResult(f)
            /\ at[f] \in InWorker
      BY <3>0, <3>2 DEF Crash
    <3>4. /\ runningModules[PathOf[f]].results = Reported(f)
          /\ runningModules[PathOf[f]].running = RunningIds(f)
      BY <2>1, <3>3 DEF ModulesInv, ModuleOf, Recorded, InWorker
    <3>5. result'[f].cases = Reported(f) \cup CrashedOf(f)
      BY <3>3, <3>4, CrashedAre DEF WorkerErrorToResult
    <3> QED BY <3>3, <3>5, CasesAlone
  <2> QED BY <2>3, <2>4 DEF ReplayInv
<1>2. ASSUME NextCycle, Undisturbed' PROVE ReplayInv'
  <2>1. Undisturbed
    BY <1>2, QuietCycle
  <2>2. case' = case /\ result' = result
    BY <1>2 DEF NextCycle
  <2>3. \A g \in Files : at'[g] = "replaying" => at[g] = "replaying"
    BY <1>2 DEF NextCycle
  <2>4. \A g \in Files : /\ Reported(g)' = Reported(g)
                         /\ CrashedOf(g)' = CrashedOf(g)
    BY <2>2, CasesAlone
  <2> QED BY <2>1, <2>2, <2>3, <2>4 DEF ReplayInv
<1>3. CASE UNCHANGED vars
  <2>1. \A g \in Files : /\ Reported(g)' = Reported(g)
                         /\ CrashedOf(g)' = CrashedOf(g)
    BY <1>3, CasesAlone DEF vars
  <2>2. Undisturbed' = Undisturbed
    BY <1>3 DEF vars, Undisturbed
  <2> QED BY <1>3, <2>1, <2>2 DEF vars, ReplayInv
<1> QED BY <1>1, <1>2, <1>3 DEF Next, FileStep, ReplayInv

(* Steps keep the reporters informed.                                        *)
LEMMA ToldKept ==
  ASSUME TypeOK, Shape, ToldInv, [Next]_vars
  PROVE  ToldInv'
<1> USE DEF stateVars
<1>1. ASSUME NEW f \in Files, FileStep(f) PROVE ToldInv'
  <2>1. Frame(f) /\ told \subseteq told'
    BY <1>1, FrameOfStep DEF Frame
  <2>2. \A g \in Files : g # f => Reported(g)' = Reported(g)
    BY <2>1, CasesAlone DEF Frame
  <2>3. CASE case' = case
    BY <2>1, <2>3, CasesAlone DEF ToldInv
  <2>4. ASSUME NEW k \in CaseIds(f), AskBail(f, k) PROVE ToldInv'
    BY <2>1, <2>2, <2>4, CaseAsked DEF ToldInv
  <2>5. ASSUME NEW k \in CaseIds(f), StartCase(f, k) PROVE ToldInv'
    BY <2>1, <2>2, <2>5, CaseStarts DEF ToldInv
  <2>6. ASSUME NEW k \in CaseIds(f), EndCase(f, k) PROVE ToldInv'
    <3>1. PICK s \in Ended : EndsWith(f, k, s)
      BY <2>6 DEF EndCase, EndsWith
    <3>2. Reported(f)' = Reported(f) \cup {CaseResult(f, k, s)}
      BY <3>1, CaseEnds
    <3>3. told' = told \cup {CaseResult(f, k, s)}
      BY <3>1 DEF EndsWith
    <3>4. Reported(f)' \subseteq told'
      BY <3>2, <3>3 DEF ToldInv
    <3> QED BY <2>1, <2>2, <3>4 DEF ToldInv
  <2> QED
    BY <1>1, <2>3, <2>4, <2>5, <2>6
       DEF FileStep, Prepare, RunCase, RunFile, Report, BuildTask, Enqueue,
           StartTask, SkipFile, Answer, StartFile, LoadFile, LoadFails,
           EndFile, Crash, Replay, ReplayThrows, ReportFile
<1>2. CASE NextCycle \/ UNCHANGED vars
  <2>1. told' = told /\ case' = case
    BY <1>2 DEF NextCycle, vars
  <2> QED BY <2>1, CasesAlone DEF ToldInv
<1> QED BY <1>1, <1>2 DEF Next, FileStep

(* CasesAccounted, of a file.                                                *)
AccountOf(f) ==
  LET started == Reported(f) \cup {CaseResult(f, k, "fail") : k \in Died(f)}
  IN  result[f].cases = started /\ started \subseteq told

(* A step of a file that records its result accounts for its cases.          *)
LEMMA AccountKept ==
  ASSUME TypeOK, Shape, LifeInv, Undisturbed, ReplayInv, ToldInv,
         NEW f \in Files, FileStep(f), Recorded(f) => AccountOf(f),
         ModuleOf(f), Recorded(f)'
  PROVE  AccountOf(f)'
<1>0. /\ DOMAIN at = Files /\ DOMAIN result = Files /\ DOMAIN case = Files
      /\ LifeOf(f) /\ Frame(f) /\ Reported(f) \subseteq told
      /\ told \subseteq told'
  BY FrameOfStep DEF TypeOK, Shape, LifeInv, Frame, ToldInv
<1> USE DEF stateVars
<1>1. CASE Recorded(f)
  <2>1. at[f] = "reporting"
    BY <1>0, <1>1 DEF Recorded, Frame
  <2>2. ReportFile(f)
    BY <1>0, <2>1, FileStep(f)
       DEF FileStep, Prepare, RunCase, RunFile, Report, BuildTask, Enqueue,
           StartTask, AskBail, StartCase, EndCase, SkipFile, StartFile,
           LoadFile, LoadFails, EndFile, Crash, InWorker, Replay, ReplayThrows
  <2>3. /\ case' = case /\ result' = result /\ told' = told
        /\ at'[f] \in {"done", "failed"}
    BY <1>0, <2>2 DEF ReportFile
  <2>4. Died(f)' = Died(f) /\ Reported(f)' = Reported(f)
    BY <2>1, <2>3, CasesAlone DEF Died, InWorker
  <2> QED BY <1>1, <2>3, <2>4 DEF AccountOf
<1>2. CASE Replay(f)
  <2>1. result[f].cases = Reported(f) \cup CrashedOf(f)
    BY <1>2 DEF Replay, ReplayInv
  <2>2. /\ case' = case /\ result' = result /\ at'[f] = "reporting"
        /\ told' = told \cup result[f].cases
    BY <1>0, <1>2 DEF Replay
  <2>3. Reported(f)' = Reported(f) /\ Died(f)' = Running(f)
    BY <2>2, CasesAlone DEF Died, InWorker, Running
  <2> QED BY <2>1, <2>2, <2>3 DEF AccountOf, CrashedOf
<1>3. ASSUME case' = case, at'[f] = "reporting", Running(f) = {},
             result'[f].cases = Reported(f)
      PROVE  AccountOf(f)'
  <2>1. Reported(f)' = Reported(f) /\ Died(f)' = {}
    BY <1>3, CasesAlone DEF Died, Running
  <2> QED BY <1>0, <1>3, <2>1 DEF AccountOf
<1>4. CASE SkipFile(f)
  <2>1. Reported(f) = {} /\ Running(f) = {}
    BY <1>0, <1>4, NothingYet DEF SkipFile, LifeOf, Before
  <2> QED BY <1>0, <1>3, <1>4, <2>1 DEF SkipFile, Answer
<1>5. CASE LoadFails(f)
  <2>1. Reported(f) = {} /\ Running(f) = {}
    BY <1>5, NothingYet DEF LoadFails
  <2> QED BY <1>0, <1>3, <1>5, <2>1 DEF LoadFails, Answer
<1>6. CASE EndFile(f)
  <2>1. Running(f) = {}
    BY <1>6 DEF EndFile, Running, Ended
  <2> QED BY <1>0, <1>3, <1>6, <2>1 DEF EndFile, Answer
<1>7. CASE Crash(f) /\ CrashedCases(f) = {}
  <2>1. /\ runningModules[PathOf[f]].results = Reported(f)
        /\ runningModules[PathOf[f]].running = RunningIds(f)
    BY <1>7 DEF ModuleOf, Recorded, Crash, InWorker
  <2>2. CrashedOf(f) = {} /\ Running(f) = {}
    BY <1>7, <2>1, CrashedAre DEF CrashedOf
  <2>3. result'[f].cases = Reported(f)
    BY <1>0, <1>7, <2>1 DEF Crash, WorkerErrorToResult
  <2> QED BY <1>0, <1>3, <1>7, <2>2, <2>3 DEF Crash
<1>8. CASE BuildTask(f)
  <2>1. result'[f] = None /\ at'[f] \in {"gated", "failed"}
    BY <1>0, <1>8 DEF BuildTask, LifeOf, Before
  <2> QED BY <2>1 DEF Recorded
<1>9. CASE ReplayThrows(f)
  <2>1. result'[f] = None /\ at'[f] = "failed"
    BY <1>0, <1>9 DEF ReplayThrows
  <2> QED BY <2>1 DEF Recorded
<1>10. ASSUME Enqueue(f) \/ StartTask(f) \/ RunCase(f) \/ StartFile(f)
                \/ LoadFile(f) \/ (Crash(f) /\ CrashedCases(f) # {})
       PROVE  FALSE
  <2>1. at'[f] \in {"queued", "starting", "loading", "tests", "replaying"}
    BY <1>0, <1>10
       DEF Enqueue, StartTask, RunCase, AskBail, StartCase, EndCase,
           StartFile, LoadFile, Crash
  <2> QED BY <2>1 DEF Recorded
<1>11. CASE ReportFile(f)
  BY <1>1, <1>11 DEF ReportFile, Recorded
<1> QED
  BY <1>2, <1>4, <1>5, <1>6, <1>7, <1>8, <1>9, <1>10, <1>11
     DEF FileStep, Prepare, RunFile, Report

(* Steps keep recorded results.                                              *)
LEMMA AccountsKept ==
  ASSUME TypeOK, Shape, LifeInv, CutInv, ModulesInv, ReplayInv, ToldInv,
         CasesAccounted, [Next]_vars
  PROVE  CasesAccounted'
<1> SUFFICES ASSUME NEW g \in Files, Undisturbed', Recorded(g)'
             PROVE  AccountOf(g)'
  BY DEF CasesAccounted, AccountOf
<1>0. Undisturbed /\ Recorded(g) => AccountOf(g)
  BY DEF CasesAccounted, AccountOf
<1>1. ASSUME case'[g] = case[g], result'[g] = result[g], at'[g] = at[g],
             told \subseteq told', Undisturbed
      PROVE  AccountOf(g)'
  <2>1. Recorded(g)
    BY <1>1 DEF Recorded
  <2>2. Died(g)' = Died(g) /\ Reported(g)' = Reported(g)
    BY <1>1, CasesAlone DEF Died
  <2> QED BY <1>0, <1>1, <2>1, <2>2 DEF AccountOf
<1>2. ASSUME NEW f \in Files, FileStep(f) PROVE AccountOf(g)'
  <2>1. Frame(f) /\ Undisturbed /\ Now(f)
    BY <1>2, FrameOfStep, QuietStep
  <2>2. CASE f # g
    BY <1>1, <2>1, <2>2 DEF Frame
  <2>3. CASE f = g
    <3>1. ModuleOf(f)
      BY <2>1 DEF ModulesInv
    <3> QED BY <1>0, <1>2, <2>1, <2>3, <3>1, AccountKept
  <2> QED BY <2>2, <2>3
<1>3. CASE NextCycle
  <2>1. Undisturbed
    BY <1>3, QuietCycle
  <2>2. at'[g] = at[g]
    BY <1>3 DEF NextCycle, Recorded
  <2> QED BY <1>1, <1>3, <2>1, <2>2 DEF NextCycle
<1>4. CASE UNCHANGED vars
  BY <1>1, <1>4 DEF vars, Undisturbed
<1> QED BY <1>2, <1>3, <1>4 DEF Next, FileStep

(* As many files are on workers as there are workers, and as many cases of a *)
(* file are under way as may be.                                             *)
WorkerFiles == {g \in Files : at[g] \in InWorker}

SlotsInv ==
  /\ Cardinality(WorkerFiles) <= MaxWorkers
  /\ \A f \in Files : at[f] = "tests" => Cardinality(UnderWay(f)) <= AtOnce[f]

(* The cases that failed.                                                    *)
FailedCases(f) == {k \in CaseIds(f) : case[f][k] = "fail"}

(* Sets of cases and of files are finite.                                    *)
LEMMA CaseSetsFinite ==
  ASSUME NEW f \in Files, NEW K, K \subseteq CaseIds(f)
  PROVE  IsFiniteSet(K) /\ Cardinality(K) \in Nat
<1>1. IsFiniteSet(CaseIds(f))
  BY DispatchAssumption, FS_Interval DEF CaseIds
<1> QED BY <1>1, FS_Subset, FS_CardinalityType

LEMMA FileSetsFinite ==
  ASSUME NEW S, S \subseteq Files
  PROVE  IsFiniteSet(S) /\ Cardinality(S) \in Nat
  BY DispatchAssumption, FS_Subset, FS_CardinalityType

(* As many results as there are cases.                                       *)
LEMMA ImageOfCases ==
  ASSUME NEW f \in Files, NEW K, K \subseteq CaseIds(f)
  PROVE  Cardinality({CaseResult(f, k, "fail") : k \in K}) = Cardinality(K)
<1> DEFINE T == {CaseResult(f, k, "fail") : k \in K}
           m == [k \in K |-> CaseResult(f, k, "fail")]
<1>1. \A j, k \in K : CaseResult(f, j, "fail") = CaseResult(f, k, "fail")
                        => j = k
  BY DEF CaseResult, IdOf
<1>2. m \in Bijection(K, T)
  BY <1>1 DEF Bijection, Injection, Surjection, IsInjective
<1>3. IsFiniteSet(K) /\ ExistsBijection(K, T)
  BY <1>2, CaseSetsFinite DEF ExistsBijection
<1> HIDE DEF T, m
<1> QED BY <1>3, FS_Bijection DEF T

(* The failures among what a worker has reported ...                         *)
LEMMA FailedReported ==
  ASSUME NEW f \in Files
  PROVE  FailedIn(Reported(f)) = Cardinality(FailedCases(f))
<1>1. {r \in Reported(f) : r.status = "fail"} =
        {CaseResult(f, k, "fail") : k \in FailedCases(f)}
  BY DEF Reported, FailedCases, CaseResult, Ended
<1> QED BY <1>1, ImageOfCases DEF FailedIn, FailedCases

(* ... and among what is recorded.                                           *)
LEMMA FailedRecorded ==
  ASSUME NEW f \in Files, AccountOf(f)
  PROVE  FailedIn(result[f].cases) =
           Cardinality(FailedCases(f)) + Cardinality(Died(f))
<1> DEFINE K == FailedCases(f) \cup Died(f)
<1>1. {r \in result[f].cases : r.status = "fail"} =
        {CaseResult(f, k, "fail") : k \in K}
  BY DEF AccountOf, Reported, FailedCases, CaseResult, Ended, Died
<1>2. FailedIn(result[f].cases) = Cardinality(K)
  BY <1>1, ImageOfCases DEF FailedIn, FailedCases, Died
<1>3. FailedCases(f) \cap Died(f) = {}
  BY DEF FailedCases, Died
<1>4. /\ IsFiniteSet(FailedCases(f)) /\ IsFiniteSet(Died(f))
      /\ Cardinality(FailedCases(f)) \in Nat /\ Cardinality(Died(f)) \in Nat
  BY CaseSetsFinite DEF FailedCases, Died
<1>5. Cardinality(K) = Cardinality(FailedCases(f)) + Cardinality(Died(f))
                         - Cardinality(FailedCases(f) \cap Died(f))
  BY <1>4, FS_Union
<1>6. Cardinality(FailedCases(f) \cap Died(f)) = 0
  BY <1>3, FS_EmptySet
<1> QED BY <1>2, <1>4, <1>5, <1>6

(* The failures of a file, and its failed cases.                             *)
LEMMA FailuresBound ==
  ASSUME NEW f \in Files
  PROVE  /\ Failures(f) \in Nat /\ Cardinality(FailedCases(f)) \in Nat
         /\ Cardinality(FailedCases(f)) <= Failures(f)
         /\ ~ Recorded(f) => Failures(f) = Cardinality(FailedCases(f))
<1>1. Cardinality(FailedCases(f)) \in Nat /\ Cardinality(Died(f)) \in Nat
  BY CaseSetsFinite DEF FailedCases, Died
<1>2. Failures(f) = Cardinality(FailedCases(f))
        + (IF ~Recorded(f) THEN 0
           ELSE IF result[f].status = "fail"
                     /\ \A k \in CaseIds(f) : case[f][k] \notin
                          Ended \cup {"running"}
           THEN 1 ELSE Cardinality(Died(f)))
  BY Zenon DEF Failures, FailedCases
<1> QED BY <1>1, <1>2

(* The count of a recorded file is that of its failures.                     *)
LEMMA CountOfRecorded ==
  ASSUME NEW f \in Files, Recorded(f), AccountOf(f)
  PROVE  CountOf(f) = Failures(f)
<1>0. Failures(f) = Cardinality(FailedCases(f))
        + (IF result[f].status = "fail"
                /\ \A k \in CaseIds(f) : case[f][k] \notin
                     Ended \cup {"running"}
           THEN 1 ELSE Cardinality(Died(f)))
  BY Zenon DEF Failures, FailedCases
<1>1. at[f] \notin InWorker
  BY DEF Recorded, InWorker
<1>2. result[f].cases =
        Reported(f) \cup {CaseResult(f, k, "fail") : k \in Died(f)}
  BY DEF AccountOf
<1>3. CASE result[f].cases = {}
  <2>1. \A k \in CaseIds(f) : case[f][k] \notin Ended \cup {"running"}
    BY <1>1, <1>2, <1>3 DEF Reported, Died
  <2>2. FailedCases(f) = {} /\ Died(f) = {}
    BY <2>1 DEF FailedCases, Died, Ended
  <2>3. Cardinality(FailedCases(f)) = 0 /\ Cardinality(Died(f)) = 0
    BY <2>2, FS_EmptySet
  <2> QED BY <1>0, <1>3, <2>1, <2>3 DEF CountOf
<1>4. CASE result[f].cases # {}
  <2>1. ~ \A k \in CaseIds(f) : case[f][k] \notin Ended \cup {"running"}
    BY <1>2, <1>4 DEF Reported, Died
  <2>2. Failures(f) = Cardinality(FailedCases(f)) + Cardinality(Died(f))
    BY <1>0, <2>1
  <2> QED BY <1>4, <2>2, FailedRecorded DEF CountOf
<1> QED BY <1>3, <1>4

(* The files of the cycle.                                                   *)
NowFiles == {f \in Files : Now(f)}

(* The count is exact: the recorded files of the cycle are testModules, and  *)
(* the others have, one by one, the entries of their paths.                  *)
LEMMA CountExact ==
  ASSUME PathsApart, TypeOK, Shape, ModulesInv, CasesAccounted, Undisturbed
  PROVE  /\ GetCountOfFailedTests = FailuresOfCycle
         /\ GetCountOfFailedTests =
              SumFunctionOnSet([f \in Files |-> Failures(f)], NowFiles)
<1> DEFINE A == {f \in NowFiles : ~ Recorded(f)}
           R == {f \in NowFiles : Recorded(f)}
           F == [f \in Files |-> Failures(f)]
           C == [p \in Paths |-> FailedIn(runningModules[p].results)]
           D == [f \in testModules |-> CountOf(f)]
           E == [f \in NowFiles |-> Failures(f)]
<1>1. /\ IsFiniteSet(A) /\ IsFiniteSet(R) /\ IsFiniteSet(NowFiles)
      /\ A \cap R = {} /\ NowFiles = A \cup R
      /\ A \subseteq Files /\ R \subseteq Files
  BY FileSetsFinite DEF NowFiles
<1>2. testModules = R
  <2>1. \A f \in testModules : f \in Files /\ Now(f)
    BY DEF ModulesInv, TypeOK
  <2>2. \A f \in Files : Now(f) => (f \in testModules <=> Recorded(f))
    BY DEF ModulesInv, ModuleOf
  <2> QED BY <2>1, <2>2 DEF NowFiles
<1>3. \A f \in R : AccountOf(f)
  BY <1>1 DEF CasesAccounted, AccountOf
<1>4. \A f \in R : D[f] = F[f]
  BY <1>1, <1>2, <1>3, CountOfRecorded
<1>5. \A f \in Files : F[f] \in Nat
  BY FailuresBound
<1>6. \A f \in A : C[PathOf[f]] = F[f] /\ PathOf[f] \in Paths
  <2> SUFFICES ASSUME NEW f \in A
               PROVE  C[PathOf[f]] = F[f] /\ PathOf[f] \in Paths
    OBVIOUS
  <2>1. f \in Files /\ PathOf[f] \in Paths /\ ~ Recorded(f) /\ Now(f)
    BY DispatchAssumption DEF NowFiles
  <2>2. runningModules[PathOf[f]].results = Reported(f)
    BY <2>1 DEF ModulesInv, ModuleOf
  <2> QED BY <2>1, <2>2, FailedReported, FailuresBound
<1>7. FailedIn({}) = 0
  <2>1. {r \in {} : r.status = "fail"} = {}
    OBVIOUS
  <2> QED BY <2>1, FS_EmptySet DEF FailedIn
<1>8. \A p \in Paths : (\A f \in A : PathOf[f] # p) => C[p] = 0
  <2> SUFFICES ASSUME NEW p \in Paths, \A f \in A : PathOf[f] # p
               PROVE  runningModules[p].results = {}
    BY <1>7
  <2>1. CASE \E f \in Files : Now(f) /\ PathOf[f] = p
    BY <2>1 DEF NowFiles, ModulesInv, ModuleOf
  <2>2. CASE \A f \in Files : Now(f) => PathOf[f] # p
    BY <2>2 DEF ModulesInv
  <2> QED BY <2>1, <2>2
<1>9. \A p \in Paths : C[p] \in Int
  <2> SUFFICES ASSUME NEW p \in Paths PROVE C[p] \in Int
    OBVIOUS
  <2>1. CASE \A f \in A : PathOf[f] # p
    <3>1. C[p] = 0
      BY <1>8, <2>1
    <3> HIDE DEF C
    <3> QED BY <3>1
  <2>2. CASE \E f \in A : PathOf[f] = p
    <3>1. PICK f \in A : PathOf[f] = p
      BY <2>2
    <3>2. F[f] \in Nat /\ C[p] = F[f]
      BY <1>1, <1>5, <1>6, <3>1
    <3> HIDE DEF C, F
    <3> QED BY <3>2
  <2> QED BY <2>1, <2>2
<1>10. \A f, g \in A : PathOf[f] = PathOf[g] => f = g
  BY DEF NowFiles, Now, PathsApart
<1>11. SumFunctionOnSet(C, Paths) = SumFunctionOnSet(F, A)
  <2>1. IsFiniteSet(Paths) /\ \A f \in A : F[f] \in Int
    BY <1>1, <1>5, DispatchAssumption
  <2> HIDE DEF A, F, C
  <2> QED BY <1>1, <1>6, <1>8, <1>9, <1>10, <2>1, SumMoves
<1>12. SumFunctionOnSet(D, R) = SumFunctionOnSet(F, R)
  <2> HIDE DEF R, F, D
  <2> QED BY <1>1, <1>4, SumIsSame
<1>13. SumFunctionOnSet(F, NowFiles) =
         SumFunctionOnSet(F, A) + SumFunctionOnSet(F, R)
  <2>1. \A f \in A \cup R : F[f] \in Int
    BY <1>1, <1>5
  <2> HIDE DEF A, R, F
  <2> QED BY <1>1, <2>1, SumOfUnion
<1>14. SumFunctionOnSet(E, NowFiles) = SumFunctionOnSet(F, NowFiles)
  <2>1. \A f \in NowFiles : E[f] = F[f]
    BY DEF NowFiles
  <2> HIDE DEF E, F
  <2> QED BY <1>1, <2>1, SumIsSame
<1>15. GetCountOfFailedTests =
         SumFunctionOnSet(C, Paths) + SumFunctionOnSet(D, R)
  <2>1. DOMAIN C = Paths /\ DOMAIN D = R
    BY <1>2
  <2>2. GetCountOfFailedTests = SumFunction(C) + SumFunction(D)
    BY DEF GetCountOfFailedTests
  <2> HIDE DEF C, D, R
  <2> QED BY <2>1, <2>2 DEF SumFunction
<1>16. FailuresOfCycle = SumFunctionOnSet(E, NowFiles)
  <2>1. DOMAIN E = NowFiles
    OBVIOUS
  <2>2. FailuresOfCycle = SumFunction(E)
    BY DEF FailuresOfCycle, NowFiles
  <2> HIDE DEF E
  <2> QED BY <2>1, <2>2 DEF SumFunction
<1> HIDE DEF A, R, C, D, E
<1> QED BY <1>11, <1>12, <1>13, <1>14, <1>15, <1>16

(* A set with one more element.                                              *)
LEMMA OneMore ==
  ASSUME NEW S, NEW x, IsFiniteSet(S)
  PROVE  /\ IsFiniteSet(S \cup {x}) /\ Cardinality(S \cup {x}) \in Nat
         /\ Cardinality(S \cup {x}) <= Cardinality(S) + 1
<1>1. /\ IsFiniteSet(S \cup {x})
      /\ Cardinality(S \cup {x}) =
           IF x \in S THEN Cardinality(S) ELSE Cardinality(S) + 1
  BY FS_AddElement
<1>2. Cardinality(S) \in Nat
  BY FS_CardinalityType
<1> QED BY <1>1, <1>2

(* Steps keep to the workers and to the cases that may run together.         *)
LEMMA SlotsKept ==
  ASSUME TypeOK, Shape, LifeInv, SlotsInv, [Next]_vars
  PROVE  SlotsInv'
<1> USE DEF stateVars
<1>0. /\ DOMAIN at = Files /\ DOMAIN case = Files
      /\ IsFiniteSet(WorkerFiles) /\ Cardinality(WorkerFiles) \in Nat
      /\ IsFiniteSet(WorkerFiles') /\ Cardinality(WorkerFiles') \in Nat
      /\ MaxWorkers \in Nat /\ \A g \in Files : AtOnce[g] \in Nat
  BY FileSetsFinite, DispatchAssumption DEF TypeOK, Shape, WorkerFiles
<1>1. ASSUME WorkerFiles' \subseteq WorkerFiles
      PROVE  Cardinality(WorkerFiles)' <= MaxWorkers
  <2>1. Cardinality(WorkerFiles') <= Cardinality(WorkerFiles)
    BY <1>0, <1>1, FS_Subset
  <2> QED BY <1>0, <2>1 DEF SlotsInv
<1>2. ASSUME NEW f \in Files, FileStep(f) PROVE SlotsInv'
  <2>1. Frame(f) /\ LifeOf(f)
    BY <1>2, FrameOfStep DEF LifeInv
  <2>2. \A g \in Files : g # f =>
          (at'[g] = "tests" => Cardinality(UnderWay(g))' <= AtOnce[g])
    BY <2>1, CasesAlone DEF Frame, SlotsInv
  <2>3. ASSUME at[f] \in InWorker \/ at'[f] \notin InWorker
        PROVE  Cardinality(WorkerFiles)' <= MaxWorkers
    <3>1. WorkerFiles' \subseteq WorkerFiles
      BY <2>1, <2>3 DEF Frame, WorkerFiles
    <3> QED BY <1>1, <3>1
  <2>4. CASE StartTask(f)
    <3>1. Cardinality(WorkerFiles) < MaxWorkers /\ at'[f] = "starting"
      BY <1>0, <2>4 DEF StartTask, WorkerFiles
    <3>2. WorkerFiles' \subseteq WorkerFiles \cup {f}
      BY <2>1 DEF Frame, WorkerFiles
    <3>3. /\ IsFiniteSet(WorkerFiles \cup {f})
          /\ Cardinality(WorkerFiles \cup {f}) <= Cardinality(WorkerFiles) + 1
      BY <1>0, OneMore
    <3>4. Cardinality(WorkerFiles') <= Cardinality(WorkerFiles \cup {f})
      BY <3>2, <3>3, FS_Subset
    <3>5. Cardinality(WorkerFiles \cup {f}) \in Nat
      BY <3>3, FS_CardinalityType
    <3>6. Cardinality(WorkerFiles') <= MaxWorkers
      BY <1>0, <3>1, <3>3, <3>4, <3>5
    <3> QED BY <2>2, <3>1, <3>6 DEF SlotsInv
  <2>5. ASSUME NEW k \in CaseIds(f), AskBail(f, k) PROVE SlotsInv'
    <3>1. /\ at' = at /\ at[f] = "tests"
          /\ Cardinality(UnderWay(f)) < AtOnce[f]
      BY <2>5 DEF AskBail, UnderWay
    <3>2. UnderWay(f)' \subseteq UnderWay(f) \cup {k}
      BY <2>5, CaseAsked
    <3>3. IsFiniteSet(UnderWay(f)) /\ Cardinality(UnderWay(f)) \in Nat
      BY CaseSetsFinite DEF UnderWay
    <3>4. /\ IsFiniteSet(UnderWay(f) \cup {k})
          /\ Cardinality(UnderWay(f) \cup {k}) <= Cardinality(UnderWay(f)) + 1
          /\ Cardinality(UnderWay(f) \cup {k}) \in Nat
      BY <3>3, OneMore
    <3>5. /\ Cardinality(UnderWay(f)') <= Cardinality(UnderWay(f) \cup {k})
          /\ Cardinality(UnderWay(f)') \in Nat
      BY <3>2, <3>4, FS_Subset, FS_CardinalityType
    <3>6. Cardinality(UnderWay(f)') <= AtOnce[f]
      BY <1>0, <3>1, <3>3, <3>4, <3>5
    <3>7. Cardinality(WorkerFiles)' <= MaxWorkers
      BY <2>3, <3>1 DEF InWorker
    <3> QED BY <2>2, <3>6, <3>7 DEF SlotsInv
  <2>6. ASSUME NEW k \in CaseIds(f), StartCase(f, k) PROVE SlotsInv'
    <3>1. UnderWay(f)' = UnderWay(f) /\ at' = at /\ at[f] = "tests"
      BY <2>6, CaseStarts DEF StartCase
    <3> QED BY <2>2, <2>3, <3>1 DEF SlotsInv, InWorker
  <2>7. ASSUME NEW k \in CaseIds(f), EndCase(f, k) PROVE SlotsInv'
    <3>1. PICK s \in Ended : EndsWith(f, k, s)
      BY <2>7 DEF EndCase, EndsWith
    <3>2. UnderWay(f)' \subseteq UnderWay(f)
      BY <3>1, CaseEnds
    <3>3. at' = at /\ at[f] = "tests"
      BY <2>7 DEF EndCase
    <3>4. /\ IsFiniteSet(UnderWay(f)) /\ Cardinality(UnderWay(f)) \in Nat
          /\ Cardinality(UnderWay(f)') \in Nat
      BY <3>2, CaseSetsFinite DEF UnderWay
    <3>5. Cardinality(UnderWay(f)') <= Cardinality(UnderWay(f))
      BY <3>2, <3>4, FS_Subset
    <3>6. Cardinality(UnderWay(f)') <= AtOnce[f]
      BY <1>0, <3>3, <3>4, <3>5 DEF SlotsInv
    <3> QED BY <2>2, <2>3, <3>3, <3>6 DEF SlotsInv, InWorker
  <2>8. CASE LoadFile(f)
    <3>1. UnderWay(f)' = {} /\ at[f] \in InWorker
      BY <2>1, <2>8, NothingYet, CasesAlone
         DEF LoadFile, LifeOf, Before, InWorker
    <3>2. Cardinality(UnderWay(f)') = 0
      BY <3>1, FS_EmptySet
    <3>3. Cardinality(UnderWay(f)') <= AtOnce[f]
      BY <1>0, <3>2
    <3> QED BY <2>2, <2>3, <3>1, <3>3 DEF SlotsInv
  <2>9. CASE /\ at[f] \in InWorker \/ at'[f] \notin InWorker
             /\ at'[f] # "tests"
    BY <2>2, <2>3, <2>9 DEF SlotsInv
  <2> QED
    BY <1>0, <1>2, <2>4, <2>5, <2>6, <2>7, <2>8, <2>9
       DEF FileStep, Prepare, RunCase, RunFile, Report, BuildTask, Enqueue,
           SkipFile, Answer, StartFile, LoadFails, EndFile, Crash, Replay,
           ReplayThrows, ReportFile, InWorker
<1>3. CASE NextCycle \/ UNCHANGED vars
  <2>1. case' = case /\ \A g \in Files : at'[g] \in InWorker \cup {"tests"}
                                           => at'[g] = at[g]
    BY <1>3 DEF NextCycle, vars, InWorker
  <2>2. WorkerFiles' \subseteq WorkerFiles
    BY <2>1 DEF WorkerFiles
  <2>3. \A g \in Files : UnderWay(g)' = UnderWay(g)
    BY <2>1, CasesAlone
  <2> QED BY <1>1, <2>1, <2>2, <2>3 DEF SlotsInv
<1> QED BY <1>2, <1>3 DEF Next, FileStep

-----------------------------------------------------------------------------
(* What may be under way on as many files as there are workers.              *)
LEMMA MostIsMost ==
  ASSUME NEW S, S \subseteq Files, Cardinality(S) <= MaxWorkers
  PROVE  /\ MostAtOnce \in Nat
         /\ SumFunctionOnSet(AtOnce, S) <= MostAtOnce
<1> DEFINE At(U) == SumFunction([f \in U |-> AtOnce[f]])
           Few == {U \in SUBSET Files : Cardinality(U) <= MaxWorkers}
           T == {At(U) : U \in Few}
           n == SumFunctionOnSet(AtOnce, Files)
<1>1. \A f \in Files : AtOnce[f] \in Nat
  BY DispatchAssumption
<1>2. ASSUME NEW U \in SUBSET Files
      PROVE  At(U) = SumFunctionOnSet(AtOnce, U) /\ At(U) \in Nat /\ At(U) <= n
  <2> DEFINE g == [f \in U |-> AtOnce[f]]
  <2>1. IsFiniteSet(U) /\ U \subseteq Files /\ IsFiniteSet(Files)
    BY FileSetsFinite
  <2>2. DOMAIN g = U /\ \A f \in U : g[f] = AtOnce[f]
    OBVIOUS
  <2>3. At(U) = SumFunctionOnSet(g, U)
    BY <2>2 DEF SumFunction
  <2>4. SumFunctionOnSet(g, U) = SumFunctionOnSet(AtOnce, U)
    <3> HIDE DEF g
    <3> QED BY <2>1, <2>2, SumIsSame
  <2>5. SumFunctionOnSet(AtOnce, U) <= n
    BY <1>1, <2>1, SumOfSubset
  <2>6. SumFunctionOnSet(AtOnce, U) \in Nat
    BY <1>1, <2>1, SumIsNat
  <2> HIDE DEF At, n
  <2> QED BY <2>3, <2>4, <2>5, <2>6
<1>3. n \in Nat
  BY <1>1, DispatchAssumption, SumIsNat
<1>4. T \in SUBSET Nat /\ \A x \in T : x <= n
  <2> HIDE DEF At, n
  <2> QED BY <1>2
<1>5. At(S) \in T
  OBVIOUS
<1>6. MostAtOnce = Max(T)
  BY DEF MostAtOnce
<1> HIDE DEF T, n
<1>7. At(S) <= Max(T) /\ Max(T) \in T
  BY <1>3, <1>4, <1>5, MaxIsGreatest
<1> HIDE DEF At
<1> QED BY <1>2, <1>4, <1>6, <1>7

(* MostAtOnce is a number.                                                   *)
LEMMA SomeAtOnce == MostAtOnce \in Nat
<1>1. Cardinality({}) <= MaxWorkers
  BY FS_EmptySet, DispatchAssumption
<1> QED BY <1>1, MostIsMost

(* A file's weight: the cases that failed and those that may yet.            *)
Load(f) == IF at[f] = "tests" THEN Cardinality(UnderWay(f)) ELSE 0
Weight(f) == Cardinality(FailedCases(f)) + Load(f)

(* The weight of the cycle is bounded: fewer cases than the limit had failed *)
(* when the last one was admitted.                                           *)
BailInv ==
  Undisturbed /\ bail > 0 =>
    SumFunctionOnSet([f \in Files |-> Weight(f)], NowFiles)
      <= bail - 1 + MostAtOnce

(* Weights are numbers, before and after a step.                             *)
LEMMA WeightIsNat ==
  ASSUME NEW f \in Files
  PROVE  /\ Weight(f) \in Nat /\ Weight(f)' \in Nat
         /\ Load(f) \in Nat /\ Load(f)' \in Nat
         /\ Cardinality(FailedCases(f)) \in Nat
         /\ Cardinality(FailedCases(f))' \in Nat
         /\ Cardinality(UnderWay(f)) \in Nat
         /\ Cardinality(UnderWay(f))' \in Nat
<1>1. /\ FailedCases(f) \subseteq CaseIds(f)
      /\ UnderWay(f) \subseteq CaseIds(f)
      /\ FailedCases(f)' \subseteq CaseIds(f)
      /\ UnderWay(f)' \subseteq CaseIds(f)
  BY DEF FailedCases, UnderWay
<1>2. /\ Cardinality(FailedCases(f)) \in Nat
      /\ Cardinality(FailedCases(f)') \in Nat
      /\ Cardinality(UnderWay(f)) \in Nat
      /\ Cardinality(UnderWay(f)') \in Nat
  BY <1>1, CaseSetsFinite
<1> QED BY <1>2 DEF Weight, Load

(* Only a case that is admitted adds to the weight of a file.                *)
LEMMA WeightFalls ==
  ASSUME TypeOK, Shape, LifeInv, NEW f \in Files, FileStep(f)
  PROVE  \/ Weight(f)' <= Weight(f)
         \/ \E k \in CaseIds(f) : AskBail(f, k) /\ ~ Refuses
<1>0. /\ DOMAIN at = Files /\ DOMAIN case = Files /\ LifeOf(f)
  BY DEF TypeOK, Shape, LifeInv
<1> USE DEF stateVars
<1>1. ASSUME case' = case, at'[f] # "tests" \/ at' = at
      PROVE  Weight(f)' <= Weight(f)
  <2>1. FailedCases(f)' = FailedCases(f) /\ UnderWay(f)' = UnderWay(f)
    BY <1>1 DEF FailedCases, UnderWay
  <2> QED BY <1>1, <2>1, WeightIsNat DEF Weight, Load
<1>2. CASE LoadFile(f)
  <2>1. /\ FailedCases(f)' = FailedCases(f) /\ UnderWay(f)' = {}
    BY <1>0, <1>2, NothingYet, CasesAlone
       DEF LoadFile, LifeOf, Before, FailedCases
  <2>2. Cardinality(UnderWay(f)') = 0
    BY <2>1, FS_EmptySet
  <2> QED BY <2>1, <2>2, WeightIsNat DEF Weight, Load
<1>3. ASSUME NEW k \in CaseIds(f), AskBail(f, k), Refuses
      PROVE  Weight(f)' <= Weight(f)
  <2>1. \A j \in CaseIds(f) : case'[f][j] = "fail" <=> case[f][j] = "fail"
    BY <1>0, <1>3 DEF AskBail, TypeOK
  <2>2. FailedCases(f)' = FailedCases(f) /\ UnderWay(f)' = UnderWay(f)
    BY <1>3, <2>1, CaseAsked DEF FailedCases
  <2> QED BY <1>3, <2>2, WeightIsNat DEF AskBail, Weight, Load
<1>4. ASSUME NEW k \in CaseIds(f), StartCase(f, k)
      PROVE  Weight(f)' <= Weight(f)
  <2>1. \A j \in CaseIds(f) : case'[f][j] = "fail" <=> case[f][j] = "fail"
    BY <1>0, <1>4 DEF StartCase, TypeOK
  <2>2. FailedCases(f)' = FailedCases(f) /\ UnderWay(f)' = UnderWay(f)
    BY <1>4, <2>1, CaseStarts DEF FailedCases
  <2> QED BY <1>4, <2>2, WeightIsNat DEF StartCase, Weight, Load
<1>5. ASSUME NEW k \in CaseIds(f), EndCase(f, k)
      PROVE  Weight(f)' <= Weight(f)
  <2>1. PICK s \in Ended : EndsWith(f, k, s)
    BY <1>5 DEF EndCase, EndsWith
  <2>2. /\ at' = at /\ at[f] = "tests"
        /\ \A j \in CaseIds(f) \ {k} : case'[f][j] = case[f][j]
    BY <1>0, <1>5, <2>1 DEF EndCase, EndsWith, TypeOK
  <2>3. FailedCases(f)' \subseteq FailedCases(f) \cup {k}
    BY <2>2 DEF FailedCases
  <2>4. UnderWay(f)' = UnderWay(f) \ {k} /\ k \in UnderWay(f)
    BY <2>1, CaseEnds
  <2>5. IsFiniteSet(UnderWay(f)) /\ IsFiniteSet(FailedCases(f))
    BY CaseSetsFinite DEF UnderWay, FailedCases
  <2>6. Cardinality(UnderWay(f)') = Cardinality(UnderWay(f)) - 1
    BY <2>4, <2>5, FS_RemoveElement
  <2>7. /\ IsFiniteSet(FailedCases(f) \cup {k})
        /\ Cardinality(FailedCases(f) \cup {k})
             <= Cardinality(FailedCases(f)) + 1
        /\ Cardinality(FailedCases(f) \cup {k}) \in Nat
    BY <2>5, OneMore
  <2>8. Cardinality(FailedCases(f)') <= Cardinality(FailedCases(f) \cup {k})
    BY <2>3, <2>7, FS_Subset
  <2> QED BY <2>2, <2>6, <2>7, <2>8, WeightIsNat DEF Weight, Load
<1> QED
  BY <1>0, <1>1, <1>2, <1>3, <1>4, <1>5, FileStep(f)
     DEF FileStep, Prepare, RunCase, RunFile, Report, BuildTask, Enqueue,
         StartTask, SkipFile, Answer, StartFile, LoadFails, EndFile, Crash,
         Replay, ReplayThrows, ReportFile

(* A case is admitted only while fewer have failed than the limit: what had  *)
(* failed, and what is under way then, bound the weight of the cycle.        *)
LEMMA BailAdmits ==
  ASSUME PathsApart, TypeOK, Shape, ModulesInv, CasesAccounted, SlotsInv',
         Undisturbed, bail > 0, NEW f \in Files, FileStep(f),
         NEW k \in CaseIds(f), AskBail(f, k), ~ Refuses
  PROVE  SumFunctionOnSet([g \in Files |-> Weight(g)'], NowFiles)
           <= bail - 1 + MostAtOnce
<1> DEFINE W == [g \in Files |-> Weight(g)']
           C == [g \in Files |-> Cardinality(FailedCases(g))]
           L == [g \in Files |-> Load(g)']
           F == [g \in Files |-> Failures(g)]
           S == {g \in NowFiles : at[g] = "tests"}
           R == NowFiles \ S
<1>0. /\ DOMAIN case = Files /\ at' = at /\ bail \in Nat
      /\ NowFiles \subseteq Files /\ IsFiniteSet(NowFiles)
  BY DispatchAssumption, FileSetsFinite
     DEF Shape, TypeOK, AskBail, NowFiles
<1>1. \A g \in Files : FailedCases(g)' = FailedCases(g)
  <2>1. case[f] \in [CaseIds(f) -> CaseStages]
    BY DEF TypeOK, CaseStages
  <2>2. \A g \in Files : \A j \in CaseIds(g) :
          case'[g][j] = "fail" <=> case[g][j] = "fail"
    BY <1>0, <2>1 DEF AskBail
  <2> QED BY <2>2 DEF FailedCases
<1>2. \A g \in NowFiles : /\ C[g] \in Nat /\ L[g] \in Nat /\ F[g] \in Nat
                          /\ W[g] = C[g] + L[g] /\ C[g] <= F[g]
  <2> SUFFICES ASSUME NEW g \in NowFiles
               PROVE  /\ C[g] \in Nat /\ L[g] \in Nat /\ F[g] \in Nat
                      /\ W[g] = C[g] + L[g] /\ C[g] <= F[g]
    OBVIOUS
  <2>1. g \in Files
    BY <1>0
  <2>2. Weight(g)' = Cardinality(FailedCases(g)) + Load(g)'
    BY <1>1, <2>1 DEF Weight
  <2> QED BY <2>1, <2>2, WeightIsNat, FailuresBound
<1>3. SumFunctionOnSet(W, NowFiles) =
        SumFunctionOnSet(C, NowFiles) + SumFunctionOnSet(L, NowFiles)
  <2> HIDE DEF W, C, L, F
  <2>1. \A g \in NowFiles : /\ C[g] \in Int /\ L[g] \in Int
                             /\ W[g] = C[g] + L[g]
    BY <1>2
  <2> QED BY <1>0, <2>1, SumAdds
<1>4. SumFunctionOnSet(C, NowFiles) <= SumFunctionOnSet(F, NowFiles)
  <2> HIDE DEF W, C, L, F
  <2>1. \A g \in NowFiles : /\ C[g] \in Int /\ F[g] \in Int
                             /\ C[g] <= F[g]
    BY <1>2
  <2> QED BY <1>0, <2>1, SumGrows
<1>5. SumFunctionOnSet(F, NowFiles) < bail
  <2>1. GetCountOfFailedTests = SumFunctionOnSet(F, NowFiles)
    BY CountExact
  <2>2. SumFunctionOnSet(F, NowFiles) \in Nat
    <3> HIDE DEF F
    <3> QED BY <1>0, <1>2, SumIsNat
  <2> HIDE DEF F
  <2> QED BY <1>0, <2>1, <2>2 DEF Refuses
<1>6. SumFunctionOnSet(L, NowFiles) <= MostAtOnce
  <2>1. /\ IsFiniteSet(S) /\ IsFiniteSet(R) /\ S \cap R = {}
        /\ S \cup R = NowFiles /\ S \subseteq Files /\ R \subseteq Files
    BY <1>0, FileSetsFinite
  <2>2. \A g \in R : L[g] = 0
    BY <1>0 DEF Load
  <2>3. \A g \in S : L[g] \in Nat /\ AtOnce[g] \in Nat /\ L[g] <= AtOnce[g]
    <3>1. \A g \in S : L[g] <= AtOnce[g]
      BY <1>0, <2>1 DEF Load, SlotsInv
    <3> QED BY <1>2, <2>1, <3>1, DispatchAssumption
  <2>4. SumFunctionOnSet(L, S) <= SumFunctionOnSet(AtOnce, S)
    <3> HIDE DEF L, S
    <3> QED BY <2>1, <2>3, SumGrows
  <2>5. SumFunctionOnSet(L, R) = 0
    <3> HIDE DEF L, R
    <3> QED BY <2>1, <2>2, SumOfZeros
  <2>6. SumFunctionOnSet(L, NowFiles) =
          SumFunctionOnSet(L, S) + SumFunctionOnSet(L, R)
    <3>1. \A g \in S \cup R : L[g] \in Int
      <4> HIDE DEF W, C, L, F, S, R
      <4>1. \A g \in NowFiles : L[g] \in Int
        BY <1>2
      <4> QED BY <2>1, <4>1
    <3> HIDE DEF L, S, R
    <3> QED BY <2>1, <3>1, SumOfUnion
  <2>7. Cardinality(S) <= MaxWorkers
    <3>1. S \subseteq WorkerFiles'
      BY <1>0, <2>1 DEF WorkerFiles, InWorker
    <3>2. IsFiniteSet(WorkerFiles') /\ Cardinality(WorkerFiles') \in Nat
      BY FileSetsFinite DEF WorkerFiles
    <3>3. /\ Cardinality(S) <= Cardinality(WorkerFiles')
          /\ Cardinality(S) \in Nat /\ MaxWorkers \in Nat
      BY <2>1, <3>1, <3>2, FS_Subset, FileSetsFinite, DispatchAssumption
    <3> HIDE DEF S
    <3> QED BY <3>2, <3>3 DEF SlotsInv
  <2>8. /\ SumFunctionOnSet(AtOnce, S) <= MostAtOnce /\ MostAtOnce \in Nat
    BY <2>1, <2>7, MostIsMost
  <2>9. /\ SumFunctionOnSet(AtOnce, S) \in Nat
        /\ SumFunctionOnSet(L, S) \in Nat
    <3> HIDE DEF L, S
    <3> QED BY <2>1, <2>3, SumIsNat
  <2> HIDE DEF L, S, R
  <2> QED BY <2>4, <2>5, <2>6, <2>8, <2>9
<1>7. /\ SumFunctionOnSet(C, NowFiles) \in Nat
      /\ SumFunctionOnSet(L, NowFiles) \in Nat
      /\ SumFunctionOnSet(F, NowFiles) \in Nat
  <2> HIDE DEF C, L, F
  <2> QED BY <1>0, <1>2, SumIsNat
<1> HIDE DEF W, C, L, F
<1>8. SumFunctionOnSet(W, NowFiles) <= bail - 1 + MostAtOnce
  BY <1>0, <1>3, <1>4, <1>5, <1>6, <1>7, SomeAtOnce
<1> QED BY <1>8 DEF W

(* Steps keep the weight of the cycle bounded.                               *)
LEMMA BailKept ==
  ASSUME PathsApart, TypeOK, Shape, LifeInv, CutInv, ModulesInv,
         CasesAccounted, BailInv, SlotsInv', [Next]_vars
  PROVE  BailInv'
<1> DEFINE W == [g \in Files |-> Weight(g)]
           V == [g \in Files |-> Weight(g)']
<1>0. /\ IsFiniteSet(NowFiles) /\ NowFiles \subseteq Files
      /\ IsFiniteSet(NowFiles') /\ NowFiles' \subseteq Files
      /\ bail \in Nat /\ MostAtOnce \in Nat
  BY DispatchAssumption, FileSetsFinite, SomeAtOnce DEF NowFiles, TypeOK
<1>1. SUFFICES ASSUME Undisturbed', bail' > 0
               PROVE  SumFunctionOnSet(V, NowFiles')
                        <= bail' - 1 + MostAtOnce
  BY DEF BailInv
<1>2. ASSUME Undisturbed, bail' = bail, NowFiles' = NowFiles,
             \A g \in NowFiles : Weight(g)' <= Weight(g)
      PROVE  SumFunctionOnSet(V, NowFiles') <= bail' - 1 + MostAtOnce
  <2>1. \A g \in NowFiles : W[g] \in Nat /\ V[g] \in Nat /\ V[g] <= W[g]
    BY <1>0, <1>2, WeightIsNat
  <2>2. SumFunctionOnSet(W, NowFiles) <= bail - 1 + MostAtOnce
    BY <1>1, <1>2 DEF BailInv
  <2> HIDE DEF V, W
  <2>3. SumFunctionOnSet(V, NowFiles) <= SumFunctionOnSet(W, NowFiles)
    BY <1>0, <2>1, SumGrows
  <2>4. /\ SumFunctionOnSet(V, NowFiles) \in Nat
        /\ SumFunctionOnSet(W, NowFiles) \in Nat
    BY <1>0, <2>1, SumIsNat
  <2>5. SumFunctionOnSet(V, NowFiles) <= bail - 1 + MostAtOnce
    BY <1>0, <2>2, <2>3, <2>4
  <2> QED BY <1>2, <2>5
<1>3. ASSUME NEW f \in Files, FileStep(f)
      PROVE  SumFunctionOnSet(V, NowFiles') <= bail' - 1 + MostAtOnce
  <2>1. Frame(f) /\ Undisturbed /\ Now(f)
    BY <1>1, <1>3, FrameOfStep, QuietStep
  <2>2. bail' = bail /\ NowFiles' = NowFiles
    BY <2>1 DEF Frame, NowFiles, Now
  <2>3. ASSUME NEW k \in CaseIds(f), AskBail(f, k), ~ Refuses
        PROVE  SumFunctionOnSet(V, NowFiles') <= bail' - 1 + MostAtOnce
    <3>1. bail > 0
      BY <1>1, <2>2
    <3>2. SumFunctionOnSet(V, NowFiles) <= bail - 1 + MostAtOnce
      BY <1>3, <2>1, <2>3, <3>1, BailAdmits
    <3> HIDE DEF V
    <3> QED BY <2>2, <3>2
  <2>4. ASSUME Weight(f)' <= Weight(f)
        PROVE  SumFunctionOnSet(V, NowFiles') <= bail' - 1 + MostAtOnce
    <3>1. \A g \in Files : g # f => Weight(g)' = Weight(g)
      BY <2>1, CasesAlone DEF Frame, Weight, Load, FailedCases
    <3>2. \A g \in NowFiles : Weight(g)' <= Weight(g)
      BY <1>0, <2>4, <3>1, WeightIsNat
    <3> QED BY <1>2, <2>1, <2>2, <3>2
  <2> QED BY <1>3, <2>3, <2>4, WeightFalls
<1>4. CASE NextCycle
  <2>1. cycle \in Nat /\ cycle' = cycle + 1 /\ bail' = bail /\ case' = case
    BY <1>4 DEF NextCycle, TypeOK
  <2>2. ASSUME NEW g \in NowFiles' PROVE V[g] = 0
    <3>1. g \in Files /\ Cycle[g] = cycle + 1
      BY <2>1 DEF NowFiles, Now
    <3>2. at'[g] = "building" /\ at[g] = "idle"
      BY <1>4, <2>1, <3>1, DispatchAssumption
         DEF NextCycle, LifeInv, LifeOf
    <3>3. \A k \in CaseIds(g) : case[g][k] = "todo"
      BY <3>1, <3>2 DEF LifeInv, LifeOf, Before
    <3>4. FailedCases(g)' = {}
      BY <2>1, <3>3 DEF FailedCases
    <3>5. Cardinality(FailedCases(g)') = 0
      BY <3>4, FS_EmptySet
    <3> QED BY <3>1, <3>2, <3>5 DEF Weight, Load
  <2>3. SumFunctionOnSet(V, NowFiles') = 0
    <3> HIDE DEF V
    <3> QED BY <1>0, <2>2, SumOfZeros
  <2>4. bail > 0
    BY <1>1, <2>1
  <2> HIDE DEF V
  <2> QED BY <1>0, <2>1, <2>3, <2>4
<1>5. CASE UNCHANGED vars
  <2>1. /\ bail' = bail /\ NowFiles' = NowFiles
        /\ \A g \in Files : case'[g] = case[g] /\ at'[g] = at[g]
    BY <1>5 DEF vars, NowFiles, Now
  <2>2. \A g \in Files : Weight(g)' = Weight(g)
    BY <2>1, CasesAlone DEF Weight, Load, FailedCases
  <2>3. \A g \in NowFiles : Weight(g)' <= Weight(g)
    BY <1>0, <2>2, WeightIsNat
  <2>4. Undisturbed
    BY <1>1, <1>5 DEF vars, Undisturbed
  <2> QED BY <1>2, <2>1, <2>3, <2>4
<1> QED BY <1>3, <1>4, <1>5 DEF Next, FileStep

-----------------------------------------------------------------------------
(* The invariant of the dispatch.                                            *)
IInv ==
  /\ TypeOK /\ Shape /\ LifeInv /\ CutInv /\ GateInv
  /\ ToldInv /\ SlotsInv

(* What more there is where no path is run twice.                            *)
AInv ==
  /\ IInv /\ ModulesInv /\ ReplayInv /\ CasesAccounted /\ BailInv

(* The initial states.                                                       *)
LEMMA InitIInv == Init => IInv
<1> SUFFICES ASSUME Init PROVE IInv
  OBVIOUS
<1>1. /\ cycle = 1 /\ bail \in Bails /\ testModules = {} /\ told = {}
      /\ \A f \in Files :
           /\ at[f] = IF Cycle[f] = 1 THEN "building" ELSE "idle"
           /\ result[f] = None /\ Cycle[f] \in Nat \ {0}
           /\ \A k \in CaseIds(f) : case[f][k] = "todo"
  BY DispatchAssumption DEF Init
<1>2. Shape
  BY DEF Init, Shape
<1>3. TypeOK
  <2>1. Absent \in Modules
    BY DEF Absent, Modules
  <2>2. at \in [Files -> Stages]
    BY DEF Init, Stages
  <2>3. runningModules \in [Paths -> Modules]
    BY <2>1 DEF Init
  <2>4. \A f \in Files : /\ case[f] \in [CaseIds(f) -> CaseStages]
                         /\ result[f].status \in Status
    BY DEF Init, CaseStages, None, Status
  <2> QED BY <1>1, <2>2, <2>3, <2>4
          DEF TypeOK, Stages, CaseStages, Modules
<1>4. LifeInv
  BY <1>1 DEF LifeInv, LifeOf, Before
<1>5. CutInv
  BY <1>1 DEF CutInv, Undisturbed
<1>6. GateInv
  <2>1. \A f \in Files : ~ Released(f)
    BY <1>1 DEF Released
  <2>2. \A q \in DOMAIN Entries : \A j \in DOMAIN Entries[q] :
          Entries[q][j] \in Files
    BY DispatchAssumption
  <2> QED BY <2>1, <2>2 DEF GateInv, Dispatched
<1>7. ToldInv
  BY <1>1, NothingYet DEF ToldInv
<1>8. SlotsInv
  <2>1. WorkerFiles = {}
    BY <1>1 DEF WorkerFiles, InWorker
  <2>2. Cardinality(WorkerFiles) = 0
    BY <2>1, FS_EmptySet
  <2>3. \A f \in Files : at[f] # "tests"
    BY <1>1
  <2> QED BY <2>2, <2>3, DispatchAssumption DEF SlotsInv
<1> QED BY <1>2, <1>3, <1>4, <1>5, <1>6, <1>7, <1>8 DEF IInv

(* Every step keeps IInv.                                                    *)
LEMMA StepIInv == IInv /\ [Next]_vars => IInv'
  BY TypesKept, LifeKept, CutKept, GateKept, ToldKept, SlotsKept DEF IInv

(* In every run, the invariant of the dispatch holds: types, stages, gates,  *)
(* what reporters have been told, workers and cases at once.                 *)
THEOREM DispatchInvariant == Spec => []IInv
  BY InitIInv, StepIInv, PTL DEF Spec

(* In every run, a project's files reach the pool in the order of its        *)
(* entries, except past one that could not be prepared (pool/index.ts,       *)
(* dispatchGate).                                                            *)
THEOREM DispatchIsInOrder == Spec => []EnqueuedInOrder
<1>1. IInv => EnqueuedInOrder
  BY GatesOrder DEF IInv
<1> QED BY <1>1, DispatchInvariant, PTL

(* The initial states, again.                                                *)
LEMMA InitAInv == Init => AInv
<1> SUFFICES ASSUME Init PROVE AInv
  OBVIOUS
<1>0. /\ cycle = 1 /\ bail \in Bails /\ testModules = {}
      /\ \A f \in Files :
           /\ at[f] \in {"building", "idle"} /\ PathOf[f] \in Paths
           /\ \A k \in CaseIds(f) : case[f][k] = "todo"
      /\ \A p \in Paths : runningModules[p] = Absent
  BY DispatchAssumption DEF Init
<1>1. \A f \in Files : ~ Recorded(f)
  BY <1>0 DEF Recorded
<1>2. ModulesInv
  <2>1. \A f \in Files : ModuleOf(f)
    BY <1>0, <1>1, NothingYet DEF ModuleOf, Absent
  <2> QED BY <1>0, <2>1 DEF ModulesInv, Absent
<1>3. ReplayInv /\ CasesAccounted
  BY <1>0, <1>1 DEF ReplayInv, CasesAccounted
<1>4. BailInv
  <2> DEFINE W == [f \in Files |-> Weight(f)]
  <2>1. IsFiniteSet(NowFiles) /\ NowFiles \subseteq Files
    BY FileSetsFinite DEF NowFiles
  <2>2. \A f \in NowFiles : W[f] = 0
    <3> SUFFICES ASSUME NEW f \in NowFiles PROVE W[f] = 0
      OBVIOUS
    <3>1. FailedCases(f) = {} /\ at[f] # "tests" /\ f \in Files
      BY <1>0, <2>1 DEF FailedCases
    <3>2. Cardinality(FailedCases(f)) = 0
      BY <3>1, FS_EmptySet
    <3> QED BY <3>1, <3>2 DEF Weight, Load
  <2>3. SumFunctionOnSet(W, NowFiles) = 0
    <3> HIDE DEF W
    <3> QED BY <2>1, <2>2, SumOfZeros
  <2>4. bail \in Nat /\ MostAtOnce \in Nat
    BY <1>0, SomeAtOnce, DispatchAssumption
  <2>5. bail > 0 => SumFunctionOnSet(W, NowFiles) <= bail - 1 + MostAtOnce
    <3> HIDE DEF W
    <3> QED BY <2>3, <2>4
  <2> QED BY <2>5 DEF BailInv
<1> QED BY <1>2, <1>3, <1>4, InitIInv DEF AInv

(* Every step keeps AInv, where projects do not share paths.                 *)
LEMMA StepAInv == PathsApart /\ AInv /\ [Next]_vars => AInv'
<1> SUFFICES ASSUME PathsApart, AInv, [Next]_vars PROVE AInv'
  OBVIOUS
<1> USE DEF AInv, IInv
<1>1. IInv'
  BY StepIInv
<1>2. ModulesInv'
  BY ModulesKept
<1>3. ReplayInv'
  BY ReplayKept
<1>4. CasesAccounted'
  BY AccountsKept
<1>5. BailInv'
  BY <1>1, BailKept
<1> QED BY <1>1, <1>2, <1>3, <1>4, <1>5

(* AInv has the accounts exact.                                              *)
LEMMA AInvSuffices == PathsApart /\ AInv => AccountsAreExact
<1> SUFFICES ASSUME PathsApart, AInv PROVE AccountsAreExact
  OBVIOUS
<1>1. CountIsExact
  BY CountExact DEF AInv, IInv, CountIsExact
<1>2. BailBoundsTheRun
  <2> SUFFICES
        ASSUME Undisturbed, bail > 0
        PROVE  SumFunction([f \in {f \in Files : Now(f)} |->
                              FailedIn(Reported(f))])
                 <= bail - 1 + MostAtOnce
    BY DEF BailBoundsTheRun
  <2> DEFINE R == [f \in NowFiles |-> FailedIn(Reported(f))]
             W == [f \in Files |-> Weight(f)]
  <2>1. IsFiniteSet(NowFiles) /\ NowFiles \subseteq Files
    BY FileSetsFinite DEF NowFiles
  <2>2. \A f \in NowFiles : R[f] \in Nat /\ W[f] \in Nat /\ R[f] <= W[f]
    BY <2>1, FailedReported, WeightIsNat DEF Weight
  <2>3. DOMAIN R = NowFiles
    OBVIOUS
  <2>4. SumFunctionOnSet(W, NowFiles) <= bail - 1 + MostAtOnce
    BY DEF AInv, BailInv
  <2>5. bail \in Nat /\ MostAtOnce \in Nat
    BY SomeAtOnce, DispatchAssumption DEF AInv, IInv, TypeOK
  <2>6. SumFunction(R) <= bail - 1 + MostAtOnce
    <3> HIDE DEF R, W
    <3>1. SumFunctionOnSet(R, NowFiles) <= SumFunctionOnSet(W, NowFiles)
      BY <2>1, <2>2, SumGrows
    <3>2. /\ SumFunctionOnSet(R, NowFiles) \in Nat
          /\ SumFunctionOnSet(W, NowFiles) \in Nat
      BY <2>1, <2>2, SumIsNat
    <3> QED BY <2>3, <2>4, <2>5, <3>1, <3>2 DEF SumFunction
  <2> QED BY <2>6 DEF NowFiles
<1> QED BY <1>1, <1>2 DEF AccountsAreExact, AInv, IInv

(* In every run whose cycles run no path twice, the count that `bail`        *)
(* consults is that of the failures, a case that started is reported and in  *)
(* its file's result, and `bail` bounds the failed cases                     *)
(* (core/stateManager.ts, pool/index.ts).                                    *)
THEOREM AccountsOfTheRun == PathsApart => (Spec => []AccountsAreExact)
<1> SUFFICES ASSUME PathsApart PROVE Spec => []AccountsAreExact
  OBVIOUS
<1>1. AInv /\ [Next]_vars => AInv'
  BY StepAInv
<1>2. AInv => AccountsAreExact
  BY AInvSuffices
<1> QED BY <1>1, <1>2, InitAInv, PTL DEF Spec
=============================================================================
