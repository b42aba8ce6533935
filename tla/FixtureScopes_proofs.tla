------------------------ MODULE FixtureScopes_proofs -------------------------
(* Theorems about FixtureScopes, for any fixtures that depend on each other  *)
(* without a cycle and any tests that use them.                              *)
EXTENDS FixtureScopes, TLAPS

(* The inductive invariant, in parts.                                        *)

(* The managers know what has been started, until they have cleaned it up.   *)
KnownInv ==
  /\ \A f \in instances : status[f] # "absent"
  /\ \A f \in Fixtures :
       /\ status[f] # "absent"
       /\ IF Scope[f] = "file" THEN stage \in {"tests", "file"}
          ELSE stage # "over"
       => f \in instances

(* What a set-up has asked for was started, and f made a dependent of it;    *)
(* only a function that runs, or ran, has registered its cleanup.            *)
Linked(f, d) ==
  /\ status[d] # "absent"
  /\ Scope[f] = Scope[d] => f \in dependents[d]

SetupOf(f) ==
  /\ step[f] > 0 => status[f] # "absent"
  /\ f \in registered => step[f] > Len(Deps[f])
  /\ \A k \in 1 .. Len(Deps[f]) : k <= step[f] => Linked(f, Deps[f][k])

SetupInv == \A f \in Fixtures : SetupOf(f)

(* Somebody waits for every set-up under way: a test or another set-up.      *)
AwaitedByTest(f) ==
  \E t \in Tests : Running(t) /\ asked[t] > 0 /\ Wanted(t) = f

AwaitedBySetup(f) ==
  \E g \in Fixtures :
    /\ status[g] = "pending" /\ step[g] \in 1 .. Len(Deps[g])
    /\ Deps[g][step[g]] = f

AwaitInv ==
  \A f \in Fixtures :
    ~ timedOut /\ status[f] = "pending" =>
      AwaitedByTest(f) \/ AwaitedBySetup(f)

(* Clean-ups begin after the tests, and then no set-up is under way, unless  *)
(* a test gave up on one.                                                    *)
QuietInv ==
  stage # "tests" =>
    /\ ended = Tests
    /\ ~timedOut => \A f \in Fixtures : status[f] # "pending"

(* A cleanup() is about the instances of one manager.                        *)
SnapshotInv ==
  /\ stage = "tests" => snapshot = {}
  /\ stage \in {"file", "retiring"} => \A f \in snapshot : Scope[f] = "file"
  /\ stage \in {"worker", "over"} => \A f \in snapshot : Scope[f] = "worker"
  /\ stage \in {"retiring", "over"} => \A f \in snapshot : CleanedUp(f)

CleanInv ==
  \A f \in Fixtures :
    /\ stage = "tests" => cleanups[f] = "none"
    /\ Scope[f] = "worker" /\ stage \notin {"worker", "over"} =>
         cleanups[f] = "none"
    /\ cleanups[f] = "nothing" =>
         f \notin registered /\ status[f] \in {"ready", "failed"}
    /\ cleanups[f] \in {"running", "done"} => f \in registered

(* What waits for its turn waits for all its dependents, and what has had it *)
(* was the last of them; and the worker's turn comes after the file's.       *)
OrderInv ==
  ~timedOut =>
    \A f \in Fixtures :
      /\ cleanups[f] \notin {"none", "queued"} =>
           dependents[f] \subseteq awaited[f]
      /\ cleanups[f] \in {"running", "done", "nothing"} =>
           \A g \in awaited[f] : CleanedUp(g)
      /\ Scope[f] = "file" /\ status[f] # "absent" =>
           /\ stage = "file" => f \in snapshot
           /\ stage \in {"retiring", "worker", "over"} => CleanedUp(f)

IInv ==
  /\ TypeOK /\ KnownInv /\ SetupInv /\ AwaitInv /\ QuietInv
  /\ SnapshotInv /\ CleanInv /\ OrderInv

(* What a set-up that goes on does: it calls the function, or starts its     *)
(* next dependency, which is another fixture.                                *)
LEMMA ResumesEither ==
  ASSUME FixtureAssumption, TypeOK, NEW f \in Fixtures, SetupResumes(f)
  PROVE  /\ status[f] = "pending" /\ step[f] \in 0 .. Len(Deps[f])
         /\ DependencyReady(f)
         /\ step' = [step EXCEPT ![f] = step[f] + 1]
         /\ UNCHANGED <<registered, cleanupVars, testVars>>
         /\ \/ /\ step[f] = Len(Deps[f])
               /\ UNCHANGED <<instances, status, dependents>>
            \/ \E d \in Fixtures \ {f} :
                 /\ step[f] + 1 \in 1 .. Len(Deps[f])
                 /\ d = Deps[f][step[f] + 1]
                 /\ Scope[f] = "worker" => Scope[d] = "worker"
                 /\ Start(d) /\ Link(f, d)
<1>1. /\ status[f] = "pending" /\ step[f] \in 0 .. Len(Deps[f])
      /\ step' = [step EXCEPT ![f] = step[f] + 1]
      /\ Len(Deps[f]) \in Nat /\ Deps[f] \in Seq(Fixtures)
  BY DEF SetupResumes, FunctionRuns, TypeOK, FixtureAssumption
<1>2. CASE AllAskedFor(f)
  BY <1>1, <1>2 DEF SetupResumes, AllAskedFor
<1>3. CASE ~ AllAskedFor(f)
  <2>1. step[f] + 1 \in 1 .. Len(Deps[f])
    BY <1>1, <1>3 DEF AllAskedFor
  <2>2. PICK d \in Fixtures : d = Deps[f][step[f] + 1]
    BY <1>1, <2>1
  <2>3. d \in ToSet(Deps[f])
    BY <1>1, <2>1, <2>2 DEF ToSet
  <2>4. d # f
    <3>1. {f} \in (SUBSET Fixtures) \ {{}}
      OBVIOUS
    <3> QED BY <2>3, <3>1 DEF FixtureAssumption
  <2>5. Scope[f] = "worker" => Scope[d] = "worker"
    BY <2>3 DEF FixtureAssumption
  <2>6. Start(d) /\ Link(f, d)
    BY <1>3, <2>2 DEF SetupResumes
  <2> QED BY <1>1, <2>1, <2>2, <2>4, <2>5, <2>6 DEF SetupResumes
<1> QED BY <1>2, <1>3

(* Once every test is over, and none gave up, every set-up is: of those      *)
(* under way nobody would wait for one that no other of them asks for.       *)
LEMMA NobodyPending ==
  ASSUME FixtureAssumption, TypeOK, AwaitInv, ended = Tests, ~ timedOut
  PROVE  \A f \in Fixtures : status[f] # "pending"
<1> DEFINE S == {f \in Fixtures : status[f] = "pending"}
<1>1. SUFFICES ASSUME S # {} PROVE FALSE
  OBVIOUS
<1>2. PICK f \in S : \A g \in S : f \notin ToSet(Deps[g])
  <2>1. S \in (SUBSET Fixtures) \ {{}}
    BY <1>1
  <2> QED BY <2>1 DEF FixtureAssumption
<1>3. AwaitedBySetup(f)
  BY <1>2 DEF AwaitInv, AwaitedByTest, Running
<1>4. PICK g \in S : step[g] \in 1 .. Len(Deps[g]) /\ Deps[g][step[g]] = f
  BY <1>3 DEF AwaitedBySetup
<1>5. f \in ToSet(Deps[g])
  BY <1>4 DEF ToSet, FixtureAssumption
<1> QED BY <1>2, <1>5

(* What the proofs mostly need of the assumption.                            *)
Typed ==
  /\ Scope \in [Fixtures -> {"file", "worker"}]
  /\ \A f \in Fixtures :
       /\ Len(Deps[f]) \in Nat
       /\ \A k \in 1 .. Len(Deps[f]) : Deps[f][k] \in Fixtures
  /\ \A t \in Tests :
       /\ Len(Uses[t]) \in Nat
       /\ \A k \in 1 .. Len(Uses[t]) : Uses[t][k] \in Fixtures

LEMMA AreTyped == FixtureAssumption => Typed
  BY DEF FixtureAssumption, Typed

(* Every step keeps the types.                                               *)
LEMMA TypesKept ==
  ASSUME FixtureAssumption, IInv, [Next]_vars
  PROVE  TypeOK'
<1> USE DEF Typed, TypeOK, instanceVars, cleanupVars, testVars, FunctionRuns
<1>0. Typed /\ TypeOK
  BY AreTyped DEF IInv
<1>1. ASSUME NEW f \in Fixtures, SetupResumes(f) PROVE TypeOK'
  <2>0. /\ step[f] \in 0 .. Len(Deps[f])
        /\ step' = [step EXCEPT ![f] = step[f] + 1]
        /\ UNCHANGED <<registered, cleanupVars, testVars>>
    BY <1>0, <1>1, ResumesEither
  <2>1. /\ step' \in [Fixtures -> Nat]
        /\ \A g \in Fixtures : step'[g] <= Len(Deps[g]) + 1
    BY <1>0, <2>0
  <2>2. CASE UNCHANGED <<instances, status, dependents>>
    BY <1>0, <2>0, <2>1, <2>2
  <2>3. ASSUME NEW d \in Fixtures \ {f}, Start(d), Link(f, d)
        PROVE  TypeOK'
    BY <1>0, <2>0, <2>1, <2>3 DEF Start, Link
  <2> QED BY <1>0, <1>1, <2>2, <2>3, ResumesEither
<1>2. ASSUME NEW f \in Fixtures, DependencyFails(f) PROVE TypeOK'
  BY <1>0, <1>2 DEF DependencyFails
<1>3. ASSUME NEW f \in Fixtures, OnCleanup(f) PROVE TypeOK'
  BY <1>0, <1>3 DEF OnCleanup
<1>4. ASSUME NEW f \in Fixtures, SetupSettles(f) PROVE TypeOK'
  BY <1>0, <1>4 DEF SetupSettles
<1>5. ASSUME NEW f \in Fixtures, CleanupInstance(f) PROVE TypeOK'
  BY <1>0, <1>5 DEF CleanupInstance
<1>6. ASSUME NEW f \in Fixtures, CleanupCalled(f) PROVE TypeOK'
  BY <1>0, <1>6 DEF CleanupCalled
<1>7. ASSUME NEW f \in Fixtures, CleanupSettles(f) PROVE TypeOK'
  BY <1>0, <1>7 DEF CleanupSettles
<1>8. ASSUME NEW t \in Tests, Ask(t) PROVE TypeOK'
  BY <1>0, <1>8 DEF Ask, Start
<1>9. ASSUME NEW t \in Tests, TestEnds(t) PROVE TypeOK'
  BY <1>0, <1>9 DEF TestEnds
<1>10. ASSUME NEW t \in Tests, TestTimesOut(t) PROVE TypeOK'
  BY <1>0, <1>10 DEF TestTimesOut
<1>11. CASE FileCleanupBegins
  BY <1>0, <1>11 DEF FileCleanupBegins, CleanupBegins, Of
<1>12. CASE WorkerCleanupBegins
  BY <1>0, <1>12 DEF WorkerCleanupBegins, CleanupBegins, Of
<1>13. CASE CleanupEnds
  BY <1>0, <1>13 DEF CleanupEnds, Of
<1>14. CASE UNCHANGED vars
  BY <1>0, <1>14 DEF vars
<1> QED
  BY <1>1, <1>2, <1>3, <1>4, <1>5, <1>6, <1>7, <1>8, <1>9, <1>10, <1>11,
     <1>12, <1>13, <1>14
     DEF Next, Setup, Cleanup, Test

(* ... what the managers know of,                                            *)
LEMMA KnownKept ==
  ASSUME FixtureAssumption, IInv, [Next]_vars
  PROVE  KnownInv'
<1> USE DEF Typed, TypeOK, KnownInv, instanceVars, cleanupVars, testVars
<1>0. Typed /\ TypeOK /\ KnownInv
  BY AreTyped DEF IInv
<1>1. ASSUME NEW f \in Fixtures, SetupResumes(f) PROVE KnownInv'
  <2>1. CASE UNCHANGED <<instances, status, dependents>>
    BY <1>0, <1>1, <2>1, ResumesEither
  <2>2. ASSUME NEW d \in Fixtures \ {f}, Start(d), Link(f, d),
               step[f] + 1 \in 1 .. Len(Deps[f]), d = Deps[f][step[f] + 1]
        PROVE  KnownInv'
    BY <1>0, <1>1, <2>2, ResumesEither DEF Start, Link
  <2> QED BY <1>0, <1>1, <2>1, <2>2, ResumesEither
<1>2. ASSUME NEW f \in Fixtures, DependencyFails(f) PROVE KnownInv'
  BY <1>0, <1>2 DEF DependencyFails
<1>3. ASSUME NEW f \in Fixtures, OnCleanup(f) PROVE KnownInv'
  BY <1>0, <1>3 DEF OnCleanup
<1>4. ASSUME NEW f \in Fixtures, SetupSettles(f) PROVE KnownInv'
  BY <1>0, <1>4 DEF SetupSettles, FunctionRuns
<1>5. ASSUME NEW f \in Fixtures, CleanupInstance(f) PROVE KnownInv'
  BY <1>0, <1>5 DEF CleanupInstance
<1>6. ASSUME NEW f \in Fixtures, CleanupCalled(f) PROVE KnownInv'
  BY <1>0, <1>6 DEF CleanupCalled
<1>7. ASSUME NEW f \in Fixtures, CleanupSettles(f) PROVE KnownInv'
  BY <1>0, <1>7 DEF CleanupSettles
<1>8. ASSUME NEW t \in Tests, Ask(t) PROVE KnownInv'
  BY <1>0, <1>8 DEF Ask, Start
<1>9. ASSUME NEW t \in Tests, TestEnds(t) PROVE KnownInv'
  BY <1>0, <1>9 DEF TestEnds
<1>10. ASSUME NEW t \in Tests, TestTimesOut(t) PROVE KnownInv'
  BY <1>0, <1>10 DEF TestTimesOut
<1>11. CASE FileCleanupBegins
  BY <1>0, <1>11 DEF FileCleanupBegins, CleanupBegins, Of
<1>12. CASE WorkerCleanupBegins
  BY <1>0, <1>12 DEF WorkerCleanupBegins, CleanupBegins, Of
<1>13. CASE CleanupEnds
  BY <1>0, <1>13 DEF CleanupEnds, Of
<1>14. CASE UNCHANGED vars
  BY <1>0, <1>14 DEF vars
<1> QED
  BY <1>1, <1>2, <1>3, <1>4, <1>5, <1>6, <1>7, <1>8, <1>9, <1>10, <1>11,
     <1>12, <1>13, <1>14
     DEF Next, Setup, Cleanup, Test

(* ... what set-ups have asked for: what was started stays, dependents and   *)
(* registrations are only added,                                             *)
LEMMA SetupKept ==
  ASSUME FixtureAssumption, IInv, [Next]_vars
  PROVE  SetupInv'
<1> USE DEF Typed, TypeOK, instanceVars, cleanupVars, testVars
<1>0. Typed /\ TypeOK /\ SetupInv
  BY AreTyped DEF IInv
<1>a. \A f \in Fixtures : \A k \in 1 .. Len(Deps[f]) : Deps[f][k] \in Fixtures
  BY <1>0
<1> DEFINE Grows ==
      /\ \A d \in Fixtures : status[d] # "absent" => status'[d] # "absent"
      /\ \A d \in Fixtures : dependents[d] \subseteq dependents'[d]
<1>b. ASSUME Grows, UNCHANGED <<step, registered>> PROVE SetupInv'
  BY <1>0, <1>a, <1>b DEF SetupInv, SetupOf, Linked
<1>1. ASSUME NEW f \in Fixtures, SetupResumes(f) PROVE SetupInv'
  <2>0. /\ step[f] \in 0 .. Len(Deps[f]) /\ status[f] = "pending"
        /\ step' = [step EXCEPT ![f] = step[f] + 1]
        /\ UNCHANGED registered
    BY <1>0, <1>1, ResumesEither
  <2>1. /\ Grows
        /\ \A d \in Fixtures : /\ step[f] < Len(Deps[f])
                             /\ d = Deps[f][step[f] + 1]
                             => Linked(f, d)'
    <3>1. CASE UNCHANGED <<status, dependents>> /\ step[f] = Len(Deps[f])
      BY <1>0, <2>0, <3>1
    <3>2. ASSUME NEW d \in Fixtures \ {f}, Start(d), Link(f, d),
                 d = Deps[f][step[f] + 1]
          PROVE  Grows /\ Linked(f, d)'
      BY <1>0, <3>2 DEF Start, Link, Linked
    <3> QED BY <1>0, <1>1, <3>1, <3>2, ResumesEither
  <2>2. ASSUME NEW g \in Fixtures, g # f PROVE SetupOf(g)'
    BY <1>0, <1>a, <2>0, <2>1, <2>2 DEF SetupInv, SetupOf, Linked
  <2>3. SetupOf(f)'
    <3>1. step'[f] = step[f] + 1 /\ status'[f] # "absent"
      BY <1>0, <2>0, <2>1
    <3>2. f \notin registered
      BY <1>0, <2>0 DEF SetupInv, SetupOf
    <3>3. ASSUME NEW k \in 1 .. Len(Deps[f]), k <= step'[f]
          PROVE  Linked(f, Deps[f][k])'
      <4>1. CASE k <= step[f]
        BY <1>0, <1>a, <2>1, <4>1 DEF SetupInv, SetupOf, Linked
      <4>2. CASE k = step[f] + 1
        BY <1>0, <2>0, <2>1, <3>3, <4>2
      <4> QED BY <2>0, <3>1, <3>3, <4>1, <4>2
    <3> QED BY <2>0, <3>1, <3>2, <3>3 DEF SetupOf
  <2> QED BY <2>2, <2>3 DEF SetupInv
<1>2. ASSUME NEW f \in Fixtures, DependencyFails(f) PROVE SetupInv'
  BY <1>0, <1>b, <1>2 DEF DependencyFails
<1>3. ASSUME NEW f \in Fixtures, OnCleanup(f) PROVE SetupInv'
  BY <1>0, <1>3 DEF OnCleanup, FunctionRuns, SetupInv, SetupOf, Linked
<1>4. ASSUME NEW f \in Fixtures, SetupSettles(f) PROVE SetupInv'
  BY <1>0, <1>b, <1>4 DEF SetupSettles
<1>5. ASSUME NEW t \in Tests, Ask(t) PROVE SetupInv'
  <2>1. Uses[t][asked[t] + 1] \in Fixtures
    BY <1>0, <1>5 DEF Ask
  <2> QED BY <1>0, <1>b, <1>5, <2>1 DEF Ask, Start
<1>6. ASSUME UNCHANGED <<status, step, dependents, registered>> PROVE SetupInv'
  BY <1>0, <1>b, <1>6
<1> QED
  BY <1>1, <1>2, <1>3, <1>4, <1>5, <1>6
     DEF Next, Setup, Cleanup, Test, TestEnds, TestTimesOut, CleanupInstance,
         CleanupCalled, CleanupSettles, FileCleanupBegins,
         WorkerCleanupBegins, CleanupBegins, CleanupEnds, vars

(* ... who waits for them: a set-up or a test goes on only when what it      *)
(* waits for has settled,                                                    *)
LEMMA AwaitKept ==
  ASSUME FixtureAssumption, IInv, [Next]_vars
  PROVE  AwaitInv'
<1> USE DEF Typed, TypeOK, instanceVars, cleanupVars, testVars
<1>0. Typed /\ TypeOK /\ AwaitInv
  BY AreTyped DEF IInv
<1> SUFFICES ASSUME NEW x \in Fixtures, ~ timedOut', status'[x] = "pending"
             PROVE  (AwaitedByTest(x) \/ AwaitedBySetup(x))'
  BY DEF AwaitInv
<1> USE DEF AwaitedByTest, AwaitedBySetup, Wanted, Running
<1>a. ~ timedOut
  BY DEF Next, Setup, Cleanup, Test, SetupResumes, DependencyFails, OnCleanup,
         SetupSettles, CleanupInstance, CleanupCalled, CleanupSettles, Ask,
         TestEnds, TestTimesOut, FileCleanupBegins, WorkerCleanupBegins,
         CleanupBegins, CleanupEnds, vars
<1>b. ASSUME status[x] = "pending",
             \A g \in Fixtures \ {x} :
               status[g] = "pending" =>
                 \/ status'[g] = "pending" /\ step'[g] = step[g]
                 \/ step[g] \notin 1 .. Len(Deps[g])
                 \/ Deps[g][step[g]] # x,
             \/ status'[x] = "pending" /\ step'[x] = step[x]
             \/ step[x] \notin 1 .. Len(Deps[x])
             \/ Deps[x][step[x]] # x,
             UNCHANGED testVars
      PROVE  (AwaitedByTest(x) \/ AwaitedBySetup(x))'
  <2>1. CASE AwaitedByTest(x)
    BY <1>b, <2>1
  <2>2. CASE AwaitedBySetup(x)
    <3>1. PICK g \in Fixtures : /\ status[g] = "pending"
                               /\ step[g] \in 1 .. Len(Deps[g])
                               /\ Deps[g][step[g]] = x
      BY <2>2
    <3>2. status'[g] = "pending" /\ step'[g] = step[g]
      BY <1>b, <3>1
    <3> QED BY <3>1, <3>2
  <2> QED BY <1>0, <1>a, <1>b, <2>1, <2>2 DEF AwaitInv
<1>1. ASSUME NEW f \in Fixtures, SetupResumes(f)
      PROVE  (AwaitedByTest(x) \/ AwaitedBySetup(x))'
  <2>0. /\ step[f] \in 0 .. Len(Deps[f]) /\ status[f] = "pending"
        /\ DependencyReady(f)
        /\ step' = [step EXCEPT ![f] = step[f] + 1]
        /\ UNCHANGED testVars
    BY <1>0, <1>1, ResumesEither
  <2>1. CASE status[x] = "pending"
    <3>1. step[f] \in 1 .. Len(Deps[f]) => Deps[f][step[f]] # x
      BY <2>0, <2>1 DEF DependencyReady
    <3>2. \A g \in Fixtures \ {f} : step'[g] = step[g]
      BY <1>0, <2>0
    <3>3. \A g \in Fixtures : status[g] = "pending" => status'[g] = "pending"
      BY <1>0, <1>1, ResumesEither DEF Start
    <3> QED BY <1>b, <2>0, <2>1, <3>1, <3>2, <3>3
  <2>2. CASE status[x] # "pending"
    <3>1. PICK d \in Fixtures \ {f} :
                 /\ step[f] + 1 \in 1 .. Len(Deps[f])
                 /\ d = Deps[f][step[f] + 1] /\ Start(d)
      BY <1>0, <1>1, <2>2, ResumesEither
    <3>2. x = d /\ status'[f] = "pending" /\ step'[f] = step[f] + 1
      BY <1>0, <2>0, <2>2, <3>1 DEF Start
    <3> QED BY <3>1, <3>2
  <2> QED BY <2>1, <2>2
<1>2. ASSUME NEW f \in Fixtures, DependencyFails(f)
      PROVE  (AwaitedByTest(x) \/ AwaitedBySetup(x))'
  BY <1>0, <1>b, <1>2 DEF DependencyFails
<1>3. ASSUME NEW f \in Fixtures, SetupSettles(f)
      PROVE  (AwaitedByTest(x) \/ AwaitedBySetup(x))'
  <2>1. f # x /\ status[x] = "pending" /\ step[f] \notin 1 .. Len(Deps[f])
    BY <1>0, <1>3 DEF SetupSettles, FunctionRuns
  <2> QED BY <1>0, <1>b, <1>3, <2>1 DEF SetupSettles
<1>4. ASSUME NEW t \in Tests, Ask(t)
      PROVE  (AwaitedByTest(x) \/ AwaitedBySetup(x))'
  <2>1. PICK d \in Fixtures : d = Uses[t][asked[t] + 1] /\ Start(d)
    BY <1>0, <1>4 DEF Ask
  <2>2. /\ asked' = [asked EXCEPT ![t] = asked[t] + 1]
        /\ UNCHANGED <<step, ended>> /\ t \notin ended
        /\ asked[t] > 0 => status[Wanted(t)] = "ready"
    BY <1>4 DEF Ask
  <2>3. CASE status[x] # "pending"
    BY <1>0, <2>1, <2>2, <2>3 DEF Start
  <2>4. CASE status[x] = "pending" /\ AwaitedBySetup(x)
    BY <1>0, <2>1, <2>2, <2>4 DEF Start
  <2>5. CASE status[x] = "pending" /\ AwaitedByTest(x)
    BY <1>0, <2>2, <2>5
  <2> QED BY <1>0, <1>a, <2>3, <2>4, <2>5 DEF AwaitInv
<1>5. ASSUME NEW t \in Tests, TestEnds(t)
      PROVE  (AwaitedByTest(x) \/ AwaitedBySetup(x))'
  <2>1. /\ ended' = ended \cup {t} /\ UNCHANGED <<asked, step, status>>
        /\ asked[t] > 0 => status[Wanted(t)] # "pending"
    BY <1>5 DEF TestEnds
  <2> QED BY <1>0, <1>a, <2>1 DEF AwaitInv
<1>6. ASSUME UNCHANGED <<step, status, testVars>>
      PROVE  (AwaitedByTest(x) \/ AwaitedBySetup(x))'
  BY <1>0, <1>b, <1>6
<1> QED
  BY <1>a, <1>1, <1>2, <1>3, <1>4, <1>5, <1>6
     DEF Next, Setup, Cleanup, Test, OnCleanup, TestTimesOut, CleanupInstance,
         CleanupCalled, CleanupSettles, FileCleanupBegins,
         WorkerCleanupBegins, CleanupBegins, CleanupEnds, vars

(* ... the quiet after the tests,                                            *)
LEMMA QuietKept ==
  ASSUME FixtureAssumption, IInv, [Next]_vars
  PROVE  QuietInv'
<1> USE DEF Typed, TypeOK, QuietInv, Wanted, Running, FunctionRuns,
            DependencyReady, instanceVars, cleanupVars, testVars
<1>0. Typed /\ TypeOK /\ QuietInv
  BY AreTyped DEF IInv
<1>1. ASSUME NEW f \in Fixtures, SetupResumes(f) PROVE QuietInv'
  BY <1>0, <1>1 DEF SetupResumes, Start, Link, AllAskedFor
<1>2. ASSUME NEW f \in Fixtures, DependencyFails(f) PROVE QuietInv'
  BY <1>0, <1>2 DEF DependencyFails
<1>3. ASSUME NEW f \in Fixtures, OnCleanup(f) PROVE QuietInv'
  BY <1>0, <1>3 DEF OnCleanup
<1>4. ASSUME NEW f \in Fixtures, SetupSettles(f) PROVE QuietInv'
  BY <1>0, <1>4 DEF SetupSettles
<1>5. ASSUME NEW f \in Fixtures, CleanupInstance(f) PROVE QuietInv'
  BY <1>0, <1>5 DEF CleanupInstance
<1>6. ASSUME NEW f \in Fixtures, CleanupCalled(f) PROVE QuietInv'
  BY <1>0, <1>6 DEF CleanupCalled
<1>7. ASSUME NEW f \in Fixtures, CleanupSettles(f) PROVE QuietInv'
  BY <1>0, <1>7 DEF CleanupSettles
<1>8. ASSUME NEW t \in Tests, Ask(t) PROVE QuietInv'
  BY <1>0, <1>8 DEF Ask, Start
<1>9. ASSUME NEW t \in Tests, TestEnds(t) PROVE QuietInv'
  BY <1>0, <1>9 DEF TestEnds
<1>10. ASSUME NEW t \in Tests, TestTimesOut(t) PROVE QuietInv'
  BY <1>0, <1>10 DEF TestTimesOut
<1>11. CASE FileCleanupBegins
  BY <1>0, <1>11, NobodyPending DEF FileCleanupBegins, CleanupBegins, IInv
<1>12. CASE WorkerCleanupBegins
  BY <1>0, <1>12 DEF WorkerCleanupBegins, CleanupBegins, Of
<1>13. CASE CleanupEnds
  BY <1>0, <1>13 DEF CleanupEnds, Of
<1>14. CASE UNCHANGED vars
  BY <1>0, <1>14 DEF vars
<1> QED
  BY <1>1, <1>2, <1>3, <1>4, <1>5, <1>6, <1>7, <1>8, <1>9, <1>10, <1>11,
     <1>12, <1>13, <1>14
     DEF Next, Setup, Cleanup, Test

(* ... the instances a cleanup() is about,                                   *)
LEMMA SnapshotKept ==
  ASSUME FixtureAssumption, IInv, [Next]_vars
  PROVE  SnapshotInv'
<1> USE DEF Typed, TypeOK, SnapshotInv, CleanInv, CleanedUp, instanceVars,
            cleanupVars, testVars
<1>0. Typed /\ TypeOK /\ SnapshotInv /\ CleanInv
  BY AreTyped DEF IInv
<1>1. ASSUME NEW f \in Fixtures, SetupResumes(f) PROVE SnapshotInv'
  BY <1>0, <1>1 DEF SetupResumes, Start, Link, AllAskedFor
<1>2. ASSUME NEW f \in Fixtures, DependencyFails(f) PROVE SnapshotInv'
  BY <1>0, <1>2 DEF DependencyFails
<1>3. ASSUME NEW f \in Fixtures, OnCleanup(f) PROVE SnapshotInv'
  BY <1>0, <1>3 DEF OnCleanup
<1>4. ASSUME NEW f \in Fixtures, SetupSettles(f) PROVE SnapshotInv'
  BY <1>0, <1>4 DEF SetupSettles
<1>5. ASSUME NEW f \in Fixtures, CleanupInstance(f) PROVE SnapshotInv'
  BY <1>0, <1>5 DEF CleanupInstance
<1>6. ASSUME NEW f \in Fixtures, CleanupCalled(f) PROVE SnapshotInv'
  BY <1>0, <1>6 DEF CleanupCalled
<1>7. ASSUME NEW f \in Fixtures, CleanupSettles(f) PROVE SnapshotInv'
  BY <1>0, <1>7 DEF CleanupSettles
<1>8. ASSUME NEW t \in Tests, Ask(t) PROVE SnapshotInv'
  BY <1>0, <1>8 DEF Ask, Start
<1>9. ASSUME NEW t \in Tests, TestEnds(t) PROVE SnapshotInv'
  BY <1>0, <1>9 DEF TestEnds
<1>10. ASSUME NEW t \in Tests, TestTimesOut(t) PROVE SnapshotInv'
  BY <1>0, <1>10 DEF TestTimesOut
<1>11. CASE FileCleanupBegins
  BY <1>0, <1>11 DEF FileCleanupBegins, CleanupBegins, Of
<1>12. CASE WorkerCleanupBegins
  BY <1>0, <1>12 DEF WorkerCleanupBegins, CleanupBegins, Of
<1>13. CASE CleanupEnds
  BY <1>0, <1>13 DEF CleanupEnds, Of
<1>14. CASE UNCHANGED vars
  BY <1>0, <1>14 DEF vars
<1> QED
  BY <1>1, <1>2, <1>3, <1>4, <1>5, <1>6, <1>7, <1>8, <1>9, <1>10, <1>11,
     <1>12, <1>13, <1>14
     DEF Next, Setup, Cleanup, Test

(* ... how far each has come,                                                *)
LEMMA CleanKept ==
  ASSUME FixtureAssumption, IInv, [Next]_vars
  PROVE  CleanInv'
<1> USE DEF Typed, TypeOK, CleanInv, SnapshotInv, FunctionRuns,
            TeardownReady, instanceVars, cleanupVars, testVars
<1>0. Typed /\ TypeOK /\ CleanInv /\ SnapshotInv
  BY AreTyped DEF IInv
<1>1. ASSUME NEW f \in Fixtures, SetupResumes(f) PROVE CleanInv'
  <2>1. CASE UNCHANGED <<instances, status, dependents>>
    BY <1>0, <1>1, <2>1, ResumesEither
  <2>2. ASSUME NEW d \in Fixtures \ {f}, Start(d), Link(f, d),
               step[f] + 1 \in 1 .. Len(Deps[f]), d = Deps[f][step[f] + 1]
        PROVE  CleanInv'
    BY <1>0, <1>1, <2>2, ResumesEither DEF Start, Link
  <2> QED BY <1>0, <1>1, <2>1, <2>2, ResumesEither
<1>2. ASSUME NEW f \in Fixtures, DependencyFails(f) PROVE CleanInv'
  BY <1>0, <1>2 DEF DependencyFails
<1>3. ASSUME NEW f \in Fixtures, OnCleanup(f) PROVE CleanInv'
  BY <1>0, <1>3 DEF OnCleanup
<1>4. ASSUME NEW f \in Fixtures, SetupSettles(f) PROVE CleanInv'
  BY <1>0, <1>4 DEF SetupSettles
<1>5. ASSUME NEW f \in Fixtures, CleanupInstance(f) PROVE CleanInv'
  BY <1>0, <1>5 DEF CleanupInstance
<1>6. ASSUME NEW f \in Fixtures, CleanupCalled(f) PROVE CleanInv'
  BY <1>0, <1>6 DEF CleanupCalled
<1>7. ASSUME NEW f \in Fixtures, CleanupSettles(f) PROVE CleanInv'
  BY <1>0, <1>7 DEF CleanupSettles
<1>8. ASSUME NEW t \in Tests, Ask(t) PROVE CleanInv'
  BY <1>0, <1>8 DEF Ask, Start
<1>9. ASSUME NEW t \in Tests, TestEnds(t) PROVE CleanInv'
  BY <1>0, <1>9 DEF TestEnds
<1>10. ASSUME NEW t \in Tests, TestTimesOut(t) PROVE CleanInv'
  BY <1>0, <1>10 DEF TestTimesOut
<1>11. CASE FileCleanupBegins
  BY <1>0, <1>11 DEF FileCleanupBegins, CleanupBegins, Of
<1>12. CASE WorkerCleanupBegins
  BY <1>0, <1>12 DEF WorkerCleanupBegins, CleanupBegins, Of
<1>13. CASE CleanupEnds
  BY <1>0, <1>13 DEF CleanupEnds, Of
<1>14. CASE UNCHANGED vars
  BY <1>0, <1>14 DEF vars
<1> QED
  BY <1>1, <1>2, <1>3, <1>4, <1>5, <1>6, <1>7, <1>8, <1>9, <1>10, <1>11,
     <1>12, <1>13, <1>14
     DEF Next, Setup, Cleanup, Test

(* ... and the order.                                                        *)
LEMMA OrderKept ==
  ASSUME FixtureAssumption, IInv, [Next]_vars
  PROVE  OrderInv'
<1> USE DEF Typed, TypeOK, OrderInv, CleanInv, SnapshotInv, QuietInv,
            KnownInv, CleanedUp, AwaitedDependents, FunctionRuns, Running,
            instanceVars, cleanupVars, testVars
<1>0. /\ Typed /\ TypeOK /\ OrderInv /\ CleanInv /\ SnapshotInv
      /\ QuietInv /\ KnownInv
  BY AreTyped DEF IInv
<1>1. ASSUME NEW f \in Fixtures, SetupResumes(f) PROVE OrderInv'
  BY <1>0, <1>1 DEF SetupResumes, Start, Link, AllAskedFor
<1>2. ASSUME NEW f \in Fixtures, DependencyFails(f) PROVE OrderInv'
  BY <1>0, <1>2 DEF DependencyFails
<1>3. ASSUME NEW f \in Fixtures, OnCleanup(f) PROVE OrderInv'
  BY <1>0, <1>3 DEF OnCleanup
<1>4. ASSUME NEW f \in Fixtures, SetupSettles(f) PROVE OrderInv'
  BY <1>0, <1>4 DEF SetupSettles
<1>5. ASSUME NEW f \in Fixtures, CleanupInstance(f) PROVE OrderInv'
  BY <1>0, <1>5 DEF CleanupInstance
<1>6. ASSUME NEW f \in Fixtures, CleanupCalled(f) PROVE OrderInv'
  BY <1>0, <1>6 DEF CleanupCalled
<1>7. ASSUME NEW f \in Fixtures, CleanupSettles(f) PROVE OrderInv'
  BY <1>0, <1>7 DEF CleanupSettles
<1>8. ASSUME NEW t \in Tests, Ask(t) PROVE OrderInv'
  BY <1>0, <1>8 DEF Ask, Start
<1>9. ASSUME NEW t \in Tests, TestEnds(t) PROVE OrderInv'
  BY <1>0, <1>9 DEF TestEnds
<1>10. ASSUME NEW t \in Tests, TestTimesOut(t) PROVE OrderInv'
  BY <1>0, <1>10 DEF TestTimesOut
<1>11. CASE FileCleanupBegins
  BY <1>0, <1>11 DEF FileCleanupBegins, CleanupBegins, Of
<1>12. CASE WorkerCleanupBegins
  BY <1>0, <1>12 DEF WorkerCleanupBegins, CleanupBegins, Of
<1>13. CASE CleanupEnds
  BY <1>0, <1>13 DEF CleanupEnds, Of
<1>14. CASE UNCHANGED vars
  BY <1>0, <1>14 DEF vars
<1> QED
  BY <1>1, <1>2, <1>3, <1>4, <1>5, <1>6, <1>7, <1>8, <1>9, <1>10, <1>11,
     <1>12, <1>13, <1>14
     DEF Next, Setup, Cleanup, Test

(* The initial states.                                                       *)
LEMMA InitIInv == FixtureAssumption /\ Init => IInv
<1> SUFFICES ASSUME FixtureAssumption, Init PROVE IInv
  OBVIOUS
<1>0. Typed /\ Init
  BY AreTyped
<1>1. TypeOK
  <2>1. /\ \A f \in Fixtures : step[f] = 0 /\ dependents[f] = {}
        /\ \A f \in Fixtures : step[f] <= Len(Deps[f]) + 1
        /\ \A t \in Tests : asked[t] <= Len(Uses[t])
    BY <1>0 DEF Typed, Init
  <2> QED BY <2>1 DEF Init, TypeOK
<1>2. KnownInv /\ AwaitInv /\ QuietInv /\ SnapshotInv /\ CleanInv /\ OrderInv
  BY <1>0 DEF Init, KnownInv, AwaitInv, QuietInv, SnapshotInv, CleanInv,
     OrderInv
<1>3. SetupInv
  BY <1>0 DEF Typed, Init, SetupInv, SetupOf
<1> QED BY <1>1, <1>2, <1>3 DEF IInv

(* In every run, the invariant of the two managers, their clean-ups and the  *)
(* tests holds.                                                              *)
THEOREM FixtureInvariance == FixtureAssumption => (Spec => []IInv)
<1> SUFFICES ASSUME FixtureAssumption PROVE Spec => []IInv
  OBVIOUS
<1>1. Init => IInv
  BY InitIInv
<1>2. IInv /\ [Next]_vars => IInv'
  BY TypesKept, KnownKept, SetupKept, AwaitKept, QuietKept, SnapshotKept,
     CleanKept, OrderKept DEF IInv
<1> QED BY <1>1, <1>2, PTL DEF Spec

(* The invariant gives the order: what registered its cleanup has asked for  *)
(* all its dependencies and is a dependent of those of its scope, which they *)
(* wait for; what has the other scope is cleaned up before the worker is.    *)
LEMMA OrderFollows ==
  ASSUME FixtureAssumption, IInv
  PROVE  CleanupIsOrdered
<1>0. Typed /\ TypeOK /\ SetupInv /\ SnapshotInv /\ CleanInv /\ OrderInv
  BY AreTyped DEF IInv
<1>1. SnapshotIsCleanedUp
  BY <1>0 DEF SnapshotIsCleanedUp, Over, TypeOK, Typed, SnapshotInv, CleanInv,
              CleanedUp
<1>2. ASSUME ~ timedOut, NEW f \in Fixtures, NEW d \in ToSet(Deps[f]),
             f \in registered, cleanups[d] = "running"
      PROVE  cleanups[f] = "done"
  <2>1. PICK k \in 1 .. Len(Deps[f]) : d = Deps[f][k]
    BY <1>2 DEF ToSet, FixtureAssumption
  <2>2. /\ d \in Fixtures /\ Linked(f, d) /\ status[f] # "absent"
        /\ Scope[f] = "worker" => Scope[d] = "worker"
    BY <1>0, <1>2, <2>1
       DEF SetupInv, SetupOf, Typed, TypeOK, FixtureAssumption
  <2>3. CleanedUp(f)
    <3>1. CASE Scope[f] = Scope[d]
      BY <1>0, <1>2, <2>2, <3>1 DEF OrderInv, Linked
    <3>2. CASE Scope[f] # Scope[d]
      <4>1. Scope[f] = "file" /\ Scope[d] = "worker"
        BY <1>0, <2>2, <3>2 DEF Typed
      <4>2. stage \in {"worker", "over"}
        BY <1>0, <1>2, <2>2, <4>1 DEF CleanInv
      <4> QED BY <1>0, <1>2, <2>2, <4>1, <4>2 DEF OrderInv
    <3> QED BY <3>1, <3>2
  <2> QED BY <1>0, <1>2, <2>3 DEF CleanedUp, CleanInv
<1> QED BY <1>0, <1>1, <1>2 DEF CleanupIsOrdered, CleanedUpInReverse

(* In every run, what was there when a cleanup() began and registers a       *)
(* clean-up is cleaned up; and unless a test gave up on a set-up, a fixture  *)
(* is cleaned up after every fixture that uses it, across the two scopes     *)
(* (runtime/runner/fixtures.ts, FixtureScopeManager.cleanup).                *)
THEOREM CleanedInOrder == FixtureAssumption => (Spec => []CleanupIsOrdered)
<1> SUFFICES ASSUME FixtureAssumption PROVE Spec => []CleanupIsOrdered
  OBVIOUS
<1>1. IInv => CleanupIsOrdered
  BY OrderFollows
<1> QED BY <1>1, FixtureInvariance, PTL
=============================================================================
