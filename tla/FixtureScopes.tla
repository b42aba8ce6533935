---------------------------- MODULE FixtureScopes ----------------------------
(***************************************************************************)
(* File- and worker-scoped fixtures of one test file                       *)
(* (runtime/runner/fixtures.ts, FixtureScopeManager): the instances that   *)
(* the tests of the file share, set up on demand with their dependencies,  *)
(* and cleaned up after the tests (file scope), then when the worker is    *)
(* retired (worker scope).                                                 *)
(*                                                                         *)
(* A worker is one JavaScript thread, so an action is what runs from one   *)
(* await to the next; a timer fires when no continuation is pending.  A    *)
(* test that stops waiting for a fixture, at its timeout, does not stop    *)
(* the set-up of the fixture.                                              *)
(***************************************************************************)
EXTENDS Integers, Sequences, SequencesExt

CONSTANTS
  Fixtures,   \* the fixture definitions
  Scope,      \* the scope of each: "file" or "worker"
  Deps,       \* the dependencies of each, in order (fixture.deps)
  Tests,      \* the tests (and hooks) of the file
  Uses        \* the fixtures each asks for, in order

(* What normalizeNamedFixture accepts: no cycles, so that in any set of them *)
(* there is one that no other of the set asks for, and nothing of file scope *)
(* below something of worker scope.                                          *)
FixtureAssumption ==
  /\ Scope \in [Fixtures -> {"file", "worker"}]
  /\ Deps \in [Fixtures -> Seq(Fixtures)]
  /\ Uses \in [Tests -> Seq(Fixtures)]
  /\ \A S \in (SUBSET Fixtures) \ {{}} :
       \E f \in S : \A g \in S : f \notin ToSet(Deps[g])
  /\ \A f \in Fixtures : \A d \in ToSet(Deps[f]) :
       Scope[f] = "worker" => Scope[d] = "worker"

VARIABLES
  (* the two managers *)
  instances,   \* this.instances, of either manager
  status,      \* instance.status ("absent": there is no instance yet)
  step,        \* dependencies asked for; one more when the function runs
  dependents,  \* instance.dependents
  registered,  \* instances with instance.cleanup
  (* their cleanup() *)
  stage,       \* the cleanup() that is under way
  snapshot,    \* the instances it was called with
  cleanups,    \* cleanupPromises: how far cleanupInstance() has come
  awaited,     \* the dependents each of them waits for
  (* the tests *)
  asked,       \* fixtures each test has asked for
  ended,       \* tests that are over
  timedOut     \* some test stopped waiting for a fixture

instanceVars == <<instances, status, step, dependents, registered>>
cleanupVars == <<stage, snapshot, cleanups, awaited>>
testVars == <<asked, ended, timedOut>>
vars == <<instanceVars, cleanupVars, testVars>>

-----------------------------------------------------------------------------
TypeOK ==
  /\ instances \subseteq Fixtures
  /\ status \in [Fixtures -> {"absent", "pending", "ready", "failed"}]
  /\ step \in [Fixtures -> Nat]
  /\ \A f \in Fixtures : step[f] <= Len(Deps[f]) + 1
  /\ dependents \in [Fixtures -> SUBSET Fixtures]
  /\ \A f \in Fixtures : \A g \in dependents[f] : Scope[f] = Scope[g]
  /\ registered \subseteq Fixtures
  /\ stage \in {"tests", "file", "retiring", "worker", "over"}
  /\ snapshot \subseteq Fixtures
  /\ cleanups \in
       [Fixtures ->
          {"none", "queued", "waiting", "running", "done", "nothing"}]
  /\ awaited \in [Fixtures -> SUBSET Fixtures]
  /\ asked \in [Tests -> Nat]
  /\ \A t \in Tests : asked[t] <= Len(Uses[t])
  /\ ended \subseteq Tests
  /\ timedOut \in BOOLEAN

Init ==
  /\ instances = {}
  /\ status = [f \in Fixtures |-> "absent"]
  /\ step = [f \in Fixtures |-> 0]
  /\ dependents = [f \in Fixtures |-> {}]
  /\ registered = {}
  /\ stage = "tests"
  /\ snapshot = {}
  /\ cleanups = [f \in Fixtures |-> "none"]
  /\ awaited = [f \in Fixtures |-> {}]
  /\ asked = [t \in Tests |-> 0]
  /\ ended = {}
  /\ timedOut = FALSE

-----------------------------------------------------------------------------
(* getFixture() and start(): an instance is made, and set up, once.          *)
Start(f) ==
  /\ instances' = instances \cup {f}
  /\ status' = [status EXCEPT ![f] = IF @ = "absent" THEN "pending" ELSE @]

(* Mutant: the managers share their dependents.                              *)
LinkAcross(f, d) == dependents' = [dependents EXCEPT ![d] = @ \cup {f}]

(* A fixture becomes a dependent of what it asks its own manager for.        *)
Link(f, d) ==
  dependents' =
    IF Scope[f] = Scope[d] THEN [dependents EXCEPT ![d] = @ \cup {f}]
    ELSE dependents

AllAskedFor(f) == step[f] = Len(Deps[f])

FunctionRuns(f) == status[f] = "pending" /\ step[f] > Len(Deps[f])

(* The dependency that f awaits, if any, is there.                           *)
DependencyReady(f) == step[f] > 0 => status[Deps[f][step[f]]] = "ready"

(* The set-up of f asks for its next dependency, or calls the function.      *)
SetupResumes(f) ==
  /\ status[f] = "pending" /\ ~FunctionRuns(f)
  /\ DependencyReady(f)
  /\ step' = [step EXCEPT ![f] = @ + 1]
  /\ IF AllAskedFor(f)
     THEN UNCHANGED <<instances, status, dependents>>
     ELSE LET d == Deps[f][step[f] + 1] IN Start(d) /\ Link(f, d)
  /\ UNCHANGED <<registered, cleanupVars, testVars>>

(* A dependency of f failed, and f with it.                                  *)
DependencyFails(f) ==
  /\ status[f] = "pending" /\ ~FunctionRuns(f)
  /\ step[f] > 0
  /\ status[Deps[f][step[f]]] = "failed"
  /\ status' = [status EXCEPT ![f] = "failed"]
  /\ UNCHANGED <<instances, step, dependents, registered, cleanupVars,
                 testVars>>

(* The function registers its cleanup.                                       *)
OnCleanup(f) ==
  /\ FunctionRuns(f)
  /\ f \notin registered
  /\ registered' = registered \cup {f}
  /\ UNCHANGED <<instances, status, step, dependents, cleanupVars, testVars>>

(* The function returns a value, or throws.                                  *)
SetupSettles(f) ==
  /\ FunctionRuns(f)
  /\ \E s \in {"ready", "failed"} : status' = [status EXCEPT ![f] = s]
  /\ UNCHANGED <<instances, step, dependents, registered, cleanupVars,
                 testVars>>

-----------------------------------------------------------------------------
(* The fixture that test t waits for.                                        *)
Wanted(t) == Uses[t][asked[t]]

Running(t) == t \notin ended

(* resolveTestFixtures() asks for the next fixture of a test.                *)
Ask(t) ==
  /\ Running(t)
  /\ asked[t] > 0 => status[Wanted(t)] = "ready"
  /\ asked[t] < Len(Uses[t])
  /\ asked' = [asked EXCEPT ![t] = @ + 1]
  /\ Start(Uses[t][asked[t] + 1])
  /\ UNCHANGED <<step, dependents, registered, cleanupVars, ended, timedOut>>

(* A test is over: it ran with its fixtures, or one of them failed.          *)
TestEnds(t) ==
  /\ Running(t)
  /\ \/ asked[t] > 0 /\ status[Wanted(t)] = "failed"
     \/ asked[t] = Len(Uses[t])
        /\ (asked[t] > 0 => status[Wanted(t)] = "ready")
  /\ ended' = ended \cup {t}
  /\ UNCHANGED <<instanceVars, cleanupVars, asked, timedOut>>

(* Promise continuations that run before any timer.                          *)
ContinuationPending ==
  \E f \in Fixtures :
    /\ status[f] = "pending" /\ ~FunctionRuns(f)
    /\ DependencyReady(f) \/ status[Deps[f][step[f]]] = "failed"

(* A test (or hook) times out while it waits for a fixture.                  *)
TestTimesOut(t) ==
  /\ ~ContinuationPending
  /\ Running(t)
  /\ asked[t] > 0
  /\ status[Wanted(t)] = "pending"
  /\ ended' = ended \cup {t}
  /\ timedOut' = TRUE
  /\ UNCHANGED <<instanceVars, cleanupVars, asked>>

-----------------------------------------------------------------------------
Of(scope) == {f \in instances : Scope[f] = scope}

(* cleanup() calls cleanupInstance() for every instance there is.            *)
CleanupBegins(scope) ==
  /\ stage' = scope
  /\ snapshot' = Of(scope)
  /\ cleanups' =
       [f \in Fixtures |-> IF f \in Of(scope) THEN "queued" ELSE cleanups[f]]
  /\ UNCHANGED <<instanceVars, awaited, testVars>>

FileCleanupBegins ==
  stage = "tests" /\ ended = Tests /\ CleanupBegins("file")

(* The worker is retired.                                                    *)
WorkerCleanupBegins == stage = "retiring" /\ CleanupBegins("worker")

(* cleanupInstance() begins with the dependents that f has by now.           *)
CleanupInstance(f) ==
  /\ cleanups[f] = "queued"
  /\ awaited' = [awaited EXCEPT ![f] = dependents[f]]
  /\ cleanups' =
       [g \in Fixtures |->
          IF g = f THEN "waiting"
          ELSE IF g \in dependents[f] /\ cleanups[g] = "none" THEN "queued"
          ELSE cleanups[g]]
  /\ UNCHANGED <<instanceVars, stage, snapshot, testVars>>

(* Mutant: a set-up that fails does not resolve instance.teardownReady.      *)
ReadyOrRegistered(f) == status[f] = "ready" \/ f \in registered

(* instance.teardownReady                                                    *)
TeardownReady(f) == status[f] \in {"ready", "failed"} \/ f \in registered

(* Mutant: dependents are not waited for.                                    *)
NoDependents(f) == {}

AwaitedDependents(f) == awaited[f]

(* The promise of cleanupInstance(f) has resolved.                           *)
CleanedUp(f) == cleanups[f] \in {"done", "nothing"}

(* The dependents are cleaned up; the cleanup of f, if any, is called.       *)
CleanupCalled(f) ==
  /\ cleanups[f] = "waiting"
  /\ \A g \in AwaitedDependents(f) : CleanedUp(g)
  /\ TeardownReady(f)
  /\ cleanups' =
       [cleanups EXCEPT ![f] =
          IF f \in registered THEN "running" ELSE "nothing"]
  /\ UNCHANGED <<instanceVars, stage, snapshot, awaited, testVars>>

(* The cleanup of f has settled; that it threw is reported at the end.       *)
CleanupSettles(f) ==
  /\ cleanups[f] = "running"
  /\ cleanups' = [cleanups EXCEPT ![f] = "done"]
  /\ UNCHANGED <<instanceVars, stage, snapshot, awaited, testVars>>

(* cleanup() is over and forgets its instances.                              *)
CleanupEnds ==
  /\ stage \in {"file", "worker"}
  /\ \A f \in snapshot : CleanedUp(f)
  /\ stage' = IF stage = "file" THEN "retiring" ELSE "over"
  /\ instances' = instances \ Of(stage)
  /\ UNCHANGED <<status, step, dependents, registered, snapshot, cleanups,
                 awaited, testVars>>

-----------------------------------------------------------------------------
Setup(f) ==
  \/ SetupResumes(f) \/ DependencyFails(f) \/ OnCleanup(f) \/ SetupSettles(f)

Cleanup(f) == CleanupInstance(f) \/ CleanupCalled(f) \/ CleanupSettles(f)

Test(t) == Ask(t) \/ TestEnds(t) \/ TestTimesOut(t)

Next ==
  \/ \E f \in Fixtures : Setup(f) \/ Cleanup(f)
  \/ \E t \in Tests : Test(t)
  \/ FileCleanupBegins \/ WorkerCleanupBegins \/ CleanupEnds

Spec == Init /\ [][Next]_vars

(* The event loop runs every continuation, and every test ends.  Functions   *)
(* and cleanups of fixtures end: when they do not, the host kills the worker.*)
Fairness ==
  /\ WF_vars(FileCleanupBegins) /\ WF_vars(WorkerCleanupBegins)
  /\ WF_vars(CleanupEnds)
  /\ \A t \in Tests : WF_vars(Test(t))
  /\ \A f \in Fixtures :
       /\ WF_vars(SetupResumes(f)) /\ WF_vars(DependencyFails(f))
       /\ WF_vars(SetupSettles(f))
       /\ WF_vars(Cleanup(f))

FairSpec == Spec /\ Fairness

-----------------------------------------------------------------------------
(* Properties.                                                               *)

Over(scope) ==
  IF scope = "file" THEN stage \in {"retiring", "worker", "over"}
  ELSE stage = "over"

(* This holds of the instances that exist when the cleanup begins: one that  *)
(* is still being set up then is waited for.                                 *)
SnapshotIsCleanedUp ==
  \A f \in registered \cap snapshot :
    Over(Scope[f]) => cleanups[f] = "done"

(* A fixture is cleaned up after every fixture that uses it, be they of the  *)
(* same scope or not: as long as no test gave up on a set-up.                *)
CleanedUpInReverse ==
  ~timedOut =>
    \A f \in Fixtures : \A d \in ToSet(Deps[f]) :
      /\ f \in registered
      /\ cleanups[d] = "running"
      => cleanups[f] = "done"

(* Both of the above.                                                        *)
CleanupIsOrdered == TypeOK /\ SnapshotIsCleanedUp /\ CleanedUpInReverse

(* Cleanups that wait for each other and for set-ups always finish.          *)
CleanupFinished == stage = "over"

=============================================================================
