------------------------------- MODULE Spies -------------------------------
(***************************************************************************)
(* Mock functions and spies (core/src/runtime/api/spy.ts): what a call of  *)
(* one runs, what it records, how withImplementation, mockClear, mockReset *)
(* and mockRestore change that, and the registry behind clearAllMocks,     *)
(* resetAllMocks and restoreAllMocks, which a worker keeps across the test *)
(* files (and the projects) it serves.                                     *)
(*                                                                         *)
(* An implementation is a name: the one a mock was made with, or others.   *)
(***************************************************************************)
EXTENDS Naturals, Sequences, SequencesExt

CONSTANTS Mocks,        \* the mock functions
          ProjectOf,    \* mock -> the project whose file makes it
          Shared,       \* the mocks of modules that survive their file
          Impls,        \* what a test may give them as implementations
          MaxCalls,     \* bound: calls of the tests
          None

VARIABLES mock,         \* mock -> its state
          registry,     \* project -> the mocks registered for it
          alive,        \* the mocks that are not collected
          project,      \* the project of the running file
          order,        \* callOrder
          scopes,       \* the withImplementation calls under way
          own,          \* ghost: mock -> what it was last told to do
          ran,          \* the last call: what it ran and should have run
          calls

vars == <<mock, registry, alive, project, order, scopes, own, ran, calls>>

Projects == {ProjectOf[m] : m \in Mocks}

(* The implementation, those for the next calls, the order of its calls      *)
(* since it was cleared, and whether the spied method is still replaced.     *)
Made == [impl |-> "made", once |-> <<>>, order |-> <<>>, installed |-> TRUE]

Idle == [impl |-> "made", once |-> <<>>]

Init == /\ mock = [m \in Mocks |-> Made]
        /\ registry = [p \in Projects |-> {}]
        /\ alive = {}
        /\ project \in Projects
        /\ order = 0 /\ scopes = <<>>
        /\ own = [m \in Mocks |-> Idle]
        /\ ran = [of |-> None] /\ calls = 0

Call == calls < MaxCalls /\ calls' = calls + 1

Usable(m) == m \in alive /\ ProjectOf[m] = project

-----------------------------------------------------------------------------
(* wrapSpy registers the new mock for the project of the running file.       *)
RegisterForAll(m) == registry' = [p \in Projects |-> registry[p] \cup {m}]

Register(m) == registry' = [registry EXCEPT ![project] = @ \cup {m}]

Make(m) ==
  /\ Call /\ m \notin alive /\ ProjectOf[m] = project
  /\ alive' = alive \cup {m}
  /\ mock' = [mock EXCEPT ![m] = Made]
  /\ own' = [own EXCEPT ![m] = Idle]
  /\ Register(m)
  /\ UNCHANGED <<project, order, scopes, ran>>

(* willCall: the next implementation for one call, or the implementation.    *)
Invoke(m) ==
  LET s == mock[m]
      o == own[m]
  IN  /\ Call /\ Usable(m) /\ s.installed
      /\ order' = order + 1
      /\ mock' = [mock EXCEPT ![m].order = Append(@, order + 1),
                              ![m].once = IF @ = <<>> THEN @ ELSE Tail(@)]
      /\ own' = [own EXCEPT ![m].once = IF @ = <<>> THEN @ ELSE Tail(@)]
      /\ ran' = [of |-> m,
                 ran |-> IF s.once = <<>> THEN s.impl ELSE Head(s.once),
                 due |-> IF o.once = <<>> THEN o.impl ELSE Head(o.once)]
      /\ UNCHANGED <<registry, alive, project, scopes>>

(* mockImplementation and mockImplementationOnce, and what is written with   *)
(* them (mockReturnValue, mockThrow, mockResolvedValue, ...).                *)
MockImplementation(m, impl) ==
  /\ Call /\ Usable(m)
  /\ mock' = [mock EXCEPT ![m].impl = impl]
  /\ own' = [own EXCEPT ![m].impl = impl]
  /\ UNCHANGED <<registry, alive, project, order, scopes, ran>>

MockImplementationOnce(m, impl) ==
  /\ Call /\ Usable(m)
  /\ mock' = [mock EXCEPT ![m].once = Append(@, impl)]
  /\ own' = [own EXCEPT ![m].once = Append(@, impl)]
  /\ UNCHANGED <<registry, alive, project, order, scopes, ran>>

-----------------------------------------------------------------------------
(* withImplementation: the callback may be asynchronous; when it settles,    *)
(* both what was and the queue of next calls are put back.                   *)
WithImplementation(m, impl) ==
  /\ Call /\ Usable(m)
  /\ scopes' = Append(scopes, [of |-> m, impl |-> mock[m].impl,
                               once |-> mock[m].once, own |-> own[m]])
  /\ mock' = [mock EXCEPT ![m].impl = impl, ![m].once = <<>>]
  /\ own' = [own EXCEPT ![m] = [impl |-> impl, once |-> <<>>]]
  /\ UNCHANGED <<registry, alive, project, order, ran>>

PutBackImpl(scope) == [mock EXCEPT ![scope.of].impl = scope.impl]

PutBack(scope) == [mock EXCEPT ![scope.of].impl = scope.impl,
                               ![scope.of].once = scope.once]

(* Callbacks that nest settle from the inside.                               *)
CallbackSettles ==
  LET scope == Last(scopes)
  IN  /\ scopes # <<>> /\ scopes' = Front(scopes)
      /\ mock' = PutBack(scope)
      /\ own' = [own EXCEPT ![scope.of] = scope.own]
      /\ UNCHANGED <<registry, alive, project, order, ran, calls>>

(* mockClear forgets the calls, mockReset also the implementations, and      *)
(* mockRestore also gives the spied method back.                             *)
Cleared(s, how) ==
  [s EXCEPT !.order = <<>>,
            !.impl = IF how = "clear" THEN @ ELSE "made",
            !.once = IF how = "clear" THEN @ ELSE <<>>,
            !.installed = IF how = "restore" THEN FALSE ELSE @]

OwnCleared(o, how) == IF how = "clear" THEN o ELSE Idle

(* forEachMock: the live mocks registered for the project of the file.       *)
ForEachMock(how) ==
  LET swept == registry[project] \cap alive
  IN  /\ Call /\ scopes = <<>>
      /\ mock' = [m \in Mocks |-> IF m \in swept THEN Cleared(mock[m], how)
                                  ELSE mock[m]]
      /\ own' = [m \in Mocks |->
                   IF m \in alive /\ ProjectOf[m] = project
                   THEN OwnCleared(own[m], how) ELSE own[m]]
      /\ registry' = [registry EXCEPT ![project] = swept]
      /\ UNCHANGED <<alive, project, order, scopes, ran>>

(* The next file of the worker: the mocks of its own modules are collected,  *)
(* the call order starts again.                                              *)
NextFile(p) ==
  /\ Call /\ scopes = <<>> /\ project' = p
  /\ alive' = alive \cap Shared /\ order' = 0
  /\ UNCHANGED <<mock, registry, scopes, own, ran>>

Next == \/ \E m \in Mocks :
             \/ Make(m) \/ Invoke(m)
             \/ \E impl \in Impls : \/ MockImplementation(m, impl)
                                    \/ MockImplementationOnce(m, impl)
                                    \/ WithImplementation(m, impl)
        \/ CallbackSettles
        \/ \E how \in {"clear", "reset", "restore"} : ForEachMock(how)
        \/ \E p \in Projects : NextFile(p)

Spec == Init /\ [][Next]_vars

-----------------------------------------------------------------------------
(* A call runs what the tests of the mock's own project last asked for: a    *)
(* scope that is over left nothing behind, a queue that a scope hid is used  *)
(* afterwards, and what another project's files reset on the same worker,    *)
(* or a file that came before, does not reach it.                            *)
RunsWhatItWasTold == ran.of # None => ran.ran = ran.due

=============================================================================
