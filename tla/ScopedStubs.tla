---------------------------- MODULE ScopedStubs ----------------------------
(***************************************************************************)
(* What rs.stubEnv, rs.stubGlobal, rs.useFakeTimers, rs.setSystemTime and  *)
(* rs.setConfig change, and how it is undone: a disposable for each scope, *)
(* which may be chained and is disposed in any order, the unstubAll calls, *)
(* useRealTimers, and the reset of the worker-wide utilities between two   *)
(* test files (core/src/runtime/api/utilities.ts, fakeTimers.ts).          *)
(*                                                                         *)
(* Every call is synchronous, so the module is about their sequences. The  *)
(* state of the clock (its time, timers and jobs) is one number.           *)
(***************************************************************************)
EXTENDS Naturals, Sequences, SequencesExt

CONSTANTS Names,        \* the stubbed variables and globals
          Values,       \* what they are stubbed with
          Options,      \* the options fake timers are given
          MaxCalls,     \* bound: calls of the test files
          None          \* no value: the variable is not defined

VARIABLES value,        \* name -> its value
          stacks,       \* name -> its stack of entries [id, saved]
          timers,       \* the FakeTimers: [fake, config, clock, pin]
          timerStack,   \* its stack of entries
          scopes,       \* the disposables: what each disposes of, in order
          config,       \* the runtime config of the running file
          kept,         \* originalConfig, or None
          base,         \* ghost: what each name, the timers and the config
                        \* were before the first live scope
          live,         \* ghost: name -> the stubs of it not yet undone
          calls

vars == <<value, stacks, timers, timerStack, scopes, config, kept, base, live,
          calls>>

RealTimers == [fake |-> FALSE, config |-> None, clock |-> 0, pin |-> None]

Init == /\ value \in [Names -> {None, "own"}]
        /\ stacks = [n \in Names |-> <<>>]
        /\ timers = RealTimers /\ timerStack = <<>>
        /\ scopes = <<>>
        /\ config = "file" /\ kept = None
        /\ base = [value |-> value, timers |-> timers]
        /\ live = [n \in Names |-> <<>>]
        /\ calls = 0

Call == calls < MaxCalls /\ calls' = calls + 1

Stubs == <<value, stacks, live>>
Timers == <<timers, timerStack>>
Config == <<config, kept>>

-----------------------------------------------------------------------------
(* restoreScopedEntry: what is left of a stack, and what is restored, if its *)
(* newest entry is disposed of. An entry below a newer one hands down what   *)
(* it saved.                                                                 *)
IndexOf(stack, id) ==
  LET found == {i \in DOMAIN stack : stack[i].id = id}
  IN  IF found = {} THEN 0 ELSE CHOOSE i \in found : TRUE

DropShadowed(stack, id) ==
  LET i == IndexOf(stack, id)
      tail == i # 0 /\ i = Len(stack)
  IN  [stack |-> IF i = 0 THEN stack ELSE RemoveAt(stack, i),
       restores |-> tail,
       saved |-> IF tail THEN stack[i].saved ELSE None]

restoreScopedEntry(stack, id) ==
  LET i == IndexOf(stack, id)
      tail == i # 0 /\ i = Len(stack)
      handed == IF i = 0 \/ tail THEN stack
                ELSE [stack EXCEPT ![i + 1].saved = stack[i].saved]
  IN  [stack |-> IF i = 0 THEN stack ELSE RemoveAt(handed, i),
       restores |-> tail,
       saved |-> IF tail THEN stack[i].saved ELSE None]

(* FakeTimers: useFakeTimers keeps the date that is pinned, or the time of   *)
(* the clock installed before; useRealTimers drops both.                     *)
Faked(t, opts) ==
  [fake |-> TRUE, config |-> opts, pin |-> None,
   clock |-> IF t.pin # None THEN t.pin ELSE t.clock]

(* What the disposer of a timer scope makes of the timers it saved.          *)
TimersAgain(saved) ==
  IF saved.fake
  THEN [Faked(RealTimers, saved.config) EXCEPT !.clock = saved.clock]
  ELSE [RealTimers EXCEPT !.pin = saved.pin]

-----------------------------------------------------------------------------
Without(seq, id) == SelectSeq(seq, LAMBDA e : e.id # id)

(* A call that opens a scope gives it to the chained one, or to a new one.   *)
Opens(item) ==
  \/ scopes' = Append(scopes, <<item>>)
  \/ \E s \in DOMAIN scopes :
       /\ scopes[s] # <<>>
       /\ scopes' = [scopes EXCEPT ![s] = Append(@, item)]

(* stubEnv and stubGlobal.                                                   *)
Stub(name, new) ==
  LET id == <<name, calls>>
  IN  /\ Call /\ Opens([on |-> "stub", name |-> name, id |-> id])
      /\ stacks' = [stacks EXCEPT
                      ![name] = Append(@, [id |-> id, saved |-> value[name]])]
      /\ value' = [value EXCEPT ![name] = new]
      /\ live' = [live EXCEPT ![name] = Append(@, [id |-> id, value |-> new])]
      /\ base' = IF live[name] = <<>>
                 THEN [base EXCEPT !.value[name] = value[name]] ELSE base
      /\ UNCHANGED <<Timers, Config>>

UseFakeTimers(opts) ==
  LET id == <<"timers", calls>>
  IN  /\ Call /\ Opens([on |-> "timers", name |-> None, id |-> id])
      /\ timerStack' = Append(timerStack, [id |-> id, saved |-> timers])
      /\ timers' = Faked(timers, opts)
      /\ base' = IF timerStack = <<>> THEN [base EXCEPT !.timers = timers]
                 ELSE base
      /\ UNCHANGED <<Stubs, Config>>

(* One disposer of a scope, and all of them, the newest first; a scope is    *)
(* disposed of once.                                                         *)
Disposed(world, item) ==
  IF item.on = "stub"
  THEN LET r == restoreScopedEntry(world.stacks[item.name], item.id)
       IN  [world EXCEPT
              !.stacks[item.name] = r.stack,
              !.value[item.name] = IF r.restores THEN r.saved ELSE @,
              !.live[item.name] = Without(@, item.id)]
  ELSE LET r == restoreScopedEntry(world.timerStack, item.id)
       IN  [world EXCEPT
              !.timerStack = r.stack,
              !.timers = IF r.restores THEN TimersAgain(r.saved) ELSE @]

Dispose(s) ==
  LET now == [stacks |-> stacks, value |-> value, live |-> live,
              timers |-> timers, timerStack |-> timerStack]
      after == FoldLeft(Disposed, now, Reverse(scopes[s]))
  IN  /\ Call /\ scopes[s] # <<>>
      /\ scopes' = [scopes EXCEPT ![s] = <<>>]
      /\ stacks' = after.stacks /\ value' = after.value
      /\ live' = after.live
      /\ timers' = after.timers /\ timerStack' = after.timerStack
      /\ UNCHANGED <<Config, base>>

-----------------------------------------------------------------------------
(* unstubAllEnvs and unstubAllGlobals restore what the oldest entry saved.   *)
UnstubAll ==
  /\ Call
  /\ value' = [n \in Names |-> IF stacks[n] = <<>> THEN value[n]
                               ELSE stacks[n][1].saved]
  /\ stacks' = [n \in Names |-> <<>>] /\ live' = stacks'
  /\ UNCHANGED <<Timers, scopes, Config, base>>

UseRealTimers ==
  /\ Call /\ timers' = RealTimers /\ timerStack' = <<>>
  /\ base' = [base EXCEPT !.timers = RealTimers]
  /\ UNCHANGED <<Stubs, scopes, Config>>

(* setSystemTime moves a fake clock, or else pins the date; a fake clock     *)
(* also advances.                                                            *)
SetSystemTime ==
  /\ Call
  /\ timers' = IF timers.fake THEN [timers EXCEPT !.clock = @ + 1]
               ELSE [timers EXCEPT !.pin = 7]
  /\ base' = IF timerStack = <<>> THEN [base EXCEPT !.timers = timers']
             ELSE base
  /\ UNCHANGED <<Stubs, timerStack, scopes, Config>>

SetConfig ==
  /\ Call /\ config' = "test"
  /\ kept' = IF kept = None THEN config ELSE kept
  /\ UNCHANGED <<Stubs, Timers, scopes, base>>

ResetConfig ==
  /\ Call /\ kept # None /\ config' = kept
  /\ UNCHANGED <<Stubs, Timers, scopes, kept, base>>

(* The next test file of the worker: its own config and real timers, and     *)
(* resetForFile drops the bookkeeping. What a scope of the earlier file did  *)
(* is undone by the runner if it is configured to, or else it stays.         *)
NextFile ==
  /\ Call
  /\ timers' = RealTimers /\ timerStack' = <<>>
  /\ stacks' = [n \in Names |-> <<>>] /\ live' = stacks'
  /\ config' = "file" /\ kept' = None
  /\ base' = [value |-> value, timers |-> RealTimers]
  /\ UNCHANGED <<value, scopes>>

Next == \/ \E n \in Names, v \in Values : Stub(n, v)
        \/ \E opts \in Options : UseFakeTimers(opts)
        \/ \E s \in DOMAIN scopes : Dispose(s)
        \/ UnstubAll \/ UseRealTimers \/ SetSystemTime
        \/ SetConfig \/ ResetConfig \/ NextFile

Spec == Init /\ [][Next]_vars

-----------------------------------------------------------------------------
(* In whatever order scopes are disposed of, undone all at once or left to   *)
(* the next file: a name has the value of its newest stub that is not undone *)
(* and, when none is left, the one it had before; timers whose scopes are    *)
(* all disposed of are as before the first; no later disposal of a scope     *)
(* that is over changes anything back.                                       *)
ScopesUnwind ==
  /\ \A n \in Names :
       value[n] = IF live[n] = <<>> THEN base.value[n] ELSE Last(live[n]).value
  /\ timerStack = <<>> => timers = base.timers

=============================================================================
