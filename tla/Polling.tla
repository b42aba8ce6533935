------------------------------ MODULE Polling ------------------------------
(***************************************************************************)
(* The loops that retry a check until it holds or a timeout has passed:    *)
(* expect.poll (core/src/runtime/api/poll.ts), rs.waitFor and rs.waitUntil *)
(* (core/src/runtime/api/utilities.ts) and the retrying assertions on a    *)
(* page (playwright/src/expect.ts).                                        *)
(*                                                                         *)
(* A check takes time and samples the world when it ends; timers fire when *)
(* they are due or later. All of them use the real timers, whatever the    *)
(* test has faked.                                                         *)
(***************************************************************************)
EXTENDS Naturals, FiniteSets

CONSTANTS Kinds,        \* of poll, waitFor, waitUntil, page
          Timeout,      \* when it gives up
          Interval,     \* how long it sleeps between two checks
          MaxNow,       \* bound: the end of time
          None

VARIABLES kind,         \* the loop of this behavior
          isNot,        \* whether the assertion is negated
          now,
          world,        \* [holds, single]: does the condition hold, and is
                        \* there exactly one such element
          checks,       \* the checks under way: [from, last, race]
          wake,         \* when the loop wakes up, or None
          timedOut,     \* has the timer of the timeout fired
          settled,      \* none, resolved or rejected
          how           \* ghost: what settled it, and what ran after that

vars == <<kind, isNot, now, world, checks, wake, timedOut, settled, how>>

Check(last) == [from |-> now, last |-> last, over |-> FALSE]

Init == /\ kind \in Kinds /\ isNot \in BOOLEAN
        /\ kind \in {"waitFor", "waitUntil"} => ~isNot
        /\ now = 0 /\ world = [holds |-> FALSE, single |-> TRUE]
        /\ checks = {[from |-> 0, last |-> FALSE, over |-> FALSE]}
        /\ wake = None /\ timedOut = FALSE /\ settled = "none"
        /\ how = [from |-> 0, threw |-> FALSE, late |-> FALSE]

-----------------------------------------------------------------------------
(* What a check finds. A matcher on a text needs the one element it is on,   *)
(* negated or not.                                                           *)
Passes(threw) ==
  /\ ~threw
  /\ kind = "page" => world.single
  /\ world.holds # isNot

Settle(verdict, check, threw) ==
  IF settled = "none"
  THEN /\ settled' = verdict
       /\ how' = [how EXCEPT !.from = check.from, !.threw = threw]
  ELSE UNCHANGED <<settled, how>>

Begins(check) ==
  /\ checks' = checks \cup {check}
  /\ how' = [how EXCEPT !.late = @ \/ settled # "none"]

Least(a, b) == IF a < b THEN a ELSE b

(* A page's assertion does not sleep past its deadline, and no one past the  *)
(* end of time.                                                              *)
Sleeps ==
  wake' = Least(now + Interval, IF kind = "page" THEN Timeout ELSE MaxNow)

(* expect.poll: a check that fails is repeated after the interval, until the *)
(* timeout makes one last attempt, whose failure rejects the promise.        *)
RepeatAlways(check) == Sleeps /\ UNCHANGED <<settled, how>>

PollFails(check) ==
  IF check.last THEN Settle("rejected", check, FALSE) /\ UNCHANGED wake
  ELSE /\ IF timedOut THEN UNCHANGED wake ELSE Sleeps
       /\ UNCHANGED <<settled, how>>

(* waitFor and waitUntil look at the timeout when their callback returns and *)
(* when they wake up; an error of waitUntil's callback is not caught.        *)
WaitEnds(check, threw) ==
  IF timedOut \/ (threw /\ kind = "waitUntil")
  THEN Settle("rejected", check, threw) /\ UNCHANGED wake
  ELSE Sleeps /\ UNCHANGED <<settled, how>>

(* A page's assertion looks at the clock.                                    *)
PageFails(check) ==
  IF now >= Timeout THEN Settle("rejected", check, FALSE) /\ UNCHANGED wake
  ELSE Sleeps /\ UNCHANGED <<settled, how>>

CheckEnds(check, threw) ==
  /\ checks' = checks \ {check}
  /\ CASE check.over -> UNCHANGED <<wake, settled, how>>
       [] Passes(threw) /\ (timedOut => kind \in {"poll", "page"}) ->
            wake' = None /\ Settle("resolved", check, FALSE)
       [] kind = "poll" -> PollFails(check)
       [] kind \in {"waitFor", "waitUntil"} -> WaitEnds(check, threw)
       [] OTHER -> PageFails(check)
  /\ UNCHANGED <<kind, isNot, now, world, timedOut>>

(* The loop wakes up.                                                        *)
Wakes ==
  /\ wake # None /\ now >= wake /\ wake' = None
  /\ IF \/ kind \in {"waitFor", "waitUntil"} /\ timedOut
        \/ kind = "page" /\ now > Timeout
     THEN /\ Settle("rejected", how, FALSE) /\ UNCHANGED checks
     ELSE /\ Begins(Check(FALSE)) /\ UNCHANGED settled
  /\ UNCHANGED <<kind, isNot, now, world, timedOut>>

(* The timer of the timeout: expect.poll makes its last attempt, waitFor and *)
(* waitUntil take note, and a page's check under way is given up (it goes    *)
(* on, and nobody awaits it).                                                *)
TimesOut ==
  /\ ~timedOut /\ settled = "none" /\ now >= Timeout
  /\ timedOut' = TRUE
  /\ CASE kind = "poll" ->
            /\ wake' = None
            /\ Begins(Check(TRUE)) /\ UNCHANGED settled
       [] kind = "page" ->
            /\ \E check \in checks : ~check.over
            /\ checks' = {[c EXCEPT !.over = TRUE] : c \in checks}
            /\ Settle("rejected", how, FALSE) /\ UNCHANGED wake
       [] OTHER -> UNCHANGED <<checks, wake, settled, how>>
  /\ UNCHANGED <<kind, isNot, now, world>>

(* Time passes and the world changes.                                        *)
Tick == /\ now < MaxNow /\ now' = now + 1
        /\ UNCHANGED <<kind, isNot, world, checks, wake, timedOut, settled,
                       how>>

Changes == /\ settled = "none"
           /\ world' \in [holds : BOOLEAN, single : BOOLEAN]
           /\ UNCHANGED <<kind, isNot, now, checks, wake, timedOut, settled,
                          how>>

CheckReturns ==
  \E check \in checks, threw \in BOOLEAN : CheckEnds(check, threw)

Next == CheckReturns \/ Wakes \/ TimesOut \/ Tick \/ Changes

Spec == Init /\ [][Next]_vars

(* Callbacks return, and timers fire.                                        *)
Fairness == /\ WF_vars(CheckReturns) /\ WF_vars(Wakes)
            /\ WF_vars(TimesOut) /\ WF_vars(Tick)

FairSpec == Spec /\ Fairness

-----------------------------------------------------------------------------
(* Nobody gives up early: a loop rejects only when its timeout has passed    *)
(* (or waitUntil's callback threw), and expect.poll only after an attempt    *)
(* that began then. What waitFor and waitUntil return came in time. And once *)
(* it settled, no other check begins.                                        *)
VerdictIsDue ==
  /\ settled = "rejected" =>
       \/ now >= Timeout
       \/ kind = "waitUntil" /\ how.threw
  /\ settled = "rejected" /\ kind = "poll" => how.from >= Timeout
  /\ settled = "resolved" /\ kind \in {"waitFor", "waitUntil"} => ~timedOut
  /\ ~how.late

=============================================================================
