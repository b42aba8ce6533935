------------------------- MODULE PlaywrightFixtures -------------------------
(***************************************************************************)
(* The browser, context and trace fixtures of the Playwright integration   *)
(* (playwright/src/fixture.ts) under the runner's order of clean-ups       *)
(* (core/src/runtime/runner/runner.ts): concurrent tests of one worker     *)
(* share cached browsers, each retains the browsers while it runs, and one *)
(* that failed asks for them to be closed once nobody uses them.           *)
(*                                                                         *)
(* A test is in one of these places: "idle"; "await" (a cached launch) or  *)
(* "join" (its own launch); "browser"; "tracing" (start); "use" (its body);*)
(* "fixtures", "finished" and "failed" (the three rounds of clean-ups);    *)
(* "stop", "close" and "finish" (cleanupContext); "waits" (for browsers to *)
(* close); "end".                                                          *)
(***************************************************************************)
EXTENDS Naturals, Sequences, FiniteSets, FiniteSetsExt

CONSTANTS Tests,        \* the tests of a file
          KeyOf,        \* test -> the cache key of its launch options
          UsesContext,  \* the tests that use more than the browser
          Modes,        \* the trace modes considered
          Retries,      \* how often a failed test is run again
          MaxFaults,    \* bound: faults of the world
          None

VARIABLES mode,         \* playwright.trace
          browser,      \* the browsers ever launched: [key, state]
          cache,        \* browserCache: key -> browser or None
          count,        \* activeBrowserFixtureCount
          requested,    \* browserCleanupRequested
          closing,      \* the browsers browserCleanupPromise waits for
          test,         \* test -> its attempt
          disk,         \* the trace directories: [test, attempt, dir]
          over,         \* the worker's clean-up: no, closing, yes
          faults

vars == <<mode, browser, cache, count, requested, closing, test, disk, over,
          faults>>

Keys == {KeyOf[t] : t \in Tests}

(* What an attempt knows: own and keeps are its two retentions of the        *)
(* browsers; caller is the round of clean-ups it is in, threw whether the    *)
(* clean-up under way did; lost that a fault hit its trace.                  *)
Fresh(attempt) ==
  [at |-> "idle", attempt |-> attempt, status |-> "none", browser |-> None,
   context |-> "none", traced |-> FALSE, released |-> FALSE,
   own |-> "none", keeps |-> "none", staged |-> FALSE, caller |-> "none",
   threw |-> FALSE, lost |-> FALSE]

Init == /\ mode \in Modes
        /\ browser = <<>> /\ cache = [k \in Keys |-> None]
        /\ count = 0 /\ requested = FALSE /\ closing = {}
        /\ test = [t \in Tests |-> Fresh(0)]
        /\ disk = {} /\ over = "no" /\ faults = 0

-----------------------------------------------------------------------------
Fault == faults < MaxFaults /\ faults' = faults + 1

shouldCaptureTrace(attempt) ==
  \/ mode \in {"on", "retain-on-failure"}
  \/ mode = "on-first-retry" /\ attempt = 1
  \/ mode = "on-all-retries" /\ attempt > 0

Failed(t) == test[t].status = "fail"

At(t, place) == test[t].at = place

Goes(t, place) == test' = [test EXCEPT ![t].at = place]

(* A fixture that throws fails the attempt, which goes on to its clean-ups.  *)
Throws(t) ==
  test' = [test EXCEPT ![t].at = "fixtures", ![t].status = "fail"]

Browsers == <<browser, cache>>
Retention == <<count, requested, closing>>

-----------------------------------------------------------------------------
(* getBrowser.                                                               *)
Launch(t) ==
  /\ browser' = Append(browser, [key |-> KeyOf[t], state |-> "launching"])
  /\ cache' = [cache EXCEPT ![KeyOf[t]] = Len(browser) + 1]
  /\ test' = [test EXCEPT ![t].at = "join", ![t].own = "held",
                          ![t].browser = Len(browser) + 1]

(* The auto fixture retains the browsers, then the browser is looked up.     *)
Start(t) ==
  /\ At(t, "idle") /\ over = "no"
  /\ count' = count + 1
  /\ IF cache[KeyOf[t]] = None
     THEN Launch(t)
     ELSE /\ test' = [test EXCEPT ![t].at = "await", ![t].own = "held",
                                  ![t].browser = cache[KeyOf[t]]]
          /\ UNCHANGED Browsers
  /\ UNCHANGED <<mode, requested, closing, disk, over, faults>>

StateOf(t) == browser[test[t].browser].state

Joined(t) == /\ At(t, "join")
             /\ CASE StateOf(t) = "launching" -> FALSE
                  [] StateOf(t) = "failed" -> Throws(t)
                  [] OTHER -> Goes(t, "browser")
             /\ UNCHANGED Browsers

(* A cached browser that lost its connection is replaced, unless another     *)
(* test already did.                                                         *)
Awaited(t) ==
  LET key == KeyOf[t]
      stale == cache[key] = test[t].browser
  IN  /\ At(t, "await")
      /\ CASE StateOf(t) = "launching" -> FALSE
           [] StateOf(t) = "failed" -> Throws(t) /\ UNCHANGED Browsers
           [] StateOf(t) = "open" -> Goes(t, "browser") /\ UNCHANGED Browsers
           [] OTHER ->
                IF stale \/ cache[key] = None THEN Launch(t)
                ELSE /\ test' = [test EXCEPT ![t].at = "join",
                                             ![t].browser = cache[key]]
                     /\ UNCHANGED Browsers

GetBrowser(t) == /\ Joined(t) \/ Awaited(t)
                 /\ UNCHANGED <<mode, Retention, disk, over, faults>>

(* The context fixture: newContext, then the trace starts.                   *)
NewContext(t) ==
  /\ At(t, "browser")
  /\ \/ /\ t \notin UsesContext
        /\ Goes(t, "use") /\ UNCHANGED faults
     \/ /\ t \in UsesContext /\ StateOf(t) = "open"
        /\ test' = [test EXCEPT ![t].context = "open",
                     ![t].at = IF shouldCaptureTrace(test[t].attempt)
                               THEN "tracing" ELSE "use"]
        /\ UNCHANGED faults
     \/ /\ t \in UsesContext /\ StateOf(t) # "open"
        /\ Throws(t) /\ UNCHANGED faults
  /\ UNCHANGED <<mode, Browsers, Retention, disk, over>>

StartTrace(t) ==
  /\ At(t, "tracing")
  /\ \/ /\ test' = [test EXCEPT ![t].traced = TRUE, ![t].at = "use"]
        /\ UNCHANGED faults
     \/ /\ test' = [test EXCEPT ![t].released = TRUE, ![t].at = "close",
                                ![t].caller = "start"]
        /\ Fault
  /\ UNCHANGED <<mode, Browsers, Retention, disk, over>>

(* The body and the afterEach hooks decide the verdict.                      *)
Body(t) ==
  /\ At(t, "use")
  /\ \E status \in {"pass", "fail"} :
       test' = [test EXCEPT ![t].status = status, ![t].at = "fixtures"]
  /\ UNCHANGED <<mode, Browsers, Retention, disk, over, faults>>

-----------------------------------------------------------------------------
(* closeBrowser empties the cache at once; closeBrowserWhenIdle does so only *)
(* if nobody retains the browsers, and joins a clean-up under way.           *)
Cached == {cache[k] : k \in Keys} \ {None}

CloseBrowsers ==
  /\ browser' = [b \in DOMAIN browser |->
                   IF b \in Cached THEN [browser[b] EXCEPT !.state = "closing"]
                   ELSE browser[b]]
  /\ cache' = [k \in Keys |-> None]

CloseWhileUsed(left, wanted) ==
  IF wanted /\ Cached # {} /\ closing = {}
  THEN CloseBrowsers /\ closing' = Cached /\ requested' = FALSE
  ELSE UNCHANGED <<Browsers, closing>> /\ requested' = wanted

closeBrowserWhenIdle(left, wanted) ==
  CASE ~wanted -> UNCHANGED <<Browsers, closing, requested>>
    [] wanted /\ Cached = {} ->
         UNCHANGED <<Browsers, closing>> /\ requested' = FALSE
    [] wanted /\ Cached # {} /\ left > 0 ->
         UNCHANGED <<Browsers, closing>> /\ requested' = TRUE
    [] OTHER ->
         /\ requested' = FALSE
         /\ IF closing = {} THEN CloseBrowsers /\ closing' = Cached
            ELSE UNCHANGED <<Browsers, closing>>

(* release(scheduleCleanup) of a retention that is held.                     *)
Release(schedule) ==
  /\ count' = count - 1
  /\ closeBrowserWhenIdle(count - 1, requested \/ ~schedule)

NoRelease == UNCHANGED <<Browsers, Retention>>

(* Fixture clean-ups, innermost first. While the attempt has not failed: the *)
(* page is closed (which may throw), the context retains the browsers for    *)
(* its onTestFinished hook, and the auto fixture releases its own.           *)
CleanFixtures(t) ==
  /\ At(t, "fixtures")
  /\ \/ /\ Failed(t)
        /\ test' = [test EXCEPT ![t].at = "finished"]
        /\ NoRelease /\ UNCHANGED faults
     \/ /\ ~Failed(t) /\ test[t].context = "open"
        /\ test' = [test EXCEPT ![t].at = "finished", ![t].status = "fail"]
        /\ NoRelease /\ Fault
     \/ /\ ~Failed(t) /\ test[t].context = "open"
        /\ test' = [test EXCEPT ![t].at = "waits", ![t].own = "released",
                                ![t].keeps = "held", ![t].caller = "fixtures"]
        /\ count' = count
        /\ closeBrowserWhenIdle(count, requested)
        /\ UNCHANGED faults
     \/ /\ ~Failed(t) /\ test[t].context # "open"
        /\ test' = [test EXCEPT ![t].at = "waits", ![t].own = "released",
                                ![t].caller = "fixtures"]
        /\ Release(TRUE) /\ UNCHANGED faults
  /\ UNCHANGED <<mode, disk, over>>

(* The hooks of onTestFinished: one of the test's own may throw before the   *)
(* context's runs, which then leaves the context to onTestFailed.            *)
Finished(t) ==
  /\ At(t, "finished")
  /\ \/ /\ ~Failed(t) /\ test[t].keeps = "held"
        /\ test' = [test EXCEPT ![t].released = TRUE, ![t].caller = "finished",
                     ![t].at = IF test[t].traced THEN "stop" ELSE "close"]
        /\ UNCHANGED faults
     \/ /\ ~Failed(t) /\ test[t].keeps # "held"
        /\ Goes(t, "end") /\ UNCHANGED faults
     \/ /\ ~Failed(t)
        /\ test' = [test EXCEPT ![t].status = "fail", ![t].at = "failed"]
        /\ Fault
     \/ /\ Failed(t)
        /\ Goes(t, "failed") /\ UNCHANGED faults
  /\ NoRelease /\ UNCHANGED <<mode, disk, over>>

(* The hooks of onTestFailed, last registered first: the context's, then the *)
(* auto fixture's, which asks for the browsers to be closed.                 *)
OnFailed(t) ==
  LET next == IF test[t].context = "none" THEN "release"
              ELSE IF test[t].released THEN "finish"
              ELSE IF test[t].traced THEN "stop" ELSE "close"
  IN  /\ At(t, "failed")
      /\ test' = [test EXCEPT ![t].at = next, ![t].caller = "failed",
                              ![t].released = TRUE]
      /\ NoRelease /\ UNCHANGED <<mode, disk, over, faults>>

ReleaseOwn(t) ==
  /\ At(t, "release")
  /\ test' = [test EXCEPT ![t].at = "waits", ![t].own = "released",
                          ![t].caller = "own"]
  /\ IF test[t].own = "held" THEN Release(FALSE) ELSE NoRelease
  /\ UNCHANGED <<mode, disk, over, faults>>

-----------------------------------------------------------------------------
(* cleanupContext. The trace is saved, or staged until the verdict is final; *)
(* a directory is reserved by creating it.                                   *)
ReserveBase(t) == [test |-> t, attempt |-> test[t].attempt, dir |-> 0]

reserveTraceArtifacts(t) ==
  LET taken == {d.dir : d \in {e \in disk : e.test = t}}
      free == CHOOSE i \in 0..Cardinality(taken) :
                i \notin taken /\ \A j \in 0..(i - 1) : j \in taken
  IN  [test |-> t, attempt |-> test[t].attempt, dir |-> free]

ShouldSave(t) == mode # "retain-on-failure" \/ Failed(t)

StopTrace(t) ==
  /\ At(t, "stop")
  /\ \/ /\ ShouldSave(t)
        /\ disk' = disk \cup {reserveTraceArtifacts(t)}
        /\ Goes(t, "close") /\ UNCHANGED faults
     \/ /\ ~ShouldSave(t)
        /\ test' = [test EXCEPT ![t].at = "close", ![t].staged = TRUE]
        /\ UNCHANGED <<disk, faults>>
     \/ /\ test' = [test EXCEPT ![t].at = "close", ![t].threw = TRUE,
                                ![t].lost = TRUE]
        /\ UNCHANGED disk /\ Fault
  /\ NoRelease /\ UNCHANGED <<mode, over>>

(* Unless all went well or the attempt failed, an error skips finish: the    *)
(* attempt fails by it, and onTestFailed comes back for it.                  *)
CloseContext(t) ==
  LET then(threw) ==
        IF threw /\ ~Failed(t) THEN "thrown" ELSE "finish"
  IN  /\ At(t, "close")
      /\ \/ /\ test' = [test EXCEPT ![t].context = "closed",
                                    ![t].at = then(test[t].threw)]
            /\ UNCHANGED faults
         \/ /\ test' = [test EXCEPT ![t].context = "unclosed",
                                    ![t].threw = TRUE, ![t].at = then(TRUE)]
            /\ Fault
      /\ NoRelease /\ UNCHANGED <<mode, disk, over>>

(* Where the caller of cleanupContext goes on after it.                      *)
Resumed(t) ==
  CASE test[t].caller = "failed" -> "release"
    [] test[t].caller = "start" -> "fixtures"
    [] OTHER -> IF Failed(t) \/ test[t].threw THEN "failed" ELSE "end"

Returned(t, attempt) ==
  [attempt EXCEPT !.at = Resumed(t), !.threw = FALSE,
                  !.status = IF attempt.threw \/ attempt.caller = "start"
                             THEN "fail" ELSE @]

Thrown(t) == /\ At(t, "thrown")
             /\ test' = [test EXCEPT ![t] = Returned(t, @)]
             /\ NoRelease /\ UNCHANGED <<mode, disk, over, faults>>

(* finishContextCleanup: a staged trace is copied for a failed attempt, and  *)
(* the staging directory is removed whatever happens.                        *)
CopiesStaged(t) == test[t].staged /\ Failed(t)

FinishContext(t) ==
  /\ At(t, "finish")
  /\ \/ /\ disk' = IF CopiesStaged(t) THEN disk \cup {reserveTraceArtifacts(t)}
                   ELSE disk
        /\ test' = [test EXCEPT ![t].at = "unhold", ![t].staged = FALSE]
        /\ UNCHANGED faults
     \/ /\ CopiesStaged(t)
        /\ test' = [test EXCEPT ![t].at = "unhold", ![t].staged = FALSE,
                                ![t].threw = TRUE, ![t].lost = TRUE]
        /\ UNCHANGED disk /\ Fault
  /\ NoRelease /\ UNCHANGED <<mode, over>>

ReleaseContext(t) ==
  /\ At(t, "unhold")
  /\ test' = [test EXCEPT ![t].at = "waits",
                          ![t].keeps = IF @ = "held" THEN "released" ELSE @]
  /\ IF test[t].keeps = "held" THEN Release(~Failed(t)) ELSE NoRelease
  /\ UNCHANGED <<mode, disk, over, faults>>

(* What awaited the browsers' closing goes on when they are closed.          *)
Waited(t) ==
  /\ At(t, "waits") /\ closing = {}
  /\ test' = CASE test[t].caller = "own" -> [test EXCEPT ![t].at = "end"]
               [] test[t].caller = "fixtures" ->
                    [test EXCEPT ![t].at = "finished"]
               [] OTHER -> [test EXCEPT ![t] = Returned(t, @)]
  /\ NoRelease /\ UNCHANGED <<mode, disk, over, faults>>

Retry(t) == /\ At(t, "end") /\ Failed(t) /\ test[t].attempt < Retries
            /\ test' = [test EXCEPT ![t] = Fresh(@.attempt + 1)]
            /\ NoRelease /\ UNCHANGED <<mode, disk, over, faults>>

-----------------------------------------------------------------------------
(* The browsers: a launch ends, a browser crashes, a closing one is closed.  *)
Becomes(b, state) == browser' = [browser EXCEPT ![b].state = state]

(* A browser that is gone leaves the cache if it is still the one in it.     *)
Forget(b) ==
  cache' = [k \in Keys |-> IF cache[k] = b THEN None ELSE cache[k]]

BrowserMoves(b) ==
  /\ \/ /\ browser[b].state = "launching" /\ Becomes(b, "open")
        /\ UNCHANGED <<cache, closing, faults>>
     \/ /\ browser[b].state = "launching" /\ Becomes(b, "failed")
        /\ Forget(b) /\ Fault /\ UNCHANGED closing
     \/ /\ browser[b].state = "open" /\ Becomes(b, "crashed")
        /\ Forget(b) /\ Fault /\ UNCHANGED closing
     \/ /\ browser[b].state = "closing" /\ Becomes(b, "closed")
        /\ closing' = closing \ {b} /\ UNCHANGED <<cache, faults>>
  /\ UNCHANGED <<mode, count, requested, test, disk, over>>

(* The clean-up registered for the end of the worker.                        *)
AllEnded == \A t \in Tests :
  At(t, "end") /\ ~(Failed(t) /\ test[t].attempt < Retries)

WorkerCleanup ==
  /\ AllEnded /\ over = "no" /\ over' = "closing"
  /\ CloseBrowsers /\ requested' = FALSE
  /\ UNCHANGED <<mode, count, closing, test, disk, faults>>

WorkerEnds ==
  /\ over = "closing" /\ over' = "yes"
  /\ \A b \in DOMAIN browser : browser[b].state # "closing"
  /\ UNCHANGED <<mode, Browsers, Retention, test, disk, faults>>

Next == \/ \E t \in Tests :
             \/ Start(t) \/ GetBrowser(t) \/ NewContext(t) \/ StartTrace(t)
             \/ Body(t) \/ CleanFixtures(t) \/ Finished(t) \/ OnFailed(t)
             \/ ReleaseOwn(t) \/ StopTrace(t) \/ CloseContext(t) \/ Thrown(t)
             \/ FinishContext(t) \/ ReleaseContext(t) \/ Waited(t) \/ Retry(t)
        \/ \E b \in DOMAIN browser : BrowserMoves(b)
        \/ WorkerCleanup \/ WorkerEnds

Spec == Init /\ [][Next]_vars

-----------------------------------------------------------------------------
(* A browser is never closed under a test that retains the browsers and was  *)
(* given it.                                                                 *)
BrowserOutlivesItsTests ==
  \A t \in Tests :
    (test[t].own = "held" \/ test[t].keeps = "held")
      => StateOf(t) \notin {"closing", "closed"}

(* Whatever failed where: when an attempt has ended it retains nothing and   *)
(* left no context open and no staged trace, the count is that of the        *)
(* retentions, and after the worker's clean-up no browser lives.             *)
NothingIsLeft ==
  /\ count = Cardinality({t \in Tests : test[t].own = "held"})
               + Cardinality({t \in Tests : test[t].keeps = "held"})
  /\ \A t \in Tests : At(t, "end") =>
       /\ test[t].own # "held" /\ test[t].keeps # "held"
       /\ test[t].context # "open" /\ ~test[t].staged
  /\ over = "yes" =>
       \A b \in DOMAIN browser :
         browser[b].state \in {"closed", "crashed", "failed"}

(* Tests that run side by side and share browsers clean up after themselves, *)
(* and only after themselves.                                                *)
BrowsersAreReleased == BrowserOutlivesItsTests /\ NothingIsLeft

(* An attempt's trace is on disk exactly once if it is to be kept: always,   *)
(* or with retain-on-failure if the attempt ended up failed, the hooks after *)
(* its body included; only a fault of the tracing itself loses it.           *)
TracesFollowTheVerdict ==
  /\ \A d, e \in disk : d.test = e.test /\ d.dir = e.dir => d = e
  /\ \A t \in Tests :
       LET saved == {d \in disk : /\ d.test = t
                                  /\ d.attempt = test[t].attempt}
       IN  At(t, "end") /\ ~test[t].lost =>
             Cardinality(saved) = IF test[t].traced /\ ShouldSave(t)
                                  THEN 1 ELSE 0

=============================================================================
