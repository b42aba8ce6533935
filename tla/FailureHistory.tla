--------------------------- MODULE FailureHistory ---------------------------
(***************************************************************************)
(* The results cache and the two uses of it (core/resultsCache.ts,         *)
(* core/testSequencer.ts, core/onlyFailures.ts, the run cycle of the node  *)
(* executor): what one run records of its test files, across runs,         *)
(* decides the order of the next run and which files --onlyFailures keeps. *)
(*                                                                         *)
(* A run reads the cache, selects, executes and writes the cache; it may   *)
(* be killed in between. Between two runs a developer changes the files.   *)
(***************************************************************************)
EXTENDS Lists

CONSTANTS Files,        \* the keys <<project, path>> of the test files
          Covered,      \* the projects whose results the cache records
          Durations,    \* the durations a file may report
          Flags,        \* the sets of options a run may have
          MaxAge,       \* MAX_ENTRY_AGE_MS, in runs
          MaxRuns       \* bound: runs of the session

VARIABLES present,      \* the test files on disk
          cache,        \* key :> its CachedFileResult
          now,          \* the clock, one tick a run
          run,          \* the run under way, or NoRun
          failedAt      \* ghost: when a file failed whose last recorded run
                        \* failed

vars == <<present, cache, now, run, failedAt>>

(* The options of a run: "onlyFailures", what scopes it ("watch", "related", *)
(* "files", "pattern"), and "bail" when it reaches its bail limit.           *)
NoRun == [stage |-> "none", flags |-> {}, order |-> <<>>]

NoDuration == -1

(* What a file reports: a crash fails without a duration, and what did not   *)
(* run has none to tell.                                                     *)
Outcomes == ({"pass", "fail"} \X Durations)
              \cup ({"fail", "skip"} \X {NoDuration})

Size(key) == key[2]

ProjectsOf(keys) == {key[1] : key \in keys}

Init == /\ present \in SUBSET Files
        /\ cache = <<>>
        /\ now = 0
        /\ run = NoRun
        /\ failedAt = <<>>

-----------------------------------------------------------------------------
(* The order in which decorated entries are sorted: failed first, then new   *)
(* ones by size, then the slowest; ties by path.                             *)
HintOf(hints, key) ==
  IF key \in DOMAIN hints THEN hints[key]
  ELSE [duration |-> NoDuration, failed |-> FALSE, at |-> 0]

RunsBefore(hints, a, b) ==
  LET ha == HintOf(hints, a)
      hb == HintOf(hints, b)
      aNew == ha.duration = NoDuration
      bNew == hb.duration = NoDuration
  IN  CASE ha.failed # hb.failed -> ha.failed
        [] aNew # bNew -> aNew
        [] aNew /\ Size(a) # Size(b) -> Size(a) > Size(b)
        [] ~aNew /\ ha.duration # hb.duration -> ha.duration > hb.duration
        [] OTHER -> a[2] < b[2]

sortTestEntries(entries, hints) ==
  Sorted(entries, LAMBDA a, b : RunsBefore(hints, a, b))

-----------------------------------------------------------------------------
(* applyOnlyFailuresSelection: the failed files of the projects the cache    *)
(* covers and all of the others; all of them when nothing failed.            *)
filterFailedEntries(entries, hints) ==
  IF entries \cap DOMAIN hints = {} THEN entries
  ELSE {e \in entries \cap DOMAIN hints : hints[e].failed}

\* A project the cache does not cover counts as one with failures.
SelectCountingUncovered(entries, hints) ==
  LET Of(p) == {e \in entries : e[1] = p}
      kept == UNION {filterFailedEntries(Of(p), hints)
                       : p \in ProjectsOf(entries)}
  IN  IF kept = {} THEN entries ELSE kept

applyOnlyFailuresSelection(entries, hints) ==
  LET Of(p) == {e \in entries : e[1] = p}
      kept == UNION {filterFailedEntries(Of(p), hints)
                       : p \in ProjectsOf(entries)}
  IN  IF \E e \in entries \cap DOMAIN hints : hints[e].failed
      THEN kept ELSE entries

(* The selection applies to a plain, full run only (runCycle).               *)
AppliesOnlyFailures(flags) ==
  /\ "onlyFailures" \in flags
  /\ flags \cap {"watch", "related", "files", "pattern"} = {}

-----------------------------------------------------------------------------
(* A run reads the cache and fixes the order of the files it will execute.   *)
(* An explicit scope takes any part of the files.                            *)
Start(flags) ==
  /\ run.stage = "none" /\ now < MaxRuns
  /\ \E scope \in SUBSET present :
       /\ scope = present \/ flags \cap {"related", "files", "watch"} # {}
       /\ LET selected == IF AppliesOnlyFailures(flags)
                          THEN applyOnlyFailuresSelection(scope, cache)
                          ELSE scope
          IN  run' = [stage |-> "running", flags |-> flags,
                      order |-> sortTestEntries(SetToSeq(selected), cache)]
  /\ UNCHANGED <<present, cache, now, failedAt>>

(* One CachedFileResult after a result: a crash, a skip or a todo keeps the  *)
(* smoothed duration.                                                        *)
Smoothed(new, old) ==
  IF old = NoDuration THEN new ELSE (7 * new + 3 * old + 5) \div 10

\* Only a run that passes clears the failure of a file.
ClearOnPassOnly(hints, key, result) ==
  [duration |-> HintOf(hints, key).duration,
   failed |-> \/ result[1] = "fail"
              \/ HintOf(hints, key).failed /\ result[1] # "pass",
   at |-> now]

CachedFileResult(hints, key, result) ==
  LET old == HintOf(hints, key).duration
  IN  [duration |-> IF result[1] \in {"pass", "fail"}
                       /\ result[2] # NoDuration
                    THEN Smoothed(result[2], old) ELSE old,
       failed |-> result[1] = "fail",
       at |-> now]

(* writeResultsCache: this run's results over what is on disk, without the   *)
(* deleted files, in every project, and without the stale entries.           *)
writeResultsCache(results, deletedPaths) ==
  LET files == [key \in DOMAIN cache \cup DOMAIN results |->
                  IF key \in DOMAIN results
                  THEN CachedFileResult(cache, key, results[key])
                  ELSE cache[key]]
      kept == {key \in DOMAIN files : /\ key[2] \notin deletedPaths
                                      /\ now - files[key].at <= MaxAge}
  IN  [key \in kept |-> files[key]]

\* A run a bail limit stopped is recorded as well.
RecordedEvenIfBailed(flags) == "pattern" \notin flags

(* A run that narrowed within files, or was aborted, must not be recorded.   *)
Recorded(flags) == flags \cap {"pattern", "bail"} = {}

(* The run ends: its node results are written. An aborted run reports the    *)
(* files it did not start as skipped. A watch cycle knows which files were   *)
(* deleted since the one before it.                                          *)
Finish ==
  /\ run.stage = "running"
  /\ \E outcome \in [ToSet(run.order) -> Outcomes],
        deleted \in IF "watch" \in run.flags
                   THEN SUBSET {k[2] : k \in Files \ present} ELSE {{}} :
       LET results == [k \in {k \in DOMAIN outcome : k[1] \in Covered}
                         |-> outcome[k]]
           failed == {k \in DOMAIN results : results[k][1] = "fail"}
           gone == {k \in DOMAIN failedAt :
                      k \in DOMAIN results \/ k[2] \in deleted}
       IN  /\ "bail" \in run.flags =>
                \E k \in DOMAIN outcome : outcome[k][1] = "fail"
           /\ cache' = IF Recorded(run.flags)
                       THEN writeResultsCache(results, deleted) ELSE cache
           /\ failedAt' =
                IF run.flags \cap {"pattern", "bail"} = {}
                THEN [k \in (DOMAIN failedAt \ gone) \cup failed |->
                        IF k \in failed THEN now ELSE failedAt[k]]
                ELSE failedAt
  /\ now' = now + 1
  /\ run' = NoRun
  /\ UNCHANGED present

(* The process is killed: the cache is renamed into place whole or not.      *)
Kill == /\ run.stage = "running"
        /\ run' = NoRun
        /\ now' = now + 1
        /\ UNCHANGED <<present, cache, failedAt>>

Edit == /\ run.stage = "none" /\ now < MaxRuns
        /\ \E key \in Files :
             present' = IF key \in present THEN present \ {key}
                        ELSE present \cup {key}
        /\ UNCHANGED <<cache, now, run, failedAt>>

Next == \/ \E flags \in Flags : Start(flags)
        \/ Finish \/ Kill \/ Edit

Spec == Init /\ [][Next]_vars

-----------------------------------------------------------------------------
FailedNow == {k \in present \cap DOMAIN failedAt : now - failedAt[k] <= MaxAge}

(* A plain --onlyFailures run executes every file whose last recorded run    *)
(* failed; of a project the cache knows it executes no other, and where      *)
(* nothing failed it executes all.                                           *)
RunsTheFailed ==
  run.stage = "running" /\ AppliesOnlyFailures(run.flags) =>
    /\ FailedNow \subseteq ToSet(run.order)
    /\ present \cap DOMAIN failedAt = {} => ToSet(run.order) = present
    /\ present \cap DOMAIN failedAt # {} =>
         \A k \in ToSet(run.order) \ DOMAIN failedAt :
           k[1] \notin ProjectsOf(present \cap DOMAIN cache)

(* Whatever is executed, each file is executed once, the failed ones before  *)
(* the others and, of the others, those without a duration before the timed. *)
FailedRunFirst ==
  run.stage = "running" =>
    /\ Cardinality(ToSet(run.order)) = Len(run.order)
    /\ \A i, j \in 1 .. Len(run.order) : i < j =>
         LET a == HintOf(cache, run.order[i])
             b == HintOf(cache, run.order[j])
         IN  /\ run.order[j] \in FailedNow => a.failed
             /\ ~a.failed /\ b.duration = NoDuration =>
                  a.duration = NoDuration

(* The failure history decides what the next run executes, and in what       *)
(* order, whatever runs were partial, aborted or killed in between           *)
(* (onlyFailures.ts, testSequencer.ts, resultsCache.ts).                     *)
HistorySelects == RunsTheFailed /\ FailedRunFirst
=============================================================================
