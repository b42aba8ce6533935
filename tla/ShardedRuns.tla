----------------------------- MODULE ShardedRuns -----------------------------
(***************************************************************************)
(* The runs of the shards of a project, each recorded by the blob reporter *)
(* and finalized, and merge-reports, which replays the blobs, judges the   *)
(* whole and finalizes its coverage (reporter/blob.ts, core/finalizeRun.ts,*)
(* core/mergeReports.ts, coverage/generate.ts, coverage/checkThresholds.ts, *)
(* coverage/index.ts).                                                     *)
(*                                                                         *)
(* The test files of one shard run in parallel; each fires its lifecycle   *)
(* events in order and ends with a result, or is lost with an error (a     *)
(* browser client that goes fatal in the middle of a file). A coverage map *)
(* is a function from source files to the set of their covered lines.      *)
(***************************************************************************)
EXTENDS Lists

CONSTANTS Shards,      \* the shard numbers
          Keys,        \* the test files, <<project, path>>
          ShardOf,     \* test file -> its shard
          Events,      \* the lifecycle events of a file, a sequence
          Covers,      \* test file -> the coverage map of its run
          Sources,     \* source file -> the kinds it is of
          Lines,       \* the lines of a source file
          Configs      \* the configurations of the runs

VARIABLES config,      \* the configuration all the runs are given
          done,        \* test file -> how many of its events fired
          outcome,     \* test file -> none, pass, fail or lost
          shard,       \* shard -> [stage, exit, files]: its blob's tracks
          disk,        \* what the report directories hold
          merge        \* what merge-reports did, or NotMerged

vars == <<config, done, outcome, shard, disk, merge>>

NotMerged == [stage |-> "none"]
FilesOf(s) == {k \in Keys : ShardOf[k] = s}

Init == /\ config \in Configs
        /\ done = [k \in Keys |-> 0]
        /\ outcome = [k \in Keys |-> "none"]
        /\ shard = [s \in Shards |->
                      [stage |-> "running", exit |-> 0, files |-> <<>>]]
        /\ disk = {<<"report", "old">>}
        /\ merge = NotMerged

-----------------------------------------------------------------------------
(* Coverage maps.                                                            *)
createCoverageMap == <<>>

LinesOf(map, file) == IF file \in DOMAIN map THEN map[file] ELSE {}

Merged(map, other) ==
  [file \in DOMAIN map \cup DOMAIN other |->
     LinesOf(map, file) \cup LinesOf(other, file)]

Kept(map, files) == [file \in DOMAIN map \cap files |-> map[file]]

MergedAll(maps) == FoldLeft(Merged, createCoverageMap, maps)

(* What a final report may contain: the files of the project root that are   *)
(* neither built output, nor runtime, nor setup files.                       *)
Reportable(file) ==
  /\ Sources[file] \cap {"dist", "runtime", "setup"} = {}
  /\ "external" \in Sources[file] => config.allowExternal

Included(file) == "included" \in Sources[file]

getIncludedFiles ==
  {file \in DOMAIN Sources :
     Included(file) /\ ("external" \in Sources[file] => config.allowExternal)}

(* A file that no test has loaded, with nothing covered.                     *)
generateCoverageForUntestedFiles(map, files) ==
  Merged(map, [f \in files \ DOMAIN map |-> {}])

(* The map a report is made of: with coverage.include every included file,   *)
(* the untested ones with nothing covered, and no other; of a run for some   *)
(* changed files only those.                                                 *)
FinalCoverage(map) ==
  LET filtered == Kept(map, {f \in DOMAIN map : Reportable(f)})
      included == getIncludedFiles \cap config.changed
  IN  IF config.include
      THEN Kept(generateCoverageForUntestedFiles(filtered, included), included)
      ELSE Kept(filtered, config.changed)

(* A threshold is [kind, files, perFile, value]: for the files a glob        *)
(* matches (all of them: "global"), the most uncovered lines if negative,    *)
(* the least percentage otherwise.                                           *)
Meets(map, threshold) ==
  LET total == Cardinality(Lines) * Cardinality(DOMAIN map)
      covered == FoldFunction(LAMBDA x, n : n + Cardinality(x), 0, map)
  IN  IF threshold.value < 0 THEN total - covered <= -threshold.value
      ELSE total = 0 \/ 100 * covered >= threshold.value * total

checkThresholds(map, thresholds) ==
  \A t \in thresholds :
    LET group == Kept(map, IF t.kind = "global" THEN DOMAIN map ELSE t.files)
    IN  /\ t.kind = "glob" => DOMAIN group # {}
        /\ IF t.kind = "glob" /\ t.perFile
           THEN \A f \in DOMAIN group : Meets(Kept(group, {f}), t)
           ELSE Meets(group, t)

(* generateCoverage writes the report; its exit code is that of the          *)
(* thresholds.                                                               *)
generateCoverage(map) ==
  [report |-> FinalCoverage(map),
   exit |-> IF checkThresholds(FinalCoverage(map), config.thresholds)
            THEN 0 ELSE 1]

-----------------------------------------------------------------------------
(* The key of a file's track in a blob.                                      *)
KeyOfPath(key) == key[2]

blobFileKey(key) == key

(* A lifecycle event of a file is appended to its track.                     *)
FileEvent(k) ==
  LET s == ShardOf[k]
      key == blobFileKey(k)
      files == shard[s].files
      track == IF key \in DOMAIN files THEN files[key] ELSE <<>>
  IN  /\ shard[s].stage = "running"
      /\ outcome[k] = "none" /\ done[k] < Len(Events)
      /\ done' = [done EXCEPT ![k] = @ + 1]
      /\ shard' = [shard EXCEPT ![s].files =
                     [j \in DOMAIN files \cup {key} |->
                        IF j = key
                        THEN Append(track, <<k, Events[done[k] + 1]>>)
                        ELSE files[j]]]
      /\ UNCHANGED <<config, outcome, disk, merge>>

FileEnds(k) ==
  /\ shard[ShardOf[k]].stage = "running"
  /\ outcome[k] = "none"
  /\ \E result \in {"pass", "fail", "lost"} :
       /\ result \in {"pass", "fail"} => done[k] = Len(Events)
       /\ outcome' = [outcome EXCEPT ![k] = result]
  /\ UNCHANGED <<config, done, shard, disk, merge>>

-----------------------------------------------------------------------------
(* finalizeRunCycle of a shard, with the blob reporter.                      *)
ResultsOf(s) == {k \in FilesOf(s) : outcome[k] \in {"pass", "fail"}}
ErrorsOf(s) == {k \in FilesOf(s) : outcome[k] = "lost"}

IsFailure(s) == \/ \E k \in ResultsOf(s) : outcome[k] = "fail"
                \/ ErrorsOf(s) # {}

ShardCoverage(s) ==
  MergedAll(Each(SetToSeq(ResultsOf(s)), LAMBDA k : Covers[k]))

DefersCoverageReport == config.deferrable

FinalizeShard(s) ==
  LET noTests == ResultsOf(s) = {} /\ ErrorsOf(s) = {}
      reports == /\ config.coverage /\ ~DefersCoverageReport
                 /\ ~IsFailure(s) \/ config.reportOnFailure
      final == generateCoverage(ShardCoverage(s))
  IN  /\ shard[s].stage = "running"
      /\ \A k \in FilesOf(s) : outcome[k] # "none"
      /\ shard' = [shard EXCEPT
           ![s].stage = "recorded",
           ![s].exit = IF \/ IsFailure(s)
                          \/ noTests /\ ~config.passWithNoTests
                          \/ reports /\ final.exit = 1
                       THEN 1 ELSE 0]
      /\ disk' = disk \cup {<<"blob", s>>}
                   \cup (IF reports THEN {<<"report", "shard">>} ELSE {})
      /\ UNCHANGED <<config, done, outcome, merge>>

(* The process of a shard dies: it has written no blob.                      *)
ShardDies(s) ==
  /\ shard[s].stage = "running"
  /\ shard' = [shard EXCEPT ![s].stage = "dead", ![s].exit = 1]
  /\ UNCHANGED <<config, done, outcome, disk, merge>>

-----------------------------------------------------------------------------
(* merge-reports. Before it the reports of an earlier run are removed        *)
(* (cleanCoverageReports), the blobs next to them are not; with --cleanup    *)
(* the blobs are removed (cleanBlobReports), the new report next to them is  *)
(* not. layout says where the reports are: "apart" from the blobs, in the    *)
(* "same" directory, in one "inside" the blobs' or "around" it.              *)
cleanCoverageReports(items) ==
  IF config.coverage /\ config.clean
  THEN {i \in items : i[1] # "report"} ELSE items

cleanBlobReports(items, reported) ==
  {i \in items : /\ i[1] # "blob"
                 /\ i[1] = "report" /\ config.layout \in {"same", "inside"}
                      => reported}

(* A file's track is replayed whole; then its result, if there is one. The   *)
(* results come in the order of the blob, then the tracks without a result.  *)
ReplayOf(s) ==
  LET files == shard[s].files
      claimed == {blobFileKey(k) : k \in ResultsOf(s)}
      Track(key) == IF key \in DOMAIN files THEN files[key] ELSE <<>>
  IN  FlatEach(SetToSeq(ResultsOf(s)), LAMBDA k :
                 Track(blobFileKey(k)) \o <<<<k, "result">>>>)
      \o FlatEach(SetToSeq(DOMAIN files \ claimed), Track)

mergeReports ==
  LET blobs == SetToSortSeq({s \in Shards : <<"blob", s>> \in disk}, <)
      found == ToSet(blobs)
      hasFailure == \E s \in found : IsFailure(s)
      coverage == MergedAll(Each(blobs, ShardCoverage))
      reports == /\ config.coverage
                 /\ ~hasFailure \/ config.reportOnFailure
      final == generateCoverage(coverage)
      written == cleanCoverageReports(disk)
                   \cup (IF reports THEN {<<"report", "merged">>} ELSE {})
  IN  /\ merge.stage = "none"
      /\ \A s \in Shards : shard[s].stage # "running"
      /\ found # {}
      /\ merge' = [stage |-> "done",
                   blobs |-> found,
                   results |-> UNION {ResultsOf(s) : s \in found},
                   replayed |-> FlatEach(blobs, ReplayOf),
                   reported |-> reports,
                   coverage |-> IF reports THEN final.report ELSE <<>>,
                   exit |-> IF hasFailure \/ (reports /\ final.exit = 1)
                            THEN 1 ELSE 0]
      /\ disk' = IF config.cleanup THEN cleanBlobReports(written, reports)
                 ELSE written
      /\ UNCHANGED <<config, done, outcome, shard>>

Next == \/ \E k \in Keys : FileEvent(k) \/ FileEnds(k)
        \/ \E s \in Shards : FinalizeShard(s) \/ ShardDies(s)
        \/ mergeReports

Spec == Init /\ [][Next]_vars

-----------------------------------------------------------------------------
Of(replayed, k) == SelectSeq(replayed, LAMBDA e : e[1] = k)

(* The reporters of merge-reports see of every recorded file the events its  *)
(* run fired, in their order, then its result, and no other file in between. *)
MergeReplaysTheRun ==
  merge.stage = "done" =>
    \A k \in Keys : ShardOf[k] \in merge.blobs =>
      /\ Of(merge.replayed, k) =
           Each(SubSeq(Events, 1, done[k]), LAMBDA e : <<k, e>>)
             \o IF outcome[k] = "lost" THEN <<>> ELSE <<<<k, "result">>>>
      /\ \A i, j \in 1 .. Len(merge.replayed) :
           /\ i < j
           /\ merge.replayed[i][1] = k /\ merge.replayed[j][1] = k
           => \A n \in i .. j : merge.replayed[n][1] = k

(* What the merge reports is what one run of all the recorded files would    *)
(* have: their results, a failure when one of them failed or was lost, and   *)
(* the coverage of all of them judged once.                                  *)
MergeJudgesTheWhole ==
  merge.stage = "done" =>
    LET ran == {k \in Keys : ShardOf[k] \in merge.blobs}
        failed == \E k \in ran : outcome[k] \in {"fail", "lost"}
        counted == {k \in ran : outcome[k] # "lost"}
        Covered(file) ==
          UNION {LinesOf(Covers[k], file) : k \in counted}
    IN  /\ merge.results = counted
        /\ failed => merge.exit = 1
        /\ ~failed /\ ~config.coverage => merge.exit = 0
        /\ merge.reported =
             (config.coverage /\ (~failed \/ config.reportOnFailure))
        /\ \A file \in DOMAIN merge.coverage :
             merge.coverage[file] = Covered(file)
        /\ merge.reported =>
             \A file \in config.changed :
               /\ Reportable(file)
               /\ IF config.include THEN Included(file)
                  ELSE \E k \in counted : file \in DOMAIN Covers[k]
               => file \in DOMAIN merge.coverage
        /\ merge.reported /\ ~failed =>
             (merge.exit = 0 <=>
                checkThresholds(merge.coverage, config.thresholds))

(* A shard whose coverage will be merged fails only by its own tests: the    *)
(* thresholds are for the whole.                                             *)
ShardsAreNotJudged ==
  \A s \in Shards :
    /\ shard[s].stage = "recorded" /\ shard[s].exit = 1
    /\ config.deferrable
    => IsFailure(s) \/ FilesOf(s) = {}

(* Merging never leaves a report of an earlier run where it cleaned, nor     *)
(* loses the one it has just written.                                        *)
ReportsAreTheMerged ==
  merge.stage = "done" =>
    /\ merge.reported => <<"report", "merged">> \in disk
    /\ config.clean /\ config.coverage => <<"report", "old">> \notin disk
    /\ config.cleanup => \A s \in Shards : <<"blob", s>> \notin disk
    /\ ~config.cleanup =>
         \A s \in merge.blobs : <<"blob", s>> \in disk

(* The shards of a run, merged, are the run (blob.ts, mergeReports.ts,       *)
(* finalizeRun.ts, coverage/).                                               *)
MergedIsTheRun == /\ MergeReplaysTheRun
                  /\ MergeJudgesTheWhole
                  /\ ShardsAreNotJudged
                  /\ ReportsAreTheMerged
=============================================================================
