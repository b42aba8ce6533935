-------------------------- MODULE HeadedRuns_proofs --------------------------
(* Theorems about HeadedRuns, for every set of paths and every bound.        *)
EXTENDS HeadedRuns, SequenceTheorems, TLAPS

(* The messages of the host and of the container.                            *)
DownMessages ==
  [type : {"files"}, files : SUBSET Paths, version : Nat]
    \cup [type : {"config"}]
    \cup [type : {"reload"}, path : Paths, run : RunIds]

UpMessages ==
  [type : {"getTestFiles"}]
    \cup [type : {"ready"}, version : Nat]
    \cup [type : {"start", "cleanup", "cleaned", "complete", "fatal"},
          run : 0 .. MaxRuns]

Runs == [path : Paths \cup {""}, epoch : 0 .. MaxEpoch,
         phase : {"none", "open", "claimed", "gone"},
         boot : BOOLEAN, cleanup : BOOLEAN,
         handler : {"none", "complete", "fatal", "recover", "frames"},
         need : Nat, outcome : {"", "handled", "failed", "obsolete"},
         recorded : Nat, when : {"", "early", "in time", "late"}]

FileSets == [files : SUBSET Paths, version : Nat]

Documents ==
  [run : 0 .. MaxRuns,
   at : {"blank", "loading", "running", "announced", "wedged", "over"}]

(* The values of the variables the invariants are about.                     *)
HostTypes ==
  /\ files \in SUBSET Paths /\ version \in Nat \ {0}
  /\ runs \in [RunIds -> Runs] /\ minted \in 0 .. MaxRuns
  /\ epoch \in 0 .. MaxEpoch /\ connected \in BOOLEAN
  /\ task \in [at : {"idle", "starting", "waiting"}, path : Paths \cup {""},
               run : 0 .. MaxRuns]

(* What a run's record says of itself: it is settled once, by the sweep or   *)
(* the handler that took it, and has a boot deadline only while it is open.  *)
Sound(run) ==
  /\ run.recorded <= 1
  /\ run.outcome = "handled" => run.recorded = 1
  /\ run.outcome = "obsolete" => run.recorded = 0
  /\ run.phase = "claimed" <=> run.handler # "none"
  /\ run.boot = TRUE => run.phase = "open" /\ run.cleanup = FALSE
  /\ run.phase # "gone" => run.recorded = 0 /\ run.outcome = ""

SoundInv == \A r \in RunIds : Sound(runs[r])

(* Runs are minted in order, the next one only when the last one is settled. *)
MintedInv ==
  /\ \A r \in RunIds : r > minted => runs[r].phase = "none"
  /\ task.at = "starting" => task.path \in Paths /\ minted < MaxRuns

(* Open runs are those of the transport there is, and of the committed set.  *)
AttachedInv ==
  \A r \in RunIds : runs[r].phase = "open" =>
    /\ connected /\ runs[r].epoch = epoch /\ runs[r].path \in Paths
    /\ runs[r].path \in files \/ runs[r].when = "late"

(* The inductive invariant of the registry.                                  *)
RegistryInv ==
  HostTypes /\ SoundInv /\ MintedInv /\ OneAtATime /\ AttachedInv

-----------------------------------------------------------------------------
(* What a step may make of a live run.                                       *)
Moves(x, y) ==
  /\ x.phase \in {"open", "claimed"}
  /\ y.phase \in {"open", "claimed", "gone"}
  /\ y.phase = "open" => x.phase = "open"
  /\ y.path = x.path /\ y.epoch = x.epoch /\ y.when = x.when
  /\ y \in Runs /\ Sound(y)

(* A step that opens no run.                                                 *)
Shrinks ==
  \A r \in RunIds : runs'[r].phase = "open" =>
    /\ runs[r].phase = "open" /\ runs'[r].path = runs[r].path
    /\ runs'[r].epoch = runs[r].epoch /\ runs'[r].when = runs[r].when

LEMMA Bounds ==
  MaxRuns \in Nat /\ MaxEpoch \in Nat
BY HeadedAssumption

LEMMA Counts ==
  ASSUME RegistryInv
  PROVE  /\ version \in Nat \ {0} /\ minted \in Nat /\ minted <= MaxRuns
         /\ epoch \in Nat /\ epoch <= MaxEpoch
<1>1. version \in Nat \ {0} /\ minted \in 0 .. MaxRuns
      /\ epoch \in 0 .. MaxEpoch
  BY DEF RegistryInv, HostTypes
<1> QED BY <1>1, Bounds

LEMMA RunsStep ==
  ASSUME RegistryInv, HostTypes', minted' = minted, task' = task,
         \A r \in RunIds : runs'[r] = runs[r] \/ Moves(runs[r], runs'[r]),
         \A r \in RunIds : runs'[r].phase = "open" =>
           /\ connected' = connected /\ epoch' = epoch
           /\ runs[r].path \in files => runs[r].path \in files'
  PROVE  RegistryInv' /\ Shrinks
<1>1. SoundInv'
  BY DEF RegistryInv, SoundInv, Moves
<1>2. MintedInv'
  BY DEF RegistryInv, MintedInv, Moves
<1>3. OneAtATime'
  BY DEF RegistryInv, OneAtATime, Live, Moves
<1>4. AttachedInv'
  BY DEF RegistryInv, AttachedInv, Moves
<1>5. Shrinks
  BY DEF Shrinks, Moves
<1> QED BY <1>1, <1>2, <1>3, <1>4, <1>5 DEF RegistryInv

(* Steps that leave the registry alone.                                      *)
LEMMA RunsKept ==
  ASSUME RegistryInv, files' = files, version' = version,
         runs' = runs, minted' = minted,
         epoch' = epoch, connected' = connected, task' = task
  PROVE  RegistryInv' /\ Shrinks
<1>1. HostTypes'
  BY DEF RegistryInv, HostTypes
<1> QED BY <1>1, RunsStep DEF RegistryInv

LEMMA SettledMoves ==
  ASSUME NEW x \in Runs, Sound(x), x.phase = "open",
         NEW outcome \in {"failed", "obsolete"}
  PROVE  Moves(x, Settled(x, outcome)) /\ Settled(x, outcome).phase = "gone"
BY DEF Settled, Moves, Sound, Runs

LEMMA Swept ==
  ASSUME RegistryInv, NEW matching, NEW outcome \in {"failed", "obsolete"}
  PROVE  LET swept == sweepOpen(matching, outcome) IN
         /\ swept \in [RunIds -> Runs]
         /\ \A r \in RunIds :
              /\ swept[r] = runs[r] \/ Moves(runs[r], swept[r])
              /\ swept[r].phase = "open" => swept[r] = runs[r]
                                            /\ r \notin matching
<1>1. ASSUME NEW r \in RunIds, runs[r].phase = "open"
      PROVE  /\ Moves(runs[r], Settled(runs[r], outcome))
             /\ Settled(runs[r], outcome).phase = "gone"
             /\ Settled(runs[r], outcome) \in Runs
  BY <1>1, SettledMoves DEF RegistryInv, HostTypes, SoundInv, Moves
<1>2. \A r \in RunIds : runs[r] \in Runs
  BY DEF RegistryInv, HostTypes
<1> QED BY <1>1, <1>2 DEF sweepOpen

(* Sweeping open runs.                                                       *)
LEMMA SweepPreserves ==
  ASSUME RegistryInv, NEW matching, NEW outcome \in {"failed", "obsolete"},
         runs' = sweepOpen(matching, outcome), minted' = minted, task' = task,
         files' \in SUBSET Paths, version' \in Nat \ {0},
         epoch' \in 0 .. MaxEpoch,
         connected' \in BOOLEAN,
         \A r \in RunIds \ matching : runs[r].phase = "open" =>
           /\ connected' = connected /\ epoch' = epoch
           /\ runs[r].path \in files => runs[r].path \in files'
  PROVE  RegistryInv' /\ Shrinks
<1>1. /\ runs' \in [RunIds -> Runs]
      /\ \A r \in RunIds :
           /\ runs'[r] = runs[r] \/ Moves(runs[r], runs'[r])
           /\ runs'[r].phase = "open" => runs'[r] = runs[r] /\ r \notin matching
  BY Swept
<1>2. HostTypes'
  BY <1>1 DEF RegistryInv, HostTypes
<1> QED BY <1>1, <1>2, RunsStep

LEMMA NoRunIsSound ==
  ASSUME MaxEpoch \in Nat
  PROVE  NoRun \in Runs /\ Sound(NoRun)
<1>1. NoRun \in Runs
  BY DEF NoRun, Runs
<1>2. Sound(NoRun)
  BY DEF NoRun, Sound
<1> QED BY <1>1, <1>2

LEMMA IdleIsATask ==
  ASSUME MaxRuns \in Nat
  PROVE  Idle \in [at : {"idle", "starting", "waiting"},
                   path : Paths \cup {""}, run : 0 .. MaxRuns]
BY DEF Idle

LEMMA RegistryInit == Init => RegistryInv
<1> SUFFICES ASSUME Init PROVE RegistryInv
  OBVIOUS
<1>1. /\ MaxRuns \in Nat /\ MaxEpoch \in Nat /\ FirstFiles \subseteq Paths
      /\ NoRun \in Runs /\ Sound(NoRun)
  BY HeadedAssumption, NoRunIsSound
<1>2. /\ files = FirstFiles /\ version = 1 /\ minted = 0 /\ epoch = 0
      /\ runs = [r \in RunIds |-> NoRun] /\ connected = FALSE /\ task = Idle
  BY DEF Init
<1>3. task \in [at : {"idle", "starting", "waiting"},
                path : Paths \cup {""}, run : 0 .. MaxRuns]
  <2>1. Idle \in [at : {"idle", "starting", "waiting"},
                  path : Paths \cup {""}, run : 0 .. MaxRuns]
    BY <1>1, IdleIsATask
  <2> QED BY <1>2, <2>1
<1>4. HostTypes
  <2>1. files \in SUBSET Paths /\ version \in Nat \ {0} /\ minted \in 0 .. MaxRuns
    BY <1>1, <1>2
  <2>2. epoch \in 0 .. MaxEpoch
    BY <1>1, <1>2
  <2>3. connected \in BOOLEAN
    BY <1>2
  <2>4. runs \in [RunIds -> Runs]
    BY <1>1, <1>2
  <2> QED BY <1>3, <2>1, <2>2, <2>4, <2>3 DEF HostTypes
<1>5. \A r \in RunIds : runs[r] = NoRun
  BY <1>2
<1>6. SoundInv /\ MintedInv /\ OneAtATime /\ AttachedInv
  BY <1>1, <1>2, <1>5
     DEF SoundInv, MintedInv, OneAtATime, AttachedInv, Live, NoRun, Idle
<1> QED BY <1>4, <1>6 DEF RegistryInv

(* One run moves on.                                                         *)
LEMMA RunMoves ==
  ASSUME RegistryInv, NEW r \in RunIds, NEW new,
         runs' = [runs EXCEPT ![r] = new], Moves(runs[r], new),
         files' = files, version' = version,
         minted' = minted, task' = task, epoch' = epoch,
         connected' = connected
  PROVE  RegistryInv' /\ Shrinks
<1>1. runs' \in [RunIds -> Runs] /\ new \in Runs
  BY DEF RegistryInv, HostTypes, Moves
<1>2. \A q \in RunIds : runs'[q] = IF q = r THEN new ELSE runs[q]
  BY DEF RegistryInv, HostTypes
<1>3. HostTypes'
  BY <1>1 DEF RegistryInv, HostTypes
<1> QED BY <1>1, <1>2, <1>3, RunsStep

LEMMA BootDeadlinePreserves ==
  ASSUME RegistryInv, NEW r \in RunIds, BootDeadline(r)
  PROVE  RegistryInv' /\ Shrinks
<1>1. runs[r] \in Runs /\ Sound(runs[r]) /\ runs[r].phase = "open"
  BY DEF RegistryInv, HostTypes, SoundInv, BootDeadline, Sound
<1>2. Moves(runs[r], Settled(runs[r], "failed"))
  BY <1>1, SettledMoves
<1>3. runs' = [runs EXCEPT ![r] = Settled(runs[r], "failed")]
  BY DEF BootDeadline, settle
<1> QED BY <1>2, <1>3, RunMoves
        DEF BootDeadline, hostVars, cycleVars, wireVars

LEMMA ClaimedMoves ==
  ASSUME NEW x \in Runs, Sound(x), x.phase = "open", x.cleanup = TRUE
  PROVE  LET mine == [x EXCEPT !.phase = "claimed", !.cleanup = FALSE,
                               !.handler = "recover"]
         IN  Moves(x, mine) /\ mine.phase = "claimed" /\ mine \in Runs
<1> DEFINE mine == [x EXCEPT !.phase = "claimed", !.cleanup = FALSE,
                             !.handler = "recover"]
<1>1. mine \in Runs
  BY DEF Runs
<1>2. Sound(mine)
  BY DEF Sound, Runs
<1> QED BY <1>1, <1>2 DEF Moves, Runs

LEMMA CleanupDeadlinePreserves ==
  ASSUME RegistryInv, NEW r \in RunIds, CleanupDeadline(r)
  PROVE  RegistryInv' /\ Shrinks
<1> DEFINE claimed == [runs EXCEPT ![r].phase = "claimed",
                                   ![r].cleanup = FALSE,
                                   ![r].handler = "recover"]
           mine == [runs[r] EXCEPT !.phase = "claimed", !.cleanup = FALSE,
                                   !.handler = "recover"]
<1>1. runs' = [q \in RunIds |-> IF claimed[q].phase = "open"
                 THEN Settled(claimed[q], "failed") ELSE claimed[q]]
  BY DEF CleanupDeadline
<1>2. runs \in [RunIds -> Runs] /\ runs[r].phase = "open" /\ Sound(runs[r])
  BY DEF RegistryInv, HostTypes, SoundInv, CleanupDeadline
<1>3. \A q \in RunIds : claimed[q] = IF q = r THEN mine ELSE runs[q]
  BY <1>2
<1>4. Moves(runs[r], mine) /\ mine.phase = "claimed" /\ mine \in Runs
  <2>1. runs[r] \in Runs /\ runs[r].cleanup = TRUE
    BY <1>2 DEF CleanupDeadline, Runs
  <2> QED BY <1>2, <2>1, ClaimedMoves
<1> HIDE DEF claimed, mine
<1>5. runs'[r] = mine
  BY <1>1, <1>3, <1>4
<1>6. ASSUME NEW q \in RunIds, q # r
      PROVE  /\ runs'[q] = runs[q] \/ Moves(runs[q], runs'[q])
             /\ runs'[q].phase # "open"
             /\ runs'[q] \in Runs
  <2>1. runs'[q] = IF runs[q].phase = "open"
                   THEN Settled(runs[q], "failed") ELSE runs[q]
    BY <1>1, <1>3, <1>6
  <2>2. runs[q] \in Runs /\ Sound(runs[q])
    BY <1>2 DEF RegistryInv, SoundInv
  <2>3. CASE runs[q].phase = "open"
    BY <2>1, <2>2, <2>3, SettledMoves DEF Moves
  <2>4. CASE runs[q].phase # "open"
    BY <2>1, <2>2, <2>4
  <2> QED BY <2>3, <2>4
<1>7. /\ UNCHANGED <<files, version, minted, task, epoch>>
      /\ connected' = FALSE
  BY DEF CleanupDeadline, cycleVars
<1>8. runs' \in [RunIds -> Runs]
  BY <1>1, <1>4, <1>5, <1>6
<1>9. HostTypes'
  BY <1>7, <1>8 DEF RegistryInv, HostTypes
<1> QED BY <1>4, <1>5, <1>6, <1>7, <1>9, RunsStep

LEMMA RecoverLoadedPreserves ==
  ASSUME RegistryInv, NEW r \in RunIds, RecoverLoaded(r)
  PROVE  RegistryInv' /\ Shrinks
<1> DEFINE new == [runs[r] EXCEPT !.handler = "frames", !.need = version]
<1>1. runs' = [runs EXCEPT ![r] = new]
  BY DEF RecoverLoaded, RegistryInv, HostTypes
<1>2. Moves(runs[r], new)
  <2>1. runs[r] \in Runs /\ Sound(runs[r]) /\ version \in Nat
        /\ runs[r].handler = "recover"
    BY DEF RegistryInv, HostTypes, SoundInv, RecoverLoaded
  <2> QED BY <2>1 DEF Moves, Sound, Runs
<1> HIDE DEF new
<1> QED BY <1>1, <1>2, RunMoves
    DEF RecoverLoaded, hostVars, cycleVars, wireVars

LEMMA HandledMoves ==
  ASSUME NEW x \in Runs, Sound(x), x.handler # "none",
         NEW outcome \in {"handled", "failed"}, NEW k \in Nat, k <= 1,
         outcome = "handled" => k = 1
  PROVE  Moves(x, [Settled(x, outcome) EXCEPT !.handler = "none",
                                              !.recorded = x.recorded + k])
<1>1. x.phase = "claimed" /\ x.recorded = 0 /\ x.outcome = ""
  BY DEF Sound
<1> DEFINE n == x.recorded + k
           y == [x EXCEPT !.phase = "gone", !.boot = FALSE,
                          !.cleanup = FALSE, !.outcome = outcome]
           z == [y EXCEPT !.handler = "none", !.recorded = n]
<1>2. n = k /\ n \in Nat
  <2>1. 0 + k = k
    OBVIOUS
  <2> QED BY <1>1, <2>1
<1>3. Settled(x, outcome) = y
  BY <1>1 DEF Settled
<1>4. z = [Settled(x, outcome) EXCEPT !.handler = "none", !.recorded = n]
  BY <1>3
<1> HIDE DEF n
<1>5. z \in Runs
  BY <1>2 DEF Runs
<1>6. /\ z.phase = "gone" /\ z.boot = FALSE /\ z.outcome = outcome
      /\ z.handler = "none" /\ z.recorded = n
      /\ z.path = x.path /\ z.epoch = x.epoch /\ z.when = x.when
  BY <1>2 DEF Runs
<1> HIDE DEF z, y
<1>7. Sound(z)
  BY <1>2, <1>6 DEF Sound
<1>8. Moves(x, z)
  BY <1>1, <1>5, <1>6, <1>7 DEF Moves
<1> QED BY <1>4, <1>8 DEF n

(* The handler of a claimed run ends.                                        *)
LEMMA HandledPreserves ==
  ASSUME RegistryInv, NEW r \in RunIds, HandlerEnds(r) \/ RecoverTimesOut(r)
  PROVE  RegistryInv' /\ Shrinks
<1>1. PICK outcome \in {"handled", "failed"}, k \in {0, 1} :
        Handled(r, outcome, k) /\ (outcome = "handled" => k = 1)
  BY DEF HandlerEnds, RecoverTimesOut
<1> DEFINE new == [Settled(runs[r], outcome) EXCEPT
                     !.handler = "none", !.recorded = runs[r].recorded + k]
<1>2. runs' = [runs EXCEPT ![r] = new]
  BY <1>1 DEF Handled
<1>3. Moves(runs[r], new)
  <2>1. runs[r] \in Runs /\ Sound(runs[r]) /\ runs[r].handler # "none"
    BY DEF RegistryInv, HostTypes, SoundInv, HandlerEnds, RecoverTimesOut
  <2>2. k \in Nat /\ k <= 1
    BY <1>1
  <2> QED BY <1>1, <2>1, <2>2, HandledMoves
<1> HIDE DEF new
<1> QED BY <1>2, <1>3, RunMoves
        DEF HandlerEnds, RecoverTimesOut, hostVars, cycleVars, wireVars

(* A message of the container, whatever it says, moves its own run at most.  *)
LEMMA AdmitMoves ==
  ASSUME RegistryInv, NEW m, admit(m)
  PROVE  /\ runs' \in [RunIds -> Runs]
         /\ \A r \in RunIds : runs'[r] = runs[r] \/ Moves(runs[r], runs'[r])
<1>1. CASE runs' = runs
  BY <1>1 DEF RegistryInv, HostTypes
<1>2. CASE runs' # runs
  <2> DEFINE run == runs[m.run]
             claims == m.type \in {"complete", "fatal"} /\ run.phase = "open"
             new == [run EXCEPT
               !.boot = FALSE,
               !.phase = IF claims THEN "claimed" ELSE @,
               !.handler = IF claims THEN m.type ELSE @,
               !.cleanup = IF m.type = "cleanup" /\ run.phase = "open"
                           THEN TRUE
                           ELSE IF m.type = "cleaned" THEN FALSE ELSE @]
  <2>1. Live(m.run) /\ runs' = [runs EXCEPT ![m.run] = new]
    BY <1>2 DEF admit
  <2>2. CASE m.run \in RunIds
    <3>1. run \in Runs /\ Sound(run) /\ run.phase \in {"open", "claimed"}
      BY <2>1, <2>2 DEF RegistryInv, HostTypes, SoundInv, Live
    <3>2. Moves(run, new)
      <4>1. CASE claims
        BY <3>1, <4>1 DEF Moves, Sound, Runs
      <4>2. CASE ~claims
        BY <3>1, <4>2 DEF Moves, Sound, Runs
      <4> QED BY <4>1, <4>2
    <3> HIDE DEF new
    <3>3. new \in Runs
      BY <3>2 DEF Moves
    <3> QED BY <2>1, <2>2, <3>2, <3>3 DEF RegistryInv, HostTypes
  <2>3. CASE m.run \notin RunIds
    <3> HIDE DEF new
    <3> QED BY <2>1, <2>3 DEF RegistryInv, HostTypes
  <2> QED BY <2>2, <2>3
<1> QED BY <1>1, <1>2

LEMMA HostReceivesPreserves ==
  ASSUME RegistryInv, HostReceives
  PROVE  RegistryInv' /\ Shrinks
<1> DEFINE m == Head(up)
<1>1. UNCHANGED <<files, version, minted, task, epoch, connected>>
  BY DEF HostReceives, cycleVars
<1>2. CASE UNCHANGED runs
  BY <1>1, <1>2, RunsKept
<1>3. CASE admit(m)
  <2> HIDE DEF m
  <2>1. HostTypes'
    BY <1>1, <1>3, AdmitMoves DEF RegistryInv, HostTypes
  <2> QED BY <1>1, <1>3, <2>1, AdmitMoves, RunsStep
<1> QED BY <1>2, <1>3 DEF HostReceives

-----------------------------------------------------------------------------
(* The cycles.                                                               *)
LEMMA MintedMoves ==
  ASSUME RegistryInv, NEW p \in Paths, mint(p), minted < MaxRuns,
         task.at # "waiting"
  PROVE  /\ minted' = minted + 1 /\ minted + 1 \in RunIds
         /\ runs' \in [RunIds -> Runs]
         /\ SoundInv'
         /\ \A r \in RunIds : r # minted + 1 => runs'[r] = runs[r]
         /\ \A r \in RunIds : runs[r].phase \notin {"open", "claimed"}
         /\ connected => runs'[minted + 1] =
              [NoRun EXCEPT !.path = p, !.epoch = epoch, !.phase = "open",
                            !.boot = TRUE, !.when = Minting]
         /\ ~connected => runs'[minted + 1].phase = "gone"
<1> DEFINE r == minted + 1
           run == [NoRun EXCEPT !.path = p, !.epoch = epoch, !.phase = "open",
                                !.boot = TRUE, !.when = Minting]
           new == IF connected THEN run ELSE Settled(run, "failed")
           same == {q \in RunIds : runs[q].path = p}
<1>1. MaxRuns \in Nat /\ MaxEpoch \in Nat /\ minted \in Nat /\ r \in RunIds
  BY Bounds, Counts DEF RunIds
<1>2. \A q \in RunIds : runs[q].phase \notin {"open", "claimed"}
  BY DEF RegistryInv, OneAtATime, Live
<1>3. sweepOpen(same, "obsolete") = runs
  BY <1>2 DEF sweepOpen, RegistryInv, HostTypes
<1>4. minted' = r /\ runs' = [runs EXCEPT ![r] = new]
  BY <1>3 DEF mint
<1>5. run \in Runs /\ Sound(run) /\ run.phase = "open"
  <2>1. NoRun \in Runs /\ Sound(NoRun) /\ epoch \in 0 .. MaxEpoch
    BY <1>1, NoRunIsSound DEF RegistryInv, HostTypes
  <2>2. Minting \in {"early", "in time", "late"}
    BY DEF Minting
  <2>3. NoRun.recorded = 0 /\ NoRun.outcome = "" /\ NoRun.handler = "none"
        /\ NoRun.cleanup = FALSE
    BY DEF NoRun
  <2>4. run \in Runs
    BY <2>1, <2>2 DEF Runs
  <2>5. /\ run.phase = "open" /\ run.recorded = 0 /\ run.outcome = ""
        /\ run.handler = "none" /\ run.cleanup = FALSE
    BY <2>1, <2>3 DEF Runs
  <2> HIDE DEF run
  <2>6. Sound(run)
    <3>1. run.recorded = 0
      BY <2>5, Zenon
    <3>2. run.recorded <= 1
      BY ONLY <3>1
    <3> QED BY <2>5, <3>2, Zenon DEF Sound
  <2> QED BY <2>4, <2>5, <2>6
<1> HIDE DEF run
<1>6. new \in Runs /\ Sound(new) /\ (~connected => new.phase = "gone")
  <2>1. Moves(run, Settled(run, "failed"))
        /\ Settled(run, "failed").phase = "gone"
    BY <1>5, SettledMoves
  <2> QED BY <1>5, <2>1 DEF Moves
<1>7. connected => new = run
  OBVIOUS
<1> HIDE DEF new, r
<1>8. runs' \in [RunIds -> Runs]
      /\ \A q \in RunIds : runs'[q] = IF q = r THEN new ELSE runs[q]
  BY <1>1, <1>4, <1>6 DEF RegistryInv, HostTypes
<1>9. SoundInv'
  BY <1>6, <1>8 DEF RegistryInv, SoundInv
<1> QED BY <1>1, <1>2, <1>4, <1>6, <1>7, <1>8, <1>9 DEF r, run

(* The run of a file is minted, and the cycle waits for it.                  *)
LEMMA ReloadPreserves ==
  ASSUME RegistryInv, NEW p \in Paths, reloadTestFile(p), minted < MaxRuns,
         task.at = "starting" \/ p \in files, task.at # "waiting",
         version' = version
  PROVE  RegistryInv'
<1> DEFINE r == minted + 1
<1>1. mint(p) /\ UNCHANGED <<files, epoch, connected>>
      /\ task' = [at |-> "waiting", path |-> p, run |-> r]
  BY DEF reloadTestFile, hostVars
<1>2. /\ minted' = r /\ r \in RunIds
      /\ runs' \in [RunIds -> Runs]
      /\ SoundInv'
      /\ \A q \in RunIds : q # r => runs'[q] = runs[q]
      /\ \A q \in RunIds : runs[q].phase \notin {"open", "claimed"}
      /\ ~connected => runs'[r].phase = "gone"
  BY <1>1, MintedMoves
<1>3. connected => runs'[r] =
              [NoRun EXCEPT !.path = p, !.epoch = epoch, !.phase = "open",
                            !.boot = TRUE, !.when = Minting]
  BY <1>1, MintedMoves
<1>4. connected => /\ runs'[r].path = p /\ runs'[r].epoch = epoch
                   /\ runs'[r].when = Minting
  BY <1>3 DEF NoRun
<1>5. r \in 0 .. MaxRuns /\ minted \in Nat
  BY <1>2, Bounds, Counts DEF RunIds
<1>6. HostTypes'
  BY <1>1, <1>2, <1>5 DEF RegistryInv, HostTypes
<1>7. MintedInv'
  <2>1. \A q \in RunIds : q > r => q > minted /\ q # r
    BY <1>5 DEF r, RunIds
  <2> QED BY <1>1, <1>2, <2>1 DEF RegistryInv, MintedInv
<1>8. OneAtATime'
  BY <1>1, <1>2 DEF OneAtATime, Live
<1>9. task.at # "starting" => p \in files
  OBVIOUS
<1>10. task.at = "starting" => Minting = "late"
  BY DEF Minting
<1> HIDE DEF r
<1>11. AttachedInv'
  BY <1>1, <1>2, <1>4, <1>9, <1>10 DEF AttachedInv
<1> QED BY <1>2, <1>6, <1>7, <1>8, <1>11 DEF RegistryInv

LEMMA NextFilePreserves ==
  ASSUME RegistryInv, NextFile
  PROVE  RegistryInv'
<1> DEFINE p == Head(scope)
<1>1. task.at = "idle" /\ minted < MaxRuns /\ files \subseteq Paths
  BY DEF NextFile, RegistryInv, HostTypes
<1>2. CASE p \in files /\ reloadTestFile(p)
  <2>1. version' = version
    BY <1>2 DEF reloadTestFile, hostVars
  <2> QED BY <1>1, <1>2, <2>1, ReloadPreserves
<1>3. CASE /\ UNCHANGED task
           /\ UNCHANGED <<hostVars, runVars, wireVars>>
  BY <1>3, RunsKept DEF hostVars, runVars, wireVars
<1>4. CASE /\ p \in files /\ task' = [at |-> "starting", path |-> p, run |-> 0]
           /\ UNCHANGED <<hostVars, runVars, wireVars>>
  <2>1. UNCHANGED <<files, version, runs, minted, epoch, connected>>
    BY <1>4 DEF hostVars, runVars, wireVars
  <2>2. p \in Paths /\ 0 \in 0 .. MaxRuns
    BY <1>1, <1>4, HeadedAssumption
  <2>3. HostTypes'
    BY <1>4, <2>1, <2>2 DEF RegistryInv, HostTypes
  <2>4. OneAtATime'
    BY <1>1, <2>1 DEF RegistryInv, OneAtATime, Live
  <2> QED BY <1>1, <1>4, <2>1, <2>2, <2>3, <2>4
          DEF RegistryInv, SoundInv, MintedInv, AttachedInv
<1> QED BY <1>2, <1>3, <1>4 DEF NextFile

LEMMA CoverageStartedPreserves ==
  ASSUME RegistryInv, CoverageStarted
  PROVE  RegistryInv'
<1>1. task.path \in Paths /\ minted < MaxRuns
  BY DEF CoverageStarted, RegistryInv, MintedInv
<1> QED BY <1>1, ReloadPreserves DEF CoverageStarted, reloadTestFile, hostVars

LEMMA FileEndsPreserves ==
  ASSUME RegistryInv, FileEnds
  PROVE  RegistryInv'
<1>1. UNCHANGED <<files, version, runs, minted, epoch, connected>>
      /\ task' = Idle /\ runs[task.run].phase = "gone"
  BY DEF FileEnds, hostVars, runVars, wireVars
<1>2. \A r \in RunIds : ~Live(r)
  BY <1>1 DEF RegistryInv, OneAtATime, Live
<1>3. HostTypes'
  BY <1>1, IdleIsATask, HeadedAssumption DEF RegistryInv, HostTypes
<1> QED BY <1>1, <1>2, <1>3
        DEF RegistryInv, SoundInv, MintedInv, AttachedInv, OneAtATime, Live,
            Idle

(* A new file set: the runs of the files that have left it are swept.        *)
LEMMA CommitPreserves ==
  ASSUME RegistryInv, NEW new \in SUBSET Paths, NEW some \in SUBSET new,
         Commit(new, some)
  PROVE  RegistryInv' /\ Shrinks
<1>1. UNCHANGED <<minted, task, epoch, connected>>
  BY DEF Commit
<1>2. CASE UNCHANGED <<files, version, runs>>
  BY <1>1, <1>2, RunsKept
<1>3. CASE files' = new /\ version' = version + 1 /\ retainPaths(new)
  <2>1. runs' = sweepOpen({r \in RunIds : runs[r].path \notin new}, "obsolete")
    BY <1>3 DEF retainPaths
  <2>2. files' \in SUBSET Paths /\ version' \in Nat \ {0}
    BY <1>3, Counts
  <2>3. epoch' \in 0 .. MaxEpoch /\ connected' \in BOOLEAN
    BY <1>1 DEF RegistryInv, HostTypes
  <2> QED BY <1>1, <1>3, <2>1, <2>2, <2>3, SweepPreserves
<1> QED BY <1>2, <1>3 DEF Commit

LEMMA DisconnectPreserves ==
  ASSUME RegistryInv, Disconnect
  PROVE  RegistryInv' /\ Shrinks
<1>1. /\ runs' = sweepOpen(RunIds, "failed")
      /\ UNCHANGED <<files, version, minted, task, epoch>>
      /\ connected' = FALSE
  BY DEF Disconnect, rejectAll, cycleVars
<1>2. /\ files' \in SUBSET Paths /\ version' \in Nat \ {0}
      /\ epoch' \in 0 .. MaxEpoch
  BY <1>1 DEF RegistryInv, HostTypes
<1> QED BY <1>1, <1>2, SweepPreserves

LEMMA AttachPreserves ==
  ASSUME RegistryInv, Attach
  PROVE  RegistryInv' /\ Shrinks
<1> DEFINE old == {r \in RunIds : runs[r].epoch < epoch + 1}
<1>1. /\ runs' = sweepOpen(old, "failed")
      /\ UNCHANGED <<files, version, minted, task>>
      /\ connected' = TRUE /\ epoch' = epoch + 1 /\ epoch < MaxEpoch
  BY DEF Attach, setTransportEpoch, cycleVars
<1>2. files' \in SUBSET Paths /\ version' \in Nat \ {0}
  BY <1>1 DEF RegistryInv, HostTypes
<1>3. epoch' \in 0 .. MaxEpoch /\ epoch < epoch + 1
  BY <1>1, Bounds, Counts
<1>4. \A r \in RunIds \ old : runs[r].phase # "open"
  BY <1>3 DEF RegistryInv, AttachedInv
<1> HIDE DEF old
<1> QED BY <1>1, <1>2, <1>3, <1>4, SweepPreserves

-----------------------------------------------------------------------------
LEMMA RegistryNext == RegistryInv /\ [Next]_vars => RegistryInv'
<1> SUFFICES ASSUME RegistryInv, [Next]_vars PROVE RegistryInv'
  OBVIOUS
<1>1. CASE StartFirst \/ FirstEnds \/ StartCycle \/ FirstTimesOut
  BY <1>1, RunsKept
     DEF StartFirst, FirstEnds, StartCycle, FirstTimesOut, hostVars, runVars,
         wireVars
<1>2. CASE NextFile \/ CoverageStarted \/ FileEnds
  BY <1>2, NextFilePreserves, CoverageStartedPreserves, FileEndsPreserves
<1>3. CASE Connect \/ Replaces
  BY <1>3, AttachPreserves DEF Connect, Replaces
<1>4. CASE ContainerReceives \/ Render \/ Effects
  BY <1>4, RunsKept
     DEF ContainerReceives, Render, Effects, hostVars, runVars, cycleVars,
         wireVars
<1>5. CASE HostReceives
  BY <1>5, HostReceivesPreserves
<1>6. ASSUME NEW r \in RunIds,
             BootDeadline(r) \/ CleanupDeadline(r) \/ RecoverTimesOut(r)
      PROVE  RegistryInv'
  BY <1>6, BootDeadlinePreserves, CleanupDeadlinePreserves, HandledPreserves
<1>7. ASSUME NEW r \in RunIds, Registry(r)
      PROVE  RegistryInv'
  BY <1>7, RecoverLoadedPreserves, HandledPreserves DEF Registry
<1>8. CASE Notified \/ FramesReady \/ Rebuilds
  BY <1>8, RunsKept
     DEF Notified, FramesReady, Rebuilds, runVars, cycleVars, wireVars
<1>9. ASSUME NEW new \in SUBSET Paths, NEW some \in SUBSET new,
             Commit(new, some)
      PROVE  RegistryInv'
  BY <1>9, CommitPreserves
<1>10. ASSUME NEW p \in Paths,
              Document(p) \/ Fails(p) \/ Wedges(p) \/ HotReloads(p)
       PROVE  RegistryInv'
  <2>1. UNCHANGED <<hostVars, runVars, cycleVars, epoch, connected>>
    BY <1>10 DEF Document, Load, TestsEnd, CleanupEnds, Fails, Wedges,
                 HotReloads, Goes
  <2> QED BY <2>1, RunsKept DEF hostVars, runVars, cycleVars
<1>11. CASE Drops \/ PageReloads
  BY <1>11, DisconnectPreserves DEF Drops, PageReloads
<1>12. CASE UNCHANGED vars
  BY <1>12, RunsKept DEF vars, hostVars, runVars, cycleVars, wireVars
<1> QED BY <1>1, <1>2, <1>3, <1>4, <1>5, <1>6, <1>7, <1>8, <1>9, <1>10,
           <1>11, <1>12
        DEF Next, Cycles, Wire, Container, Deadlines, Rerun

(* The registry's invariant holds in every reachable state.                  *)
THEOREM RegistryInvariance == Spec => []RegistryInv
BY RegistryInit, RegistryNext, PTL DEF Spec

(* A run is settled by one settler, which reports its file at most once, and *)
(* one run is live at a time: the one its cycle waits for                    *)
(* (headedRunRegistry.ts), however messages, deadlines, commits and          *)
(* transports interleave.                                                    *)
THEOREM SettledOnce == Spec => []RunsAreSettledOnce
<1>1. RegistryInv => RunsAreSettledOnce
  BY DEF RegistryInv, SoundInv, Sound, RunsAreSettledOnce,
         SettledWithTheTruth
<1> QED BY <1>1, RegistryInvariance, PTL

-----------------------------------------------------------------------------
(* What is on its way between host and container, and what the page has.     *)
PageTypes ==
  /\ acked \in Nat /\ applied \in Nat
  /\ down \in Seq(DownMessages) /\ up \in Seq(UpMessages)
  /\ set \in FileSets /\ shown \in FileSets
  /\ dirty \in {"no", "lease", "files"} /\ effects \in BOOLEAN
  /\ lease \in [Paths -> 0 .. MaxRuns] /\ doc \in [Paths -> Documents]

FileMessages(d) == {i \in DOMAIN d : d[i].type = "files"}
Reloads(d) == {i \in DOMAIN d : d[i].type = "reload"}
Readies(u) == {i \in DOMAIN u : u[i].type = "ready"}

(* File sets arrive in the order of their commits, and one of the current    *)
(* version is the committed one.  What was acked is not newer than what the  *)
(* page has, unless the page was loaded anew and has no set yet.             *)
SetsInv ==
  /\ applied <= set.version /\ shown.version <= set.version
  /\ set.version <= version /\ acked <= version
  /\ set.version = version => set.files = files
  /\ shown.version = version => shown.files = files
  /\ set.version = 0 \/ acked <= set.version
  /\ shown.version = 0 \/ acked <= shown.version
  /\ dirty = "files" => set.version > 0
  /\ effects = TRUE => shown.version > 0

Current(m) ==
  /\ set.version <= m.version /\ acked <= m.version /\ m.version <= version
  /\ m.version = version => m.files = files

InOrder(d) ==
  \A i, j \in FileMessages(d) : i < j => d[i].version <= d[j].version

DownInv ==
  /\ \A i \in FileMessages(down) : Current(down[i])
  /\ InOrder(down)

Acks(m) ==
  /\ m.version <= version
  /\ set.version = 0 \/ m.version <= set.version
  /\ shown.version = 0 \/ m.version <= shown.version
  /\ \A i \in FileMessages(down) : m.version <= down[i].version

UpInv == \A k \in Readies(up) : Acks(up[k])

WireInv == PageTypes /\ SetsInv /\ DownInv /\ UpInv

(* The file of an open run minted in time is in every set that is on its way *)
(* or that the page has; the last reload on its way is the run's own, or     *)
(* else the frame of the file has its lease.                                 *)
InEverySet(p) ==
  /\ \A i \in FileMessages(down) : p \in down[i].files
  /\ set.version = 0 \/ p \in set.files
  /\ shown.version = 0 \/ p \in shown.files

LastReloadIs(r, p) ==
  \A i \in Reloads(down) : (\A j \in Reloads(down) : j <= i)
    => down[i].run = r /\ down[i].path = p

LeasedInv ==
  \A r \in RunIds : runs[r].phase = "open" =>
    /\ LastReloadIs(r, runs[r].path)
    /\ runs[r].when = "in time" => InEverySet(runs[r].path)
    /\ runs[r].when = "in time" /\ Reloads(down) = {}
         => lease[runs[r].path] = r

-----------------------------------------------------------------------------
(* Sequences of messages.                                                    *)
LEMMA Appended ==
  ASSUME NEW S, NEW d \in Seq(S), NEW m \in S
  PROVE  LET a == Append(d, m)
             n == Len(d) + 1
         IN  /\ a \in Seq(S) /\ n \in Nat /\ DOMAIN d \subseteq Nat
             /\ DOMAIN a = DOMAIN d \cup {n} /\ a[n] = m
             /\ \A i \in DOMAIN d : a[i] = d[i] /\ i < n
OBVIOUS

LEMMA Taken ==
  ASSUME NEW S, NEW d \in Seq(S), d # <<>>
  PROVE  LET t == Tail(d) IN
         /\ t \in Seq(S) /\ 1 \in DOMAIN d /\ Head(d) = d[1] /\ Head(d) \in S
         /\ \A i \in DOMAIN t : i + 1 \in DOMAIN d /\ t[i] = d[i + 1]
         /\ \A i \in DOMAIN d : i # 1 => /\ i - 1 \in DOMAIN t
                                         /\ t[i - 1] = d[i]
         /\ DOMAIN t \subseteq Nat \ {0} /\ DOMAIN d \subseteq Nat \ {0}
<1>1. Len(d) \in Nat \ {0} /\ DOMAIN d = 1 .. Len(d)
  BY LenProperties, EmptySeq
<1>2. /\ Tail(d) \in Seq(S) /\ Len(Tail(d)) = Len(d) - 1
      /\ \A i \in 1 .. Len(Tail(d)) : Tail(d)[i] = d[i + 1]
  BY HeadTailProperties
<1>3. DOMAIN Tail(d) = 1 .. (Len(d) - 1)
  BY <1>2, LenProperties
<1>4. Head(d) = d[1] /\ d[1] \in S
  BY <1>1
<1> DEFINE t == Tail(d)
<1>5. \A i \in DOMAIN t : i + 1 \in DOMAIN d /\ t[i] = d[i + 1]
  BY <1>1, <1>2, <1>3
<1>6. ASSUME NEW i \in DOMAIN d, i # 1
      PROVE  i - 1 \in DOMAIN t /\ t[i - 1] = d[i]
  <2>1. i - 1 \in 1 .. (Len(d) - 1) /\ (i - 1) + 1 = i
    BY <1>1, <1>6
  <2> QED BY <1>2, <1>3, <2>1
<1> QED BY <1>1, <1>2, <1>3, <1>4, <1>5, <1>6

LEMMA Joined ==
  ASSUME NEW S, NEW u \in Seq(S), NEW v \in Seq(S)
  PROVE  /\ u \o v \in Seq(S)
         /\ \A k \in DOMAIN (u \o v) :
              \/ k \in DOMAIN u /\ (u \o v)[k] = u[k]
              \/ \E j \in DOMAIN v : (u \o v)[k] = v[j]
<1>1. /\ Len(u) \in Nat /\ DOMAIN u = 1 .. Len(u)
      /\ Len(v) \in Nat /\ DOMAIN v = 1 .. Len(v)
  BY LenProperties
<1>2. /\ u \o v \in Seq(S)
      /\ Len(u \o v) = Len(u) + Len(v)
      /\ \A i \in 1 .. (Len(u) + Len(v)) :
           (u \o v)[i] = IF i <= Len(u) THEN u[i] ELSE v[i - Len(u)]
  BY ConcatProperties
<1>3. DOMAIN (u \o v) = 1 .. (Len(u) + Len(v))
  BY <1>2, LenProperties
<1>4. ASSUME NEW k \in 1 .. (Len(u) + Len(v))
      PROVE  \/ k \in DOMAIN u /\ (u \o v)[k] = u[k]
             \/ \E j \in DOMAIN v : (u \o v)[k] = v[j]
  <2>1. CASE k <= Len(u)
    BY <1>1, <1>2, <2>1
  <2>2. CASE ~(k <= Len(u))
    <3>1. k - Len(u) \in 1 .. Len(v) /\ (u \o v)[k] = v[k - Len(u)]
      BY <1>1, <1>2, <2>2
    <3> QED BY <1>1, <3>1
  <2> QED BY <2>1, <2>2
<1> QED BY <1>2, <1>3, <1>4

-----------------------------------------------------------------------------
(* Host, wires and page.                                                     *)
LEMMA NothingIsTyped ==
  /\ NoFiles \in FileSets /\ NoFiles.version = 0
  /\ Blank \in Documents
<1>1. 0 \in 0 .. MaxRuns
  BY Bounds
<1> QED BY <1>1 DEF NoFiles, FileSets, Blank, Documents

LEMMA WireInit == Init => WireInv
<1> SUFFICES ASSUME Init PROVE WireInv
  OBVIOUS
<1>1. /\ version = 1 /\ acked = 0 /\ down = <<>> /\ up = <<>> /\ applied = 0
      /\ set = NoFiles /\ shown = NoFiles /\ dirty = "no" /\ effects = FALSE
      /\ lease = [p \in Paths |-> 0] /\ doc = [p \in Paths |-> Blank]
  BY DEF Init
<1>2. 0 \in 0 .. MaxRuns
  BY Bounds
<1>3. PageTypes
  <2>1. lease \in [Paths -> 0 .. MaxRuns] /\ doc \in [Paths -> Documents]
    BY <1>1, <1>2, NothingIsTyped
  <2>2. set \in FileSets /\ shown \in FileSets
    BY <1>1, NothingIsTyped
  <2>3. effects \in BOOLEAN
    BY <1>1
  <2>4. /\ acked \in Nat /\ applied \in Nat
        /\ down \in Seq(DownMessages) /\ up \in Seq(UpMessages)
        /\ dirty \in {"no", "lease", "files"}
    BY <1>1
  <2> QED BY <2>1, <2>2, <2>3, <2>4 DEF PageTypes
<1>4. SetsInv
  BY <1>1, NothingIsTyped DEF SetsInv
<1>5. DownInv /\ UpInv
  BY <1>1 DEF DownInv, UpInv, InOrder, FileMessages, Readies
<1> QED BY <1>3, <1>4, <1>5 DEF WireInv

(* Steps that move nothing but documents, and send nothing or say something  *)
(* of a run.                                                                 *)
LEMMA DocumentsMove ==
  ASSUME WireInv, files' = files, version' = version, acked' = acked,
         down' = down, set' = set, applied' = applied, shown' = shown,
         dirty' = dirty, effects' = effects, lease' = lease,
         doc' \in [Paths -> Documents],
         NEW said \in Seq(UpMessages), up' = up \/ up' = up \o said,
         \A k \in DOMAIN said : said[k].type # "ready"
  PROVE  WireInv'
<1>1. up' \in Seq(UpMessages)
      /\ \A k \in Readies(up') : k \in Readies(up) /\ up'[k] = up[k]
  <2>1. CASE up' = up
    BY <2>1 DEF WireInv, PageTypes
  <2>2. CASE up' = up \o said
    <3>1. up \in Seq(UpMessages)
      BY DEF WireInv, PageTypes
    <3> QED BY <2>2, <3>1, Joined DEF Readies
  <2> QED BY <2>1, <2>2
<1>2. PageTypes'
  BY <1>1 DEF WireInv, PageTypes
<1>3. SetsInv' /\ DownInv'
  BY DEF WireInv, SetsInv, DownInv, InOrder, Current
<1>4. \A k \in Readies(up) : Acks(up[k])
  BY DEF WireInv, UpInv
<1>5. UpInv'
  BY <1>1, <1>4 DEF UpInv, Acks
<1> QED BY <1>2, <1>3, <1>5 DEF WireInv

(* The versions of messages are numbers.                                     *)
LEMMA Versions ==
  ASSUME PageTypes
  PROVE  /\ \A i \in FileMessages(down) :
              down[i].version \in Nat /\ down[i].files \subseteq Paths
         /\ \A k \in Readies(up) : up[k].version \in Nat
         /\ set.version \in Nat /\ shown.version \in Nat
<1>1. ASSUME NEW i \in FileMessages(down)
      PROVE  down[i].version \in Nat /\ down[i].files \subseteq Paths
  <2>1. down[i] \in DownMessages /\ down[i].type = "files"
    BY DEF PageTypes, FileMessages
  <2> QED BY <2>1 DEF DownMessages
<1>2. ASSUME NEW k \in Readies(up) PROVE up[k].version \in Nat
  <2>1. up[k] \in UpMessages /\ up[k].type = "ready"
    BY DEF PageTypes, Readies
  <2> QED BY <2>1 DEF UpMessages
<1> QED BY <1>1, <1>2 DEF PageTypes, FileSets

(* The host may commit a set, and send what is committed; what is acked and  *)
(* the page stay.                                                            *)
LEMMA HostMoves ==
  ASSUME WireInv, version \in Nat,
         version' = version + 1 \/ (version' = version /\ files' = files),
         acked' = acked, pageVars' = pageVars,
         up' \in Seq(UpMessages), down' \in Seq(DownMessages),
         \A k \in Readies(up') : \E j \in Readies(up) : up'[k] = up[j],
         \A i \in FileMessages(down') :
           \/ i \in FileMessages(down) /\ down'[i] = down[i]
           \/ /\ down'[i].files = files' /\ down'[i].version = version'
              /\ \A j \in DOMAIN down' : j <= i
  PROVE  WireInv'
<1>1. /\ set' = set /\ shown' = shown /\ applied' = applied /\ dirty' = dirty
      /\ effects' = effects /\ lease' = lease /\ doc' = doc
  BY DEF pageVars
<1>2. /\ PageTypes
      /\ \A i \in FileMessages(down) : down[i].version \in Nat
      /\ \A k \in Readies(up) : up[k].version \in Nat
      /\ set.version \in Nat /\ shown.version \in Nat /\ acked \in Nat
  BY Versions DEF WireInv, PageTypes
<1>3. PageTypes'
  BY <1>1, <1>2 DEF PageTypes
<1>4. SetsInv'
  BY <1>1, <1>2 DEF WireInv, SetsInv
<1>5. set.version <= version /\ acked <= version /\ shown.version <= version
  BY <1>2 DEF WireInv, SetsInv
<1>6. ASSUME NEW i \in FileMessages(down)
      PROVE  /\ set.version <= down[i].version /\ acked <= down[i].version
             /\ down[i].version <= version
             /\ down[i].version = version => down[i].files = files
  BY DEF WireInv, DownInv, Current
<1>7. ASSUME NEW i \in FileMessages(down')
      PROVE  /\ set'.version <= down'[i].version
             /\ acked' <= down'[i].version /\ down'[i].version <= version'
             /\ down'[i].version = version' => down'[i].files = files'
  <2>1. CASE i \in FileMessages(down) /\ down'[i] = down[i]
    BY <1>1, <1>2, <1>6, <2>1
  <2>2. CASE down'[i].files = files' /\ down'[i].version = version'
    BY <1>1, <1>2, <1>5, <2>2
  <2> QED BY <2>1, <2>2
<1>8. ASSUME NEW i \in FileMessages(down'), NEW j \in FileMessages(down'), i < j
      PROVE  down'[i].version <= down'[j].version
  <2>1. i \in DOMAIN down' /\ j \in DOMAIN down' /\ i \in Nat /\ j \in Nat
    BY DEF FileMessages
  <2>2. CASE down'[j].version = version'
    BY <1>7, <2>2
  <2>3. CASE j \in FileMessages(down) /\ down'[j] = down[j]
    <3>1. ~(j <= i)
      BY <1>8, <2>1
    <3>2. i \in FileMessages(down) /\ down'[i] = down[i]
      BY <2>1, <3>1
    <3> QED BY <1>8, <2>3, <3>2 DEF WireInv, DownInv, InOrder
  <2> QED BY <2>2, <2>3
<1>9. DownInv'
  BY <1>7, <1>8 DEF DownInv, InOrder, Current
<1>10. ASSUME NEW k \in Readies(up')
       PROVE  /\ up'[k].version <= version'
              /\ set'.version = 0 \/ up'[k].version <= set'.version
              /\ shown'.version = 0 \/ up'[k].version <= shown'.version
              /\ \A i \in FileMessages(down') :
                   up'[k].version <= down'[i].version
  <2>1. PICK j \in Readies(up) : up'[k] = up[j]
    OBVIOUS
  <2>2. Acks(up[j])
    BY DEF WireInv, UpInv
  <2>3. up'[k].version <= version'
    BY <1>2, <2>1, <2>2 DEF Acks
  <2>4. ASSUME NEW i \in FileMessages(down')
        PROVE  up'[k].version <= down'[i].version
    BY <2>1, <2>2, <2>3 DEF Acks
  <2> QED BY <1>1, <2>1, <2>2, <2>3, <2>4 DEF Acks
<1>11. UpInv'
  BY <1>10 DEF UpInv, Acks
<1> QED BY <1>3, <1>4, <1>9, <1>11 DEF WireInv

LEMMA WireKept ==
  ASSUME WireInv, version \in Nat,
         version' = version + 1 \/ (version' = version /\ files' = files),
         acked' = acked, down' = down, up' = up, pageVars' = pageVars
  PROVE  WireInv'
BY HostMoves DEF WireInv, PageTypes

LEMMA HostSends ==
  ASSUME WireInv, version \in Nat,
         version' = version + 1 \/ (version' = version /\ files' = files),
         acked' = acked, pageVars' = pageVars,
         up' \in Seq(UpMessages),
         \A k \in Readies(up') : \E j \in Readies(up) : up'[k] = up[j],
         NEW m \in DownMessages, down' = Append(down, m),
         m.type = "files" => m.files = files' /\ m.version = version'
  PROVE  WireInv'
<1> DEFINE n == Len(down) + 1
<1>1. down \in Seq(DownMessages)
  BY DEF WireInv, PageTypes
<1>2. /\ down' \in Seq(DownMessages) /\ n \in Nat /\ DOMAIN down \subseteq Nat
      /\ DOMAIN down' = DOMAIN down \cup {n} /\ down'[n] = m
      /\ \A i \in DOMAIN down : down'[i] = down[i] /\ i < n
  BY <1>1, Appended
<1> HIDE DEF n
<1>3. ASSUME NEW i \in FileMessages(down')
      PROVE  \/ i \in FileMessages(down) /\ down'[i] = down[i]
             \/ /\ down'[i].files = files' /\ down'[i].version = version'
                /\ \A j \in DOMAIN down' : j <= i
  <2>1. i \in DOMAIN down' /\ down'[i].type = "files"
    BY DEF FileMessages
  <2>2. CASE i = n
    <3>1. \A j \in DOMAIN down' : j <= n
      BY <1>2
    <3> QED BY <1>2, <2>1, <2>2, <3>1
  <2>3. CASE i \in DOMAIN down
    BY <1>2, <2>1, <2>3 DEF FileMessages
  <2> QED BY <1>2, <2>1, <2>2, <2>3
<1> QED BY <1>2, <1>3, HostMoves

(* The wires are cut, and the page stays or is loaded anew; or they are new, *)
(* and the page says what it shows.                                          *)
LEMMA WiresCut ==
  ASSUME WireInv, version \in Nat \ {0}, files' = files, version' = version,
         acked' = acked \/ acked' = 0, down' = <<>>, up' = <<>>,
         UNCHANGED pageVars \/ NoPage
  PROVE  WireInv'
<1>1. /\ DownInv' /\ UpInv' /\ acked' \in Nat
      /\ down' \in Seq(DownMessages) /\ up' \in Seq(UpMessages)
  BY DEF WireInv, PageTypes, DownInv, UpInv, InOrder, FileMessages, Readies
<1>2. CASE UNCHANGED pageVars
  BY <1>1, <1>2 DEF WireInv, PageTypes, FileSets, SetsInv, pageVars
<1>3. CASE NoPage
  <2>1. 0 \in 0 .. MaxRuns
    BY Bounds
  <2>2. /\ set' = NoFiles /\ shown' = NoFiles /\ applied' = 0 /\ dirty' = "no"
        /\ effects' = FALSE
        /\ lease' = [p \in Paths |-> 0] /\ doc' = [p \in Paths |-> Blank]
    BY <1>3 DEF NoPage
  <2>3. /\ set' \in FileSets /\ shown' \in FileSets
        /\ lease' \in [Paths -> 0 .. MaxRuns] /\ doc' \in [Paths -> Documents]
    BY <2>1, <2>2, NothingIsTyped
  <2>4. applied' \in Nat /\ dirty' \in {"no", "lease", "files"}
    BY <2>2
  <2>5. effects' \in BOOLEAN
    BY <2>2
  <2>6. PageTypes'
    BY <1>1, <2>3, <2>4, <2>5 DEF PageTypes
  <2>7. acked' <= version
    BY DEF WireInv, PageTypes, SetsInv
  <2>8. set'.version = 0 /\ shown'.version = 0
    BY <2>2, NothingIsTyped
  <2>9. SetsInv'
    BY <2>2, <2>7, <2>8 DEF SetsInv
  <2> QED BY <1>1, <2>6, <2>9 DEF WireInv
<1> QED BY <1>2, <1>3

LEMMA AttachKeepsWire ==
  ASSUME WireInv, version \in Nat \ {0}, Attach
  PROVE  WireInv'
<1> DEFINE asks == [type |-> "getTestFiles"]
           shows == [type |-> "ready", version |-> shown.version]
<1>1. /\ UNCHANGED <<files, version, acked, set, shown, dirty, effects, lease,
                     doc>>
      /\ down' = <<>> /\ applied' = 0
  BY DEF Attach
<1>2. shown.version \in Nat
  BY DEF WireInv, PageTypes, FileSets
<1>3. asks \in UpMessages /\ shows \in UpMessages
  BY <1>2 DEF UpMessages
<1>4. up' = <<asks>> \o (IF shown.version = 0 THEN <<>> ELSE <<shows>>)
  BY DEF Attach
<1> HIDE DEF asks, shows
<1>5. up' \in Seq(UpMessages) /\ \A k \in Readies(up') : up'[k] = shows
  <2> DEFINE more == IF shown.version = 0 THEN <<>> ELSE <<shows>>
  <2>1. /\ <<asks>> \in Seq(UpMessages) /\ DOMAIN <<asks>> = {1}
        /\ <<asks>>[1] = asks /\ asks.type = "getTestFiles"
    BY <1>3 DEF asks
  <2>2. more \in Seq(UpMessages) /\ \A j \in DOMAIN more : more[j] = shows
    BY <1>3
  <2> HIDE DEF more
  <2>3. up' = <<asks>> \o more
    BY <1>4 DEF more
  <2>4. /\ up' \in Seq(UpMessages)
        /\ \A k \in DOMAIN up' :
             \/ k \in DOMAIN <<asks>> /\ up'[k] = <<asks>>[k]
             \/ \E j \in DOMAIN more : up'[k] = more[j]
    BY <2>1, <2>2, <2>3, Joined
  <2> QED BY <2>1, <2>2, <2>4 DEF Readies
<1>6. PageTypes' /\ SetsInv' /\ DownInv' /\ FileMessages(down') = {}
  BY <1>1, <1>2, <1>5
  DEF WireInv, PageTypes, FileSets, SetsInv, DownInv, InOrder, FileMessages
<1>7. /\ shows.version = shown.version /\ shown.version <= version
      /\ shown.version <= set.version
  BY <1>2 DEF shows, WireInv, PageTypes, FileSets, SetsInv
<1>8. UpInv'
  <2>1. ASSUME NEW k \in Readies(up')
        PROVE  /\ up'[k].version <= version'
               /\ up'[k].version <= set'.version
               /\ up'[k].version <= shown'.version
    BY <1>1, <1>2, <1>5, <1>7
  <2> QED BY <1>6, <2>1 DEF UpInv, Acks
<1> QED BY <1>6, <1>8 DEF WireInv
LEMMA ReceivesKeepsWire ==
  ASSUME WireInv, version \in Nat, ContainerReceives
  PROVE  WireInv'
<1> DEFINE m == Head(down)
<1>1. /\ down # <<>> /\ down' = Tail(down)
      /\ \/ /\ m.type = "files" /\ m.version > applied
            /\ applied' = m.version /\ dirty' = "files"
            /\ set' = [files |-> m.files, version |-> m.version]
            /\ UNCHANGED lease
         \/ /\ m.type = "files" => m.version <= applied
            /\ m.type # "reload"
            /\ UNCHANGED <<applied, dirty, set, lease>>
         \/ /\ m.type = "reload"
            /\ lease' = [lease EXCEPT ![m.path] = m.run]
            /\ dirty' = IF dirty = "no" THEN "lease" ELSE dirty
            /\ UNCHANGED <<applied, set>>
      /\ UNCHANGED <<files, version, acked, up, shown, effects, doc>>
  BY DEF ContainerReceives, hostVars
<1>2. down \in Seq(DownMessages) /\ PageTypes
  BY DEF WireInv, PageTypes
<1>3. /\ Tail(down) \in Seq(DownMessages) /\ 1 \in DOMAIN down /\ m = down[1]
      /\ m \in DownMessages
      /\ \A i \in DOMAIN Tail(down) :
           i + 1 \in DOMAIN down /\ Tail(down)[i] = down[i + 1]
      /\ DOMAIN Tail(down) \subseteq Nat \ {0}
  BY <1>1, <1>2, Taken
<1> HIDE DEF m
<1>4. /\ \A i \in FileMessages(down) :
           down[i].version \in Nat /\ down[i].files \subseteq Paths
      /\ \A k \in Readies(up) : up[k].version \in Nat
      /\ set.version \in Nat /\ shown.version \in Nat
      /\ acked \in Nat /\ applied \in Nat
  BY <1>2, Versions DEF PageTypes
<1>5. \A i \in FileMessages(down') :
        i + 1 \in FileMessages(down) /\ down'[i] = down[i + 1] /\ i \in Nat
  BY <1>1, <1>3 DEF FileMessages
<1>6. InOrder(down')
  <2>1. ASSUME NEW i \in FileMessages(down'), NEW j \in FileMessages(down'),
               i < j
        PROVE  down'[i].version <= down'[j].version
    <3>1. i + 1 < j + 1 /\ i + 1 \in FileMessages(down)
          /\ j + 1 \in FileMessages(down)
      BY <1>5, <2>1
    <3>2. down[i + 1].version <= down[j + 1].version
      BY <3>1 DEF WireInv, DownInv, InOrder
    <3> QED BY <1>5, <3>2
  <2> QED BY <2>1 DEF InOrder
<1>7. ASSUME NEW i \in FileMessages(down') PROVE Current(down'[i])
  BY <1>5 DEF WireInv, DownInv
<1>8. ASSUME NEW k \in Readies(up)
      PROVE  /\ Acks(up[k])
             /\ \A i \in FileMessages(down') : up[k].version <= down'[i].version
  BY <1>5 DEF WireInv, UpInv, Acks
<1>9. CASE /\ m.type = "files" /\ m.version > applied
           /\ applied' = m.version /\ dirty' = "files"
           /\ set' = [files |-> m.files, version |-> m.version]
           /\ UNCHANGED lease
  <2>1. 1 \in FileMessages(down) /\ m.version \in Nat /\ m.files \subseteq Paths
    BY <1>3, <1>4, <1>9 DEF FileMessages
  <2>2. Current(m)
    BY <1>3, <2>1 DEF WireInv, DownInv
  <2>3. set'.version = m.version /\ set'.files = m.files /\ set' \in FileSets
    BY <1>9, <2>1 DEF FileSets
  <2>4. PageTypes'
    <3>1. dirty' \in {"no", "lease", "files"} /\ applied' \in Nat
      BY <1>9, <2>1
    <3> QED BY <1>1, <1>2, <1>3, <1>9, <2>3, <3>1 DEF PageTypes
  <2>5. SetsInv'
    BY <1>1, <1>4, <1>9, <2>1, <2>2, <2>3 DEF WireInv, SetsInv, Current
  <2>6. ASSUME NEW i \in FileMessages(down')
        PROVE  m.version <= down'[i].version
    <3>1. 1 < i + 1 /\ 1 \in FileMessages(down) /\ i + 1 \in FileMessages(down)
      BY <1>1, <1>3, <1>5, <2>1 DEF FileMessages
    <3>2. down[1].version <= down[i + 1].version
      BY <3>1 DEF WireInv, DownInv, InOrder
    <3> QED BY <1>3, <1>5, <3>2
  <2>7. ASSUME NEW i \in FileMessages(down')
        PROVE  /\ set'.version <= down'[i].version
               /\ acked' <= down'[i].version /\ down'[i].version <= version'
               /\ down'[i].version = version' => down'[i].files = files'
    BY <1>1, <1>7, <2>3, <2>6 DEF Current
  <2>8. DownInv'
    BY <1>6, <2>7 DEF DownInv, Current
  <2>9. ASSUME NEW k \in Readies(up)
        PROVE  /\ up[k].version <= version'
               /\ up[k].version <= set'.version
               /\ shown'.version = 0 \/ up[k].version <= shown'.version
               /\ \A i \in FileMessages(down') :
                    up[k].version <= down'[i].version
    <3>1. up[k].version <= m.version
      BY <1>3, <1>8, <2>1 DEF Acks
    <3> QED BY <1>1, <1>8, <2>3, <3>1 DEF Acks
  <2>10. UpInv'
    BY <1>1, <2>9 DEF UpInv, Acks
  <2> QED BY <2>4, <2>5, <2>8, <2>10 DEF WireInv
<1>10. ASSUME \/ m.type = "reload"
                 /\ lease' = [lease EXCEPT ![m.path] = m.run]
                 /\ dirty' = (IF dirty = "no" THEN "lease" ELSE dirty)
                 /\ UNCHANGED <<applied, set>>
              \/ UNCHANGED <<applied, dirty, set, lease>>
       PROVE  WireInv'
  <2> set' = set
    BY <1>10
  <2>1. lease' \in [Paths -> 0 .. MaxRuns] /\ dirty' \in {"no", "lease", "files"}
        /\ applied' \in Nat /\ applied' <= set.version
        /\ (dirty' = "files" => dirty = "files")
    <3>1. CASE m.type = "reload" /\ lease' = [lease EXCEPT ![m.path] = m.run]
               /\ dirty' = (IF dirty = "no" THEN "lease" ELSE dirty)
               /\ UNCHANGED <<applied, set>>
      <4>1. m.path \in Paths /\ m.run \in RunIds
        BY <1>3, <3>1 DEF DownMessages
      <4>2. m.run \in 0 .. MaxRuns
        BY <4>1, Bounds DEF RunIds
      <4>3. lease' \in [Paths -> 0 .. MaxRuns]
        BY <1>2, <3>1, <4>1, <4>2 DEF PageTypes
      <4>4. dirty \in {"no", "lease", "files"}
        BY <1>2 DEF PageTypes
      <4>5. /\ dirty' \in {"no", "lease", "files"}
            /\ (dirty' = "files" => dirty = "files")
        BY <3>1, <4>4
      <4>6. applied' \in Nat /\ applied' <= set.version
        BY <1>4, <3>1 DEF WireInv, SetsInv
      <4> QED BY <4>3, <4>5, <4>6
    <3>2. CASE UNCHANGED <<applied, dirty, set, lease>>
      BY <1>2, <3>2 DEF WireInv, SetsInv, PageTypes
    <3> QED BY <1>10, <3>1, <3>2
  <2>2. PageTypes'
    BY <1>1, <1>2, <1>3, <1>10, <2>1 DEF PageTypes
  <2>3. SetsInv'
    BY <1>1, <1>4, <1>10, <2>1 DEF WireInv, SetsInv
  <2>4. DownInv' /\ UpInv'
    BY <1>1, <1>6, <1>7, <1>8, <1>10 DEF DownInv, Current, UpInv, Acks
  <2> QED BY <2>2, <2>3, <2>4 DEF WireInv
<1> QED BY <1>1, <1>9, <1>10

LEMMA RenderKeepsWire ==
  ASSUME WireInv, version \in Nat, Render
  PROVE  WireInv'
<1>1. /\ UNCHANGED <<files, version, acked, down, up, set, applied, lease>>
      /\ dirty' = "no" /\ shown' = set /\ effects' = (effects \/ dirty = "files")
      /\ doc' = [p \in Paths |->
           IF p \notin set.files \/ lease[p] = 0 THEN Blank
           ELSE IF lease[p] # doc[p].run
           THEN [run |-> lease[p], at |-> "loading"] ELSE doc[p]]
  BY DEF Render, hostVars, wireVars
<1>2. /\ PageTypes /\ set.version \in Nat /\ shown.version \in Nat
      /\ acked \in Nat /\ applied \in Nat
  BY Versions DEF WireInv, PageTypes
<1>3. ASSUME NEW p \in Paths
      PROVE  (IF p \notin set.files \/ lease[p] = 0 THEN Blank
              ELSE IF lease[p] # doc[p].run
              THEN [run |-> lease[p], at |-> "loading"] ELSE doc[p])
               \in Documents
  <2>1. lease[p] \in 0 .. MaxRuns /\ doc[p] \in Documents
    BY <1>2 DEF PageTypes
  <2>2. [run |-> lease[p], at |-> "loading"] \in Documents
    BY <2>1 DEF Documents
  <2> QED BY <2>1, <2>2, NothingIsTyped
<1>4. doc' \in [Paths -> Documents]
  BY <1>1, <1>3
<1>5. PageTypes'
  <2>1. dirty' \in {"no", "lease", "files"} /\ shown' \in FileSets
    BY <1>1, <1>2 DEF PageTypes
  <2>2. effects' \in BOOLEAN
    BY <1>1, <1>2 DEF PageTypes
  <2> QED BY <1>1, <1>2, <1>4, <2>1, <2>2 DEF PageTypes
<1>6. effects' = TRUE => shown'.version > 0
  <2>1. CASE effects
    <3>1. shown.version > 0 /\ shown.version <= set.version
      BY <2>1 DEF WireInv, SetsInv
    <3> QED BY <1>1, <1>2, <3>1
  <2>2. CASE dirty = "files"
    BY <1>1, <2>2 DEF WireInv, SetsInv
  <2> QED BY <1>1, <2>1, <2>2
<1>7. SetsInv'
  BY <1>1, <1>2, <1>6 DEF WireInv, SetsInv
<1>8. DownInv'
  BY <1>1 DEF WireInv, DownInv, InOrder, Current
<1>9. ASSUME NEW k \in Readies(up)
      PROVE  /\ up[k].version <= version
             /\ set.version = 0 \/ up[k].version <= set.version
             /\ \A i \in FileMessages(down) : up[k].version <= down[i].version
  BY DEF WireInv, UpInv, Acks
<1>10. UpInv'
  BY <1>1, <1>9 DEF UpInv, Acks
<1> QED BY <1>5, <1>7, <1>8, <1>10 DEF WireInv

LEMMA EffectsKeepsWire ==
  ASSUME WireInv, version \in Nat, Effects
  PROVE  WireInv'
<1> DEFINE ready == [type |-> "ready", version |-> shown.version]
<1>1. /\ UNCHANGED <<files, version, acked, down, set, applied, shown, doc>>
      /\ effects /\ effects' = FALSE
      /\ lease' = [p \in Paths |-> IF p \in shown.files THEN lease[p] ELSE 0]
      /\ dirty' = IF dirty = "no" THEN "lease" ELSE dirty
      /\ up' = IF connected THEN up \o <<ready>> ELSE up
  BY DEF Effects, hostVars, Sends
<1>2. /\ PageTypes /\ set.version \in Nat /\ shown.version \in Nat
      /\ acked \in Nat /\ applied \in Nat /\ up \in Seq(UpMessages)
      /\ \A i \in FileMessages(down) : down[i].version \in Nat
  BY Versions DEF WireInv, PageTypes
<1>3. /\ ready \in UpMessages /\ <<ready>> \in Seq(UpMessages)
      /\ DOMAIN <<ready>> = {1} /\ <<ready>>[1] = ready
      /\ ready.version = shown.version
  BY <1>2 DEF UpMessages
<1> HIDE DEF ready
<1>4. /\ up' \in Seq(UpMessages)
      /\ \A k \in Readies(up') :
           (k \in Readies(up) /\ up'[k] = up[k]) \/ up'[k] = ready
  <2>1. CASE up' = up
    BY <1>2, <2>1
  <2>2. CASE up' = up \o <<ready>>
    <3>1. /\ up' \in Seq(UpMessages)
          /\ \A k \in DOMAIN up' :
               \/ k \in DOMAIN up /\ up'[k] = up[k]
               \/ \E j \in DOMAIN <<ready>> : up'[k] = <<ready>>[j]
      BY <1>2, <1>3, <2>2, Joined
    <3> QED BY <1>3, <3>1 DEF Readies
  <2> QED BY <1>1, <2>1, <2>2
<1>5. ASSUME NEW p \in Paths
      PROVE  (IF p \in shown.files THEN lease[p] ELSE 0) \in 0 .. MaxRuns
  <2>1. 0 \in 0 .. MaxRuns /\ lease[p] \in 0 .. MaxRuns
    BY <1>2, Bounds DEF PageTypes
  <2> QED BY <2>1
<1>6. PageTypes' /\ (dirty' = "files" => dirty = "files")
  <2>1. lease' \in [Paths -> 0 .. MaxRuns]
    BY <1>1, <1>5
  <2>2. /\ dirty' \in {"no", "lease", "files"}
        /\ (dirty' = "files" => dirty = "files")
    BY <1>1, <1>2 DEF PageTypes
  <2>3. effects' \in BOOLEAN
    BY <1>1
  <2> QED BY <1>1, <1>2, <1>4, <2>1, <2>2, <2>3 DEF PageTypes
<1>7. SetsInv'
  BY <1>1, <1>6 DEF WireInv, SetsInv
<1>8. DownInv'
  BY <1>1 DEF WireInv, DownInv, InOrder, Current
<1>9. /\ shown.version <= version /\ shown.version <= set.version
      /\ \A i \in FileMessages(down) : shown.version <= down[i].version
  <2>1. shown.version <= set.version /\ set.version <= version
    BY DEF WireInv, SetsInv
  <2>2. \A i \in FileMessages(down) : set.version <= down[i].version
    BY DEF WireInv, DownInv, Current
  <2> QED BY <1>2, <2>1, <2>2
<1>10. ASSUME NEW k \in Readies(up')
       PROVE  /\ up'[k].version <= version
              /\ set.version = 0 \/ up'[k].version <= set.version
              /\ shown.version = 0 \/ up'[k].version <= shown.version
              /\ \A i \in FileMessages(down) : up'[k].version <= down[i].version
  <2>1. CASE k \in Readies(up) /\ up'[k] = up[k]
    BY <2>1 DEF WireInv, UpInv, Acks
  <2>2. CASE up'[k] = ready
    BY <1>2, <1>3, <1>9, <2>2
  <2> QED BY <1>4, <2>1, <2>2
<1>11. UpInv'
  BY <1>1, <1>10 DEF UpInv, Acks
<1> QED BY <1>6, <1>7, <1>8, <1>11 DEF WireInv
LEMMA Consumed ==
  ASSUME NEW u \in Seq(UpMessages), u # <<>>
  PROVE  /\ Tail(u) \in Seq(UpMessages)
         /\ \A k \in Readies(Tail(u)) :
              k + 1 \in Readies(u) /\ Tail(u)[k] = u[k + 1]
         /\ Head(u) \in UpMessages
         /\ Head(u).type = "ready" => 1 \in Readies(u) /\ Head(u) = u[1]
BY Taken DEF Readies

LEMMA HostKeepsWire ==
  ASSUME WireInv, version \in Nat, files \in SUBSET Paths, HostReceives
  PROVE  WireInv'
<1> DEFINE m == Head(up)
<1>1. /\ up # <<>> /\ up' = Tail(up)
      /\ UNCHANGED <<files, version, pageVars>>
      /\ \/ /\ down' = Append(down, [type |-> "files", files |-> files,
                                     version |-> version])
            /\ UNCHANGED acked
         \/ m.type = "ready" /\ markFrameSetReady(m.version) /\ UNCHANGED down
         \/ UNCHANGED <<down, acked>>
  BY DEF HostReceives
<1>2. /\ PageTypes /\ up \in Seq(UpMessages) /\ down \in Seq(DownMessages)
      /\ acked \in Nat
  BY DEF WireInv, PageTypes
<1>3. /\ up' \in Seq(UpMessages)
      /\ \A k \in Readies(up') :
           k + 1 \in Readies(up) /\ up'[k] = up[k + 1]
      /\ m.type = "ready" => 1 \in Readies(up) /\ m = up[1]
  BY <1>1, <1>2, Consumed
<1>4. \A k \in Readies(up') : \E j \in Readies(up) : up'[k] = up[j]
  BY <1>3
<1> HIDE DEF m
<1>5. CASE /\ down' = Append(down, [type |-> "files", files |-> files,
                                    version |-> version])
           /\ UNCHANGED acked
  <2>1. [type |-> "files", files |-> files, version |-> version]
          \in DownMessages
    BY DEF DownMessages
  <2> QED BY <1>1, <1>3, <1>4, <1>5, <2>1, HostSends
<1>6. CASE UNCHANGED <<down, acked>>
  BY <1>1, <1>2, <1>3, <1>4, <1>6, HostMoves
<1>7. CASE m.type = "ready" /\ markFrameSetReady(m.version) /\ UNCHANGED down
  <2>1. 1 \in Readies(up) /\ m = up[1] /\ m.version \in Nat
    BY <1>2, <1>3, <1>7, Versions
  <2>2. Acks(m)
    BY <2>1 DEF WireInv, UpInv
  <2>3. acked' = acked \/ acked' = m.version
    BY <1>7 DEF markFrameSetReady
  <2>4. CASE acked' = acked
    BY <1>1, <1>2, <1>3, <1>4, <1>7, <2>4, HostMoves
  <2>5. CASE acked' = m.version
    <3>1. /\ set' = set /\ shown' = shown /\ applied' = applied
          /\ dirty' = dirty /\ effects' = effects /\ lease' = lease
          /\ doc' = doc /\ files' = files /\ version' = version
          /\ down' = down
      BY <1>1, <1>7 DEF pageVars
    <3>2. PageTypes'
      BY <1>2, <1>3, <2>1, <2>5, <3>1 DEF PageTypes
    <3>3. SetsInv'
      BY <2>2, <2>5, <3>1 DEF WireInv, SetsInv, Acks
    <3>4. ASSUME NEW i \in FileMessages(down)
          PROVE  /\ set.version <= down[i].version
                 /\ acked' <= down[i].version /\ down[i].version <= version
                 /\ down[i].version = version => down[i].files = files
      BY <2>2, <2>5 DEF WireInv, DownInv, Current, Acks
    <3>5. DownInv'
      BY <3>1, <3>4 DEF WireInv, DownInv, InOrder, Current
    <3>6. ASSUME NEW k \in Readies(up')
          PROVE  /\ up'[k].version <= version
                 /\ set.version = 0 \/ up'[k].version <= set.version
                 /\ shown.version = 0 \/ up'[k].version <= shown.version
                 /\ \A i \in FileMessages(down) :
                      up'[k].version <= down[i].version
      BY <1>3 DEF WireInv, UpInv, Acks
    <3>7. UpInv'
      BY <3>1, <3>6 DEF UpInv, Acks
    <3> QED BY <3>2, <3>3, <3>5, <3>7 DEF WireInv
  <2> QED BY <2>3, <2>4, <2>5
<1> QED BY <1>1, <1>5, <1>6, <1>7

LEMMA ReloadKeepsWire ==
  ASSUME WireInv, version \in Nat, NEW p \in Paths, reloadTestFile(p),
         minted \in Nat, minted < MaxRuns
  PROVE  WireInv'
<1> DEFINE m == [type |-> "reload", path |-> p, run |-> minted + 1]
<1>1. /\ UNCHANGED <<files, version, acked, up, pageVars>>
      /\ down' = IF connected THEN Append(down, m) ELSE down
  BY DEF reloadTestFile, hostVars
<1>2. m \in DownMessages /\ m.type # "files"
  <2>1. minted + 1 \in RunIds
    BY Bounds DEF RunIds
  <2> QED BY <2>1 DEF DownMessages
<1> HIDE DEF m
<1>3. up' \in Seq(UpMessages) /\ \A k \in Readies(up') : up'[k] = up[k]
  BY <1>1 DEF WireInv, PageTypes
<1>4. CASE down' = Append(down, m)
  BY <1>1, <1>2, <1>3, <1>4, HostSends
<1>5. CASE down' = down
  BY <1>1, <1>5, WireKept
<1> QED BY <1>1, <1>4, <1>5

LEMMA CommitKeepsWire ==
  ASSUME WireInv, version \in Nat, NEW new \in SUBSET Paths,
         NEW some \in SUBSET new, Commit(new, some)
  PROVE  WireInv'
<1> DEFINE m == [type |-> "files", files |-> new, version |-> version + 1]
<1>1. /\ UNCHANGED <<acked, up, pageVars>>
      /\ \/ UNCHANGED <<files, version, down>>
         \/ /\ files' = new /\ version' = version + 1
            /\ down' = IF connected THEN Append(down, m) ELSE down
  BY DEF Commit
<1>2. m \in DownMessages /\ m.files = new /\ m.version = version + 1
  BY DEF DownMessages
<1> HIDE DEF m
<1>3. up' \in Seq(UpMessages) /\ \A k \in Readies(up') : up'[k] = up[k]
  BY <1>1 DEF WireInv, PageTypes
<1>4. CASE UNCHANGED <<files, version, down>>
  BY <1>1, <1>4, WireKept
<1>5. CASE files' = new /\ version' = version + 1 /\ down' = Append(down, m)
  BY <1>1, <1>2, <1>3, <1>5, HostSends
<1>6. CASE files' = new /\ version' = version + 1 /\ down' = down
  BY <1>1, <1>6, WireKept
<1> QED BY <1>1, <1>4, <1>5, <1>6

LEMMA RebuildsKeepWire ==
  ASSUME WireInv, version \in Nat, Rebuilds
  PROVE  WireInv'
<1> DEFINE m == [type |-> "config"]
<1>1. /\ UNCHANGED <<files, version, acked, up, pageVars>>
      /\ down' = IF connected THEN Append(down, m) ELSE down
  BY DEF Rebuilds
<1>2. m \in DownMessages /\ m.type # "files"
  BY DEF DownMessages
<1> HIDE DEF m
<1>3. up' \in Seq(UpMessages) /\ \A k \in Readies(up') : up'[k] = up[k]
  BY <1>1 DEF WireInv, PageTypes
<1>4. CASE down' = Append(down, m)
  BY <1>1, <1>2, <1>3, <1>4, HostSends
<1>5. CASE down' = down
  BY <1>1, <1>5, WireKept
<1> QED BY <1>1, <1>4, <1>5

(* A document goes on, and may say something of its run.                     *)
LEMMA GoesKeepsWire ==
  ASSUME WireInv, NEW p \in Paths, NEW said \in Seq(UpMessages),
         NEW to \in {"blank", "loading", "running", "announced", "wedged",
                     "over"},
         Goes(p, to, said), \A k \in DOMAIN said : said[k].type # "ready"
  PROVE  WireInv'
<1>1. /\ UNCHANGED <<files, version, acked, down, set, applied, shown, dirty,
                     effects, lease>>
      /\ doc' = [doc EXCEPT ![p].at = to]
      /\ up' = IF connected THEN up \o said ELSE up
  BY DEF Goes, hostVars, Sends
<1>2. doc \in [Paths -> Documents]
  BY DEF WireInv, PageTypes
<1>3. doc' \in [Paths -> Documents]
  BY <1>1, <1>2 DEF Documents
<1>4. up' = up \/ up' = up \o said
  BY <1>1
<1> QED BY <1>1, <1>3, <1>4, DocumentsMove

LEMMA DocumentKeepsWire ==
  ASSUME WireInv, NEW p \in Paths,
         Document(p) \/ Fails(p) \/ Wedges(p) \/ HotReloads(p)
  PROVE  WireInv'
<1>1. doc[p].run \in 0 .. MaxRuns
  BY DEF WireInv, PageTypes, Documents
<1>2. ASSUME NEW what \in {"start", "cleanup", "cleaned", "complete", "fatal"}
      PROVE  Says(p, what) \in UpMessages /\ Says(p, what).type # "ready"
  BY <1>1 DEF Says, UpMessages
<1>3. ASSUME NEW what \in {"start", "cleanup", "cleaned", "complete", "fatal"}
      PROVE  /\ <<Says(p, what)>> \in Seq(UpMessages)
             /\ \A k \in DOMAIN <<Says(p, what)>> :
                  <<Says(p, what)>>[k].type # "ready"
  BY <1>2
<1> DEFINE both == <<Says(p, "cleaned"), Says(p, "complete")>>
<1>4. both \in Seq(UpMessages) /\ \A k \in DOMAIN both : both[k].type # "ready"
  <2>1. /\ Says(p, "cleaned") \in UpMessages
        /\ Says(p, "complete") \in UpMessages
        /\ Says(p, "cleaned").type # "ready"
        /\ Says(p, "complete").type # "ready"
    BY <1>2
  <2>2. both \in Seq(UpMessages) /\ DOMAIN both = {1, 2}
        /\ both[1] = Says(p, "cleaned") /\ both[2] = Says(p, "complete")
    BY <2>1
  <2> QED BY <2>1, <2>2
<1>5. <<>> \in Seq(UpMessages) /\ \A k \in DOMAIN <<>> : <<>>[k].type # "ready"
  OBVIOUS
<1>6. CASE Load(p)
  BY <1>3, <1>5, <1>6, GoesKeepsWire DEF Load
<1>7. CASE TestsEnd(p)
  BY <1>3, <1>7, GoesKeepsWire DEF TestsEnd
<1>8. CASE CleanupEnds(p)
  BY <1>3, <1>4, <1>8, GoesKeepsWire DEF CleanupEnds
<1>9. CASE Fails(p)
  BY <1>3, <1>9, GoesKeepsWire DEF Fails
<1>10. CASE Wedges(p) \/ HotReloads(p)
  BY <1>5, <1>10, GoesKeepsWire DEF Wedges, HotReloads
<1> QED BY <1>6, <1>7, <1>8, <1>9, <1>10 DEF Document

LEMMA WireNext == RegistryInv /\ WireInv /\ [Next]_vars => WireInv'
<1> SUFFICES ASSUME RegistryInv, WireInv, [Next]_vars PROVE WireInv'
  OBVIOUS
<1>1. version \in Nat \ {0} /\ files \in SUBSET Paths /\ minted \in Nat
  BY Counts DEF RegistryInv, HostTypes
<1>2. CASE UNCHANGED <<hostVars, wireVars, pageVars>>
  BY <1>1, <1>2, WireKept DEF hostVars, wireVars
<1>3. CASE StartFirst \/ FirstEnds \/ StartCycle \/ FirstTimesOut \/ FileEnds
  <2>1. UNCHANGED <<files, version, acked, down, up, pageVars>>
    BY <1>3 DEF StartFirst, FirstEnds, StartCycle, FirstTimesOut, FileEnds,
                hostVars, wireVars
  <2> QED BY <1>1, <2>1, WireKept
<1>4. CASE NextFile
  <2>1. CASE UNCHANGED <<hostVars, wireVars, pageVars>>
    BY <1>2, <2>1
  <2>2. CASE Head(scope) \in files /\ reloadTestFile(Head(scope))
    BY <1>1, <1>4, <2>2, ReloadKeepsWire DEF NextFile
  <2> QED BY <1>4, <2>1, <2>2 DEF NextFile
<1>5. CASE CoverageStarted
  <2>1. task.path \in Paths /\ minted < MaxRuns
    BY <1>5 DEF CoverageStarted, RegistryInv, MintedInv
  <2> QED BY <1>1, <1>5, <2>1, ReloadKeepsWire DEF CoverageStarted
<1>6. CASE Connect \/ Replaces
  BY <1>1, <1>6, AttachKeepsWire DEF Connect, Replaces
<1>7. CASE ContainerReceives \/ Render \/ Effects
  BY <1>1, <1>7, ReceivesKeepsWire, RenderKeepsWire, EffectsKeepsWire
<1>8. CASE HostReceives
  BY <1>1, <1>8, HostKeepsWire
<1>9. ASSUME NEW r \in RunIds, BootDeadline(r) \/ RecoverTimesOut(r)
      PROVE  WireInv'
  BY <1>2, <1>9 DEF BootDeadline, RecoverTimesOut
<1>10. ASSUME NEW r \in RunIds, CleanupDeadline(r)
       PROVE  WireInv'
  BY <1>1, <1>10, WiresCut DEF CleanupDeadline
<1>11. ASSUME NEW r \in RunIds, Registry(r)
       PROVE  WireInv'
  BY <1>2, <1>11 DEF Registry, RecoverLoaded, HandlerEnds
<1>12. CASE Notified \/ FramesReady
  <2>1. UNCHANGED <<files, version, acked, down, up, pageVars>>
    BY <1>12 DEF Notified, FramesReady, wireVars
  <2> QED BY <1>1, <2>1, WireKept
<1>13. CASE Rebuilds
  BY <1>1, <1>13, RebuildsKeepWire
<1>14. ASSUME NEW new \in SUBSET Paths, NEW some \in SUBSET new,
              Commit(new, some)
       PROVE  WireInv'
  BY <1>1, <1>14, CommitKeepsWire
<1>15. ASSUME NEW p \in Paths,
              Document(p) \/ Fails(p) \/ Wedges(p) \/ HotReloads(p)
       PROVE  WireInv'
  BY <1>15, DocumentKeepsWire
<1>16. CASE Drops \/ PageReloads
  BY <1>1, <1>16, WiresCut DEF Drops, PageReloads, Disconnect
<1>17. CASE UNCHANGED vars
  BY <1>2, <1>17 DEF vars
<1> QED BY <1>3, <1>4, <1>5, <1>6, <1>7, <1>8, <1>9, <1>10, <1>11, <1>12,
           <1>13, <1>14, <1>15, <1>16, <1>17
        DEF Next, Cycles, Wire, Container, Deadlines, Rerun

-----------------------------------------------------------------------------
(* The lease of an open run.                                                 *)
LEMMA LeasedInit == Init => LeasedInv
<1> SUFFICES ASSUME Init PROVE LeasedInv
  OBVIOUS
<1>1. \A r \in RunIds : runs[r].phase = "none"
  BY DEF Init, NoRun
<1> QED BY <1>1 DEF LeasedInv

LEMMA NoneIsLeased ==
  ASSUME \A r \in RunIds : runs'[r].phase # "open"
  PROVE  LeasedInv'
BY DEF LeasedInv

(* What is to be shown of a run that was open and stays so.                  *)
LEMMA StillOpen ==
  ASSUME LeasedInv, Shrinks, AttachedInv', NEW r \in RunIds,
         runs'[r].phase = "open"
  PROVE  /\ runs'[r].path = runs[r].path /\ runs'[r].when = runs[r].when
         /\ \A i \in Reloads(down) : (\A j \in Reloads(down) : j <= i)
              => down[i].run = r /\ down[i].path = runs[r].path
         /\ runs[r].when = "in time" =>
              /\ \A i \in FileMessages(down) : runs[r].path \in down[i].files
              /\ set.version = 0 \/ runs[r].path \in set.files
              /\ shown.version = 0 \/ runs[r].path \in shown.files
              /\ runs[r].path \in files' /\ runs[r].path \in Paths
              /\ Reloads(down) = {} => lease[runs[r].path] = r
<1>1. /\ runs[r].phase = "open" /\ runs'[r].path = runs[r].path
      /\ runs'[r].when = runs[r].when
  BY DEF Shrinks
<1>2. /\ runs[r].path \in Paths
      /\ runs[r].path \in files' \/ runs[r].when = "late"
  BY <1>1 DEF AttachedInv
<1>3. /\ LastReloadIs(r, runs[r].path)
      /\ runs[r].when = "in time" => InEverySet(runs[r].path)
      /\ runs[r].when = "in time" /\ Reloads(down) = {}
           => lease[runs[r].path] = r
  BY <1>1 DEF LeasedInv
<1> QED BY <1>1, <1>2, <1>3 DEF LastReloadIs, InEverySet

LEMMA LeasedSame ==
  ASSUME LeasedInv, Shrinks, AttachedInv', down' = down, set' = set,
         shown' = shown, lease' = lease
  PROVE  LeasedInv'
<1> SUFFICES ASSUME NEW r \in RunIds, runs'[r].phase = "open"
             PROVE  /\ LastReloadIs(r, runs[r].path)'
                    /\ (runs[r].when = "in time" => InEverySet(runs[r].path))'
                    /\ (runs[r].when = "in time" /\ Reloads(down) = {}
                          => lease[runs[r].path] = r)'
  BY DEF LeasedInv
<1> QED BY StillOpen DEF LastReloadIs, InEverySet

(* A message other than a reload is sent.                                    *)
LEMMA LeasedSends ==
  ASSUME LeasedInv, Shrinks, AttachedInv', down \in Seq(DownMessages),
         set' = set, shown' = shown, lease' = lease,
         NEW m \in DownMessages, down' = Append(down, m), m.type # "reload",
         m.type = "files" => m.files = files'
  PROVE  LeasedInv'
<1> DEFINE n == Len(down) + 1
<1>1. /\ n \in Nat /\ DOMAIN down \subseteq Nat
      /\ DOMAIN down' = DOMAIN down \cup {n} /\ down'[n] = m
      /\ \A i \in DOMAIN down : down'[i] = down[i] /\ i < n
  BY Appended
<1> HIDE DEF n
<1>2. Reloads(down') = Reloads(down)
      /\ \A i \in Reloads(down') : down'[i] = down[i]
  BY <1>1 DEF Reloads
<1>3. \A i \in FileMessages(down') :
        \/ i \in FileMessages(down) /\ down'[i] = down[i]
        \/ down'[i].files = files'
  BY <1>1 DEF FileMessages
<1> SUFFICES ASSUME NEW r \in RunIds, runs'[r].phase = "open"
             PROVE  /\ LastReloadIs(r, runs[r].path)'
                    /\ (runs[r].when = "in time" => InEverySet(runs[r].path))'
                    /\ (runs[r].when = "in time" /\ Reloads(down) = {}
                          => lease[runs[r].path] = r)'
  BY DEF LeasedInv
<1>4. LastReloadIs(r, runs[r].path)'
  <2>1. ASSUME NEW i \in Reloads(down'), \A j \in Reloads(down') : j <= i
        PROVE  down'[i].run = r /\ down'[i].path = runs'[r].path
    <3>1. i \in Reloads(down) /\ \A j \in Reloads(down) : j <= i
      BY <1>2, <2>1
    <3>2. down[i].run = r /\ down[i].path = runs[r].path
      BY <3>1, StillOpen
    <3> QED BY <1>2, <3>1, <3>2, StillOpen
  <2> QED BY <2>1 DEF LastReloadIs
<1>5. (runs[r].when = "in time" => InEverySet(runs[r].path))'
  BY <1>3, StillOpen DEF InEverySet
<1>6. (runs[r].when = "in time" /\ Reloads(down) = {}
         => lease[runs[r].path] = r)'
  BY <1>2, StillOpen
<1> QED BY <1>4, <1>5, <1>6

(* The container takes a message.                                            *)
LEMMA LeasedReceives ==
  ASSUME LeasedInv, Shrinks, AttachedInv', PageTypes, ContainerReceives
  PROVE  LeasedInv'
<1> DEFINE m == Head(down)
<1>1. /\ down # <<>> /\ down' = Tail(down) /\ UNCHANGED shown
      /\ \/ /\ m.type = "files"
            /\ set' = [files |-> m.files, version |-> m.version]
            /\ UNCHANGED lease
         \/ /\ m.type # "reload"
            /\ UNCHANGED <<set, lease>>
         \/ /\ m.type = "reload"
            /\ lease' = [lease EXCEPT ![m.path] = m.run]
            /\ UNCHANGED set
  BY DEF ContainerReceives
<1>2. down \in Seq(DownMessages) /\ lease \in [Paths -> 0 .. MaxRuns]
  BY DEF PageTypes
<1>3. /\ 1 \in DOMAIN down /\ m = down[1] /\ m \in DownMessages
      /\ \A i \in DOMAIN down' : i + 1 \in DOMAIN down /\ down'[i] = down[i + 1]
      /\ \A i \in DOMAIN down : i # 1 => /\ i - 1 \in DOMAIN down'
                                         /\ down'[i - 1] = down[i]
      /\ DOMAIN down' \subseteq Nat \ {0} /\ DOMAIN down \subseteq Nat \ {0}
  BY <1>1, <1>2, Taken
<1> HIDE DEF m
<1>4. \A i \in FileMessages(down') :
        i + 1 \in FileMessages(down) /\ down'[i] = down[i + 1]
  BY <1>3 DEF FileMessages
<1>5. \A i \in Reloads(down') :
        i + 1 \in Reloads(down) /\ down'[i] = down[i + 1] /\ i \in Nat
  BY <1>3 DEF Reloads
<1>6. \A i \in Reloads(down) : i # 1 => i - 1 \in Reloads(down')
  BY <1>3 DEF Reloads
<1> SUFFICES ASSUME NEW r \in RunIds, runs'[r].phase = "open"
             PROVE  /\ LastReloadIs(r, runs[r].path)'
                    /\ (runs[r].when = "in time" => InEverySet(runs[r].path))'
                    /\ (runs[r].when = "in time" /\ Reloads(down) = {}
                          => lease[runs[r].path] = r)'
  BY DEF LeasedInv
<1>7. LastReloadIs(r, runs[r].path)'
  <2>1. ASSUME NEW i \in Reloads(down'), \A j \in Reloads(down') : j <= i
        PROVE  down'[i].run = r /\ down'[i].path = runs'[r].path
    <3>1. i + 1 \in Reloads(down) /\ down'[i] = down[i + 1] /\ i \in Nat
      BY <1>5
    <3>2. ASSUME NEW j \in Reloads(down) PROVE j <= i + 1
      <4>1. j \in Nat \ {0}
        BY <1>3 DEF Reloads
      <4>2. CASE j = 1
        BY <3>1, <4>2
      <4>3. CASE j # 1
        <5>1. j - 1 <= i
          BY <1>6, <2>1, <4>3
        <5> QED BY <3>1, <4>1, <5>1
      <4> QED BY <4>2, <4>3
    <3>3. down[i + 1].run = r /\ down[i + 1].path = runs[r].path
      BY <3>1, <3>2, StillOpen
    <3> QED BY <3>1, <3>3, StillOpen
  <2> QED BY <2>1 DEF LastReloadIs
<1>8. (runs[r].when = "in time" => InEverySet(runs[r].path))'
  <2> SUFFICES ASSUME runs'[r].when = "in time"
               PROVE  /\ \A i \in FileMessages(down') :
                           runs'[r].path \in down'[i].files
                      /\ set'.version = 0 \/ runs'[r].path \in set'.files
                      /\ shown'.version = 0 \/ runs'[r].path \in shown'.files
    BY DEF InEverySet
  <2>1. /\ \A i \in FileMessages(down) : runs'[r].path \in down[i].files
        /\ set.version = 0 \/ runs'[r].path \in set.files
        /\ shown.version = 0 \/ runs'[r].path \in shown.files
    BY StillOpen
  <2>2. CASE m.type = "files"
             /\ set' = [files |-> m.files, version |-> m.version]
    <3>1. 1 \in FileMessages(down)
      BY <1>3, <2>2 DEF FileMessages
    <3> QED BY <1>1, <1>3, <1>4, <2>1, <2>2, <3>1
  <2>3. CASE UNCHANGED set
    BY <1>1, <1>4, <2>1, <2>3
  <2> QED BY <1>1, <2>2, <2>3
<1>9. ASSUME runs'[r].when = "in time", Reloads(down') = {}
      PROVE  lease'[runs'[r].path] = r
  <2>1. \A i \in Reloads(down) : i = 1
    BY <1>6, <1>9
  <2>2. CASE m.type # "reload" /\ UNCHANGED lease
    <3>1. Reloads(down) = {}
      BY <1>3, <2>1, <2>2 DEF Reloads
    <3> QED BY <1>9, <2>2, <3>1, StillOpen
  <2>3. CASE m.type = "reload" /\ lease' = [lease EXCEPT ![m.path] = m.run]
    <3>1. 1 \in Reloads(down)
      BY <1>3, <2>3 DEF Reloads
    <3>2. \A j \in Reloads(down) : j <= 1
      BY <2>1
    <3>3. m.run = r /\ m.path = runs[r].path
      BY <1>3, <3>1, <3>2, StillOpen
    <3>4. runs[r].path \in Paths /\ runs'[r].path = runs[r].path
      BY <1>9, StillOpen
    <3> QED BY <1>2, <2>3, <3>3, <3>4
  <2> QED BY <1>1, <2>2, <2>3
<1> QED BY <1>7, <1>8, <1>9

(* The page shows what it has, and drops the leases of what is gone.         *)
LEMMA LeasedRenders ==
  ASSUME LeasedInv, Shrinks, AttachedInv', Render
  PROVE  LeasedInv'
<1>1. UNCHANGED <<down, set, lease>> /\ shown' = set
  BY DEF Render, wireVars
<1> SUFFICES ASSUME NEW r \in RunIds, runs'[r].phase = "open"
             PROVE  /\ LastReloadIs(r, runs[r].path)'
                    /\ (runs[r].when = "in time" => InEverySet(runs[r].path))'
                    /\ (runs[r].when = "in time" /\ Reloads(down) = {}
                          => lease[runs[r].path] = r)'
  BY DEF LeasedInv
<1> QED BY <1>1, StillOpen DEF LastReloadIs, InEverySet

LEMMA LeasedEffects ==
  ASSUME LeasedInv, Shrinks, AttachedInv', WireInv, Effects
  PROVE  LeasedInv'
<1>1. /\ UNCHANGED <<down, set, shown>> /\ effects
      /\ lease' = [p \in Paths |-> IF p \in shown.files THEN lease[p] ELSE 0]
  BY DEF Effects
<1>2. shown.version # 0
  <2>1. shown.version \in Nat /\ shown.version > 0
    BY <1>1 DEF WireInv, PageTypes, FileSets, SetsInv
  <2> QED BY <2>1
<1> SUFFICES ASSUME NEW r \in RunIds, runs'[r].phase = "open"
             PROVE  /\ LastReloadIs(r, runs[r].path)'
                    /\ (runs[r].when = "in time" => InEverySet(runs[r].path))'
                    /\ (runs[r].when = "in time" /\ Reloads(down) = {}
                          => lease[runs[r].path] = r)'
  BY DEF LeasedInv
<1> QED BY <1>1, <1>2, StillOpen DEF LastReloadIs, InEverySet

(* A run that is minted in time is one of a file that every set has that is  *)
(* on its way or in the page.                                                *)
LEMMA MintedInTime ==
  ASSUME WireInv, version \in Nat, NEW p \in files, Minting = "in time"
  PROVE  InEverySet(p)
<1>1. /\ PageTypes /\ acked \in Nat /\ acked <= version
      /\ set.version \in Nat /\ shown.version \in Nat
      /\ \A i \in FileMessages(down) : down[i].version \in Nat
  BY Versions DEF WireInv, PageTypes, SetsInv
<1>2. acked = version
  <2>1. ~(acked < version)
    BY DEF Minting
  <2>2. acked \in Nat /\ acked <= version
    BY <1>1
  <2> QED BY ONLY <2>1, <2>2, version \in Nat
<1>3. ASSUME NEW i \in FileMessages(down) PROVE p \in down[i].files
  <2>1. /\ acked <= down[i].version /\ down[i].version <= version
        /\ down[i].version = version => down[i].files = files
    BY DEF WireInv, DownInv, Current
  <2>2. down[i].version \in Nat
    BY <1>1
  <2>3. version <= down[i].version
    BY <1>2, <2>1
  <2>4. down[i].version = version
    BY ONLY <2>1, <2>2, <2>3, version \in Nat
  <2> QED BY <2>1, <2>4
<1>4. set.version <= version /\ shown.version <= set.version
  BY DEF WireInv, SetsInv
<1>5. ASSUME set.version # 0 PROVE p \in set.files
  <2>1. acked <= set.version
    BY <1>5 DEF WireInv, SetsInv
  <2>2. version <= set.version
    BY <1>2, <2>1
  <2>3. set.version \in Nat /\ shown.version \in Nat
    BY <1>1
  <2>4. set.version = version
    BY ONLY <1>4, <2>2, <2>3, version \in Nat
  <2> QED BY <2>4 DEF WireInv, SetsInv
<1>6. ASSUME shown.version # 0 PROVE p \in shown.files
  <2>1. acked <= shown.version
    BY <1>6 DEF WireInv, SetsInv
  <2>2. version <= shown.version
    BY <1>2, <2>1
  <2>3. set.version \in Nat /\ shown.version \in Nat
    BY <1>1
  <2>4. shown.version = version
    BY ONLY <1>4, <2>2, <2>3, version \in Nat
  <2> QED BY <2>4 DEF WireInv, SetsInv
<1> QED BY <1>3, <1>5, <1>6 DEF InEverySet

LEMMA LeasedReloads ==
  ASSUME RegistryInv, WireInv, NEW p \in Paths, reloadTestFile(p),
         minted < MaxRuns, task.at # "waiting",
         task.at = "starting" \/ p \in files
  PROVE  LeasedInv'
<1>1. mint(p) /\ minted + 1 \in RunIds
  BY MintedMoves DEF reloadTestFile
<1>2. PICK r \in RunIds : r = minted + 1
  BY <1>1
<1> DEFINE m == [type |-> "reload", path |-> p, run |-> r]
           n == Len(down) + 1
<1>3. /\ mint(p) /\ UNCHANGED <<set, shown, lease>>
      /\ down' = IF connected THEN Append(down, m) ELSE down
  BY <1>2 DEF reloadTestFile, pageVars
<1>4. /\ r \in RunIds
      /\ \A q \in RunIds : q # r => runs'[q] = runs[q]
      /\ \A q \in RunIds : runs[q].phase \notin {"open", "claimed"}
      /\ ~connected => runs'[r].phase = "gone"
  BY <1>3, <1>2, MintedMoves
<1>5. connected => runs'[r] =
              [NoRun EXCEPT !.path = p, !.epoch = epoch, !.phase = "open",
                            !.boot = TRUE, !.when = Minting]
  BY <1>3, <1>2, MintedMoves
<1>6. connected => runs'[r].path = p /\ runs'[r].when = Minting
  BY <1>5 DEF NoRun
<1>7. m \in DownMessages /\ m.type = "reload" /\ m.run = r /\ m.path = p
  BY <1>4 DEF DownMessages
<1> HIDE DEF m
<1>8. down \in Seq(DownMessages) /\ version \in Nat
  BY DEF WireInv, PageTypes, RegistryInv, HostTypes
<1>9. CASE ~connected
  <2>1. \A q \in RunIds : runs'[q].phase # "open"
    BY <1>4, <1>9
  <2> QED BY <2>1, NoneIsLeased
<1>10. CASE connected
  <2>1. /\ n \in Nat /\ DOMAIN down \subseteq Nat
        /\ DOMAIN down' = DOMAIN down \cup {n} /\ down'[n] = m
        /\ \A i \in DOMAIN down : down'[i] = down[i] /\ i < n
    BY <1>3, <1>7, <1>8, <1>10, Appended
  <2> HIDE DEF n
  <2>2. n \in Reloads(down') /\ \A i \in Reloads(down') : i \in Nat /\ i <= n
    BY <1>7, <2>1 DEF Reloads
  <2>3. ASSUME NEW i \in Reloads(down'), \A j \in Reloads(down') : j <= i
        PROVE  down'[i].run = r /\ down'[i].path = p
    <3>1. n <= i /\ i <= n /\ i \in Nat
      BY <2>2, <2>3
    <3>2. i = n
      BY <2>1, <3>1
    <3> QED BY <1>7, <2>1, <3>2
  <2>4. LastReloadIs(r, runs[r].path)'
    BY <1>6, <1>10, <2>3 DEF LastReloadIs
  <2>5. \A i \in FileMessages(down') :
          i \in FileMessages(down) /\ down'[i] = down[i]
    BY <1>7, <2>1 DEF FileMessages
  <2>6. ASSUME runs'[r].when = "in time" PROVE InEverySet(runs[r].path)'
    <3>1. Minting = "in time" /\ runs'[r].path = p
      BY <1>6, <1>10, <2>6
    <3>2. p \in files
      BY <3>1 DEF Minting
    <3>3. InEverySet(p)
      BY <1>8, <3>1, <3>2, MintedInTime
    <3> QED BY <1>3, <2>5, <3>1, <3>3 DEF InEverySet
  <2>7. \A q \in RunIds : runs'[q].phase = "open" => q = r
    BY <1>4
  <2> QED BY <2>2, <2>4, <2>6, <2>7 DEF LeasedInv
<1> QED BY <1>9, <1>10

LEMMA LeasedNext ==
  RegistryInv /\ WireInv /\ LeasedInv /\ [Next]_vars => LeasedInv'
<1> SUFFICES ASSUME RegistryInv, WireInv, LeasedInv, [Next]_vars
             PROVE  LeasedInv'
  OBVIOUS
<1>1. RegistryInv' /\ AttachedInv'
  <2>1. RegistryInv'
    BY RegistryNext
  <2> QED BY <2>1 DEF RegistryInv
<1>2. PageTypes /\ down \in Seq(DownMessages) /\ files \in SUBSET Paths
      /\ version \in Nat
  BY DEF WireInv, PageTypes, RegistryInv, HostTypes
<1>3. CASE UNCHANGED <<runs, down, set, shown, lease>>
  <2>1. Shrinks
    BY <1>3 DEF Shrinks
  <2> QED BY <1>1, <1>3, <2>1, LeasedSame
<1>4. CASE StartFirst \/ FirstEnds \/ StartCycle \/ FirstTimesOut \/ FileEnds
  BY <1>3, <1>4
     DEF StartFirst, FirstEnds, StartCycle, FirstTimesOut, FileEnds, runVars,
         wireVars, pageVars
<1>5. CASE NextFile
  <2>1. CASE UNCHANGED <<runVars, wireVars, pageVars>>
    BY <1>3, <2>1 DEF runVars, wireVars, pageVars
  <2>2. CASE Head(scope) \in files /\ reloadTestFile(Head(scope))
    BY <1>2, <1>5, <2>2, LeasedReloads DEF NextFile
  <2> QED BY <1>5, <2>1, <2>2 DEF NextFile
<1>6. CASE CoverageStarted
  <2>1. task.path \in Paths /\ minted < MaxRuns
    BY <1>6 DEF CoverageStarted, RegistryInv, MintedInv
  <2> QED BY <1>6, <2>1, LeasedReloads DEF CoverageStarted
<1>7. CASE Connect \/ Replaces
  <2>1. Shrinks /\ epoch' = epoch + 1
    BY <1>7, AttachPreserves DEF Connect, Replaces, Attach
  <2>2. ASSUME NEW r \in RunIds, runs'[r].phase = "open" PROVE FALSE
    <3>1. runs'[r].epoch = epoch /\ runs'[r].epoch = epoch'
      BY <1>1, <2>1, <2>2 DEF Shrinks, RegistryInv, AttachedInv
    <3>2. epoch \in Nat
      BY Counts DEF RegistryInv, HostTypes
    <3> QED BY <2>1, <3>1, <3>2
  <2> QED BY <2>2, NoneIsLeased
<1>8. CASE connected' = FALSE
  BY <1>1, <1>8, NoneIsLeased DEF AttachedInv
<1>9. CASE ContainerReceives \/ Render \/ Effects
  <2>1. Shrinks
    BY <1>9 DEF ContainerReceives, Render, Effects, runVars, Shrinks
  <2> QED BY <1>1, <1>2, <1>9, <2>1, LeasedReceives, LeasedRenders,
             LeasedEffects
<1>10. CASE HostReceives
  <2>1. Shrinks /\ UNCHANGED <<files, set, shown, lease>>
    BY <1>10, HostReceivesPreserves DEF HostReceives, pageVars
  <2>2. CASE UNCHANGED down
    BY <1>1, <2>1, <2>2, LeasedSame
  <2> DEFINE m == [type |-> "files", files |-> files, version |-> version]
  <2>3. CASE down' = Append(down, m)
    <3>1. m \in DownMessages /\ m.type # "reload" /\ m.files = files
      BY <1>2 DEF DownMessages
    <3> HIDE DEF m
    <3> QED BY <1>1, <1>2, <2>1, <2>3, <3>1, LeasedSends
  <2> QED BY <1>10, <2>2, <2>3 DEF HostReceives
<1>11. ASSUME NEW r \in RunIds, BootDeadline(r) \/ RecoverTimesOut(r)
       PROVE  LeasedInv'
  <2>1. Shrinks
    BY <1>11, BootDeadlinePreserves, HandledPreserves
  <2> QED BY <1>1, <1>11, <2>1, LeasedSame
          DEF BootDeadline, RecoverTimesOut, wireVars, pageVars
<1>12. ASSUME NEW r \in RunIds, Registry(r)
       PROVE  LeasedInv'
  <2>1. Shrinks
    BY <1>12, RecoverLoadedPreserves, HandledPreserves DEF Registry
  <2> QED BY <1>1, <1>12, <2>1, LeasedSame
          DEF Registry, RecoverLoaded, HandlerEnds, wireVars, pageVars
<1>13. CASE Notified \/ FramesReady
  BY <1>3, <1>13 DEF Notified, FramesReady, runVars, wireVars, pageVars
<1>14. CASE Rebuilds
  <2>1. Shrinks /\ UNCHANGED <<set, shown, lease>>
    BY <1>14 DEF Rebuilds, runVars, Shrinks, pageVars
  <2>2. CASE UNCHANGED down
    BY <1>1, <2>1, <2>2, LeasedSame
  <2> DEFINE m == [type |-> "config"]
  <2>3. CASE down' = Append(down, m)
    <3>1. m \in DownMessages /\ m.type \notin {"reload", "files"}
      BY DEF DownMessages
    <3> HIDE DEF m
    <3> QED BY <1>1, <1>2, <2>1, <2>3, <3>1, LeasedSends
  <2> QED BY <1>14, <2>2, <2>3 DEF Rebuilds
<1>15. ASSUME NEW new \in SUBSET Paths, NEW some \in SUBSET new,
              Commit(new, some)
       PROVE  LeasedInv'
  <2> DEFINE m == [type |-> "files", files |-> new, version |-> version + 1]
  <2>1. Shrinks /\ UNCHANGED <<set, shown, lease>>
        /\ (UNCHANGED down \/ (files' = new /\ down' = Append(down, m)))
    BY <1>15, CommitPreserves DEF Commit, pageVars
  <2>2. CASE UNCHANGED down
    BY <1>1, <2>1, <2>2, LeasedSame
  <2>3. CASE files' = new /\ down' = Append(down, m)
    <3>1. m \in DownMessages /\ m.type # "reload" /\ m.files = new
      BY <1>2 DEF DownMessages
    <3> HIDE DEF m
    <3> QED BY <1>1, <1>2, <2>1, <2>3, <3>1, LeasedSends
  <2> QED BY <2>1, <2>2, <2>3
<1>16. ASSUME NEW p \in Paths,
              Document(p) \/ Fails(p) \/ Wedges(p) \/ HotReloads(p)
       PROVE  LeasedInv'
  <2>1. UNCHANGED <<runVars, down, set, shown, lease>>
    BY <1>16 DEF Document, Load, TestsEnd, CleanupEnds, Fails, Wedges,
                 HotReloads, Goes
  <2> QED BY <1>3, <2>1 DEF runVars
<1>17. ASSUME NEW r \in RunIds, CleanupDeadline(r) PROVE LeasedInv'
  BY <1>8, <1>17 DEF CleanupDeadline
<1>18. CASE Drops \/ PageReloads
  BY <1>8, <1>18 DEF Drops, PageReloads, Disconnect
<1>19. CASE UNCHANGED vars
  BY <1>3, <1>19 DEF vars, runVars, wireVars, pageVars
<1> QED BY <1>4, <1>5, <1>6, <1>7, <1>9, <1>10, <1>11, <1>12, <1>13, <1>14,
           <1>15, <1>16, <1>17, <1>18, <1>19
        DEF Next, Cycles, Wire, Container, Deadlines, Rerun

(* What is on the wires and in the page goes with the registry, in every     *)
(* reachable state: file sets arrive in the order of their commits, no       *)
(* acknowledgement is ahead of what the page has, and the frame of an open   *)
(* run's file has its lease or is about to get it (headedScheduler.ts,       *)
(* browser-ui/src/main.tsx).                                                 *)
THEOREM WireInvariance == Spec => [](RegistryInv /\ WireInv /\ LeasedInv)
<1>1. Init => RegistryInv /\ WireInv /\ LeasedInv
  BY RegistryInit, WireInit, LeasedInit
<1>2. RegistryInv /\ WireInv /\ LeasedInv /\ [Next]_vars
        => (RegistryInv /\ WireInv /\ LeasedInv)'
  BY RegistryNext, WireNext, LeasedNext
<1> QED BY <1>1, <1>2, PTL DEF Spec

(* A run the cycle waits for can complete: it is one of a file of the        *)
(* committed set, and its frame has its lease, whatever sets, reloads,       *)
(* effects and transports came in between.                                   *)
THEOREM CanComplete == Spec => []OpenRunsCanComplete
<1>1. RegistryInv => OpenRunsAreCommitted
  BY DEF RegistryInv, AttachedInv, OpenRunsAreCommitted
<1>2. LeasedInv => OpenRunsAreLeased
  BY DEF LeasedInv, OpenRunsAreLeased, Reloads
<1>3. RegistryInv /\ LeasedInv => OpenRunsCanComplete
  BY <1>1, <1>2 DEF OpenRunsCanComplete
<1> QED BY <1>3, WireInvariance, PTL
=============================================================================
