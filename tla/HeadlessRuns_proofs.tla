------------------------ MODULE HeadlessRuns_proofs -------------------------
(* Theorems about HeadlessRuns, for any files, workers, sessions and faults. *)
EXTENDS HeadlessRuns, CollectionLemmas, WellFoundedInduction

(* The inductive invariant, in parts.  First the types, of whole functions.  *)
AtValues ==
  {"none", "free", "draining", "context", "opening", "racing", "failing",
   "cancelling", "closing", "over", "rejected"}
PageValues ==
  {"none", "load", "test", "cleanup", "worker", "over", "dead", "closed"}
BusyValues == BusyMarks \cup FileSet

CoreTypes ==
  /\ options \in Options /\ faults \in Nat
  /\ cycle \in 0 .. MaxRuns /\ wanted \in BOOLEAN
  /\ phase \in {"idle", "starting", "cancelling", "running"}
  /\ active \in 0 .. MaxRuns /\ fatalError \in BOOLEAN /\ token \in Nat

RunTypes ==
  /\ recorded \subseteq Records
  /\ reports \in [Runs -> [FileSet -> Nat]] /\ running \in [FileSet -> Nat]
  /\ tokenOf \in [Runs -> Nat]
  /\ cancelled \in [Runs -> {"no", "superseded", "failed"}]
  /\ queue \in [Runs -> Seq(FileSet)]

SlotTypes ==
  /\ at \in [Slots -> AtValues] /\ batch \in [Slots -> Seq(FileSet)]
  /\ settled \in [Slots -> BOOLEAN]
  /\ ended \in [Slots -> {"no", "done", "crash"}]
  /\ completed \in [Slots -> SUBSET FileSet]
  /\ timer \in [Slots -> {"off", "file", "worker"}]
  /\ overdue \in [Slots -> {"no", "file", "worker"}]

PageTypes ==
  /\ page \in [Slots -> PageValues] /\ position \in [Slots -> Nat]
  /\ closing \in [Slots -> BOOLEAN] /\ cases \in [Slots -> Nat]
  /\ mail \in [Slots -> Seq(Messages)] /\ busy \in [Slots -> BusyValues]

TypeInv == CoreTypes /\ RunTypes /\ SlotTypes /\ PageTypes

(* Runs, their tokens and how core comes to know that they are over.         *)
Begun(r) == r < cycle \/ (r = cycle /\ phase \in {"running", "idle"})
Rejects(r) == \E s \in SlotsOf(r) : at[s] = "rejected"

TokensInv ==
  /\ \A r \in Runs : tokenOf[r] <= token
  /\ \A r, q \in Runs : Begun(r) /\ Begun(q) /\ r < q =>
       tokenOf[r] < tokenOf[q]
  /\ Begun(cycle) /\ cycle > 0 /\ ~IsCancelled(cycle) =>
       tokenOf[cycle] = token
  /\ \A r \in Runs : cancelled[r] = "superseded" =>
       isTokenStale(r) \/ Rejects(r)

CoreInv ==
  /\ phase # "idle" => cycle > 0
  /\ phase = "running" => active = cycle
  /\ phase = "idle" => active \in {0, cycle}
  /\ phase \in {"starting", "cancelling"} => active \in {0, cycle - 1}
  /\ phase = "cancelling" => active # 0
  /\ phase # "running" /\ active # 0 => Rejects(active)
  /\ phase = "idle" /\ cycle > 0 /\ active = 0 =>
       \A s \in SlotsOf(cycle) : at[s] \in {"none", "over"}

RunInv(r) ==
  /\ ~Begun(r) => /\ queue[r] = <<>> /\ cancelled[r] = "no"
                  /\ \A f \in FileSet : reports[r][f] = 0
  /\ Begun(r) /\ ~(r = cycle /\ phase = "running") => DoneSettled(r)

RunsInv == \A r \in Runs : RunInv(r)

(* A slot, from one file or batch to the next.                               *)
Fresh(s) ==
  /\ ~settled[s] /\ ended[s] = "no" /\ completed[s] = {}
  /\ timer[s] = "off" /\ overdue[s] = "no"
  /\ page[s] = "none" /\ position[s] = 0 /\ ~closing[s]
  /\ mail[s] = <<>> /\ busy[s] \in {"no", "collect"}

SlotInv(s) ==
  /\ at[s] # "none" <=> Begun(RunOf(s)) /\ s[2] <= options.workers
  /\ at[s] = "none" => busy[s] = "no"
  /\ at[s] \in {"none", "draining"} => Fresh(s) /\ batch[s] = <<>>
  /\ at[s] \in {"context", "rejected"} => Fresh(s) /\ batch[s] # <<>>
  /\ at[s] \in {"free", "over"} =>
       Abandoned(RunOf(s)) \/ (Fresh(s) /\ batch[s] = <<>>)
  /\ at[s] = "over" => Abandoned(RunOf(s)) \/ queue[RunOf(s)] = <<>>
  /\ HasContext(s) => page[s] # "none"
  /\ at[s] = "closing" => ended[s] = "done"
  /\ at[s] = "cancelling" => IsCancelled(RunOf(s))
  /\ timer[s] # "off" => HasContext(s)
  /\ overdue[s] # "no" => settled[s] /\ ended[s] = "no" /\ busy[s] = "no"
  /\ ended[s] # "no" => settled[s]
  /\ ended[s] = "done" => busy[s] \in {"no", "collect"}
  /\ page[s] # "none" => position[s] \in 1 .. Len(batch[s])
  /\ page[s] = "worker" => timer[s] # "file" /\ position[s] = Len(batch[s])
  /\ busy[s] \in FileSet => busy[s] \in ToSet(batch[s])
  /\ completed[s] \subseteq ToSet(batch[s])
  /\ options.isolate \/ options.bail > 0 => Len(batch[s]) <= 1

SlotsInv == \A s \in Slots : SlotInv(s)

(* Each file is in one place: in the queue of the run, or in one batch.      *)
QueueInv ==
  /\ \A r \in Runs :
       /\ IsInjective(queue[r])
       /\ \A i \in DOMAIN queue[r] : reports[r][queue[r][i]] = 0
  /\ \A s \in Slots :
       /\ IsInjective(batch[s])
       /\ \A f \in ToSet(batch[s]) :
            /\ f \notin ToSet(queue[RunOf(s)])
            /\ \A t \in SlotsOf(RunOf(s)) : f \in ToSet(batch[t]) => t = s

(* The files of a batch: what is not sent was not recorded, nor is what was  *)
(* sent and not handled, and what was recorded is marked.                    *)
Live == {"load", "test", "cleanup", "worker"}
Unsent(s, k) ==
  \/ k > position[s]
  \/ k = position[s] /\ (page[s] \in Live \/ timer[s] = "file")
Unrecorded(s, f) == reports[RunOf(s)][f] = 0
InMail(s, f) == \E i \in DOMAIN mail[s] :
                  mail[s][i].type = "file" /\ mail[s][i].file = f

MailInv(s) ==
  ~settled[s] =>
    /\ \A i \in DOMAIN mail[s] : mail[s][i].type = "file" =>
         /\ mail[s][i].file \in ToSet(batch[s])
         /\ Unrecorded(s, mail[s][i].file)
    /\ \A i, j \in DOMAIN mail[s] :
         mail[s][i].type = "file" /\ mail[s][j].type = "file"
           /\ mail[s][i].file = mail[s][j].file => i = j
    /\ \A k \in DOMAIN batch[s] : Unsent(s, k) =>
         Unrecorded(s, batch[s][k]) /\ ~InMail(s, batch[s][k])
    /\ \A f \in ToSet(batch[s]) :
         Unrecorded(s, f) \/ f \in completed[s] \/ busy[s] = f

OverdueInv(s) ==
  overdue[s] = "file" =>
    \A f \in ToSet(batch[s]) : Unrecorded(s, f) \/ f \in completed[s]

FilesInv ==
  /\ QueueInv /\ RecordedOnce
  /\ \A s \in Slots : MailInv(s) /\ OverdueInv(s)

(* A run that nothing has cut short loses no file.                           *)
Clean ==
  /\ cycle > 0 /\ phase \in {"running", "idle"}
  /\ ~IsCancelled(cycle) /\ ~fatalError

CleanSlot(s) ==
  /\ \A f \in completed[s] : ~Unrecorded(s, f)
  /\ busy[s] \in FileSet => ~Unrecorded(s, busy[s])
  /\ ended[s] = "done" => \A f \in ToSet(batch[s]) : ~Unrecorded(s, f)
  /\ ~settled[s] =>
       /\ \A k \in DOMAIN batch[s] : k < position[s] =>
            ~Unrecorded(s, batch[s][k]) \/ InMail(s, batch[s][k])
       /\ \A i \in DOMAIN mail[s] : mail[s][i].type = "complete" =>
            /\ i = Len(mail[s]) /\ page[s] \notin Live
            /\ \A f \in ToSet(batch[s]) : ~Unrecorded(s, f) \/ InMail(s, f)

CleanInv ==
  Clean =>
    /\ \A s \in SlotsOf(cycle) : CleanSlot(s)
    /\ \A f \in FileSet :
         \/ f \in ToSet(queue[cycle]) \/ reports[cycle][f] # 0
         \/ \E s \in SlotsOf(cycle) : f \in ToSet(batch[s])

(* What bail counts, and what the workers have begun.                        *)
Failing == {x \in recorded : x.run = cycle /\ x.counts > 0}
FailedFiles == {x.file : x \in Failing}
UnderWay ==
  {f \in FileSet : reports[cycle][f] = 0
                     /\ \E s \in SlotsOf(cycle) : f \in ToSet(batch[s])}

RecordInv ==
  /\ IsFiniteSet(recorded)
  /\ \A x \in recorded : reports[x.run][x.file] # 0
  /\ \A x, y \in recorded : x.run = y.run /\ x.file = y.file => x = y

BailInv ==
  options.bail > 0 /\ cycle > 0 =>
    Cardinality(FailedFiles \cup UnderWay) <= options.bail - 1 + options.workers

IInv ==
  /\ TypeInv /\ faults <= options.faults
  /\ TokensInv /\ CoreInv /\ RunsInv /\ SlotsInv
  /\ FilesInv /\ CleanInv /\ SupersededIsSilent /\ RecordInv /\ BailInv

-----------------------------------------------------------------------------
(* Facts about sequences.                                                    *)
LEMMA PushFacts ==
  ASSUME NEW S, NEW q \in Seq(S), NEW x \in S
  PROVE  /\ q \o <<x>> \in Seq(S) /\ Len(q \o <<x>>) = Len(q) + 1
         /\ \A i \in 1 .. Len(q) : (q \o <<x>>)[i] = q[i]
         /\ (q \o <<x>>)[Len(q) + 1] = x
OBVIOUS

LEMMA PushTwoFacts ==
  ASSUME NEW S, NEW q \in Seq(S), NEW x \in S, NEW y \in S
  PROVE  /\ q \o <<x, y>> \in Seq(S) /\ Len(q \o <<x, y>>) = Len(q) + 2
         /\ \A i \in 1 .. Len(q) : (q \o <<x, y>>)[i] = q[i]
         /\ (q \o <<x, y>>)[Len(q) + 1] = x
         /\ (q \o <<x, y>>)[Len(q) + 2] = y
OBVIOUS

LEMMA PopFacts ==
  ASSUME NEW S, NEW q \in Seq(S), q # <<>>
  PROVE  /\ Len(q) \in Nat \ {0} /\ Head(q) = q[1] /\ Head(q) \in S
         /\ Tail(q) \in Seq(S) /\ Len(Tail(q)) = Len(q) - 1
         /\ \A i \in 1 .. Len(q) - 1 : Tail(q)[i] = q[i + 1]
OBVIOUS

LEMMA CutFacts ==
  ASSUME NEW S, NEW q \in Seq(S), NEW n \in 0 .. Len(q)
  PROVE  /\ SubSeq(q, 1, n) \in Seq(S) /\ Len(SubSeq(q, 1, n)) = n
         /\ \A i \in 1 .. n : SubSeq(q, 1, n)[i] = q[i]
         /\ SubSeq(q, n + 1, Len(q)) \in Seq(S)
         /\ Len(SubSeq(q, n + 1, Len(q))) = Len(q) - n
         /\ \A i \in 1 .. Len(q) - n : SubSeq(q, n + 1, Len(q))[i] = q[n + i]
<1>1. \A i \in 1 .. Len(q) : q[i] \in S
  OBVIOUS
<1> QED BY <1>1, SubSeqProperties

LEMMA InSet ==
  ASSUME NEW S, NEW q \in Seq(S)
  PROVE  /\ \A x : x \in ToSet(q) <=> \E i \in 1 .. Len(q) : x = q[i]
         /\ ToSet(q) \subseteq S /\ DOMAIN q = 1 .. Len(q) /\ Len(q) \in Nat
         /\ q = <<>> <=> Len(q) = 0
BY DEF ToSet

LEMMA LesserOfTwo ==
  ASSUME NEW a \in Nat, NEW b \in Nat
  PROVE  Min({a, b}) = IF a <= b THEN a ELSE b
BY DEF Min

LEMMA Quotient ==
  ASSUME NEW n \in Nat \ {0}, NEW w \in Nat \ {0}
  PROVE  (n + w - 1) \div w \in Nat \ {0}
OBVIOUS

-----------------------------------------------------------------------------
(* What the assumption says of a configuration, and of messages.             *)
LEMMA OptionsFacts ==
  ASSUME HeadlessAssumption, options \in Options
  PROVE  /\ options.workers \in Nat \ {0} /\ options.bail \in Nat
         /\ options.isolate \in BOOLEAN /\ options.faults \in Nat
         /\ options.runs \in 1 .. MaxRuns /\ MaxRuns \in Nat \ {0}
BY DEF HeadlessAssumption

LEMMA FilesFacts ==
  ASSUME HeadlessAssumption
  PROVE  /\ Files \in Seq(FileSet) /\ IsInjective(Files)
         /\ Len(Files) \in Nat /\ DOMAIN Files = 1 .. Len(Files)
         /\ FileSet = {Files[i] : i \in 1 .. Len(Files)}
         /\ IsFiniteSet(FileSet)
         /\ "no" \notin FileSet /\ "coverage" \notin FileSet
         /\ "collect" \notin FileSet /\ "event" \notin FileSet
<1>1. Files \in Seq(STRING) /\ IsInjective(Files) /\
      ToSet(Files) \cap BusyMarks = {}
  BY DEF HeadlessAssumption
<1>2. /\ Len(Files) \in Nat /\ DOMAIN Files = 1 .. Len(Files)
      /\ FileSet = {Files[i] : i \in 1 .. Len(Files)}
  BY <1>1 DEF FileSet, ToSet
<1>3. Files \in Seq(FileSet)
  BY <1>1, <1>2
<1>4. IsFiniteSet(FileSet)
  <2>1. Files \in Surjection(1 .. Len(Files), FileSet)
    BY <1>2, <1>3 DEF Surjection
  <2>2. IsFiniteSet(1 .. Len(Files))
    BY <1>2, FS_Interval
  <2> QED BY <2>1, <2>2, FS_Surjection
<1> QED BY <1>1, <1>2, <1>3, <1>4 DEF FileSet, BusyMarks

LEMMA MessageFacts ==
  /\ \A m \in Messages :
       /\ m.type \in {"file", "start", "case", "complete", "fatal"}
       /\ m.type = "file" =>
            m.file \in FileSet /\ m.status \in Statuses /\ m.counts \in Nat
       /\ m.type \in {"start", "case"} => m.file \in FileSet
  /\ [type |-> "fatal"] \in Messages /\ [type |-> "complete"] \in Messages
  /\ \A f \in FileSet, type \in {"start", "case"} :
       [type |-> type, file |-> f] \in Messages
  /\ \A f \in FileSet, status \in Statuses, n \in Nat :
       [type |-> "file", file |-> f, status |-> status, counts |-> n]
         \in Messages
BY DEF Messages

LEMMA SlotFacts ==
  ASSUME NEW s \in Slots
  PROVE  /\ RunOf(s) \in Runs /\ s \in SlotsOf(RunOf(s))
         /\ s[2] \in 1 .. Len(Files) /\ s = <<RunOf(s), s[2]>>
         /\ \A r : s \in SlotsOf(r) <=> RunOf(s) = r
BY DEF Slots, SlotsOf, RunOf

(* The file whose turn it is in the page of a slot.                          *)
LEMMA InTurn ==
  ASSUME TypeInv, NEW s \in Slots, SlotInv(s), page[s] # "none"
  PROVE  /\ position[s] \in 1 .. Len(batch[s]) /\ Len(batch[s]) \in Nat
         /\ batch[s][position[s]] \in FileSet
         /\ batch[s][position[s]] \in ToSet(batch[s])
         /\ position[s] \in DOMAIN batch[s]
<1>1. /\ position[s] \in 1 .. Len(batch[s]) /\ batch[s] \in Seq(FileSet)
  BY DEF SlotInv, TypeInv, SlotTypes
<1> QED BY <1>1, InSet

(* The messages of a page: the result of its file, and what it sends before. *)
LEMMA CountsFacts ==
  ASSUME TypeInv, NEW s \in Slots
  PROVE  Counts(s) \subseteq Nat
<1>1. cases[s] \in Nat
  BY DEF TypeInv, PageTypes
<1> QED BY <1>1 DEF Counts

LEMMA ResultFacts ==
  ASSUME HeadlessAssumption, TypeInv, NEW s \in Slots, SlotInv(s),
         page[s] # "none", NEW outcome \in Outcomes(s)
  PROVE  /\ Result(s, outcome) \in Messages
         /\ Result(s, outcome).type = "file"
         /\ Result(s, outcome).file = batch[s][position[s]]
<1>3. outcome[1] \in Statuses /\ outcome[2] \in Nat
  BY CountsFacts DEF Outcomes, Passes, Statuses
<1>4. batch[s][position[s]] \in FileSet
  BY InTurn
<1> QED BY <1>3, <1>4, MessageFacts DEF Result

LEMMA EventFacts ==
  ASSUME TypeInv, NEW s \in Slots, SlotInv(s), page[s] # "none",
         NEW type \in {"start", "case"}
  PROVE  /\ Event(s, type) \in Seq(Messages)
         /\ \A i \in 1 .. Len(Event(s, type)) :
              Event(s, type)[i].type = type
<1>1. [type |-> type, file |-> batch[s][position[s]]] \in Messages
  BY InTurn, MessageFacts
<1> QED BY <1>1 DEF Event

(* What a worker takes from the queue.                                       *)
LEMMA BatchFacts ==
  ASSUME HeadlessAssumption, TypeInv, NEW r \in Runs, queue[r] # <<>>
  PROVE  \E n \in 1 .. Len(queue[r]) :
           /\ BatchOf(r) = SubSeq(queue[r], 1, n) /\ Len(BatchOf(r)) = n
           /\ options.isolate \/ options.bail > 0 => n = 1
<1>1. /\ queue[r] \in Seq(FileSet) /\ Len(queue[r]) \in Nat \ {0}
      /\ options.workers \in Nat \ {0}
  BY OptionsFacts DEF TypeInv, CoreTypes, RunTypes
<1>2. Len(Files) \in Nat \ {0}
  BY <1>1, FilesFacts
<1> DEFINE size == (Len(Files) + options.workers - 1) \div options.workers
           n == IF options.isolate \/ options.bail > 0 THEN 1 ELSE size
<1>3. size \in Nat \ {0}
  BY <1>1, <1>2, Quotient
<1>4. n \in Nat \ {0}
  BY <1>3
<1> DEFINE m == Min({n, Len(queue[r])})
<1>5. BatchOf(r) = SubSeq(queue[r], 1, m)
  BY DEF BatchOf
<1> HIDE DEF n
<1>6. m \in 1 .. Len(queue[r])
  BY <1>1, <1>4, LesserOfTwo
<1>7. options.isolate \/ options.bail > 0 => m = 1
  <2>1. options.isolate \/ options.bail > 0 => n = 1
    BY DEF n
  <2> QED BY <1>1, <1>4, <2>1, LesserOfTwo
<1> HIDE DEF m
<1>8. Len(SubSeq(queue[r], 1, m)) = m
  BY <1>1, <1>6, CutFacts
<1> QED BY <1>5, <1>6, <1>7, <1>8

(* The file that an overdue clean-up fails next.                             *)
LEMMA NextPending ==
  ASSUME NEW s, batch[s] \in Seq(FileSet), Pending(s) # {}
  PROVE  Min(Pending(s)) \in Pending(s)
<1> DEFINE R == OpToRel(<, Nat)
<1>1. Pending(s) \subseteq Nat
  BY DEF Pending
<1>2. IsWellFoundedOn(R, Nat)
  BY NatLessThanWellFounded
<1>3. \A x, y \in Nat : <<x, y>> \in R <=> x < y
  BY DEF OpToRel
<1> HIDE DEF R
<1>4. PICK x \in Pending(s) : \A y \in Pending(s) : <<y, x>> \notin R
  BY <1>1, <1>2, WFMin
<1>5. ASSUME NEW y \in Pending(s) PROVE x <= y
  <2>1. x \in Nat /\ y \in Nat /\ <<y, x>> \notin R
    BY <1>1, <1>4
  <2>2. ~(y < x)
    BY <1>3, <2>1
  <2> QED BY <2>1, <2>2
<1> QED BY <1>5 DEF Min

-----------------------------------------------------------------------------
(* What a worker does that is one of several things: its page went to the    *)
(* server, it fails, or it leaves its page.                                  *)
Races(s) ==
  /\ at[s] = "opening" /\ page[s] \notin {"dead", "closed"}
  /\ Goes(s, "racing")
Failed(s) ==
  /\ at[s] \in {"opening", "racing"} /\ ~Abandoned(RunOf(s))
  /\ Goes(s, "failing")
Leaves(s) ==
  /\ at[s] \in {"opening", "racing", "cancelling"}
  /\ Abandoned(RunOf(s)) \/ (at[s] = "racing" /\ ended[s] = "done")
       \/ at[s] = "cancelling"
  /\ Leave(s)

LEMMA Ways ==
  ASSUME NEW s \in Slots, Goto(s) \/ Race(s) \/ RunCancelled(s)
  PROVE  Races(s) \/ Failed(s) \/ Leaves(s)
<1>1. CASE Goto(s)
  BY <1>1 DEF Goto, Fails, Races, Failed, Leaves
<1>2. CASE Race(s)
  BY <1>2 DEF Race, Fails, Races, Failed, Leaves, Abandoned
<1>3. CASE RunCancelled(s)
  BY <1>3 DEF RunCancelled, Leaves
<1> QED BY <1>1, <1>2, <1>3

(* What a page sends that is neither a result nor its end.                   *)
Chatter(s) ==
  {<<>>, Fatal, Event(s, "start"), Event(s, "case"), Event(s, "start") \o Fatal}

Chats(s) ==
  /\ page[s] \in {"load", "test"}
  /\ \E m \in Chatter(s), next \in {"test", "over"} : Sends(s, m, next)
  /\ faults' = faults \/ Strikes("fatal")
  /\ cases' = cases \/ cases' = [cases EXCEPT ![s] = @ + 1]
  /\ UNCHANGED <<options, coreVars, runVars, slotVars, timerVars, position,
                 closing, busy>>

LEMMA Chatting ==
  ASSUME NEW s, Load(s) \/ CaseFails(s)
  PROVE  Chats(s)
<1>1. CASE Load(s)
  BY <1>1 DEF Load, Chats, Chatter
<1>2. CASE CaseFails(s)
  BY <1>2 DEF CaseFails, Chats, Chatter
<1> QED BY <1>1, <1>2

LEMMA ChatterFacts ==
  ASSUME TypeInv, NEW s \in Slots, SlotInv(s), page[s] # "none",
         NEW m \in Chatter(s)
  PROVE  /\ m \in Seq(Messages)
         /\ \A i \in 1 .. Len(m) : m[i].type \notin {"file", "complete"}
<1>1. /\ Fatal \in Seq(Messages) /\ Len(Fatal) = 1 /\ Fatal[1].type = "fatal"
  BY MessageFacts DEF Fatal
<1>2. CASE m = <<>>
  BY <1>2
<1>5. CASE m = Fatal
  <2>1. /\ m \in Seq(Messages) /\ 1 .. Len(m) = 1 .. 1
        /\ m[1].type = "fatal"
    BY <1>1, <1>5
  <2>2. \A i \in 1 .. 1 : i = 1
    OBVIOUS
  <2> QED BY <2>1, <2>2
<1>3. CASE m \in {Event(s, "start"), Event(s, "case")}
  BY <1>3, EventFacts
<1>4. CASE m = Event(s, "start") \o Fatal
  <2> DEFINE e == Event(s, "start")
  <2>1. /\ e \in Seq(Messages)
        /\ \A i \in 1 .. Len(e) : e[i].type = "start"
    BY EventFacts
  <2>2. m = e \o <<[type |-> "fatal"]>>
    BY <1>4 DEF Fatal
  <2> HIDE DEF e
  <2>3. /\ m \in Seq(Messages) /\ Len(m) = Len(e) + 1
        /\ \A i \in 1 .. Len(e) : m[i] = e[i]
        /\ m[Len(e) + 1] = [type |-> "fatal"]
    BY <2>1, <2>2, PushFacts, MessageFacts
  <2>4. /\ Len(e) \in Nat
        /\ \A i \in 1 .. Len(e) + 1 : i \in 1 .. Len(e) \/ i = Len(e) + 1
    BY <2>1
  <2> QED BY <2>1, <2>3, <2>4
<1> QED BY <1>2, <1>3, <1>4, <1>5 DEF Chatter

(* What is sent comes behind the mail.                                       *)
LEMMA ChatterPushed ==
  ASSUME TypeInv, NEW s \in Slots, SlotInv(s), page[s] # "none",
         NEW m \in Chatter(s), NEW next, Sends(s, m, next)
  PROVE  /\ page'[s] = next /\ DOMAIN mail[s] \subseteq DOMAIN mail'[s]
         /\ \A i \in DOMAIN mail[s] : mail'[s][i] = mail[s][i]
         /\ \A i \in DOMAIN mail'[s] :
              i \in DOMAIN mail[s]
                \/ mail'[s][i].type \notin {"file", "complete"}
<1>1. /\ mail'[s] = mail[s] \o m /\ page'[s] = next
      /\ mail[s] \in Seq(Messages)
  BY DEF Sends, TypeInv, PageTypes
<1>2. /\ m \in Seq(Messages)
      /\ \A i \in 1 .. Len(m) : m[i].type \notin {"file", "complete"}
  BY ChatterFacts
<1>3. /\ DOMAIN mail[s] = 1 .. Len(mail[s])
      /\ DOMAIN mail'[s] = 1 .. Len(mail[s]) + Len(m)
      /\ Len(mail[s]) \in Nat /\ Len(m) \in Nat
      /\ \A i \in 1 .. Len(mail[s]) + Len(m) :
           mail'[s][i] = IF i <= Len(mail[s]) THEN mail[s][i]
                         ELSE m[i - Len(mail[s])]
  BY <1>1, <1>2
<1>4. \A i \in 1 .. Len(mail[s]) + Len(m) :
        i <= Len(mail[s]) \/ i - Len(mail[s]) \in 1 .. Len(m)
  BY <1>3
<1>5. \A i \in 1 .. Len(mail[s]) :
        i \in 1 .. Len(mail[s]) + Len(m) /\ i <= Len(mail[s])
  BY <1>3
<1> QED BY <1>1, <1>2, <1>3, <1>4, <1>5

(* A step of a slot.                                                         *)
Work(s) ==
  \/ PickNext(s) \/ Drain(s) \/ WorkerEnds(s) \/ ContextOpens(s)
  \/ ContextFails(s) \/ Races(s) \/ Failed(s) \/ Leaves(s) \/ FailRun(s)
  \/ PageIsClosed(s)
Paging(s) ==
  \/ PageCloses(s) \/ PageCrashes(s) \/ Chats(s) \/ RunTests(s)
  \/ CleanupEnds(s) \/ WorkerCleanupEnds(s)
Hosting(s) ==
  \/ Handle(s) \/ FileHandled(s) \/ HookThrows(s) \/ FatalDispatched(s)
  \/ RunFails(s) \/ EventHandled(s)
  \/ DeadlinePasses(s) \/ FileOverdue(s) \/ WorkerOverdue(s)

LEMMA Steps ==
  ASSUME [Next]_vars
  PROVE  \/ StartCycle \/ RunFiles \/ RunReplaced \/ RunEnds \/ Interrupt
         \/ \E s \in Slots : Work(s) \/ Paging(s) \/ Hosting(s)
         \/ UNCHANGED vars
BY Ways, Chatting DEF Next, Core, Worker, Client, Cleanups, Host, Work,
   Paging, Hosting

(* The types are kept.                                                       *)
LEMMA StrikesOnce ==
  ASSUME TypeInv, NEW fault, Strikes(fault)
  PROVE  faults' \in Nat
<1>1. faults \in Nat
  BY DEF TypeInv, CoreTypes
<1> QED BY <1>1 DEF Strikes

LEMMA TypesOfCore ==
  ASSUME HeadlessAssumption, TypeInv,
         StartCycle \/ RunFiles \/ RunReplaced \/ RunEnds \/ Interrupt
  PROVE  TypeInv'
<1> USE DEF runVars, slotVars, timerVars, pageVars, mailVars
<1>0. /\ Files \in Seq(FileSet) /\ options.runs \in 1 .. MaxRuns
      /\ MaxRuns \in Nat
      /\ CoreTypes /\ RunTypes /\ SlotTypes /\ PageTypes
  BY FilesFacts, OptionsFacts DEF TypeInv, CoreTypes
<1>b. ASSUME CreateSession
      PROVE  /\ token' \in Nat /\ active' \in 0 .. MaxRuns
             /\ tokenOf' \in [Runs -> Nat] /\ queue' \in [Runs -> Seq(FileSet)]
             /\ at' \in [Slots -> AtValues] /\ phase' = "running"
  <2>1. token' \in Nat /\ active' \in 0 .. MaxRuns /\ phase' = "running"
    BY <1>0, <1>b DEF CreateSession, CoreTypes
  <2>2. tokenOf' \in [Runs -> Nat]
    <3>1. tokenOf \in [Runs -> Nat] /\ token + 1 \in Nat
      BY <1>0 DEF CoreTypes, RunTypes
    <3>2. tokenOf' = [tokenOf EXCEPT ![cycle] = token + 1]
      BY <1>b DEF CreateSession
    <3> QED BY <3>1, <3>2
  <2>4. queue' \in [Runs -> Seq(FileSet)]
    <3>1. queue \in [Runs -> Seq(FileSet)]
      BY <1>0 DEF RunTypes
    <3>2. queue' = [queue EXCEPT ![cycle] = Files]
      BY <1>b DEF CreateSession
    <3> QED BY <1>0, <3>1, <3>2
  <2>3. at' \in [Slots -> AtValues]
    BY <1>0, <1>b DEF CreateSession, SlotTypes, AtValues
  <2> QED BY <2>1, <2>2, <2>3, <2>4
<1>c. ASSUME NEW r, NEW reason \in {"superseded", "failed"}, Cancel(r, reason)
      PROVE  /\ cancelled' \in [Runs -> {"no", "superseded", "failed"}]
             /\ closing' \in [Slots -> BOOLEAN]
  BY <1>0, <1>c DEF Cancel, RunTypes, PageTypes
<1>1. CASE StartCycle
  <2>1. CoreTypes'
    <3>1. cycle' = cycle + 1 /\ cycle < options.runs /\ cycle \in 0 .. MaxRuns
      BY <1>0, <1>1 DEF StartCycle, CoreTypes
    <3>2. cycle' \in 0 .. MaxRuns
      BY <1>0, <3>1
    <3> QED BY <1>0, <1>1, <3>2 DEF StartCycle, CoreTypes
  <2>2. RunTypes' /\ SlotTypes' /\ PageTypes'
    BY <1>0, <1>1 DEF StartCycle, RunTypes, SlotTypes, PageTypes
  <2> QED BY <2>1, <2>2 DEF TypeInv
<1>2. CASE RunFiles
  <2>0. /\ token' \in Nat /\ active' \in 0 .. MaxRuns
        /\ phase' \in {"running", "cancelling"}
    <3>1. CASE active = 0
      BY <1>2, <1>b, <3>1 DEF RunFiles
    <3>2. CASE active # 0
      BY <1>0, <1>2, <3>2 DEF RunFiles, CoreTypes
    <3> QED BY <3>1, <3>2
  <2>5. UNCHANGED <<options, faults, cycle, wanted>> /\ fatalError' = FALSE
    BY <1>2 DEF RunFiles
  <2>1. CoreTypes'
    <3>1. /\ options' \in Options /\ faults' \in Nat
          /\ cycle' \in 0 .. MaxRuns /\ wanted' \in BOOLEAN
      BY <1>0, <2>5 DEF CoreTypes
    <3>2. fatalError' \in BOOLEAN
      BY <2>5
    <3>3. phase' \in {"idle", "starting", "cancelling", "running"}
      BY <2>0
    <3> QED BY <2>0, <3>1, <3>2, <3>3 DEF CoreTypes
  <2>2. RunTypes'
    BY <1>0, <1>2, <1>b, <1>c DEF RunFiles, RunTypes
  <2>3. SlotTypes'
    BY <1>0, <1>2, <1>b DEF RunFiles, SlotTypes
  <2>4. PageTypes'
    BY <1>0, <1>2, <1>c DEF RunFiles, PageTypes
  <2> QED BY <2>1, <2>2, <2>3, <2>4 DEF TypeInv
<1>3. CASE RunReplaced
  <2>1. CoreTypes'
    BY <1>0, <1>3, <1>b DEF RunReplaced, CoreTypes
  <2>2. RunTypes' /\ SlotTypes' /\ PageTypes'
    BY <1>0, <1>3, <1>b DEF RunReplaced, RunTypes, SlotTypes, PageTypes
  <2> QED BY <2>1, <2>2 DEF TypeInv
<1>4. CASE RunEnds
  BY <1>0, <1>4 DEF RunEnds, TypeInv, CoreTypes, RunTypes, SlotTypes, PageTypes
<1>5. CASE Interrupt
  <2>1. CoreTypes'
    BY <1>0, <1>5 DEF Interrupt, CoreTypes
  <2>2. RunTypes' /\ SlotTypes' /\ PageTypes'
    BY <1>0, <1>5 DEF Interrupt, RunTypes, SlotTypes, PageTypes
  <2> QED BY <2>1, <2>2 DEF TypeInv
<1> QED BY <1>1, <1>2, <1>3, <1>4, <1>5

LEMMA TypesOfWork ==
  ASSUME HeadlessAssumption, TypeInv, NEW s \in Slots, Work(s)
  PROVE  TypeInv'
<1> USE DEF TypeInv, CoreTypes, RunTypes, SlotTypes, PageTypes, coreVars,
        runVars, slotVars, timerVars, pageVars, mailVars,
        AtValues, PageValues
<1>0. RunOf(s) \in Runs
  BY SlotFacts
<1>1. CASE PickNext(s)
  <2>1. CASE at'[s] = "draining" /\ UNCHANGED <<queue, batch>>
             /\ at' = [at EXCEPT ![s] = "draining"]
    BY <1>0, <1>1, <2>1 DEF PickNext
  <2>2. CASE /\ at' = [at EXCEPT ![s] = "context"]
             /\ batch' = [batch EXCEPT ![s] = BatchOf(RunOf(s))]
             /\ queue' = [queue EXCEPT ![RunOf(s)] =
                  SubSeq(@, Len(BatchOf(RunOf(s))) + 1, Len(@))]
    <3>1. queue[RunOf(s)] # <<>> /\ queue[RunOf(s)] \in Seq(FileSet)
      BY <1>0, <1>1 DEF PickNext
    <3>2. PICK n \in 1 .. Len(queue[RunOf(s)]) :
            /\ BatchOf(RunOf(s)) = SubSeq(queue[RunOf(s)], 1, n)
            /\ Len(BatchOf(RunOf(s))) = n
      BY <1>0, <3>1, BatchFacts
    <3>3. /\ BatchOf(RunOf(s)) \in Seq(FileSet)
          /\ SubSeq(queue[RunOf(s)], n + 1, Len(queue[RunOf(s)]))
               \in Seq(FileSet)
      <4>1. n \in 0 .. Len(queue[RunOf(s)])
        BY <3>1, <3>2
      <4> HIDE DEF TypeInv
      <4> QED BY <3>1, <3>2, <4>1, CutFacts
    <3> QED BY <1>0, <1>1, <2>2, <3>2, <3>3 DEF PickNext
  <2> QED BY <1>0, <1>1, <2>1, <2>2 DEF PickNext
<1>2. CASE Drain(s)
  <2>1. CASE queue[RunOf(s)] = <<>>
    BY <1>0, <1>2, <2>1 DEF Drain
  <2>2. CASE queue[RunOf(s)] # <<>>
    <3> DEFINE r == RunOf(s)
               f == Head(queue[r])
    <3>1. f \in FileSet /\ Tail(queue[r]) \in Seq(FileSet)
      BY <1>0, <2>2, PopFacts
    <3>2. /\ Record(r, f, "skip", 0, "bail")
          /\ queue' = [queue EXCEPT ![r] = Tail(@)]
      BY <1>2, <2>2 DEF Drain
    <3>3. r \in Runs
      BY <1>0
    <3> HIDE DEF f, r
    <3>4. queue' \in [Runs -> Seq(FileSet)]
      BY <3>1, <3>2, <3>3
    <3>5. reports' \in [Runs -> [FileSet -> Nat]]
      BY <3>1, <3>2, <3>3 DEF Record
    <3>6. recorded' \subseteq Records
      BY <3>1, <3>2, <3>3 DEF Record, Records, Statuses, Sources
    <3>7. running' \in [FileSet -> Nat]
      BY <3>1, <3>2 DEF Record
    <3> QED BY <1>2, <2>2, <3>4, <3>5, <3>6, <3>7 DEF Drain
  <2> QED BY <2>1, <2>2
<1>3. CASE WorkerEnds(s)
  BY <1>3 DEF WorkerEnds
<1>4. CASE ContextOpens(s)
  BY <1>4 DEF ContextOpens
<1>5. CASE ContextFails(s)
  BY <1>5, StrikesOnce DEF ContextFails
<1>6. CASE Races(s)
  BY <1>6 DEF Races, Goes
<1>7. CASE Failed(s)
  BY <1>7 DEF Failed, Goes
<1>8. CASE Leaves(s)
  BY <1>8 DEF Leaves, Leave
<1>9. CASE FailRun(s)
  BY <1>9 DEF FailRun, Cancel
<1>10. CASE PageIsClosed(s)
  BY <1>10 DEF PageIsClosed
<1> QED BY <1>1, <1>2, <1>3, <1>4, <1>5, <1>6, <1>7, <1>8, <1>9, <1>10
        DEF Work

LEMMA TypesOfPaging ==
  ASSUME HeadlessAssumption, TypeInv, SlotsInv, NEW s \in Slots, Paging(s)
  PROVE  TypeInv'
<1> USE DEF TypeInv, CoreTypes, RunTypes, SlotTypes, PageTypes, coreVars,
        runVars, slotVars, timerVars, pageVars, mailVars,
        PageValues
<1>0. SlotInv(s) /\ page[s] \in PageValues
  BY DEF SlotsInv
<1>a. ASSUME NEW m, NEW next \in PageValues, Sends(s, m, next),
             m \in Seq(Messages)
      PROVE  /\ mail' \in [Slots -> Seq(Messages)]
             /\ page' \in [Slots -> PageValues]
  BY <1>a DEF Sends
<1>b. <<>> \in Seq(Messages) /\ Fatal \in Seq(Messages)
  BY MessageFacts DEF Fatal
<1>c. ASSUME NEW outcome \in Outcomes(s), page[s] # "none"
      PROVE  /\ <<Result(s, outcome)>> \in Seq(Messages)
             /\ <<Result(s, outcome), [type |-> "complete"]>> \in Seq(Messages)
  <2>1. Result(s, outcome) \in Messages
    BY <1>0, <1>c, ResultFacts
  <2> QED BY <2>1, MessageFacts
<1>d. ASSUME NEW which \in {"off", "file", "worker"}, Arm(s, which)
      PROVE  timer' \in [Slots -> {"off", "file", "worker"}]
  BY <1>d DEF Arm
<1>e. ASSUME NEW how \in {"closed", "dead"}, Dies(s, how), faults' \in Nat
      PROVE  TypeInv'
  BY <1>e DEF Dies
<1>1. CASE PageCloses(s)
  BY <1>1, <1>e DEF PageCloses
<1>2. CASE PageCrashes(s)
  BY <1>2, <1>e, StrikesOnce DEF PageCrashes
<1>3. CASE Chats(s)
  <2>1. PICK m \in Chatter(s), next \in {"test", "over"} : Sends(s, m, next)
    BY <1>3 DEF Chats
  <2>2. m \in Seq(Messages)
    BY <1>0, <1>3, <2>1, ChatterFacts DEF Chats
  <2>3. /\ mail' \in [Slots -> Seq(Messages)]
        /\ page' \in [Slots -> PageValues]
    BY <1>a, <2>1, <2>2
  <2>4. faults' \in Nat
    BY <1>3, StrikesOnce DEF Chats
  <2>5. cases' \in [Slots -> Nat]
    <3>1. cases[s] + 1 \in Nat
      BY <1>0
    <3>2. CASE cases' = cases
      BY <1>0, <3>2
    <3>3. CASE cases' = [cases EXCEPT ![s] = @ + 1]
      BY <1>0, <3>1, <3>3
    <3> QED BY <1>3, <3>2, <3>3 DEF Chats
  <2> QED BY <1>3, <2>3, <2>4, <2>5 DEF Chats
<1>4. CASE RunTests(s)
  BY <1>4, <1>a, <1>b, <1>d DEF RunTests
<1>5. CASE CleanupEnds(s)
  <2>1. page[s] # "none"
    BY <1>5 DEF CleanupEnds
  <2>2. /\ mail' \in [Slots -> Seq(Messages)]
        /\ page' \in [Slots -> PageValues]
    <3>1. CASE Sends(s, Fatal, "over") \/ Sends(s, <<>>, "worker")
      BY <1>a, <1>b, <3>1
    <3>2. ASSUME NEW outcome \in Outcomes(s),
                 Sends(s, <<Result(s, outcome)>>, "test")
          PROVE  /\ mail' \in [Slots -> Seq(Messages)]
                 /\ page' \in [Slots -> PageValues]
      BY <1>a, <1>c, <2>1, <3>2
    <3> QED BY <1>5, <3>1, <3>2 DEF CleanupEnds
  <2>3. timer' \in [Slots -> {"off", "file", "worker"}]
    BY <1>5, <1>d DEF CleanupEnds
  <2>4. position' \in [Slots -> Nat]
    <3>1. position[s] + 1 \in Nat
      OBVIOUS
    <3> QED BY <1>5, <3>1 DEF CleanupEnds
  <2> QED BY <1>5, <2>2, <2>3, <2>4 DEF CleanupEnds
<1>6. CASE WorkerCleanupEnds(s)
  <2>1. page[s] # "none"
    BY <1>6 DEF WorkerCleanupEnds
  <2>2. /\ mail' \in [Slots -> Seq(Messages)]
        /\ page' \in [Slots -> PageValues]
    <3>1. ASSUME NEW outcome \in Outcomes(s),
                 Sends(s, <<Result(s, outcome), [type |-> "complete"]>>, "over")
          PROVE  /\ mail' \in [Slots -> Seq(Messages)]
                 /\ page' \in [Slots -> PageValues]
      BY <1>a, <1>c, <2>1, <3>1
    <3> QED BY <1>6, <3>1 DEF WorkerCleanupEnds
  <2>3. timer' \in [Slots -> {"off", "file", "worker"}]
    BY <1>6, <1>d DEF WorkerCleanupEnds
  <2> QED BY <1>6, <2>2, <2>3 DEF WorkerCleanupEnds
<1> QED BY <1>1, <1>2, <1>3, <1>4, <1>5, <1>6 DEF Paging

LEMMA TypesOfHosting ==
  ASSUME HeadlessAssumption, TypeInv, SlotsInv, NEW s \in Slots, Hosting(s)
  PROVE  TypeInv'
<1> USE DEF TypeInv, CoreTypes, RunTypes, SlotTypes, PageTypes, coreVars,
        runVars, slotVars, timerVars, pageVars, mailVars,
        BusyValues
<1>0. SlotInv(s) /\ RunOf(s) \in Runs /\ batch[s] \in Seq(FileSet)
  BY SlotFacts DEF SlotsInv
<1>a. ASSUME NEW f \in FileSet, NEW status \in Statuses, NEW source \in Sources,
             NEW counts \in Nat, Record(RunOf(s), f, status, counts, source)
      PROVE  /\ reports' \in [Runs -> [FileSet -> Nat]]
             /\ recorded' \subseteq Records /\ running' \in [FileSet -> Nat]
  <2>1. recorded' \subseteq Records
    BY <1>0, <1>a DEF Record, Records
  <2>2. running' \in [FileSet -> Nat]
    BY <1>a DEF Record
  <2> QED BY <1>0, <1>a, <2>1, <2>2 DEF Record
<1>b. ASSUME MarkDone(s)
      PROVE  /\ settled' \in [Slots -> BOOLEAN]
             /\ ended' \in [Slots -> {"no", "done", "crash"}]
  BY <1>b DEF MarkDone
<1>1. CASE Handle(s)
  <2>1. mail[s] \in Seq(Messages) /\ mail[s] # <<>>
    BY <1>1 DEF Handle
  <2>2. Head(mail[s]) \in Messages /\ Tail(mail[s]) \in Seq(Messages)
    BY <2>1, PopFacts
  <2>3. mail' \in [Slots -> Seq(Messages)]
    BY <1>1, <2>2 DEF Handle
  <2> DEFINE m == Head(mail[s])
  <2>4. /\ m.type \in {"file", "start", "case", "complete", "fatal"}
        /\ m.type = "file" =>
             m.file \in FileSet /\ m.status \in Statuses /\ m.counts \in Nat
        /\ m.type \in {"start", "case"} => m.file \in FileSet
    BY <2>2, MessageFacts
  <2>5. /\ reports' \in [Runs -> [FileSet -> Nat]]
        /\ recorded' \subseteq Records /\ running' \in [FileSet -> Nat]
    <3>1. CASE UNCHANGED <<recorded, running, reports>>
      BY <3>1
    <3>2. CASE /\ m.type = "file"
                /\ Record(RunOf(s), m.file, m.status, m.counts, "page")
      BY <1>a, <2>4, <3>2 DEF Sources
    <3>3. CASE /\ m.type \in {"start", "case"}
                /\ UNCHANGED <<recorded, reports>>
               /\ running' = [running EXCEPT ![m.file] =
                                IF m.type = "start" THEN 0 ELSE @ + 1]
      BY <2>4, <3>3
    <3> QED BY <1>1, <2>4, <3>1, <3>2, <3>3 DEF Handle
  <2>6. /\ settled' \in [Slots -> BOOLEAN]
        /\ ended' \in [Slots -> {"no", "done", "crash"}]
    BY <1>1, <1>b, <2>4 DEF Handle
  <2>7. busy' \in [Slots -> BusyValues]
    BY <1>1, <2>4 DEF Handle, BusyMarks
  <2> QED BY <1>1, <2>3, <2>5, <2>6, <2>7 DEF Handle
<1>2. CASE FileHandled(s)
  <2>1. busy[s] \in FileSet /\ busy' = [busy EXCEPT ![s] = "no"]
        /\ completed' = [completed EXCEPT ![s] = @ \cup {busy[s]}]
    BY <1>2 DEF FileHandled
  <2>2. completed' \in [Slots -> SUBSET FileSet]
    BY <2>1
  <2>3. busy' \in [Slots -> BusyValues]
    BY <2>1 DEF BusyMarks
  <2>4. /\ settled' \in [Slots -> BOOLEAN]
        /\ ended' \in [Slots -> {"no", "done", "crash"}]
    BY <1>2, <1>b DEF FileHandled
  <2> QED BY <1>2, <2>2, <2>3, <2>4 DEF FileHandled
<1>3. CASE HookThrows(s)
  BY <1>3, <1>b, StrikesOnce DEF HookThrows, BusyMarks
<1>4. CASE FatalDispatched(s)
  BY <1>4, <1>b DEF FatalDispatched, BusyMarks
<1>5. CASE RunFails(s)
  BY <1>5 DEF RunFails, Cancel, BusyMarks
<1>6. CASE DeadlinePasses(s)
  <2>0. faults' \in Nat
    BY <1>6, StrikesOnce DEF DeadlinePasses
  <2>1. CASE settled[s]
    BY <1>6, <2>0, <2>1 DEF DeadlinePasses
  <2>2. CASE ~settled[s] /\ timer[s] = "file"
    <3>1. batch[s][position[s]] \in FileSet
      BY <1>0, <2>2, InTurn DEF SlotInv
    <3>2. PICK n \in Counts(s) :
            Record(RunOf(s), batch[s][position[s]], "fail", n, "deadline")
      BY <1>6, <2>2 DEF DeadlinePasses
    <3>3. /\ reports' \in [Runs -> [FileSet -> Nat]]
          /\ recorded' \subseteq Records /\ running' \in [FileSet -> Nat]
      BY <1>a, <3>1, <3>2, CountsFacts DEF Statuses, Sources
    <3>4. completed' =
            [completed EXCEPT ![s] = @ \cup {batch[s][position[s]]}]
      BY <1>6, <2>2 DEF DeadlinePasses
    <3>5. completed' \in [Slots -> SUBSET FileSet]
      BY <3>1, <3>4
    <3> QED BY <1>6, <2>0, <2>2, <3>3, <3>5 DEF DeadlinePasses
  <2>3. CASE ~settled[s] /\ timer[s] # "file"
    BY <1>6, <2>0, <2>3 DEF DeadlinePasses
  <2> QED BY <2>1, <2>2, <2>3
<1>7. CASE FileOverdue(s)
  <2>1. CASE Pending(s) = {}
    BY <1>7, <2>1 DEF FileOverdue
  <2>2. CASE Pending(s) # {}
    <3> DEFINE f == batch[s][Min(Pending(s))]
    <3>1. Min(Pending(s)) \in Pending(s)
      BY <1>0, <2>2, NextPending
    <3>2. f \in FileSet
      BY <1>0, <3>1 DEF Pending
    <3>3. Record(RunOf(s), f, "fail", 1, "deadline")
      BY <1>7, <2>2 DEF FileOverdue
    <3>4. completed' = [completed EXCEPT ![s] = @ \cup {f}]
      BY <1>7, <2>2 DEF FileOverdue
    <3> HIDE DEF f
    <3>5. /\ reports' \in [Runs -> [FileSet -> Nat]]
          /\ recorded' \subseteq Records /\ running' \in [FileSet -> Nat]
      BY <1>a, <3>2, <3>3 DEF Statuses, Sources
    <3> QED BY <1>7, <2>2, <3>2, <3>4, <3>5 DEF FileOverdue
  <2> QED BY <2>1, <2>2
<1>8. CASE WorkerOverdue(s)
  BY <1>8 DEF WorkerOverdue
<1>9. CASE EventHandled(s)
  BY <1>9 DEF EventHandled, BusyMarks
<1> QED BY <1>1, <1>2, <1>3, <1>4, <1>5, <1>6, <1>7, <1>8, <1>9 DEF Hosting

-----------------------------------------------------------------------------
(* What a step of a slot leaves alone: the session, the other runs, and, but *)
(* for the contexts a cancelled run closes, the other slots.                 *)
OthersRest(s) ==
  \A t \in Slots : t # s =>
    /\ at'[t] = at[t] /\ batch'[t] = batch[t] /\ settled'[t] = settled[t]
    /\ ended'[t] = ended[t] /\ completed'[t] = completed[t]
    /\ timer'[t] = timer[t] /\ overdue'[t] = overdue[t]
    /\ page'[t] = page[t] /\ position'[t] = position[t]
    /\ mail'[t] = mail[t] /\ busy'[t] = busy[t]
    /\ \/ closing'[t] = closing[t]
       \/ HasContext(t) /\ RunOf(t) = RunOf(s)

OtherRunsRest(s) ==
  \A r \in Runs :
    /\ \/ cancelled'[r] = cancelled[r]
       \/ r = RunOf(s) /\ cancelled[r] = "no" /\ cancelled'[r] = "failed"
    /\ r # RunOf(s) => queue'[r] = queue[r] /\ reports'[r] = reports[r]
    /\ queue[r] = <<>> => queue'[r] = <<>>

Effect(s) ==
  /\ UNCHANGED <<options, cycle, phase, wanted, token, active, tokenOf>>
  /\ OthersRest(s) /\ OtherRunsRest(s)
  /\ at[s] # "none"
  /\ \/ at'[s] = at[s]
     \/ at[s] \notin {"over", "rejected"} /\ at'[s] # "none"
  /\ fatalError => fatalError'

LEMMA CancelEffect ==
  ASSUME TypeInv, NEW s \in Slots, Cancel(RunOf(s), "failed")
  PROVE  /\ \A r \in Runs :
              \/ cancelled'[r] = cancelled[r]
              \/ r = RunOf(s) /\ cancelled[r] = "no" /\ cancelled'[r] = "failed"
         /\ \A t \in Slots :
              \/ closing'[t] = closing[t]
              \/ HasContext(t) /\ RunOf(t) = RunOf(s)
BY DEF TypeInv, RunTypes, PageTypes, Cancel

LEMMA RecordEffect ==
  ASSUME TypeInv, NEW r \in Runs, NEW f, NEW status, NEW counts, NEW source,
         Record(r, f, status, counts, source)
  PROVE  \A q \in Runs : q # r => reports'[q] = reports[q]
BY DEF TypeInv, RunTypes, Record

LEMMA EffectOfWork ==
  ASSUME HeadlessAssumption, TypeInv, SlotsInv, NEW s \in Slots, Work(s)
  PROVE  Effect(s)
<1> USE DEF Effect, OthersRest, OtherRunsRest, coreVars, runVars, slotVars,
        timerVars, pageVars, mailVars
<1>0. /\ RunOf(s) \in Runs /\ RunTypes /\ SlotTypes /\ PageTypes
  BY SlotFacts DEF TypeInv
<1>1. CASE PickNext(s)
  <2>1. CASE at' = [at EXCEPT ![s] = "draining"] /\ UNCHANGED <<queue, batch>>
    BY <1>0, <1>1, <2>1 DEF PickNext, SlotTypes
  <2>2. CASE /\ at' = [at EXCEPT ![s] = "context"]
             /\ batch' = [batch EXCEPT ![s] = BatchOf(RunOf(s))]
             /\ queue' = [queue EXCEPT ![RunOf(s)] =
                  SubSeq(@, Len(BatchOf(RunOf(s))) + 1, Len(@))]
    <3>1. /\ \A t \in Slots : t # s => at'[t] = at[t] /\ batch'[t] = batch[t]
          /\ at'[s] = "context" /\ at[s] = "free" /\ queue[RunOf(s)] # <<>>
      BY <1>0, <1>1, <2>2 DEF PickNext, SlotTypes
    <3>2. \A r \in Runs : r # RunOf(s) => queue'[r] = queue[r]
      BY <1>0, <2>2 DEF RunTypes
    <3> QED BY <1>0, <1>1, <3>1, <3>2 DEF PickNext
  <2> QED BY <1>1, <2>1, <2>2 DEF PickNext
<1>2. CASE Drain(s)
  <2>1. CASE queue[RunOf(s)] = <<>>
    BY <1>0, <1>2, <2>1 DEF Drain, SlotTypes
  <2>2. CASE queue[RunOf(s)] # <<>>
    BY <1>0, <1>2, <2>2, RecordEffect DEF Drain, RunTypes
  <2> QED BY <2>1, <2>2
<1>3. CASE WorkerEnds(s)
  BY <1>0, <1>3 DEF WorkerEnds, SlotTypes
<1>4. CASE ContextOpens(s)
  BY <1>0, <1>4 DEF ContextOpens, SlotTypes, PageTypes
<1>5. CASE ContextFails(s)
  BY <1>0, <1>5 DEF ContextFails, SlotTypes
<1>6. CASE Races(s)
  BY <1>0, <1>6 DEF Races, Goes, SlotTypes
<1>7. CASE Failed(s)
  BY <1>0, <1>7 DEF Failed, Goes, SlotTypes
<1>8. CASE Leaves(s)
  BY <1>0, <1>8 DEF Leaves, Leave, SlotTypes, PageTypes
<1>9. CASE FailRun(s)
  BY <1>0, <1>9, CancelEffect DEF FailRun, SlotTypes
<1>10. CASE PageIsClosed(s)
  BY <1>0, <1>10 DEF PageIsClosed, SlotTypes, PageTypes
<1> QED BY <1>1, <1>2, <1>3, <1>4, <1>5, <1>6, <1>7, <1>8, <1>9, <1>10
        DEF Work

LEMMA EffectOfPaging ==
  ASSUME HeadlessAssumption, TypeInv, SlotsInv, NEW s \in Slots, Paging(s)
  PROVE  Effect(s)
<1> USE DEF Effect, OthersRest, OtherRunsRest, coreVars, runVars, slotVars,
        timerVars, pageVars, mailVars
<1>0. /\ RunOf(s) \in Runs /\ SlotTypes /\ PageTypes /\ SlotInv(s)
  BY SlotFacts DEF TypeInv, SlotsInv
<1>a. page[s] # "none" => at[s] # "none"
  BY <1>0 DEF SlotInv, Fresh
<1>b. page[s] # "none"
  BY DEF Paging, PageCloses, PageCrashes, Chats, RunTests, CleanupEnds,
     WorkerCleanupEnds, Gone
<1>c. ASSUME NEW m, NEW next, Sends(s, m, next)
      PROVE  \A t \in Slots : t # s => mail'[t] = mail[t] /\ page'[t] = page[t]
  BY <1>0, <1>c DEF Sends, PageTypes
<1>d. ASSUME NEW which, Arm(s, which)
      PROVE  \A t \in Slots : t # s => timer'[t] = timer[t]
  BY <1>0, <1>d DEF Arm, SlotTypes
<1>e. ASSUME NEW how, Dies(s, how) PROVE Effect(s)
  BY <1>0, <1>a, <1>b, <1>e DEF Dies, SlotTypes, PageTypes
<1>1. CASE PageCloses(s)
  BY <1>1, <1>e DEF PageCloses
<1>2. CASE PageCrashes(s)
  BY <1>2, <1>e DEF PageCrashes
<1>3. CASE Chats(s)
  BY <1>a, <1>b, <1>c, <1>3 DEF Chats
<1>4. CASE RunTests(s)
  BY <1>a, <1>b, <1>c, <1>d, <1>4 DEF RunTests
<1>5. CASE CleanupEnds(s)
  <2>1. \A t \in Slots : t # s => mail'[t] = mail[t] /\ page'[t] = page[t]
    BY <1>c, <1>5 DEF CleanupEnds
  <2>2. \A t \in Slots : t # s => timer'[t] = timer[t]
    BY <1>d, <1>5 DEF CleanupEnds
  <2>3. \A t \in Slots : t # s => position'[t] = position[t]
    BY <1>0, <1>5 DEF CleanupEnds, PageTypes
  <2> QED BY <1>a, <1>b, <1>5, <2>1, <2>2, <2>3 DEF CleanupEnds
<1>6. CASE WorkerCleanupEnds(s)
  <2>1. \A t \in Slots : t # s => mail'[t] = mail[t] /\ page'[t] = page[t]
    BY <1>c, <1>6 DEF WorkerCleanupEnds
  <2>2. \A t \in Slots : t # s => timer'[t] = timer[t]
    BY <1>d, <1>6 DEF WorkerCleanupEnds
  <2> QED BY <1>a, <1>b, <1>6, <2>1, <2>2 DEF WorkerCleanupEnds
<1> QED BY <1>1, <1>2, <1>3, <1>4, <1>5, <1>6 DEF Paging

LEMMA EffectOfHosting ==
  ASSUME HeadlessAssumption, TypeInv, SlotsInv, NEW s \in Slots, Hosting(s)
  PROVE  Effect(s)
<1> USE DEF Effect, OthersRest, OtherRunsRest, coreVars, runVars, slotVars,
        timerVars, pageVars, mailVars
<1>0. /\ RunOf(s) \in Runs /\ SlotTypes /\ PageTypes /\ SlotInv(s)
  BY SlotFacts DEF TypeInv, SlotsInv
<1>a. at[s] = "none" => Fresh(s) /\ busy[s] = "no"
  BY <1>0 DEF SlotInv
<1>b. at[s] # "none"
  <2>1. "no" \notin FileSet
    BY FilesFacts
  <2> QED BY <1>a, <2>1 DEF Fresh, Hosting, Handle, FileHandled, EventHandled,
     HookThrows, FatalDispatched, RunFails, DeadlinePasses,
     FileOverdue, WorkerOverdue
<1>c. ASSUME MarkDone(s)
      PROVE  \A t \in Slots : t # s =>
               settled'[t] = settled[t] /\ ended'[t] = ended[t]
  BY <1>0, <1>c DEF MarkDone, SlotTypes
<1>1. CASE Handle(s)
  <2>1. \A t \in Slots : t # s =>
          /\ mail'[t] = mail[t] /\ busy'[t] = busy[t]
          /\ settled'[t] = settled[t] /\ ended'[t] = ended[t]
    <3>1. \A t \in Slots : t # s => mail'[t] = mail[t]
      BY <1>0, <1>1 DEF Handle, PageTypes
    <3>2. \A t \in Slots : t # s => busy'[t] = busy[t]
      BY <1>0, <1>1 DEF Handle, PageTypes
    <3>3. \A t \in Slots : t # s =>
            settled'[t] = settled[t] /\ ended'[t] = ended[t]
      BY <1>c, <1>1 DEF Handle
    <3> QED BY <3>1, <3>2, <3>3
  <2>2. \A r \in Runs : r # RunOf(s) => reports'[r] = reports[r]
    BY <1>0, <1>1, RecordEffect DEF Handle
  <2> QED BY <1>b, <1>1, <2>1, <2>2 DEF Handle
<1>2. CASE FileHandled(s)
  BY <1>0, <1>b, <1>c, <1>2 DEF FileHandled, SlotTypes, PageTypes
<1>3. CASE HookThrows(s)
  BY <1>0, <1>b, <1>c, <1>3 DEF HookThrows, PageTypes
<1>4. CASE FatalDispatched(s)
  BY <1>0, <1>b, <1>c, <1>4 DEF FatalDispatched, PageTypes
<1>5. CASE RunFails(s)
  BY <1>0, <1>b, <1>5, CancelEffect DEF RunFails, PageTypes
<1>6. CASE DeadlinePasses(s)
  <2>1. \A t \in Slots : t # s =>
          /\ settled'[t] = settled[t] /\ timer'[t] = timer[t]
          /\ overdue'[t] = overdue[t] /\ completed'[t] = completed[t]
          /\ closing'[t] = closing[t]
    BY <1>0, <1>6 DEF DeadlinePasses, SlotTypes, PageTypes
  <2>2. \A r \in Runs : r # RunOf(s) => reports'[r] = reports[r]
    BY <1>0, <1>6, RecordEffect DEF DeadlinePasses
  <2> QED BY <1>b, <1>6, <2>1, <2>2 DEF DeadlinePasses
<1>7. CASE FileOverdue(s)
  <2>1. \A t \in Slots : t # s =>
          /\ overdue'[t] = overdue[t] /\ completed'[t] = completed[t]
          /\ ended'[t] = ended[t]
    BY <1>0, <1>7 DEF FileOverdue, SlotTypes, PageTypes
  <2>2. \A r \in Runs : r # RunOf(s) => reports'[r] = reports[r]
    BY <1>0, <1>7, RecordEffect DEF FileOverdue
  <2> QED BY <1>b, <1>7, <2>1, <2>2 DEF FileOverdue
<1>8. CASE WorkerOverdue(s)
  BY <1>0, <1>b, <1>8 DEF WorkerOverdue, SlotTypes
<1>9. CASE EventHandled(s)
  BY <1>0, <1>b, <1>9 DEF EventHandled, PageTypes
<1> QED BY <1>1, <1>2, <1>3, <1>4, <1>5, <1>6, <1>7, <1>8, <1>9 DEF Hosting

LEMMA SlotStep ==
  ASSUME HeadlessAssumption, TypeInv, SlotsInv, NEW s \in Slots,
         Work(s) \/ Paging(s) \/ Hosting(s)
  PROVE  Effect(s) /\ TypeInv'
BY EffectOfWork, EffectOfPaging, EffectOfHosting, TypesOfWork, TypesOfPaging,
   TypesOfHosting

-----------------------------------------------------------------------------
(* The session: which runs have begun, which are over and which abandoned.   *)
SessionInv == TokensInv /\ CoreInv /\ RunsInv

LEMMA NextToken ==
  ASSUME NEW x \in Nat
  PROVE  x + 1 \in Nat /\ x < x + 1 /\ \A y \in Nat : y <= x => y < x + 1
OBVIOUS

(* CreateSession, of whichever action: no worker of the run was there.       *)
Creates ==
  /\ phase \in {"starting", "cancelling"} /\ CreateSession
  /\ UNCHANGED <<options, cycle, reports, recorded, cancelled, closing, batch,
                 settled, ended, completed, timer, overdue, page, position,
                 mail, busy>>

(* The cancelling of a run that has rejected, when the next one is asked for.*)
Replaces ==
  /\ phase = "starting" /\ active # 0 /\ phase' = "cancelling"
  /\ Cancel(active, "superseded") /\ fatalError' = FALSE
  /\ UNCHANGED <<options, cycle, reports, recorded, token, active, tokenOf,
                 queue, at, batch, settled, ended, completed, timer, overdue,
                 page, position, mail, busy>>

LEMMA CoreSteps ==
  ASSUME StartCycle \/ RunFiles \/ RunReplaced \/ RunEnds \/ Interrupt
  PROVE  StartCycle \/ Creates \/ Replaces \/ RunEnds \/ Interrupt
BY DEF RunFiles, RunReplaced, Creates, Replaces, CreateSession, timerVars,
       pageVars, mailVars

LEMMA Created ==
  ASSUME TypeInv, TokensInv, CoreInv, Creates
  PROVE  /\ cycle \in Runs /\ phase' = "running" /\ active' = cycle
         /\ token' = token + 1 /\ tokenOf'[cycle] = token'
         /\ queue'[cycle] = Files
         /\ \A r \in Runs : r # cycle =>
              /\ tokenOf'[r] = tokenOf[r] /\ queue'[r] = queue[r]
         /\ \A s \in Slots :
              at'[s] = IF RunOf(s) = cycle /\ s[2] <= options.workers
                       THEN "free" ELSE at[s]
<1>1. cycle \in Runs
  BY DEF TypeInv, CoreTypes, CoreInv, Creates, Runs
<1>2. /\ tokenOf \in [Runs -> Nat] /\ queue \in [Runs -> Seq(FileSet)]
  BY DEF TypeInv, RunTypes
<1>3. /\ tokenOf' = [tokenOf EXCEPT ![cycle] = token + 1]
      /\ queue' = [queue EXCEPT ![cycle] = Files]
      /\ token' = token + 1 /\ active' = cycle /\ phase' = "running"
      /\ at' = [s \in Slots |->
           IF RunOf(s) = cycle /\ s[2] <= options.workers
           THEN "free" ELSE at[s]]
  BY DEF Creates, CreateSession
<1> QED BY <1>1, <1>2, <1>3

LEMMA BegunByCore ==
  ASSUME TypeInv, CoreInv,
         StartCycle \/ Creates \/ Replaces \/ RunEnds \/ Interrupt
  PROVE  \A r \in Runs : Begun(r)' <=> Begun(r) \/ (Creates /\ r = cycle)
<1>1. cycle \in Nat /\ \A r \in Runs : r \in Nat
  BY DEF TypeInv, CoreTypes, Runs
<1>2. CASE StartCycle
  BY <1>1, <1>2 DEF StartCycle, Begun, Creates
<1>3. CASE Creates
  BY <1>1, <1>3 DEF Begun, Creates, CreateSession
<1>4. CASE Replaces
  BY <1>1, <1>4 DEF Begun, Creates, CreateSession, Replaces
<1>5. CASE RunEnds
  BY <1>1, <1>5 DEF Begun, Creates, RunEnds
<1>6. CASE Interrupt
  BY <1>1, <1>6 DEF Begun, Creates, Interrupt, CreateSession
<1> QED BY <1>2, <1>3, <1>4, <1>5, <1>6

LEMMA AbandonedByCore ==
  ASSUME TypeInv, TokensInv, CoreInv,
         StartCycle \/ Creates \/ Replaces \/ RunEnds \/ Interrupt
  PROVE  \A r \in Runs :
           /\ IsCancelled(r) => IsCancelled(r)'
           /\ Abandoned(r) /\ ~(Creates /\ r = cycle) => Abandoned(r)'
<1> SUFFICES ASSUME NEW r \in Runs
             PROVE  /\ IsCancelled(r) => IsCancelled(r)'
                    /\ Abandoned(r) /\ ~(Creates /\ r = cycle) => Abandoned(r)'
  OBVIOUS
<1>1. /\ tokenOf[r] \in Nat /\ token \in Nat /\ tokenOf[r] <= token
      /\ cancelled \in [Runs -> {"no", "superseded", "failed"}]
  BY DEF TypeInv, RunTypes, CoreTypes, TokensInv
<1>2. tokenOf[r] < token + 1 /\ token + 1 \in Nat
  BY <1>1, NextToken
<1>3. CASE StartCycle
  BY <1>3 DEF StartCycle, Abandoned, IsCancelled, isTokenStale, runVars
<1>4. CASE Creates
  <2>1. cancelled'[r] = cancelled[r]
    BY <1>4 DEF Creates
  <2>2. r # cycle => tokenOf'[r] = tokenOf[r] /\ token' = token + 1
    BY <1>4, Created
  <2> QED BY <1>1, <1>2, <1>4, <2>1, <2>2
          DEF Abandoned, IsCancelled, isTokenStale
<1>5. CASE Replaces
  BY <1>1, <1>5 DEF Replaces, Cancel, Abandoned, IsCancelled, isTokenStale
<1>6. CASE RunEnds
  BY <1>6 DEF RunEnds, Abandoned, IsCancelled, isTokenStale
<1>7. CASE Interrupt
  BY <1>1, <1>2, <1>7 DEF Interrupt, Abandoned, IsCancelled, isTokenStale
<1> QED BY <1>3, <1>4, <1>5, <1>6, <1>7

LEMMA TokensByCore ==
  ASSUME TypeInv, TokensInv, CoreInv, RunsInv,
         StartCycle \/ Creates \/ Replaces \/ RunEnds \/ Interrupt
  PROVE  TokensInv'
<1>0. /\ tokenOf \in [Runs -> Nat] /\ token \in Nat /\ cycle \in Nat
      /\ active \in 0 .. MaxRuns
      /\ cancelled \in [Runs -> {"no", "superseded", "failed"}]
      /\ \A r \in Runs : r \in Nat /\ tokenOf[r] < token + 1
  BY NextToken DEF TypeInv, RunTypes, CoreTypes, TokensInv, Runs
<1>1. CASE StartCycle
  <2>1. \A r \in Runs : Begun(r)' <=> Begun(r)
    BY <1>1, BegunByCore DEF Creates, StartCycle
  <2>2. ~Begun(cycle)'
    BY <1>0, <1>1 DEF StartCycle, Begun
  <2> QED BY <1>1, <2>1, <2>2
       DEF StartCycle, TokensInv, runVars, slotVars, isTokenStale, Rejects,
           IsCancelled
<1>2. CASE Creates
  <2>0. /\ cycle \in Runs /\ token' = token + 1 /\ tokenOf'[cycle] = token'
        /\ cycle' = cycle /\ cancelled' = cancelled
        /\ \A r \in Runs : r # cycle => tokenOf'[r] = tokenOf[r]
    BY <1>2, Created DEF Creates
  <2>1. \A r \in Runs : Begun(r)' <=> r <= cycle
    BY <1>0, <1>2 DEF Creates, CreateSession, Begun
  <2>2. \A r \in Runs : r < cycle => Begun(r)
    BY DEF Begun
  <2>3. ~Begun(cycle)
    BY <1>0, <1>2 DEF Begun, Creates
  <2>4. \A r \in Runs : tokenOf'[r] <= token'
    BY <1>0, <2>0
  <2>5. \A r, q \in Runs : Begun(r)' /\ Begun(q)' /\ r < q =>
          tokenOf'[r] < tokenOf'[q]
    BY <1>0, <2>0, <2>1, <2>2 DEF TokensInv
  <2>6. cancelled[cycle] = "no"
    BY <2>0, <2>3 DEF RunsInv, RunInv
  <2>7. \A r \in Runs : cancelled'[r] = "superseded" => isTokenStale(r)'
    BY <1>0, <2>0, <2>6 DEF isTokenStale
  <2> QED BY <2>0, <2>4, <2>5, <2>7 DEF TokensInv
<1>3. CASE Replaces
  <2>1. \A r \in Runs : Begun(r)' <=> Begun(r)
    BY <1>3, BegunByCore DEF Creates, CreateSession, Replaces
  <2>2. ~Begun(cycle)'
    BY <1>0, <1>3 DEF Replaces, Begun
  <2>3. Rejects(active)
    BY <1>3 DEF CoreInv, Replaces
  <2>4. \A r \in Runs : cancelled'[r] = "superseded" =>
          cancelled[r] = "superseded" \/ r = active
    BY <1>0, <1>3 DEF Replaces, Cancel
  <2>5. \A r \in Runs : cancelled'[r] = "superseded" =>
          isTokenStale(r)' \/ Rejects(r)'
    BY <1>3, <2>3, <2>4 DEF Replaces, isTokenStale, Rejects, TokensInv
  <2> QED BY <1>3, <2>1, <2>2, <2>5 DEF Replaces, TokensInv
<1>4. CASE RunEnds
  <2>1. \A r \in Runs : Begun(r)' <=> Begun(r)
    BY <1>4, BegunByCore DEF Creates, RunEnds
  <2>2. Begun(cycle)' => Begun(cycle)
    BY <1>0, <1>4 DEF Begun, RunEnds
  <2> QED BY <1>4, <2>1, <2>2
       DEF RunEnds, TokensInv, slotVars, isTokenStale, Rejects, IsCancelled
<1>5. CASE Interrupt
  <2>1. \A r \in Runs : Begun(r)' <=> Begun(r)
    BY <1>5, BegunByCore DEF Creates, CreateSession, Interrupt
  <2>2. Begun(cycle)' <=> Begun(cycle)
    BY <1>5 DEF Begun, Interrupt
  <2>3. UNCHANGED <<cycle, tokenOf, at>>
    BY <1>5 DEF Interrupt, slotVars
  <2>4. CASE UNCHANGED <<token, cancelled>>
    BY <2>1, <2>2, <2>3, <2>4
       DEF TokensInv, isTokenStale, Rejects, IsCancelled
  <2>5. CASE /\ active # 0 /\ token' = token + 1
             /\ cancelled' = [cancelled EXCEPT ![active] = "superseded"]
    <3>1. Begun(cycle) => active = cycle
      BY <1>0, <2>5 DEF Begun, CoreInv
    <3>2. Begun(cycle) /\ cycle > 0 => cycle \in Runs
      BY <1>0 DEF TypeInv, CoreTypes, Runs
    <3>3. Begun(cycle) /\ cycle > 0 => IsCancelled(cycle)'
      BY <1>0, <2>3, <2>5, <3>1, <3>2 DEF IsCancelled
    <3>4. \A r \in Runs : isTokenStale(r)'
      BY <1>0, <2>3, <2>5 DEF isTokenStale
    <3>5. \A r \in Runs : tokenOf[r] <= token + 1
      BY <1>0
    <3> QED BY <2>1, <2>2, <2>3, <2>5, <3>3, <3>4, <3>5 DEF TokensInv
  <2> QED BY <1>5, <2>4, <2>5 DEF Interrupt
<1> QED BY <1>1, <1>2, <1>3, <1>4, <1>5

LEMMA CoreByCore ==
  ASSUME TypeInv, TokensInv, CoreInv, RunsInv,
         StartCycle \/ Creates \/ Replaces \/ RunEnds \/ Interrupt
  PROVE  CoreInv'
<1>0. cycle \in Nat /\ active \in Nat
  BY DEF TypeInv, CoreTypes
<1>1. CASE StartCycle
  BY <1>0, <1>1 DEF StartCycle, CoreInv, runVars, slotVars, Rejects
<1>2. CASE Creates
  BY <1>0, <1>2, Created DEF Creates, CoreInv
<1>3. CASE Replaces
  BY <1>0, <1>3 DEF Replaces, CoreInv, Rejects
<1>4. CASE RunEnds
  <2>1. active = cycle /\ cycle > 0
    BY <1>4 DEF RunEnds, CoreInv
  <2>2. CASE Rejects(cycle)
    BY <1>0, <1>4, <2>1, <2>2 DEF RunEnds, CoreInv, Rejects, slotVars
  <2>3. CASE ~Rejects(cycle)
    <3>1. \A s \in SlotsOf(cycle) : at[s] \in {"none", "over"}
      BY <1>4, <2>3 DEF RunEnds, DoneSettled, Over, Rejects
    <3> QED BY <1>0, <1>4, <2>1, <2>3, <3>1 DEF RunEnds, CoreInv, Rejects,
       slotVars
  <2> QED BY <2>2, <2>3
<1>5. CASE Interrupt
  BY <1>0, <1>5 DEF Interrupt, CoreInv, Rejects, slotVars
<1> QED BY <1>1, <1>2, <1>3, <1>4, <1>5

LEMMA RunsByCore ==
  ASSUME TypeInv, TokensInv, CoreInv, RunsInv,
         StartCycle \/ Creates \/ Replaces \/ RunEnds \/ Interrupt
  PROVE  RunsInv'
<1>0. /\ cycle \in Nat /\ active \in Nat /\ \A r \in Runs : r \in Nat
      /\ cancelled \in [Runs -> {"no", "superseded", "failed"}]
  BY DEF TypeInv, CoreTypes, RunTypes, Runs
<1> SUFFICES ASSUME NEW r \in Runs PROVE RunInv(r)'
  BY DEF RunsInv
<1>a. RunInv(r)
  BY DEF RunsInv
<1>b. Begun(r)' <=> Begun(r) \/ (Creates /\ r = cycle)
  BY BegunByCore
<1>1. CASE StartCycle
  <2>1. ~(r = cycle /\ phase = "running") /\ ~Creates
    BY <1>1 DEF StartCycle, Creates
  <2>2. UNCHANGED <<queue, cancelled, reports, at>>
    BY <1>1 DEF StartCycle, runVars, slotVars
  <2> QED BY <1>a, <1>b, <2>1, <2>2 DEF RunInv, DoneSettled, Over
<1>2. CASE Creates
  <2>1. /\ cycle \in Runs /\ cycle' = cycle /\ phase' = "running"
        /\ UNCHANGED <<cancelled, reports>>
        /\ r # cycle => queue'[r] = queue[r]
        /\ \A s \in Slots : RunOf(s) # cycle => at'[s] = at[s]
    BY <1>2, Created DEF Creates
  <2>2. CASE r = cycle
    BY <1>2, <1>b, <2>1, <2>2 DEF RunInv
  <2>3. CASE r # cycle
    <3>1. DoneSettled(r) => DoneSettled(r)'
      BY <2>1, <2>3 DEF DoneSettled, Over, SlotsOf
    <3> QED BY <1>a, <1>b, <2>1, <2>3, <3>1 DEF RunInv
  <2> QED BY <2>2, <2>3
<1>3. CASE Replaces
  <2>1. active < cycle
    BY <1>0, <1>3 DEF Replaces, CoreInv
  <2>2. ~Begun(r) => cancelled'[r] = cancelled[r]
    BY <1>0, <1>3, <2>1 DEF Replaces, Cancel, Begun
  <2>3. UNCHANGED <<queue, reports, at, cycle>> /\ ~Creates
    BY <1>3 DEF Replaces, Creates, CreateSession
  <2>4. phase # "running"
    BY <1>3 DEF Replaces
  <2> QED BY <1>a, <1>b, <2>2, <2>3, <2>4 DEF RunInv, DoneSettled, Over
<1>4. CASE RunEnds
  <2>1. UNCHANGED <<queue, cancelled, reports, at, cycle>> /\ ~Creates
    BY <1>4 DEF RunEnds, slotVars, Creates
  <2>2. DoneSettled(cycle)
    BY <1>4 DEF RunEnds
  <2> QED BY <1>a, <1>b, <2>1, <2>2 DEF RunInv, DoneSettled, Over
<1>5. CASE Interrupt
  <2>1. UNCHANGED <<queue, reports, at, cycle, phase>>
    BY <1>5 DEF Interrupt, slotVars
  <2>2. ~Creates
    BY <2>1 DEF Creates, CreateSession
  <2>3. active # 0 => active <= cycle /\ Begun(active)
    BY <1>0 DEF CoreInv, Begun, TypeInv, CoreTypes
  <2>4. ~Begun(r) => cancelled'[r] = cancelled[r]
    BY <1>0, <1>5, <2>3 DEF Interrupt
  <2> QED BY <1>a, <1>b, <2>1, <2>2, <2>4 DEF RunInv, DoneSettled, Over
<1> QED BY <1>1, <1>2, <1>3, <1>4, <1>5

(* A step of a slot.                                                         *)
LEMMA AbandonedBySlot ==
  ASSUME TypeInv, NEW s \in Slots, Effect(s)
  PROVE  \A r \in Runs : /\ IsCancelled(r) => IsCancelled(r)'
                         /\ Abandoned(r) => Abandoned(r)'
                         /\ isTokenStale(r)' <=> isTokenStale(r)
                         /\ Begun(r)' <=> Begun(r)
BY DEF Effect, OtherRunsRest, IsCancelled, Abandoned, isTokenStale, Begun

LEMMA SessionBySlot ==
  ASSUME TypeInv, SessionInv, SlotsInv, NEW s \in Slots, Effect(s)
  PROVE  SessionInv'
<1>0. /\ UNCHANGED <<options, cycle, phase, token, active, tokenOf>>
      /\ RunOf(s) \in Runs
  BY SlotFacts DEF Effect
<1>1. \A t \in Slots : at[t] \in {"none", "over", "rejected"} => at'[t] = at[t]
  BY DEF Effect, OthersRest
<1>2. \A r \in Runs : Begun(r)' <=> Begun(r)
  BY AbandonedBySlot
<1>3. Begun(RunOf(s))
  BY DEF Effect, SlotsInv, SlotInv
<1>4. \A r : Rejects(r) => Rejects(r)'
  BY <1>1 DEF Rejects, SlotsOf
<1>5. \A r \in Runs : DoneSettled(r) => DoneSettled(r)'
  BY <1>1 DEF DoneSettled, Over, SlotsOf
<1>6. TokensInv'
  <2>1. cycle > 0 => cycle \in Runs
    BY DEF TypeInv, CoreTypes, Runs
  <2>2. Begun(cycle)' <=> Begun(cycle)
    BY <1>0 DEF Begun
  <2>3. \A r \in Runs : IsCancelled(r) => IsCancelled(r)'
    BY AbandonedBySlot
  <2>4. \A r \in Runs : /\ cancelled'[r] = "superseded" =>
                             cancelled[r] = "superseded"
                        /\ isTokenStale(r) => isTokenStale(r)'
    BY AbandonedBySlot DEF Effect, OtherRunsRest
  <2> QED BY <1>0, <1>2, <1>4, <2>1, <2>2, <2>3, <2>4
       DEF SessionInv, TokensInv
<1>7. CoreInv'
  BY <1>0, <1>1, <1>4 DEF SessionInv, CoreInv, SlotsOf
<1>8. RunsInv'
  <2> SUFFICES ASSUME NEW r \in Runs PROVE RunInv(r)'
    BY DEF RunsInv
  <2>1. RunInv(r)
    BY DEF SessionInv, RunsInv
  <2>2. ~Begun(r) => r # RunOf(s)
    BY <1>3
  <2>3. ~Begun(r) => /\ queue'[r] = queue[r] /\ cancelled'[r] = cancelled[r]
                     /\ reports'[r] = reports[r]
    BY <2>2 DEF Effect, OtherRunsRest
  <2> QED BY <1>0, <1>2, <1>5, <2>1, <2>3 DEF RunInv
<1> QED BY <1>6, <1>7, <1>8 DEF SessionInv

-----------------------------------------------------------------------------
(* A slot is consistent after each step.                                     *)
LEMMA SlotsByCore ==
  ASSUME HeadlessAssumption, TypeInv, SessionInv, SlotsInv,
         StartCycle \/ Creates \/ Replaces \/ RunEnds \/ Interrupt
  PROVE  SlotsInv'
<1> SUFFICES ASSUME NEW s \in Slots PROVE SlotInv(s)'
  BY DEF SlotsInv
<1>0. /\ SlotInv(s) /\ RunOf(s) \in Runs
      /\ TokensInv /\ CoreInv /\ RunsInv
  BY SlotFacts DEF SlotsInv, SessionInv
<1>1. UNCHANGED <<options, batch, settled, ended, completed, timer, overdue,
                  page, position, mail, busy>>
  BY DEF StartCycle, Creates, Replaces, RunEnds, Interrupt, runVars, slotVars,
         timerVars, pageVars, mailVars
<1>2. CASE Creates /\ RunOf(s) = cycle
  <2>1. ~Begun(cycle) /\ Begun(RunOf(s))'
    <3>1. cycle \in Nat
      BY DEF TypeInv, CoreTypes
    <3> QED BY <1>0, <1>2, <3>1, BegunByCore DEF Creates, Begun
  <2>2. at[s] = "none" /\ Fresh(s) /\ batch[s] = <<>> /\ busy[s] = "no"
    BY <1>0, <1>2, <2>1 DEF SlotInv
  <2>3. at'[s] = IF s[2] <= options.workers THEN "free" ELSE "none"
    BY <1>0, <1>2, <2>2, Created
  <2>4. closing' = closing
    BY <1>2 DEF Creates
  <2>5. Fresh(s)' /\ batch'[s] = <<>>
    BY <1>1, <2>2, <2>4 DEF Fresh
  <2>6. Len(batch'[s]) = 0
    BY <2>5
  <2> QED BY <1>0, <1>1, <1>2, <2>1, <2>2, <2>3, <2>5, <2>6
          DEF SlotInv, Fresh, HasContext
<1>3. CASE ~(Creates /\ RunOf(s) = cycle)
  <2>1. /\ Begun(RunOf(s))' <=> Begun(RunOf(s))
        /\ IsCancelled(RunOf(s)) => IsCancelled(RunOf(s))'
        /\ Abandoned(RunOf(s)) => Abandoned(RunOf(s))'
    BY <1>0, <1>3, BegunByCore, AbandonedByCore
  <2>2. at'[s] = at[s] /\ queue'[RunOf(s)] = queue[RunOf(s)]
    <3>1. CASE Creates
      BY <1>0, <1>3, <3>1, Created
    <3>2. CASE ~Creates
      BY <3>2 DEF StartCycle, Replaces, RunEnds, Interrupt, runVars, slotVars
    <3> QED BY <3>1, <3>2
  <2>3. closing'[s] = closing[s] \/ HasContext(s)
    BY DEF StartCycle, Creates, Replaces, Cancel, RunEnds, Interrupt, pageVars,
           TypeInv, PageTypes
  <2>4. ~HasContext(s) => (Fresh(s)' <=> Fresh(s))
    BY <1>1, <2>3 DEF Fresh
  <2> QED BY <1>0, <1>1, <2>1, <2>2, <2>4 DEF SlotInv, HasContext
<1> QED BY <1>2, <1>3

LEMMA OtherSlots ==
  ASSUME TypeInv, SlotsInv, NEW s \in Slots, Effect(s), NEW t \in Slots \ {s}
  PROVE  SlotInv(t)'
<1>0. SlotInv(t) /\ RunOf(t) \in Runs
  BY SlotFacts DEF SlotsInv
<1>1. /\ at'[t] = at[t] /\ batch'[t] = batch[t] /\ settled'[t] = settled[t]
      /\ ended'[t] = ended[t] /\ completed'[t] = completed[t]
      /\ timer'[t] = timer[t] /\ overdue'[t] = overdue[t]
      /\ page'[t] = page[t] /\ position'[t] = position[t]
      /\ mail'[t] = mail[t] /\ busy'[t] = busy[t] /\ options' = options
      /\ closing'[t] = closing[t] \/ HasContext(t)
      /\ queue[RunOf(t)] = <<>> => queue'[RunOf(t)] = <<>>
  BY <1>0 DEF Effect, OthersRest, OtherRunsRest
<1>2. /\ Begun(RunOf(t))' <=> Begun(RunOf(t))
      /\ IsCancelled(RunOf(t)) => IsCancelled(RunOf(t))'
      /\ Abandoned(RunOf(t)) => Abandoned(RunOf(t))'
  BY <1>0, AbandonedBySlot
<1>3. ~HasContext(t) => (Fresh(t)' <=> Fresh(t))
  BY <1>1 DEF Fresh
<1> QED BY <1>0, <1>1, <1>2, <1>3 DEF SlotInv, HasContext

LEMMA SlotOfWork ==
  ASSUME HeadlessAssumption, TypeInv, SlotsInv, NEW s \in Slots, Work(s)
  PROVE  SlotInv(s)'
<1> USE DEF coreVars, runVars, slotVars, timerVars, pageVars, mailVars
<1>0. /\ RunOf(s) \in Runs /\ RunTypes /\ SlotTypes /\ PageTypes /\ SlotInv(s)
      /\ Effect(s) /\ options' = options /\ at[s] # "none"
  BY SlotFacts, EffectOfWork DEF TypeInv, SlotsInv, Effect
<1>a. /\ Begun(RunOf(s))' <=> Begun(RunOf(s))
      /\ IsCancelled(RunOf(s)) => IsCancelled(RunOf(s))'
      /\ Abandoned(RunOf(s)) => Abandoned(RunOf(s))'
  BY <1>0, AbandonedBySlot
<1>b. "no" \notin FileSet /\ "collect" \notin FileSet
  BY FilesFacts
<1>1. CASE PickNext(s)
  <2>1. CASE at' = [at EXCEPT ![s] = "draining"] /\ UNCHANGED <<queue, batch>>
    BY <1>0, <1>a, <1>1, <2>1
       DEF PickNext, SlotInv, Fresh, HasContext, SlotTypes
  <2>2. CASE /\ at' = [at EXCEPT ![s] = "context"]
             /\ batch' = [batch EXCEPT ![s] = BatchOf(RunOf(s))]
    <3>1. queue[RunOf(s)] # <<>> /\ queue[RunOf(s)] \in Seq(FileSet)
      BY <1>0, <1>1 DEF PickNext, RunTypes
    <3>2. PICK n \in 1 .. Len(queue[RunOf(s)]) :
            /\ Len(BatchOf(RunOf(s))) = n
            /\ options.isolate \/ options.bail > 0 => n = 1
      BY <1>0, <3>1, BatchFacts
    <3>3. /\ batch'[s] = BatchOf(RunOf(s)) /\ at'[s] = "context"
          /\ at[s] = "free" /\ ~Abandoned(RunOf(s))
      BY <1>0, <1>1, <2>2 DEF PickNext, SlotTypes
    <3>4. /\ batch'[s] # <<>>
          /\ (options.isolate \/ options.bail > 0 => Len(batch'[s]) <= 1)
      <4>1. n >= 1
        BY <3>1, <3>2
      <4> QED BY <3>2, <3>3, <4>1
    <3>5. Fresh(s) /\ Fresh(s)'
      BY <1>0, <1>1, <3>3 DEF PickNext, SlotInv, Fresh
    <3> HIDE <2>2
    <3> QED BY <1>0, <1>a, <1>b, <3>3, <3>4, <3>5 DEF SlotInv, Fresh, HasContext
  <2> QED BY <1>1, <2>1, <2>2 DEF PickNext
<1>2. CASE Drain(s)
  BY <1>0, <1>a, <1>2 DEF Drain, SlotInv, Fresh, HasContext, SlotTypes
<1>3. CASE WorkerEnds(s)
  BY <1>0, <1>a, <1>3 DEF WorkerEnds, SlotInv, Fresh, HasContext, SlotTypes
<1>4. CASE ContextOpens(s)
  <2>1. 1 \in 1 .. Len(batch[s])
    BY <1>0, <1>4 DEF ContextOpens, SlotInv, SlotTypes
  <2> QED BY <1>0, <1>a, <1>4, <2>1
       DEF ContextOpens, SlotInv, Fresh, HasContext, SlotTypes, PageTypes
<1>5. CASE ContextFails(s)
  BY <1>0, <1>a, <1>5 DEF ContextFails, SlotInv, Fresh, HasContext, SlotTypes
<1>6. CASE Races(s)
  BY <1>0, <1>a, <1>6 DEF Races, Goes, SlotInv, Fresh, HasContext, SlotTypes
<1>7. CASE Failed(s)
  BY <1>0, <1>a, <1>7 DEF Failed, Goes, SlotInv, Fresh, HasContext, SlotTypes
<1>8. CASE Leaves(s)
  <2>1. at[s] = "cancelling" => Abandoned(RunOf(s))
    BY <1>0 DEF SlotInv, Abandoned
  <2> QED BY <1>0, <1>a, <1>8, <2>1
       DEF Leaves, Leave, SlotInv, Fresh, HasContext, SlotTypes, PageTypes
<1>9. CASE FailRun(s)
  <2>1. IsCancelled(RunOf(s))'
    BY <1>0, <1>9 DEF FailRun, Cancel, IsCancelled, RunTypes
  <2> QED BY <1>0, <1>a, <1>9, <2>1
       DEF FailRun, SlotInv, Fresh, HasContext, SlotTypes
<1>10. CASE PageIsClosed(s)
  <2>1. /\ at[s] = "closing" /\ ended[s] = "done" /\ timer[s] = "off"
        /\ overdue[s] = "no" /\ busy[s] \in {"no", "collect"}
    BY <1>0, <1>10 DEF PageIsClosed, SlotInv, HasContext
  <2>2. Fresh(s)' /\ batch'[s] = <<>> /\ at'[s] = "free" /\ busy' = busy
    BY <1>0, <1>10, <2>1 DEF PageIsClosed, Fresh, SlotTypes, PageTypes
  <2>3. Len(batch'[s]) = 0
    BY <2>2
  <2> QED BY <1>0, <1>a, <1>b, <2>1, <2>2, <2>3 DEF SlotInv, Fresh, HasContext
<1> QED BY <1>1, <1>2, <1>3, <1>4, <1>5, <1>6, <1>7, <1>8, <1>9, <1>10
        DEF Work

LEMMA SlotOfPaging ==
  ASSUME HeadlessAssumption, TypeInv, SlotsInv, NEW s \in Slots, Paging(s)
  PROVE  SlotInv(s)'
<1> USE DEF coreVars, runVars, slotVars, timerVars, pageVars, mailVars
<1>0. /\ RunOf(s) \in Runs /\ SlotTypes /\ PageTypes /\ SlotInv(s)
      /\ Effect(s) /\ options' = options /\ at[s] # "none"
  BY SlotFacts, EffectOfPaging DEF TypeInv, SlotsInv, Effect
<1>a. /\ Begun(RunOf(s))' <=> Begun(RunOf(s))
      /\ IsCancelled(RunOf(s)) => IsCancelled(RunOf(s))'
      /\ Abandoned(RunOf(s)) => Abandoned(RunOf(s))'
  BY <1>0, AbandonedBySlot
<1>b. /\ page[s] # "none" /\ UNCHANGED <<at, batch, queue, completed, overdue,
                                         busy, closing>>
  BY DEF Paging, PageCloses, PageCrashes, Dies, Chats, RunTests, CleanupEnds,
         WorkerCleanupEnds, Gone
<1>c. /\ position[s] \in 1 .. Len(batch[s]) /\ Len(batch[s]) \in Nat
      /\ at[s] \notin {"none", "draining", "context", "rejected"}
      /\ at[s] \in {"free", "over"} => Abandoned(RunOf(s))
  BY <1>0, <1>b, InTurn DEF SlotInv, Fresh
<1>d. ASSUME NEW m, NEW next, Sends(s, m, next)
      PROVE  page'[s] = next
  BY <1>0, <1>d DEF Sends, PageTypes
<1>e. ASSUME NEW which, Arm(s, which)
      PROVE  timer'[s] = IF HasContext(s) THEN which ELSE "off"
  BY <1>0, <1>e DEF Arm, SlotTypes, Handled, HasContext, SlotInv
<1>f. ASSUME NEW how \in {"closed", "dead"}, Dies(s, how)
      PROVE  SlotInv(s)'
  <2>1. /\ page'[s] = how
        /\ UNCHANGED <<timer, position>>
        /\ \/ UNCHANGED <<settled, ended>>
           \/ ~settled[s] /\ settled'[s] = TRUE /\ ended'[s] = "crash"
    BY <1>0, <1>f DEF Dies, SlotTypes, PageTypes
  <2> QED BY <1>0, <1>a, <1>b, <1>c, <2>1 DEF SlotInv, HasContext
<1>1. CASE PageCloses(s)
  BY <1>1, <1>f DEF PageCloses
<1>2. CASE PageCrashes(s)
  BY <1>2, <1>f DEF PageCrashes
<1>g. CASE Chats(s) \/ RunTests(s) \/ CleanupEnds(s) \/ WorkerCleanupEnds(s)
  <2>1. UNCHANGED <<settled, ended>>
    BY <1>g DEF Chats, RunTests, CleanupEnds, WorkerCleanupEnds
  <2>2. /\ position'[s] \in 1 .. Len(batch[s])
        /\ page'[s] # "none"
        /\ timer'[s] # "off" => HasContext(s)
        /\ page'[s] = "worker" => timer'[s] # "file" /\ position'[s] = Len(batch[s])
    <3>1. CASE Chats(s)
      BY <1>0, <1>c, <1>d, <3>1 DEF Chats, SlotInv
    <3>2. CASE RunTests(s)
      BY <1>0, <1>c, <1>d, <1>e, <3>2 DEF RunTests, SlotInv
    <3>3. CASE CleanupEnds(s)
      <4>1. CASE isTokenStale(RunOf(s))
        BY <1>0, <1>c, <1>d, <3>3, <4>1 DEF CleanupEnds, SlotInv
      <4>2. CASE ~isTokenStale(RunOf(s)) /\ position[s] = Len(batch[s])
        BY <1>0, <1>c, <1>d, <1>e, <3>3, <4>2 DEF CleanupEnds, SlotInv
      <4>3. CASE ~isTokenStale(RunOf(s)) /\ position[s] # Len(batch[s])
        <5>1. position[s] + 1 \in 1 .. Len(batch[s])
          BY <1>c, <4>3
        <5>2. page'[s] = "test"
          BY <1>d, <3>3, <4>3 DEF CleanupEnds
        <5>3. position'[s] = position[s] + 1 /\ Arm(s, "off")
          BY <1>0, <3>3, <4>3 DEF CleanupEnds, PageTypes
        <5> QED BY <1>e, <5>1, <5>2, <5>3
      <4> QED BY <4>1, <4>2, <4>3
    <3>4. CASE WorkerCleanupEnds(s)
      <4>1. page'[s] = "over" /\ position' = position
        BY <1>d, <3>4 DEF WorkerCleanupEnds
      <4>2. timer'[s] # "off" => HasContext(s)
        BY <1>0, <1>e, <3>4 DEF WorkerCleanupEnds, SlotInv
      <4> QED BY <1>c, <4>1, <4>2
    <3> QED BY <1>g, <3>1, <3>2, <3>3, <3>4
  <2> QED BY <1>0, <1>a, <1>b, <1>c, <2>1, <2>2 DEF SlotInv, HasContext
<1> QED BY <1>1, <1>2, <1>g DEF Paging

LEMMA SlotOfHosting ==
  ASSUME HeadlessAssumption, TypeInv, SlotsInv, NEW s \in Slots, Hosting(s),
         MailInv(s)
  PROVE  SlotInv(s)'
<1> USE DEF coreVars, runVars, slotVars, timerVars, pageVars, mailVars
<1>0. /\ RunOf(s) \in Runs /\ SlotTypes /\ PageTypes /\ SlotInv(s)
      /\ Effect(s) /\ options' = options /\ at[s] # "none"
  BY SlotFacts, EffectOfHosting DEF TypeInv, SlotsInv, Effect
<1>a. /\ Begun(RunOf(s))' <=> Begun(RunOf(s))
      /\ IsCancelled(RunOf(s)) => IsCancelled(RunOf(s))'
      /\ Abandoned(RunOf(s)) => Abandoned(RunOf(s))'
  BY <1>0, AbandonedBySlot
<1>b. /\ "no" \notin FileSet /\ "collect" \notin FileSet
      /\ "coverage" \notin FileSet /\ "event" \notin FileSet
  BY FilesFacts
<1>c. UNCHANGED <<at, batch, queue, page, position>>
  BY DEF Hosting, Handle, FileHandled, EventHandled, HookThrows,
     FatalDispatched, RunFails, Cancel, DeadlinePasses, FileOverdue,
     WorkerOverdue
<1>d. ASSUME MarkDone(s)
      PROVE  /\ settled'[s]
             /\ ended'[s] = IF settled[s] THEN ended[s] ELSE "done"
  BY <1>0, <1>d DEF MarkDone, SlotTypes
<1>1. CASE Handle(s)
  <2>1. /\ busy[s] = "no" /\ mail[s] # <<>> /\ mail[s] \in Seq(Messages)
        /\ UNCHANGED <<completed, timer, overdue, closing>>
    BY <1>0, <1>1 DEF Handle, PageTypes
  <2> DEFINE m == Head(mail[s])
  <2>2. m = mail[s][1] /\ m \in Messages /\ 1 \in DOMAIN mail[s]
    <3>1. Len(mail[s]) \in Nat \ {0} /\ m = mail[s][1] /\ m \in Messages
      BY <2>1, PopFacts
    <3> QED BY <2>1, <3>1
  <2>3. m.type \in {"file", "start", "case", "complete", "fatal"}
    BY <2>2, MessageFacts
  <2>4. ~Fresh(s)
    BY <2>1 DEF Fresh
  <2>5. CASE settled[s]
    <3>1. UNCHANGED <<settled, ended, busy>>
      BY <1>1, <2>5 DEF Handle
    <3> QED BY <1>0, <1>a, <1>c, <2>1, <2>4, <3>1 DEF SlotInv, HasContext
  <2>6. CASE ~settled[s] /\ m.type = "fatal"
    <3>1. busy'[s] = "coverage" /\ UNCHANGED <<settled, ended>>
      BY <1>0, <1>1, <2>6 DEF Handle, PageTypes
    <3> QED BY <1>0, <1>a, <1>b, <1>c, <2>1, <2>4, <2>6, <3>1
            DEF SlotInv, HasContext
  <2>7. CASE ~settled[s] /\ m.type = "complete"
    <3>1. settled'[s] /\ ended'[s] = "done" /\ busy' = busy
      BY <1>1, <1>d, <2>7 DEF Handle
    <3> QED BY <1>0, <1>a, <1>c, <2>1, <2>4, <2>7, <3>1
            DEF SlotInv, HasContext
  <2>8. CASE ~settled[s] /\ m.type = "file"
    <3>1. busy'[s] = m.file /\ UNCHANGED <<settled, ended>>
      BY <1>0, <1>1, <2>8 DEF Handle, PageTypes
    <3>2. m.file \in ToSet(batch[s])
      BY <2>2, <2>8 DEF MailInv
    <3> QED BY <1>0, <1>a, <1>c, <2>1, <2>4, <2>8, <3>1, <3>2
            DEF SlotInv, HasContext
  <2>9. CASE ~settled[s] /\ m.type \in {"start", "case"}
    <3>1. busy'[s] \in {"no", "event"} /\ UNCHANGED <<settled, ended>>
      BY <1>0, <1>1, <2>1, <2>9 DEF Handle, PageTypes
    <3> QED BY <1>0, <1>a, <1>b, <1>c, <2>1, <2>4, <2>9, <3>1
            DEF SlotInv, HasContext
  <2> QED BY <2>3, <2>5, <2>6, <2>7, <2>8, <2>9
<1>2. CASE FileHandled(s)
  <2>1. /\ busy[s] \in FileSet /\ busy'[s] = "no"
        /\ UNCHANGED <<timer, overdue>>
        /\ completed'[s] = completed[s] \cup {busy[s]}
    BY <1>0, <1>2 DEF FileHandled, SlotTypes, PageTypes
  <2>2. \/ UNCHANGED <<settled, ended>>
        \/ settled'[s] /\ ended'[s] = IF settled[s] THEN ended[s] ELSE "done"
    BY <1>2, <1>d DEF FileHandled
  <2>3. ~Fresh(s)
    BY <1>b, <2>1 DEF Fresh
  <2> QED BY <1>0, <1>a, <1>b, <1>c, <2>1, <2>2, <2>3 DEF SlotInv, HasContext
<1>3. CASE HookThrows(s) \/ FatalDispatched(s)
  <2>1. /\ busy[s] \in FileSet \cup {"coverage", "event"}
        /\ busy'[s] = "collect"
        /\ UNCHANGED <<completed, timer, overdue>>
        /\ settled'[s] /\ ended'[s] = IF settled[s] THEN ended[s] ELSE "done"
    BY <1>0, <1>3, <1>d DEF HookThrows, FatalDispatched, PageTypes
  <2>3. ~Fresh(s)
    BY <1>b, <2>1 DEF Fresh
  <2> QED BY <1>0, <1>a, <1>b, <1>c, <2>1, <2>3 DEF SlotInv, HasContext
<1>4. CASE RunFails(s)
  <2>1. /\ busy[s] = "collect" /\ busy'[s] = "no"
        /\ UNCHANGED <<settled, ended, completed, timer, overdue, mail>>
        /\ ~HasContext(s) => closing'[s] = closing[s]
    BY <1>0, <1>4 DEF RunFails, Cancel, PageTypes
  <2>2. ~HasContext(s) => (Fresh(s) => Fresh(s)')
    BY <1>c, <2>1 DEF Fresh
  <2> QED BY <1>0, <1>a, <1>b, <1>c, <2>1, <2>2 DEF SlotInv, HasContext
<1>5. CASE DeadlinePasses(s)
  <2>1. /\ HasContext(s) /\ busy[s] = "no" /\ busy' = busy /\ ended' = ended
        /\ timer'[s] = "off" /\ timer[s] \in {"file", "worker"}
    BY <1>0, <1>5 DEF DeadlinePasses, SlotInv, SlotTypes
  <2>2. CASE settled[s]
    <3>1. UNCHANGED <<settled, overdue, completed>>
      BY <1>5, <2>2 DEF DeadlinePasses
    <3> QED BY <1>0, <1>a, <1>c, <2>1, <3>1 DEF SlotInv, HasContext
  <2>3. CASE ~settled[s]
    <3>1. settled'[s] /\ overdue'[s] = timer[s]
      BY <1>0, <1>5, <2>3 DEF DeadlinePasses, SlotTypes
    <3>2. page[s] # "none"
      BY <1>0, <2>1 DEF SlotInv
    <3>3. batch[s][position[s]] \in ToSet(batch[s])
      BY <1>0, <3>2, InTurn
    <3>4. completed'[s] \subseteq ToSet(batch[s])
      <4>1. \/ completed'[s] = completed[s]
            \/ completed'[s] = completed[s] \cup {batch[s][position[s]]}
        BY <1>0, <1>5, <2>3 DEF DeadlinePasses, SlotTypes
      <4> QED BY <1>0, <3>3, <4>1 DEF SlotInv
    <3> QED BY <1>0, <1>a, <1>c, <2>1, <2>3, <3>1, <3>4 DEF SlotInv, HasContext
  <2> QED BY <2>2, <2>3
<1>6. CASE FileOverdue(s)
  <2>1. /\ overdue[s] = "file" /\ UNCHANGED <<settled, timer, busy>>
        /\ settled[s] /\ ended[s] = "no" /\ busy[s] = "no"
    BY <1>0, <1>6 DEF FileOverdue, SlotInv
  <2>2. CASE Pending(s) = {}
    <3>1. overdue'[s] = "no" /\ ended'[s] = "done" /\ completed' = completed
      BY <1>0, <1>6, <2>2 DEF FileOverdue, SlotTypes
    <3> QED BY <1>0, <1>a, <1>b, <1>c, <2>1, <3>1 DEF SlotInv, Fresh, HasContext
  <2>3. CASE Pending(s) # {}
    <3>1. UNCHANGED <<overdue, ended>>
      BY <1>6, <2>3 DEF FileOverdue
    <3>2. completed'[s] = completed[s] \cup {batch[s][Min(Pending(s))]}
      BY <1>0, <1>6, <2>3 DEF FileOverdue, SlotTypes
    <3>3. batch[s][Min(Pending(s))] \in ToSet(batch[s])
      <4>1. batch[s] \in Seq(FileSet)
        BY <1>0 DEF SlotTypes
      <4>2. Min(Pending(s)) \in DOMAIN batch[s]
        BY <2>3, <4>1, NextPending DEF Pending
      <4> QED BY <4>1, <4>2, InSet
    <3> QED BY <1>0, <1>a, <1>c, <2>1, <3>1, <3>2, <3>3
            DEF SlotInv, Fresh, HasContext
  <2> QED BY <2>2, <2>3
<1>7. CASE WorkerOverdue(s)
  <2>1. /\ overdue[s] = "worker" /\ overdue'[s] = "no" /\ ended'[s] = "done"
        /\ UNCHANGED <<settled, completed, timer, busy>>
    BY <1>0, <1>7 DEF WorkerOverdue, SlotTypes
  <2> QED BY <1>0, <1>a, <1>b, <1>c, <2>1 DEF SlotInv, Fresh, HasContext
<1>8. CASE EventHandled(s)
  <2>1. /\ busy[s] = "event" /\ busy'[s] = "no" /\ ~Fresh(s)
        /\ UNCHANGED <<settled, ended, completed, timer, overdue>>
    BY <1>0, <1>8 DEF EventHandled, PageTypes, Fresh
  <2> QED BY <1>0, <1>a, <1>b, <1>c, <2>1 DEF SlotInv, HasContext
<1> QED BY <1>1, <1>2, <1>3, <1>4, <1>5, <1>6, <1>7, <1>8 DEF Hosting

LEMMA SlotsBySlot ==
  ASSUME HeadlessAssumption, TypeInv, SlotsInv, NEW s \in Slots, MailInv(s),
         Work(s) \/ Paging(s) \/ Hosting(s)
  PROVE  SlotsInv'
<1>1. Effect(s)
  BY SlotStep
<1>2. SlotInv(s)'
  BY SlotOfWork, SlotOfPaging, SlotOfHosting
<1>3. \A t \in Slots \ {s} : SlotInv(t)'
  BY <1>1, OtherSlots
<1> QED BY <1>2, <1>3 DEF SlotsInv

-----------------------------------------------------------------------------
(* Each file is in one place and is recorded once.                           *)
LEMMA CutApart ==
  ASSUME NEW S, NEW q \in Seq(S), IsInjective(q), NEW n \in 0 .. Len(q)
  PROVE  /\ IsInjective(SubSeq(q, 1, n))
         /\ IsInjective(SubSeq(q, n + 1, Len(q)))
         /\ \A x : x \in ToSet(q) <=> \/ x \in ToSet(SubSeq(q, 1, n))
                                      \/ x \in ToSet(SubSeq(q, n + 1, Len(q)))
         /\ \A x : ~(x \in ToSet(SubSeq(q, 1, n))
                       /\ x \in ToSet(SubSeq(q, n + 1, Len(q))))
<1> DEFINE a == SubSeq(q, 1, n)
           b == SubSeq(q, n + 1, Len(q))
<1>1. /\ a \in Seq(S) /\ b \in Seq(S) /\ Len(a) = n /\ Len(b) = Len(q) - n
      /\ \A i \in 1 .. n : a[i] = q[i]
      /\ \A i \in 1 .. Len(q) - n : b[i] = q[n + i]
  BY CutFacts
<1>2. /\ Len(q) \in Nat /\ n \in Nat /\ n <= Len(q)
      /\ \A i, j \in 1 .. Len(q) : q[i] = q[j] => i = j
  BY DEF IsInjective
<1> HIDE DEF a, b
<1>3. IsInjective(a)
  BY <1>1, <1>2 DEF IsInjective
<1>4. \A i \in 1 .. Len(q) - n : n + i \in 1 .. Len(q)
  BY <1>2
<1>5. IsInjective(b)
  <2> SUFFICES ASSUME NEW i \in 1 .. Len(b), NEW j \in 1 .. Len(b), b[i] = b[j]
               PROVE  i = j
    BY <1>1 DEF IsInjective
  <2>1. q[n + i] = q[n + j] /\ n + i \in 1 .. Len(q) /\ n + j \in 1 .. Len(q)
    BY <1>1, <1>4
  <2>2. n + i = n + j
    BY <1>2, <2>1
  <2> QED BY <1>2, <2>2
<1>6. /\ \A x : x \in ToSet(q) <=> \E i \in 1 .. Len(q) : x = q[i]
      /\ \A x : x \in ToSet(a) <=> \E i \in 1 .. n : x = q[i]
      /\ \A x : x \in ToSet(b) <=> \E i \in 1 .. Len(q) - n : x = q[n + i]
  <2>1. \A x : x \in ToSet(q) <=> \E i \in 1 .. Len(q) : x = q[i]
    BY InSet
  <2>2. \A x : x \in ToSet(a) <=> \E i \in 1 .. n : x = q[i]
    BY <1>1, InSet
  <2>3. \A x : x \in ToSet(b) <=> \E i \in 1 .. Len(q) - n : x = q[n + i]
    BY <1>1, InSet
  <2> QED BY <2>1, <2>2, <2>3
<1>7. ASSUME NEW x PROVE x \in ToSet(q) <=> x \in ToSet(a) \/ x \in ToSet(b)
  <2>1. ASSUME NEW i \in 1 .. Len(q), x = q[i]
        PROVE  x \in ToSet(a) \/ x \in ToSet(b)
    <3>1. CASE i <= n
      BY <1>2, <1>6, <2>1, <3>1
    <3>2. CASE i > n
      <4>1. i - n \in 1 .. Len(q) - n /\ n + (i - n) = i
        BY <1>2, <3>2
      <4> QED BY <1>6, <2>1, <4>1
    <3> QED BY <1>2, <3>1, <3>2
  <2>2. \A i \in 1 .. n : i \in 1 .. Len(q)
    BY <1>2
  <2> QED BY <1>4, <1>6, <2>1, <2>2
<1>8. ASSUME NEW x, x \in ToSet(a), x \in ToSet(b) PROVE FALSE
  <2>0. PICK i \in 1 .. n : x = q[i]
    BY <1>6, <1>8
  <2>1. PICK j \in 1 .. Len(q) - n : x = q[n + j]
    BY <1>6, <1>8
  <2>2. i \in 1 .. Len(q) /\ n + j \in 1 .. Len(q) /\ i # n + j
    BY <1>2, <1>4
  <2> QED BY <1>2, <2>0, <2>1, <2>2
<1> QED BY <1>3, <1>5, <1>7, <1>8 DEF a, b

LEMMA TailApart ==
  ASSUME NEW S, NEW q \in Seq(S), IsInjective(q), q # <<>>
  PROVE  /\ IsInjective(Tail(q)) /\ Head(q) \in ToSet(q)
         /\ Head(q) \notin ToSet(Tail(q)) /\ ToSet(Tail(q)) \subseteq ToSet(q)
<1>1. /\ Tail(q) \in Seq(S) /\ Len(Tail(q)) = Len(q) - 1 /\ Head(q) = q[1]
      /\ \A i \in 1 .. Len(q) - 1 : Tail(q)[i] = q[i + 1]
      /\ Len(q) \in Nat \ {0}
  BY PopFacts
<1> DEFINE t == Tail(q)
<1>2. /\ \A i, j \in 1 .. Len(q) : q[i] = q[j] => i = j
      /\ \A i \in 1 .. Len(q) - 1 : i + 1 \in 1 .. Len(q) /\ i + 1 # 1
      /\ 1 \in 1 .. Len(q)
  BY <1>1 DEF IsInjective
<1>3. /\ \A x : x \in ToSet(q) <=> \E i \in 1 .. Len(q) : x = q[i]
      /\ \A x : x \in ToSet(t) <=> \E i \in 1 .. Len(q) - 1 : x = q[i + 1]
  <2>1. \A x : x \in ToSet(q) <=> \E i \in 1 .. Len(q) : x = q[i]
    BY InSet
  <2>3. \A x : x \in ToSet(t) <=> \E i \in 1 .. Len(t) : x = t[i]
    BY <1>1, InSet
  <2>4. 1 .. Len(t) = 1 .. Len(q) - 1
    BY <1>1
  <2>5. \A i \in 1 .. Len(q) - 1 : t[i] = q[i + 1]
    BY <1>1
  <2> HIDE DEF t
  <2>2. \A x : x \in ToSet(t) <=> \E i \in 1 .. Len(q) - 1 : x = q[i + 1]
    BY <2>3, <2>4, <2>5
  <2> QED BY <2>1, <2>2
<1> HIDE DEF t
<1>4. IsInjective(t)
  <2> SUFFICES ASSUME NEW i \in 1 .. Len(t), NEW j \in 1 .. Len(t), t[i] = t[j]
               PROVE  i = j
    BY <1>1 DEF IsInjective, t
  <2>1. i \in 1 .. Len(q) - 1 /\ j \in 1 .. Len(q) - 1 /\ q[i + 1] = q[j + 1]
    BY <1>1 DEF t
  <2>2. i + 1 = j + 1
    BY <1>2, <2>1
  <2> QED BY <1>1, <2>1, <2>2
<1>5. Head(q) \in ToSet(q) /\ Head(q) \notin ToSet(t) /\ ToSet(t) \subseteq ToSet(q)
  BY <1>1, <1>2, <1>3
<1> QED BY <1>4, <1>5 DEF t

(* What a step of a slot records: a file of its batch, or the head of the    *)
(* queue that it drains, neither of which has been.                          *)
Adds(r, f) == reports' = [reports EXCEPT ![r][f] = @ + 1]

Recording(s) ==
  \/ reports' = reports
  \/ /\ UNCHANGED <<queue, batch>>
     /\ \E f \in ToSet(batch[s]) : Unrecorded(s, f) /\ Adds(RunOf(s), f)
  \/ Drain(s) /\ queue[RunOf(s)] # <<>>

LEMMA RecordingFacts ==
  ASSUME HeadlessAssumption, TypeInv, SlotsInv, NEW s \in Slots, MailInv(s),
         OverdueInv(s), Work(s) \/ Paging(s) \/ Hosting(s)
  PROVE  Recording(s)
<1> USE DEF coreVars, runVars, slotVars, timerVars, pageVars, mailVars
<1>0. SlotInv(s) /\ batch[s] \in Seq(FileSet)
  BY DEF SlotsInv, TypeInv, SlotTypes
<1>1. CASE Work(s)
  BY <1>1 DEF Work, Recording, PickNext, Drain, WorkerEnds, ContextOpens,
     ContextFails, Races, Failed, Leaves, Leave, Goes, FailRun, PageIsClosed
<1>2. CASE Paging(s)
  BY <1>2 DEF Paging, Recording, PageCloses, PageCrashes, Dies, Chats, RunTests,
     CleanupEnds, WorkerCleanupEnds
<1>3. CASE Hosting(s)
  <2>1. CASE Handle(s) /\ reports' # reports
    <3> DEFINE m == Head(mail[s])
    <3>1. mail[s] \in Seq(Messages) /\ mail[s] # <<>>
      BY <2>1 DEF Handle, TypeInv, PageTypes
    <3>2. m = mail[s][1] /\ m \in Messages /\ 1 \in DOMAIN mail[s]
      <4>1. Len(mail[s]) \in Nat \ {0} /\ m = mail[s][1] /\ m \in Messages
        BY <3>1, PopFacts
      <4> QED BY <3>1, <4>1
    <3>3. /\ ~settled[s] /\ m.type = "file"
          /\ Record(RunOf(s), m.file, m.status, m.counts, "page")
      <4>1. m.type \in {"file", "start", "case", "complete", "fatal"}
        BY <3>2, MessageFacts
      <4> QED BY <2>1, <4>1 DEF Handle
    <3>4. m.file \in ToSet(batch[s]) /\ Unrecorded(s, m.file)
      BY <3>2, <3>3 DEF MailInv
    <3>5. UNCHANGED <<queue, batch>>
      BY <2>1 DEF Handle
    <3> QED BY <3>3, <3>4, <3>5 DEF Recording, Adds, Record
  <2>2. CASE DeadlinePasses(s) /\ reports' # reports
    <3>1. /\ ~settled[s] /\ timer[s] = "file" /\ UNCHANGED <<queue, batch>>
          /\ \E n \in Counts(s) :
               Record(RunOf(s), batch[s][position[s]], "fail", n, "deadline")
      BY <2>2 DEF DeadlinePasses
    <3>2. /\ position[s] \in DOMAIN batch[s]
          /\ batch[s][position[s]] \in ToSet(batch[s])
      BY <1>0, <3>1, InTurn DEF SlotInv
    <3>3. Unrecorded(s, batch[s][position[s]])
      BY <3>1, <3>2 DEF MailInv, Unsent
    <3> QED BY <3>1, <3>2, <3>3 DEF Recording, Adds, Record
  <2>3. CASE FileOverdue(s) /\ reports' # reports
    <3>1. /\ overdue[s] = "file" /\ Pending(s) # {} /\ UNCHANGED <<queue, batch>>
          /\ Record(RunOf(s), batch[s][Min(Pending(s))], "fail", 1, "deadline")
      BY <2>3 DEF FileOverdue
    <3>2. /\ Min(Pending(s)) \in DOMAIN batch[s]
          /\ batch[s][Min(Pending(s))] \notin completed[s]
      BY <1>0, <3>1, NextPending DEF Pending
    <3>3. batch[s][Min(Pending(s))] \in ToSet(batch[s])
      BY <1>0, <3>2, InSet
    <3>4. Unrecorded(s, batch[s][Min(Pending(s))])
      BY <3>1, <3>2, <3>3 DEF OverdueInv
    <3> QED BY <3>1, <3>3, <3>4 DEF Recording, Adds, Record
  <2> QED BY <1>3, <2>1, <2>2, <2>3 DEF Hosting, Recording, Handle, FileHandled,
     EventHandled, HookThrows, FatalDispatched, RunFails, DeadlinePasses,
     FileOverdue, WorkerOverdue
<1> QED BY <1>1, <1>2, <1>3

LEMMA AddsFacts ==
  ASSUME TypeInv, NEW r \in Runs, NEW f \in FileSet, Adds(r, f)
  PROVE  /\ reports'[r][f] = reports[r][f] + 1
         /\ \A q \in Runs, g \in FileSet :
              q # r \/ g # f => reports'[q][g] = reports[q][g]
BY DEF TypeInv, RunTypes, Adds

(* How the queues and the batches change.                                    *)
LEMMA QueuesChange ==
  ASSUME NEW s \in Slots, Work(s) \/ Paging(s) \/ Hosting(s)
  PROVE  \/ UNCHANGED <<queue, batch>>
         \/ PickNext(s) \/ Drain(s) \/ PageIsClosed(s)
BY DEF Work, WorkerEnds, ContextOpens, ContextFails, Races, Failed, Leaves,
     Leave, Goes, FailRun, Paging, PageCloses, PageCrashes, Dies, Chats,
     RunTests, CleanupEnds, WorkerCleanupEnds, Hosting, Handle, FileHandled,
     EventHandled, HookThrows, FatalDispatched, RunFails, DeadlinePasses,
     FileOverdue, WorkerOverdue, runVars, slotVars

LEMMA QueuesByCore ==
  ASSUME HeadlessAssumption, TypeInv, SessionInv, SlotsInv, QueueInv,
         StartCycle \/ Creates \/ Replaces \/ RunEnds \/ Interrupt
  PROVE  QueueInv'
<1>1. UNCHANGED <<batch, reports>>
  BY DEF StartCycle, Creates, Replaces, RunEnds, Interrupt, slotVars
<1>2. CASE Creates
  <2>1. /\ cycle \in Runs /\ queue'[cycle] = Files
        /\ \A r \in Runs : r # cycle => queue'[r] = queue[r]
    BY <1>2, Created DEF SessionInv
  <2>2. IsInjective(Files) /\ DOMAIN Files = 1 .. Len(Files)
        /\ FileSet = {Files[i] : i \in 1 .. Len(Files)}
    BY FilesFacts
  <2>3. ~Begun(cycle)
    <3>1. cycle \in Nat
      BY DEF TypeInv, CoreTypes
    <3> QED BY <1>2, <3>1 DEF Creates, Begun
  <2>4. \A f \in FileSet : reports[cycle][f] = 0
    BY <2>1, <2>3 DEF SessionInv, RunsInv, RunInv
  <2>5. \A s \in SlotsOf(cycle) : batch[s] = <<>>
    <3> SUFFICES ASSUME NEW s \in SlotsOf(cycle) PROVE batch[s] = <<>>
      OBVIOUS
    <3>1. s \in Slots /\ RunOf(s) = cycle
      BY DEF SlotsOf
    <3>2. SlotInv(s)
      BY <3>1 DEF SlotsInv
    <3> QED BY <2>3, <3>1, <3>2 DEF SlotInv
  <2>6. ToSet(<<>>) = {}
    BY DEF ToSet
  <2>7. \A r \in Runs :
          /\ IsInjective(queue'[r])
          /\ \A i \in DOMAIN queue'[r] : reports'[r][queue'[r][i]] = 0
    BY <1>1, <2>1, <2>2, <2>4 DEF QueueInv
  <2>8. ASSUME NEW s \in Slots
        PROVE  /\ IsInjective(batch'[s])
               /\ \A f \in ToSet(batch'[s]) :
                    /\ f \notin ToSet(queue'[RunOf(s)])
                    /\ \A t \in SlotsOf(RunOf(s)) :
                         f \in ToSet(batch'[t]) => t = s
    <3>1. RunOf(s) \in Runs /\ s \in SlotsOf(RunOf(s))
      BY SlotFacts
    <3>2. CASE RunOf(s) = cycle
      BY <1>1, <2>5, <2>6, <3>1, <3>2 DEF QueueInv
    <3>3. CASE RunOf(s) # cycle
      BY <1>1, <2>1, <3>1, <3>3 DEF QueueInv
    <3> QED BY <3>2, <3>3
  <2> QED BY <2>7, <2>8 DEF QueueInv, SlotsOf
<1>3. CASE ~Creates
  <2>1. UNCHANGED queue
    BY <1>3 DEF StartCycle, Replaces, RunEnds, Interrupt, runVars
  <2> QED BY <1>1, <2>1 DEF QueueInv
<1> QED BY <1>2, <1>3

LEMMA QueuesBySlot ==
  ASSUME HeadlessAssumption, TypeInv, SlotsInv, FilesInv, NEW s \in Slots,
         Work(s) \/ Paging(s) \/ Hosting(s)
  PROVE  QueueInv'
<1> DEFINE r == RunOf(s)
<1>0. /\ r \in Runs /\ queue \in [Runs -> Seq(FileSet)]
      /\ batch \in [Slots -> Seq(FileSet)] /\ batch[s] \in Seq(FileSet)
      /\ queue[r] \in Seq(FileSet) /\ IsInjective(queue[r]) /\ SlotInv(s)
  BY SlotFacts DEF TypeInv, RunTypes, SlotTypes, FilesInv, QueueInv, SlotsInv
<1>1. Recording(s)
  BY RecordingFacts DEF FilesInv
<1> DEFINE Apart(t, b, q) ==
      /\ IsInjective(b[t])
      /\ \A f \in ToSet(b[t]) :
           /\ f \notin ToSet(q[RunOf(t)])
           /\ \A u \in SlotsOf(RunOf(t)) : f \in ToSet(b[u]) => u = t
<1>2. \A t \in Slots : Apart(t, batch, queue)
  BY DEF FilesInv, QueueInv
<1>3. \A q \in Runs : \A i \in DOMAIN queue[q] : reports[q][queue[q][i]] = 0
  BY DEF FilesInv, QueueInv
<1>3a. \A q \in Runs : \A f \in ToSet(queue[q]) : reports[q][f] = 0
  BY <1>3 DEF ToSet
<1>3b. ASSUME NEW q \in Runs, IsInjective(queue'[q]),
              \A f \in ToSet(queue'[q]) : reports'[q][f] = 0
       PROVE  /\ IsInjective(queue'[q])
              /\ \A i \in DOMAIN queue'[q] : reports'[q][queue'[q][i]] = 0
  BY <1>3b DEF ToSet
<1>4. CASE UNCHANGED <<queue, batch>> /\ ~Drain(s)
  <2>1. \A q \in Runs : \A f \in ToSet(queue[q]) : reports'[q][f] = 0
    <3>1. CASE reports' = reports
      BY <1>3a, <3>1
    <3>2. CASE reports' # reports
      <4>1. PICK f \in ToSet(batch[s]) : Adds(r, f)
        BY <1>1, <1>4, <3>2 DEF Recording
      <4>2. f \in FileSet /\ f \notin ToSet(queue[r])
        BY <1>0, <1>2, InSet
      <4>3. \A q \in Runs : ToSet(queue[q]) \subseteq FileSet
        BY <1>0, InSet
      <4> QED BY <1>0, <1>3a, <4>1, <4>2, <4>3, AddsFacts
    <3> QED BY <3>1, <3>2
  <2>2. \A q \in Runs : IsInjective(queue[q])
    BY DEF FilesInv, QueueInv
  <2> QED BY <1>2, <1>3b, <1>4, <2>1, <2>2 DEF QueueInv
<1>5. CASE PickNext(s) /\ ~UNCHANGED <<queue, batch>>
  <2>1. /\ at[s] = "free" /\ ~Abandoned(r) /\ queue[r] # <<>>
        /\ reports' = reports
        /\ batch' = [batch EXCEPT ![s] = BatchOf(r)]
        /\ queue' = [queue EXCEPT ![r] =
                       SubSeq(@, Len(BatchOf(r)) + 1, Len(@))]
    BY <1>5 DEF PickNext, coreVars
  <2>2. PICK n \in 1 .. Len(queue[r]) :
          BatchOf(r) = SubSeq(queue[r], 1, n) /\ Len(BatchOf(r)) = n
    BY <1>0, <2>1, BatchFacts
  <2> DEFINE a == SubSeq(queue[r], 1, n)
             b == SubSeq(queue[r], n + 1, Len(queue[r]))
  <2>3. n \in 0 .. Len(queue[r])
    OBVIOUS
  <2>4. /\ IsInjective(a) /\ IsInjective(b)
        /\ \A x : x \in ToSet(queue[r]) <=> x \in ToSet(a) \/ x \in ToSet(b)
        /\ \A x : ~(x \in ToSet(a) /\ x \in ToSet(b))
    BY <1>0, <2>3, CutApart
  <2>5. /\ batch'[s] = a /\ queue'[r] = b
        /\ \A t \in Slots : t # s => batch'[t] = batch[t]
        /\ \A q \in Runs : q # r => queue'[q] = queue[q]
    BY <1>0, <2>1, <2>2
  <2> HIDE DEF a, b, r
  <2>6. ASSUME NEW q \in Runs
        PROVE  /\ IsInjective(queue'[q])
               /\ \A f \in ToSet(queue'[q]) : reports'[q][f] = 0
    <3>1. CASE q = r
      BY <1>3a, <2>1, <2>4, <2>5, <3>1
    <3>2. CASE q # r
      BY <1>3a, <2>1, <2>5, <3>2 DEF FilesInv, QueueInv
    <3> QED BY <3>1, <3>2
  <2>7. ASSUME NEW t \in Slots PROVE Apart(t, batch', queue')
    <3>0. /\ RunOf(t) \in Runs /\ s \in SlotsOf(r)
          /\ \A u : u \in SlotsOf(RunOf(t)) => u \in Slots /\ RunOf(u) = RunOf(t)
      BY SlotFacts DEF SlotsOf, r
    <3>1. CASE t = s
      <4>1. \A f \in ToSet(a) : f \notin ToSet(b) /\ f \in ToSet(queue[r])
        BY <2>4
      <4>2. \A u \in SlotsOf(r) : u # s =>
              \A f \in ToSet(batch[u]) : f \notin ToSet(queue[r])
        BY <1>2 DEF SlotsOf
      <4> QED BY <2>4, <2>5, <3>0, <3>1, <4>1, <4>2 DEF r
    <3>2. CASE t # s
      <4>1. RunOf(t) = r =>
              \A f \in ToSet(batch[t]) : f \notin ToSet(a) /\ f \notin ToSet(b)
        BY <1>2, <2>4
      <4> QED BY <1>2, <2>5, <3>0, <3>2, <4>1 DEF r
    <3> QED BY <3>1, <3>2
  <2> QED BY <1>3b, <2>6, <2>7 DEF QueueInv
<1>6. CASE Drain(s)
  <2>1. batch' = batch /\ at[s] = "draining"
    BY <1>6 DEF Drain
  <2>2. CASE queue[r] = <<>>
    <3>1. UNCHANGED <<queue, reports>>
      BY <1>6, <2>2 DEF Drain
    <3> QED BY <2>1, <3>1 DEF FilesInv, QueueInv
  <2>3. CASE queue[r] # <<>>
    <3>1. queue' = [queue EXCEPT ![r] = Tail(@)] /\ Adds(r, Head(queue[r]))
      BY <1>6, <2>3 DEF Drain, Record, Adds
    <3>2. /\ IsInjective(Tail(queue[r])) /\ Head(queue[r]) \in ToSet(queue[r])
          /\ Head(queue[r]) \notin ToSet(Tail(queue[r]))
          /\ ToSet(Tail(queue[r])) \subseteq ToSet(queue[r])
      BY <1>0, <2>3, TailApart
    <3>3. /\ queue'[r] = Tail(queue[r])
          /\ \A q \in Runs : q # r => queue'[q] = queue[q]
      BY <1>0, <3>1
    <3>4. \A q \in Runs : ToSet(queue[q]) \subseteq FileSet
      BY <1>0, InSet
    <3>5. \A q \in Runs, g \in FileSet :
            q # r \/ g # Head(queue[r]) => reports'[q][g] = reports[q][g]
      BY <1>0, <3>1, <3>2, <3>4, AddsFacts
    <3> HIDE DEF r
    <3>6. ASSUME NEW q \in Runs
          PROVE  /\ IsInjective(queue'[q])
                 /\ \A f \in ToSet(queue'[q]) : reports'[q][f] = 0
      <4>1. CASE q = r
        BY <1>3a, <3>2, <3>3, <3>4, <3>5, <4>1
      <4>2. CASE q # r
        BY <1>3a, <3>3, <3>4, <3>5, <4>2 DEF FilesInv, QueueInv
      <4> QED BY <4>1, <4>2
    <3>7. ASSUME NEW t \in Slots PROVE Apart(t, batch', queue')
      <4>1. ToSet(queue'[RunOf(t)]) \subseteq ToSet(queue[RunOf(t)])
        BY <3>2, <3>3, SlotFacts
      <4> QED BY <1>2, <2>1, <4>1
    <3> QED BY <1>3b, <3>6, <3>7 DEF QueueInv
  <2> QED BY <2>2, <2>3
<1>7. CASE PageIsClosed(s)
  <2>1. /\ UNCHANGED <<queue, reports>>
        /\ batch' = [batch EXCEPT ![s] = <<>>]
    BY <1>7 DEF PageIsClosed, coreVars, runVars
  <2>2. /\ ToSet(<<>>) = {} /\ IsInjective(<<>>)
    BY DEF ToSet, IsInjective
  <2>3. /\ batch'[s] = <<>>
        /\ \A t \in Slots : t # s => batch'[t] = batch[t]
    BY <1>0, <2>1
  <2>4. ASSUME NEW t \in Slots PROVE Apart(t, batch', queue')
    <3>1. \A u \in SlotsOf(RunOf(t)) : u \in Slots
      BY DEF SlotsOf
    <3> QED BY <1>2, <2>1, <2>2, <2>3, <3>1
  <2>5. \A q \in Runs : /\ IsInjective(queue[q])
                        /\ \A i \in DOMAIN queue[q] : reports[q][queue[q][i]] = 0
    BY DEF FilesInv, QueueInv
  <2> QED BY <2>1, <2>4, <2>5 DEF QueueInv
<1> QED BY <1>4, <1>5, <1>6, <1>7, QueuesChange

LEMMA OnceBySlot ==
  ASSUME HeadlessAssumption, TypeInv, SlotsInv, FilesInv, NEW s \in Slots,
         Work(s) \/ Paging(s) \/ Hosting(s)
  PROVE  RecordedOnce'
<1>0. /\ RunOf(s) \in Runs /\ queue[RunOf(s)] \in Seq(FileSet)
      /\ batch[s] \in Seq(FileSet)
  BY SlotFacts DEF TypeInv, RunTypes, SlotTypes
<1>1. CASE reports' = reports
  BY <1>1 DEF FilesInv, RecordedOnce
<1>2. ASSUME NEW f \in FileSet, reports[RunOf(s)][f] = 0, Adds(RunOf(s), f)
      PROVE  RecordedOnce'
  BY <1>0, <1>2, AddsFacts DEF FilesInv, RecordedOnce
<1>3. CASE Drain(s) /\ queue[RunOf(s)] # <<>>
  <2>1. /\ Head(queue[RunOf(s)]) = queue[RunOf(s)][1]
        /\ 1 \in DOMAIN queue[RunOf(s)] /\ Head(queue[RunOf(s)]) \in FileSet
    <3>1. /\ Head(queue[RunOf(s)]) = queue[RunOf(s)][1]
          /\ Head(queue[RunOf(s)]) \in FileSet
          /\ Len(queue[RunOf(s)]) \in Nat \ {0}
      BY <1>0, <1>3, PopFacts
    <3> QED BY <1>0, <3>1
  <2>2. reports[RunOf(s)][Head(queue[RunOf(s)])] = 0
    BY <1>0, <2>1 DEF FilesInv, QueueInv
  <2>3. Adds(RunOf(s), Head(queue[RunOf(s)]))
    BY <1>3 DEF Drain, Record, Adds
  <2> QED BY <1>2, <2>1, <2>2, <2>3
<1>4. ASSUME NEW f \in ToSet(batch[s]), Unrecorded(s, f), Adds(RunOf(s), f)
      PROVE  RecordedOnce'
  <2>1. f \in FileSet
    BY <1>0, InSet
  <2> QED BY <1>2, <1>4, <2>1 DEF Unrecorded
<1> QED BY <1>1, <1>3, <1>4, RecordingFacts DEF Recording, FilesInv

(* The other slots: what a step of a slot records is no file of theirs.      *)
LEMMA OthersUnrecorded ==
  ASSUME HeadlessAssumption, TypeInv, SlotsInv, FilesInv, NEW s \in Slots,
         Work(s) \/ Paging(s) \/ Hosting(s), NEW t \in Slots \ {s}
  PROVE  \A f \in ToSet(batch[t]) : reports'[RunOf(t)][f] = reports[RunOf(t)][f]
<1>0. /\ RunOf(s) \in Runs /\ RunOf(t) \in Runs /\ t \in SlotsOf(RunOf(t))
      /\ s \in SlotsOf(RunOf(s)) /\ queue[RunOf(s)] \in Seq(FileSet)
      /\ batch[s] \in Seq(FileSet) /\ batch[t] \in Seq(FileSet)
  BY SlotFacts DEF TypeInv, RunTypes, SlotTypes
<1>1. ToSet(batch[t]) \subseteq FileSet /\ ToSet(batch[s]) \subseteq FileSet
  BY <1>0, InSet
<1>2. CASE reports' = reports
  BY <1>2
<1>3. ASSUME NEW g \in ToSet(batch[s]), Adds(RunOf(s), g)
      PROVE  \A f \in ToSet(batch[t]) :
               reports'[RunOf(t)][f] = reports[RunOf(t)][f]
  <2>1. RunOf(t) = RunOf(s) => g \notin ToSet(batch[t])
    BY <1>0, <1>3 DEF FilesInv, QueueInv
  <2> QED BY <1>0, <1>1, <1>3, <2>1, AddsFacts
<1>4. CASE Drain(s) /\ queue[RunOf(s)] # <<>>
  <2>1. Adds(RunOf(s), Head(queue[RunOf(s)]))
    BY <1>4 DEF Drain, Record, Adds
  <2>2. /\ Head(queue[RunOf(s)]) \in FileSet
        /\ Head(queue[RunOf(s)]) \in ToSet(queue[RunOf(s)])
    BY <1>0, <1>4, PopFacts, TailApart DEF FilesInv, QueueInv
  <2>3. RunOf(t) = RunOf(s) => Head(queue[RunOf(s)]) \notin ToSet(batch[t])
    BY <2>2 DEF FilesInv, QueueInv
  <2> QED BY <1>0, <1>1, <2>1, <2>2, <2>3, AddsFacts
<1> QED BY <1>2, <1>3, <1>4, RecordingFacts DEF Recording, FilesInv

LEMMA OthersMail ==
  ASSUME HeadlessAssumption, TypeInv, SlotsInv, FilesInv, NEW s \in Slots,
         Work(s) \/ Paging(s) \/ Hosting(s), NEW t \in Slots \ {s}
  PROVE  MailInv(t)' /\ OverdueInv(t)'
<1>1. /\ batch'[t] = batch[t] /\ settled'[t] = settled[t]
      /\ completed'[t] = completed[t]
      /\ timer'[t] = timer[t] /\ overdue'[t] = overdue[t]
      /\ page'[t] = page[t] /\ position'[t] = position[t]
      /\ mail'[t] = mail[t] /\ busy'[t] = busy[t]
  BY SlotStep DEF Effect, OthersRest
<1>2. \A f \in ToSet(batch[t]) : Unrecorded(t, f)' <=> Unrecorded(t, f)
  BY OthersUnrecorded DEF Unrecorded
<1>3. \A k \in DOMAIN batch[t] : batch[t][k] \in ToSet(batch[t])
  BY InSet DEF TypeInv, SlotTypes
<1>4. \A f : InMail(t, f)' <=> InMail(t, f)
  BY <1>1 DEF InMail
<1>5. \A k : Unsent(t, k)' <=> Unsent(t, k)
  BY <1>1 DEF Unsent
<1>6. MailInv(t) /\ OverdueInv(t)
  BY DEF FilesInv
<1>7. MailInv(t)'
  BY <1>1, <1>2, <1>3, <1>4, <1>5, <1>6 DEF MailInv
<1>8. OverdueInv(t)'
  BY <1>1, <1>2, <1>6 DEF OverdueInv
<1> QED BY <1>7, <1>8

(* The mail of a slot, when it may only lose what is unsent.                 *)
LEMMA MailShrinks ==
  ASSUME NEW s \in Slots, MailInv(s), batch'[s] = batch[s],
         settled'[s] \/ ~settled[s],
         \A i \in DOMAIN mail'[s] : mail'[s][i].type = "file" =>
           i \in DOMAIN mail[s] /\ mail'[s][i] = mail[s][i],
         reports' = reports, completed'[s] = completed[s],
         busy'[s] = busy[s] \/ busy[s] \notin ToSet(batch[s]),
         \A k \in DOMAIN batch[s] : Unsent(s, k)' => Unsent(s, k)
  PROVE  MailInv(s)'
<1>1. \A f : InMail(s, f)' => InMail(s, f)
  BY DEF InMail
<1>2. \A f : Unrecorded(s, f)' <=> Unrecorded(s, f)
  BY DEF Unrecorded
<1> QED BY <1>1, <1>2 DEF MailInv

LEMMA MailOfWork ==
  ASSUME HeadlessAssumption, TypeInv, SlotsInv, FilesInv, NEW s \in Slots,
         Work(s)
  PROVE  MailInv(s)' /\ OverdueInv(s)'
<1> USE DEF coreVars, runVars, slotVars, timerVars, pageVars, mailVars
<1>0. /\ RunOf(s) \in Runs /\ RunTypes /\ SlotTypes /\ PageTypes /\ SlotInv(s)
      /\ MailInv(s) /\ OverdueInv(s)
  BY SlotFacts DEF TypeInv, SlotsInv, FilesInv
<1>s. ToSet(<<>>) = {} /\ DOMAIN <<>> = {}
  BY DEF ToSet
<1>e. ASSUME batch'[s] = <<>>, mail'[s] = <<>>
      PROVE  MailInv(s)' /\ OverdueInv(s)'
  BY <1>s, <1>e DEF MailInv, OverdueInv
<1>1. CASE PickNext(s)
  <2>1. CASE UNCHANGED <<queue, batch>>
    BY <1>0, <1>1, <2>1
       DEF PickNext, MailInv, OverdueInv, Unsent, Unrecorded, InMail
  <2>2. CASE ~UNCHANGED <<queue, batch>>
    <3> DEFINE r == RunOf(s)
    <3>1. /\ at[s] = "free" /\ ~Abandoned(r) /\ queue[r] # <<>>
          /\ batch' = [batch EXCEPT ![s] = BatchOf(r)]
          /\ UNCHANGED <<reports, settled, completed, overdue, mail, busy>>
      BY <1>1, <2>2 DEF PickNext
    <3>2. Fresh(s) /\ queue[r] \in Seq(FileSet) /\ IsInjective(queue[r])
      BY <1>0, <3>1 DEF SlotInv, FilesInv, QueueInv, RunTypes
    <3>3. PICK n \in 1 .. Len(queue[r]) :
            BatchOf(r) = SubSeq(queue[r], 1, n) /\ Len(BatchOf(r)) = n
      BY <1>0, <3>1, BatchFacts
    <3>4. n \in 0 .. Len(queue[r])
      OBVIOUS
    <3>5. /\ \A x : x \in ToSet(BatchOf(r)) => x \in ToSet(queue[r])
          /\ BatchOf(r) \in Seq(FileSet)
      BY <3>2, <3>3, <3>4, CutApart, CutFacts
    <3>6. batch'[s] = BatchOf(r)
      BY <1>0, <3>1 DEF SlotTypes
    <3>7. \A x \in ToSet(queue[r]) : reports[r][x] = 0
      BY <1>0 DEF FilesInv, QueueInv, ToSet
    <3>8. \A x \in ToSet(batch'[s]) : Unrecorded(s, x)'
      BY <3>1, <3>5, <3>6, <3>7 DEF Unrecorded
    <3>9. \A k \in DOMAIN batch'[s] : batch'[s][k] \in ToSet(batch'[s])
      BY <3>5, <3>6, InSet
    <3>10. mail'[s] = <<>> /\ overdue'[s] = "no"
      BY <3>1, <3>2 DEF Fresh
    <3> QED BY <1>s, <3>8, <3>9, <3>10 DEF MailInv, OverdueInv, InMail
  <2> QED BY <2>1, <2>2
<1>2. CASE Drain(s)
  <2>1. Fresh(s) /\ batch[s] = <<>>
    BY <1>0, <1>2 DEF Drain, SlotInv
  <2> QED BY <1>2, <1>e, <2>1 DEF Drain, Fresh
<1>3. CASE WorkerEnds(s) \/ ContextFails(s) \/ Races(s) \/ Failed(s) \/ FailRun(s)
  <2>1. UNCHANGED <<batch, settled, completed, timer, overdue, page, position,
                    mail, busy, reports>>
    BY <1>3 DEF WorkerEnds, ContextFails, Races, Failed, Goes, FailRun
  <2> QED BY <1>0, <2>1 DEF MailInv, OverdueInv, Unsent, Unrecorded, InMail
<1>4. CASE ContextOpens(s)
  <2>1. Fresh(s)
    BY <1>0, <1>4 DEF ContextOpens, SlotInv
  <2>2. UNCHANGED <<batch, settled, completed, timer, overdue, mail, busy,
                    reports>>
    BY <1>4 DEF ContextOpens
  <2>3. \A k \in DOMAIN batch[s] : Unsent(s, k)
    <3>1. DOMAIN batch[s] = 1 .. Len(batch[s])
      BY <1>0 DEF SlotTypes
    <3> QED BY <2>1, <3>1 DEF Fresh, Unsent
  <2> QED BY <1>0, <2>2, <2>3 DEF MailInv, OverdueInv, Unrecorded, InMail
<1>8. CASE Leaves(s)
  <2>1. /\ UNCHANGED <<batch, settled, completed, overdue, page, position,
                       mail, busy, reports>>
        /\ timer'[s] = "off"
    BY <1>0, <1>8 DEF Leaves, Leave, SlotTypes
  <2>2. \A k \in DOMAIN batch[s] : Unsent(s, k)' => Unsent(s, k)
    BY <2>1 DEF Unsent
  <2> QED BY <1>0, <2>1, <2>2, MailShrinks DEF OverdueInv, Unrecorded
<1>10. CASE PageIsClosed(s)
  BY <1>0, <1>10, <1>e DEF PageIsClosed, SlotTypes, PageTypes
<1> QED BY <1>1, <1>2, <1>3, <1>4, <1>8, <1>10 DEF Work

Pushed(s, x, y) ==
  mail'[s] = mail[s] \o <<x>> \/ mail'[s] = mail[s] \o <<x, y>>

LEMMA ResultPushed ==
  ASSUME NEW s \in Slots, mail[s] \in Seq(Messages),
         NEW x \in Messages, NEW y \in Messages,
         Pushed(s, x, y)
  PROVE  /\ DOMAIN mail[s] = 1 .. Len(mail[s]) /\ Len(mail[s]) \in Nat
         /\ DOMAIN mail[s] \subseteq DOMAIN mail'[s]
         /\ \A i \in DOMAIN mail[s] : mail'[s][i] = mail[s][i]
         /\ Len(mail[s]) + 1 \in DOMAIN mail'[s]
         /\ mail'[s][Len(mail[s]) + 1] = x
         /\ \A i \in DOMAIN mail'[s] :
              i \in DOMAIN mail[s] \/ i = Len(mail[s]) + 1 \/ mail'[s][i] = y
<1>0. Len(mail[s]) \in Nat /\ DOMAIN mail[s] = 1 .. Len(mail[s])
  OBVIOUS
<1>1. CASE mail'[s] = mail[s] \o <<x>>
  <2>1. /\ mail'[s] \in Seq(Messages) /\ Len(mail'[s]) = Len(mail[s]) + 1
        /\ \A i \in 1 .. Len(mail[s]) : mail'[s][i] = mail[s][i]
        /\ mail'[s][Len(mail[s]) + 1] = x
    BY <1>1, PushFacts
  <2>2. DOMAIN mail'[s] = 1 .. Len(mail[s]) + 1
    BY <2>1
  <2> QED BY <1>0, <2>1, <2>2
<1>2. CASE mail'[s] = mail[s] \o <<x, y>>
  <2>1. /\ mail'[s] \in Seq(Messages) /\ Len(mail'[s]) = Len(mail[s]) + 2
        /\ \A i \in 1 .. Len(mail[s]) : mail'[s][i] = mail[s][i]
        /\ mail'[s][Len(mail[s]) + 1] = x
        /\ mail'[s][Len(mail[s]) + 2] = y
    BY <1>2, PushTwoFacts
  <2>2. DOMAIN mail'[s] = 1 .. Len(mail[s]) + 2
    BY <2>1
  <2>3. \A i \in 1 .. Len(mail[s]) + 2 :
          i \in 1 .. Len(mail[s]) \/ i = Len(mail[s]) + 1 \/ i = Len(mail[s]) + 2
    BY <1>0
  <2>4. Len(mail[s]) + 1 \in 1 .. Len(mail[s]) + 2
    BY <1>0
  <2>5. \A i \in 1 .. Len(mail[s]) : i \in 1 .. Len(mail[s]) + 2
    BY <1>0
  <2> QED BY <1>0, <2>1, <2>2, <2>3, <2>4, <2>5
<1> QED BY <1>1, <1>2 DEF Pushed

(* The client goes on to its next file, whose result it has not sent.        *)
LEMMA MailOfResult ==
  ASSUME HeadlessAssumption, TypeInv, FilesInv, NEW s \in Slots, SlotInv(s),
         NEW outcome \in Outcomes(s),
         page[s] \in Live, batch' = batch, settled' = settled,
         reports' = reports, completed' = completed, busy' = busy,
         Pushed(s, Result(s, outcome), [type |-> "complete"]),
         \A k \in DOMAIN batch[s] : Unsent(s, k)' => Unsent(s, k) /\ k # position[s]
  PROVE  MailInv(s)'
<1>0. /\ MailInv(s) /\ mail[s] \in Seq(Messages) /\ batch[s] \in Seq(FileSet)
  BY DEF FilesInv, TypeInv, SlotTypes, PageTypes
<1> DEFINE f == batch[s][position[s]]
           k0 == position[s]
<1>1. /\ k0 \in DOMAIN batch[s] /\ f \in FileSet /\ f \in ToSet(batch[s])
  BY InTurn DEF Live
<1>2. Unsent(s, k0)
  BY DEF Unsent
<1>3. /\ Result(s, outcome) \in Messages /\ Result(s, outcome).type = "file"
      /\ Result(s, outcome).file = f /\ [type |-> "complete"] \in Messages
  BY ResultFacts, MessageFacts DEF Live
<1>4. \A k \in DOMAIN batch[s] : batch[s][k] = f => k = k0
  BY <1>1 DEF FilesInv, QueueInv, IsInjective
<1>5. /\ DOMAIN mail[s] = 1 .. Len(mail[s]) /\ Len(mail[s]) \in Nat
      /\ DOMAIN mail[s] \subseteq DOMAIN mail'[s]
      /\ \A i \in DOMAIN mail[s] : mail'[s][i] = mail[s][i]
      /\ Len(mail[s]) + 1 \in DOMAIN mail'[s]
      /\ mail'[s][Len(mail[s]) + 1] = Result(s, outcome)
      /\ \A i \in DOMAIN mail'[s] :
           \/ i \in DOMAIN mail[s] \/ i = Len(mail[s]) + 1
           \/ mail'[s][i] = [type |-> "complete"]
  BY <1>0, <1>3, ResultPushed
<1> HIDE DEF f, k0
<1>6. \A i \in DOMAIN mail'[s] : mail'[s][i].type = "file" =>
        i \in DOMAIN mail[s] \/ i = Len(mail[s]) + 1
  <2>1. [type |-> "complete"].type # "file"
    OBVIOUS
  <2> QED BY <1>5, <2>1
<1> SUFFICES ASSUME ~settled[s] PROVE MailInv(s)'
  BY DEF MailInv
<1>7. \A g : Unrecorded(s, g)' <=> Unrecorded(s, g)
  BY DEF Unrecorded
<1>8. /\ Unrecorded(s, f) /\ ~InMail(s, f)
  BY <1>0, <1>1, <1>2 DEF MailInv, f, k0
<1>9. \A g : InMail(s, g)' => InMail(s, g) \/ g = f
  BY <1>3, <1>5, <1>6 DEF InMail
<1>10. \A i \in DOMAIN mail'[s] : mail'[s][i].type = "file" =>
         /\ mail'[s][i].file \in ToSet(batch[s])
         /\ Unrecorded(s, mail'[s][i].file)
  BY <1>0, <1>1, <1>3, <1>5, <1>6, <1>8 DEF MailInv
<1>11. \A i, j \in DOMAIN mail'[s] :
         mail'[s][i].type = "file" /\ mail'[s][j].type = "file"
           /\ mail'[s][i].file = mail'[s][j].file => i = j
  <2>1. \A i \in DOMAIN mail[s] : mail[s][i].type = "file" => mail[s][i].file # f
    BY <1>8 DEF InMail
  <2>2. \A i, j \in DOMAIN mail[s] :
          mail[s][i].type = "file" /\ mail[s][j].type = "file"
            /\ mail[s][i].file = mail[s][j].file => i = j
    BY <1>0 DEF MailInv
  <2>3. mail'[s][Len(mail[s]) + 1].file = f
    BY <1>3, <1>5
  <2> SUFFICES ASSUME NEW i \in DOMAIN mail'[s], NEW j \in DOMAIN mail'[s],
                      mail'[s][i].type = "file", mail'[s][j].type = "file",
                      mail'[s][i].file = mail'[s][j].file
               PROVE  i = j
    OBVIOUS
  <2>4. /\ i \in DOMAIN mail[s] \/ i = Len(mail[s]) + 1
        /\ j \in DOMAIN mail[s] \/ j = Len(mail[s]) + 1
    BY <1>6
  <2>5. CASE i \in DOMAIN mail[s] /\ j \in DOMAIN mail[s]
    BY <1>5, <2>2, <2>5
  <2>6. CASE i \in DOMAIN mail[s] /\ j = Len(mail[s]) + 1
    BY <1>5, <2>1, <2>3, <2>6
  <2>7. CASE i = Len(mail[s]) + 1 /\ j \in DOMAIN mail[s]
    BY <1>5, <2>1, <2>3, <2>7
  <2> QED BY <2>4, <2>5, <2>6, <2>7
<1>12. ASSUME NEW k \in DOMAIN batch[s], Unsent(s, k)'
       PROVE  Unrecorded(s, batch[s][k]) /\ ~InMail(s, batch[s][k])'
  BY <1>0, <1>4, <1>9, <1>12 DEF MailInv, k0
<1>13. \A g \in ToSet(batch[s]) :
         Unrecorded(s, g) \/ g \in completed[s] \/ busy[s] = g
  BY <1>0 DEF MailInv
<1> QED BY <1>7, <1>10, <1>11, <1>12, <1>13 DEF MailInv

LEMMA MailOfPaging ==
  ASSUME HeadlessAssumption, TypeInv, SlotsInv, FilesInv, NEW s \in Slots,
         Paging(s)
  PROVE  MailInv(s)' /\ OverdueInv(s)'
<1> USE DEF coreVars, runVars, slotVars, timerVars, pageVars, mailVars
<1>0. /\ SlotTypes /\ PageTypes /\ SlotInv(s) /\ MailInv(s) /\ OverdueInv(s)
      /\ mail[s] \in Seq(Messages)
  BY DEF TypeInv, SlotsInv, FilesInv, PageTypes
<1>a. UNCHANGED <<batch, reports, completed, overdue, busy>>
  BY DEF Paging, PageCloses, PageCrashes, Dies, Chats, RunTests, CleanupEnds,
         WorkerCleanupEnds
<1>b. OverdueInv(s)'
  BY <1>0, <1>a DEF OverdueInv, Unrecorded
<1>c. page[s] # "none"
  BY DEF Paging, PageCloses, PageCrashes, Chats, RunTests, CleanupEnds,
         WorkerCleanupEnds, Gone
<1>d. ASSUME NEW m \in Chatter(s), NEW next, Sends(s, m, next)
      PROVE  /\ page'[s] = next
             /\ \A i \in DOMAIN mail'[s] : mail'[s][i].type = "file" =>
                  i \in DOMAIN mail[s] /\ mail'[s][i] = mail[s][i]
  BY <1>0, <1>c, <1>d, ChatterPushed
<1>e. ASSUME NEW which, Arm(s, which)
      PROVE  timer'[s] \in {which, "off"}
  BY <1>0, <1>e DEF Arm, SlotTypes, Handled, HasContext, SlotInv
<1>f. ASSUME NEW how \in {"closed", "dead"}, Dies(s, how)
      PROVE  MailInv(s)'
  <2>1. /\ page'[s] = how /\ UNCHANGED <<timer, position, mail>>
        /\ settled'[s] \/ ~settled[s]
    BY <1>0, <1>f DEF Dies, SlotTypes, PageTypes
  <2>2. \A k \in DOMAIN batch[s] : Unsent(s, k)' => Unsent(s, k)
    BY <2>1 DEF Unsent, Live
  <2> QED BY <1>0, <1>a, <2>1, <2>2, MailShrinks
<1>g. ASSUME NEW m \in Chatter(s), NEW next \in PageValues,
             Sends(s, m, next), page[s] \in Live,
             position' = position, settled' = settled
      PROVE  MailInv(s)'
  <2>1. \A k \in DOMAIN batch[s] : Unsent(s, k)' => Unsent(s, k)
    BY <1>g DEF Unsent
  <2> QED BY <1>0, <1>a, <1>d, <1>g, <2>1, MailShrinks
<1>1. CASE PageCloses(s)
  BY <1>1, <1>b, <1>f DEF PageCloses
<1>2. CASE PageCrashes(s)
  BY <1>2, <1>b, <1>f DEF PageCrashes
<1>3. CASE Chats(s)
  BY <1>b, <1>3, <1>g DEF Chats, Live, PageValues
<1>4. CASE RunTests(s)
  BY <1>b, <1>4, <1>g DEF RunTests, Live, PageValues, Chatter
<1>5. CASE CleanupEnds(s)
  <2>0. page[s] \in Live /\ settled' = settled
    BY <1>5 DEF CleanupEnds, Live
  <2>1. CASE isTokenStale(RunOf(s)) \/ position[s] = Len(batch[s])
    <3>1. /\ position' = position
          /\ Sends(s, Fatal, "over") \/ Sends(s, <<>>, "worker")
      BY <1>5, <2>1 DEF CleanupEnds
    <3> QED BY <1>b, <1>g, <2>0, <3>1 DEF PageValues, Chatter
  <2>2. CASE ~isTokenStale(RunOf(s)) /\ position[s] # Len(batch[s])
    <3>1. PICK outcome \in Outcomes(s) : Sends(s, <<Result(s, outcome)>>, "test")
      BY <1>5, <2>2 DEF CleanupEnds
    <3>2. /\ page'[s] = "test"
          /\ mail'[s] = mail[s] \o <<Result(s, outcome)>>
          /\ position'[s] = position[s] + 1
          /\ timer'[s] = "off"
      BY <1>0, <1>5, <1>e, <2>2, <3>1 DEF Sends, CleanupEnds, PageTypes
    <3>4. position[s] \in Nat /\ DOMAIN batch[s] = 1 .. Len(batch[s])
          /\ Len(batch[s]) \in Nat
      BY <1>0 DEF PageTypes, SlotTypes
    <3>5. \A k \in DOMAIN batch[s] :
            Unsent(s, k)' => Unsent(s, k) /\ k # position[s]
      BY <3>2, <3>4 DEF Unsent
    <3> QED BY <1>0, <1>a, <1>b, <2>0, <3>1, <3>2, <3>5, MailOfResult DEF Pushed
  <2> QED BY <2>1, <2>2
<1>6. CASE WorkerCleanupEnds(s)
  <2>0. page[s] = "worker" /\ UNCHANGED <<settled, position>>
    BY <1>6 DEF WorkerCleanupEnds
  <2>1. PICK outcome \in Outcomes(s) :
          Sends(s, <<Result(s, outcome), [type |-> "complete"]>>, "over")
    BY <1>6 DEF WorkerCleanupEnds
  <2>2. /\ page'[s] = "over"
        /\ mail'[s] = mail[s] \o <<Result(s, outcome), [type |-> "complete"]>>
    BY <1>0, <2>1 DEF Sends, PageTypes
  <2>3. timer'[s] # "file" /\ position[s] = Len(batch[s])
    BY <1>0, <1>6, <1>e, <2>0 DEF WorkerCleanupEnds, SlotInv
  <2>5. DOMAIN batch[s] = 1 .. Len(batch[s]) /\ Len(batch[s]) \in Nat
    BY <1>0 DEF SlotTypes
  <2>6. \A k \in DOMAIN batch[s] : ~Unsent(s, k)'
    BY <2>0, <2>2, <2>3, <2>5 DEF Unsent, Live
  <2> QED BY <1>0, <1>a, <1>b, <2>0, <2>1, <2>2, <2>6, MailOfResult
          DEF Live, Pushed
<1> QED BY <1>1, <1>2, <1>3, <1>4, <1>5, <1>6 DEF Paging

LEMMA MailOfHosting ==
  ASSUME HeadlessAssumption, TypeInv, SlotsInv, FilesInv, NEW s \in Slots,
         Hosting(s)
  PROVE  MailInv(s)' /\ OverdueInv(s)'
<1> USE DEF coreVars, runVars, slotVars, timerVars, pageVars, mailVars
<1>0. /\ SlotTypes /\ PageTypes /\ SlotInv(s) /\ MailInv(s) /\ OverdueInv(s)
      /\ mail[s] \in Seq(Messages) /\ batch[s] \in Seq(FileSet)
      /\ RunOf(s) \in Runs
  BY SlotFacts DEF TypeInv, SlotsInv, FilesInv, PageTypes, SlotTypes
<1>a. UNCHANGED <<batch, page, position>>
  BY DEF Hosting, Handle, FileHandled, EventHandled, HookThrows,
     FatalDispatched, RunFails, Cancel, DeadlinePasses, FileOverdue,
     WorkerOverdue
<1>b. ToSet(batch[s]) \subseteq FileSet /\ "no" \notin ToSet(batch[s])
      /\ "coverage" \notin ToSet(batch[s]) /\ "collect" \notin ToSet(batch[s])
      /\ "event" \notin ToSet(batch[s])
  BY <1>0, InSet, FilesFacts
<1>c. ASSUME NEW f \in FileSet, Adds(RunOf(s), f)
      PROVE  \A g \in FileSet : g # f =>
               reports'[RunOf(s)][g] = reports[RunOf(s)][g]
  BY <1>0, <1>c, AddsFacts
<1>1. CASE Handle(s)
  <2> DEFINE m == Head(mail[s])
             n == Len(mail[s])
  <2>0. /\ mail[s] # <<>> /\ mail'[s] = Tail(mail[s]) /\ busy[s] = "no"
        /\ UNCHANGED <<completed, timer, overdue>>
    BY <1>0, <1>1 DEF Handle, PageTypes
  <2>1. /\ n \in Nat \ {0} /\ m = mail[s][1] /\ m \in Messages
        /\ Tail(mail[s]) \in Seq(Messages) /\ Len(Tail(mail[s])) = n - 1
        /\ \A i \in 1 .. n - 1 : Tail(mail[s])[i] = mail[s][i + 1]
    BY <1>0, <2>0, PopFacts
  <2>2. /\ DOMAIN mail[s] = 1 .. n /\ DOMAIN mail'[s] = 1 .. n - 1
        /\ \A i \in 1 .. n - 1 : mail'[s][i] = mail[s][i + 1]
        /\ \A i \in 1 .. n - 1 : i + 1 \in 1 .. n /\ i + 1 # 1
        /\ 1 \in 1 .. n
    BY <1>0, <2>0, <2>1
  <2>3. m.type \in {"file", "start", "case", "complete", "fatal"}
    BY <2>1, MessageFacts
  <2>4. /\ \A f : InMail(s, f)' => InMail(s, f)
        /\ \A k : Unsent(s, k)' <=> Unsent(s, k)
    BY <1>a, <2>0, <2>2 DEF InMail, Unsent
  <2> HIDE DEF m, n
  <2>5. CASE settled[s]
    <3>1. settled'[s] /\ reports' = reports
      BY <1>1, <2>5 DEF Handle
    <3> QED BY <1>0, <1>a, <2>0, <3>1 DEF MailInv, OverdueInv, Unrecorded
  <2>6. CASE ~settled[s]
    <3>0. overdue'[s] = "no"
      BY <1>0, <2>0, <2>6 DEF SlotInv, SlotTypes
    <3>1. CASE m.type = "complete"
      <4>1. settled'[s]
        BY <1>0, <1>1, <2>6, <3>1 DEF Handle, MarkDone, SlotTypes, m
      <4> QED BY <3>0, <4>1 DEF MailInv, OverdueInv
    <3>2. CASE m.type \in {"start", "case", "fatal"}
      <4>1. /\ busy'[s] \in {"no", "event", "coverage"}
            /\ UNCHANGED <<reports, settled>>
        BY <1>0, <1>1, <2>0, <2>6, <3>2 DEF Handle, PageTypes, m
      <4>2. /\ \A i, j \in 1 .. n - 1 : i + 1 = j + 1 => i = j
            /\ \A f : Unrecorded(s, f)' <=> Unrecorded(s, f)
        BY <2>1, <4>1 DEF Unrecorded
      <4>3. \A i, j \in DOMAIN mail'[s] :
              mail'[s][i].type = "file" /\ mail'[s][j].type = "file"
                /\ mail'[s][i].file = mail'[s][j].file => i = j
        BY <1>0, <2>2, <2>6, <4>2 DEF MailInv
      <4>4. \A i \in DOMAIN mail'[s] : mail'[s][i].type = "file" =>
              /\ mail'[s][i].file \in ToSet(batch[s])
              /\ Unrecorded(s, mail'[s][i].file)
        BY <1>0, <2>2, <2>6 DEF MailInv
      <4> QED BY <1>0, <1>a, <1>b, <2>0, <2>4, <2>6, <3>0, <4>1, <4>2, <4>3,
         <4>4
              DEF MailInv, OverdueInv
    <3>3. CASE m.type = "file"
      <4>1. /\ busy'[s] = m.file /\ UNCHANGED settled
            /\ reports' = reports \/ Adds(RunOf(s), m.file)
        BY <1>0, <1>1, <2>6, <3>3 DEF Handle, PageTypes, m, Record, Adds
      <4>2. m.file \in ToSet(batch[s]) /\ m.file \in FileSet
        BY <1>0, <1>b, <2>1, <2>2, <2>6, <3>3 DEF MailInv
      <4>3. \A f \in ToSet(batch[s]) : f # m.file =>
              (Unrecorded(s, f)' <=> Unrecorded(s, f))
        BY <1>b, <1>c, <4>1, <4>2 DEF Unrecorded
      <4>4. /\ \A i, j \in 1 .. n - 1 : i + 1 = j + 1 => i = j
        BY <2>1
      <4>5. \A i \in DOMAIN mail'[s] : mail'[s][i].type = "file" =>
              /\ mail'[s][i].file \in ToSet(batch[s])
              /\ Unrecorded(s, mail'[s][i].file)
              /\ mail'[s][i].file # m.file
        <5> SUFFICES ASSUME NEW i \in DOMAIN mail'[s], mail'[s][i].type = "file"
                     PROVE  /\ mail'[s][i].file \in ToSet(batch[s])
                            /\ Unrecorded(s, mail'[s][i].file)
                            /\ mail'[s][i].file # m.file
          OBVIOUS
        <5>1. /\ i + 1 \in DOMAIN mail[s] /\ 1 \in DOMAIN mail[s] /\ i + 1 # 1
              /\ mail'[s][i] = mail[s][i + 1] /\ m = mail[s][1]
          BY <2>1, <2>2
        <5>2. /\ mail[s][i + 1].type = "file" /\ mail[s][1].type = "file"
          BY <3>3, <5>1
        <5>3. mail[s][i + 1].file # mail[s][1].file
          BY <1>0, <2>6, <5>1, <5>2 DEF MailInv
        <5> QED BY <1>0, <2>6, <5>1, <5>2, <5>3 DEF MailInv
      <4>6. \A i, j \in DOMAIN mail'[s] :
              mail'[s][i].type = "file" /\ mail'[s][j].type = "file"
                /\ mail'[s][i].file = mail'[s][j].file => i = j
        BY <1>0, <2>2, <2>6, <4>4 DEF MailInv
      <4>7. InMail(s, m.file)
        BY <2>1, <2>2, <3>3 DEF InMail
      <4>8. \A k \in DOMAIN batch[s] : batch[s][k] \in ToSet(batch[s])
        BY <1>0, InSet
      <4>9. \A k \in DOMAIN batch[s] : Unsent(s, k)' =>
              Unrecorded(s, batch[s][k])' /\ ~InMail(s, batch[s][k])'
        <5> SUFFICES ASSUME NEW k \in DOMAIN batch[s], Unsent(s, k)'
                     PROVE  Unrecorded(s, batch[s][k])' /\ ~InMail(s, batch[s][k])'
          OBVIOUS
        <5>1. Unrecorded(s, batch[s][k]) /\ ~InMail(s, batch[s][k])
          BY <1>0, <2>4, <2>6 DEF MailInv
        <5>2. batch[s][k] # m.file /\ batch[s][k] \in ToSet(batch[s])
          BY <4>7, <4>8, <5>1
        <5> QED BY <1>a, <2>4, <4>3, <5>1, <5>2
      <4>10. \A f \in ToSet(batch[s]) :
               Unrecorded(s, f)' \/ f \in completed'[s] \/ busy'[s] = f
        BY <1>0, <1>b, <2>0, <2>6, <4>1, <4>3 DEF MailInv
      <4>11. \A i \in DOMAIN mail'[s] : mail'[s][i].type = "file" =>
              /\ mail'[s][i].file \in ToSet(batch[s])
              /\ reports'[RunOf(s)][mail'[s][i].file] = 0
        BY <4>3, <4>5 DEF Unrecorded
      <4> QED BY <1>a, <3>0, <4>6, <4>9, <4>10, <4>11
              DEF MailInv, OverdueInv, Unrecorded
    <3> QED BY <2>3, <3>1, <3>2, <3>3 DEF m
  <2> QED BY <2>5, <2>6
<1>2. CASE FileHandled(s)
  <2>1. /\ busy[s] \in FileSet /\ busy'[s] = "no" /\ mail' = mail
        /\ completed'[s] = completed[s] \cup {busy[s]}
        /\ settled'[s] = settled[s] \/ settled'[s]
        /\ UNCHANGED <<timer, overdue, reports>>
    BY <1>0, <1>2 DEF FileHandled, SlotTypes, PageTypes, MarkDone
  <2>2. overdue[s] = "no"
    BY <1>0, <2>1, FilesFacts DEF SlotInv, SlotTypes
  <2> QED BY <1>0, <1>a, <2>1, <2>2
       DEF MailInv, OverdueInv, Unsent, Unrecorded, InMail
<1>3. CASE HookThrows(s) \/ FatalDispatched(s)
  <2>1. settled'[s] /\ UNCHANGED <<completed, overdue, reports>>
    BY <1>0, <1>3 DEF HookThrows, FatalDispatched, MarkDone, SlotTypes
  <2> QED BY <1>0, <1>a, <2>1 DEF MailInv, OverdueInv, Unrecorded
<1>4. CASE RunFails(s)
  <2>1. /\ busy[s] = "collect" /\ busy'[s] = "no"
        /\ UNCHANGED <<settled, completed, timer, overdue, mail, reports>>
    BY <1>0, <1>4 DEF RunFails, PageTypes
  <2> QED BY <1>0, <1>a, <1>b, <2>1
       DEF MailInv, OverdueInv, Unsent, Unrecorded, InMail
<1>5. CASE DeadlinePasses(s)
  <2>1. settled'[s] /\ busy[s] = "no" /\ timer[s] # "off"
    BY <1>0, <1>5 DEF DeadlinePasses, SlotTypes
  <2>2. MailInv(s)'
    BY <2>1 DEF MailInv
  <2>3. CASE settled[s] \/ timer[s] = "worker"
    <3>1. /\ UNCHANGED <<completed, reports>>
          /\ overdue'[s] = overdue[s] \/ overdue'[s] = "worker"
      BY <1>0, <1>5, <2>3 DEF DeadlinePasses, SlotTypes
    <3> QED BY <1>0, <1>a, <2>2, <3>1 DEF OverdueInv, Unrecorded
  <2>4. CASE ~settled[s] /\ timer[s] = "file"
    <3> DEFINE f == batch[s][position[s]]
    <3>1. /\ Adds(RunOf(s), f) /\ completed'[s] = completed[s] \cup {f}
      BY <1>0, <1>5, <2>4 DEF DeadlinePasses, SlotTypes, Record, Adds
    <3>2. f \in ToSet(batch[s])
      BY <1>0, <2>4, InTurn DEF SlotInv
    <3> HIDE DEF f
    <3>3. \A g \in ToSet(batch[s]) : Unrecorded(s, g) \/ g \in completed[s]
      BY <1>0, <1>b, <2>1, <2>4 DEF MailInv
    <3>4. \A g \in ToSet(batch[s]) : g # f =>
            (Unrecorded(s, g)' <=> Unrecorded(s, g))
      BY <1>b, <1>c, <3>1, <3>2 DEF Unrecorded
    <3> QED BY <1>a, <2>2, <3>1, <3>3, <3>4 DEF OverdueInv
  <2> QED BY <1>0, <2>1, <2>3, <2>4 DEF SlotTypes
<1>6. CASE FileOverdue(s)
  <2>1. settled'[s] /\ overdue[s] = "file"
    BY <1>0, <1>6 DEF FileOverdue, SlotInv
  <2>2. MailInv(s)'
    BY <2>1 DEF MailInv
  <2>3. CASE Pending(s) = {}
    <3>1. overdue'[s] = "no"
      BY <1>0, <1>6, <2>3 DEF FileOverdue, SlotTypes
    <3> QED BY <2>2, <3>1 DEF OverdueInv
  <2>4. CASE Pending(s) # {}
    <3> DEFINE f == batch[s][Min(Pending(s))]
    <3>1. /\ Adds(RunOf(s), f) /\ completed'[s] = completed[s] \cup {f}
      BY <1>0, <1>6, <2>4 DEF FileOverdue, SlotTypes, Record, Adds
    <3>2. f \in ToSet(batch[s])
      <4>1. Min(Pending(s)) \in DOMAIN batch[s]
        BY <1>0, <2>4, NextPending DEF Pending
      <4> QED BY <1>0, <4>1, InSet
    <3> HIDE DEF f
    <3>3. \A g \in ToSet(batch[s]) : Unrecorded(s, g) \/ g \in completed[s]
      BY <1>0, <2>1 DEF OverdueInv
    <3>4. \A g \in ToSet(batch[s]) : g # f =>
            (Unrecorded(s, g)' <=> Unrecorded(s, g))
      BY <1>b, <1>c, <3>1, <3>2 DEF Unrecorded
    <3> QED BY <1>a, <2>2, <3>1, <3>3, <3>4 DEF OverdueInv
  <2> QED BY <2>3, <2>4
<1>7. CASE WorkerOverdue(s)
  <2>1. settled'[s] /\ overdue'[s] = "no"
    BY <1>0, <1>7 DEF WorkerOverdue, SlotInv, SlotTypes
  <2> QED BY <2>1 DEF MailInv, OverdueInv
<1>8. CASE EventHandled(s)
  <2>1. /\ busy[s] = "event" /\ busy'[s] = "no"
        /\ UNCHANGED <<settled, completed, timer, overdue, mail, reports>>
    BY <1>0, <1>8 DEF EventHandled, PageTypes
  <2> QED BY <1>0, <1>a, <1>b, <2>1
       DEF MailInv, OverdueInv, Unsent, Unrecorded, InMail
<1> QED BY <1>1, <1>2, <1>3, <1>4, <1>5, <1>6, <1>7, <1>8 DEF Hosting

LEMMA FilesBySlot ==
  ASSUME HeadlessAssumption, TypeInv, SlotsInv, FilesInv, NEW s \in Slots,
         Work(s) \/ Paging(s) \/ Hosting(s)
  PROVE  FilesInv'
<1>1. MailInv(s)' /\ OverdueInv(s)'
  BY MailOfWork, MailOfPaging, MailOfHosting
<1>2. \A t \in Slots \ {s} : MailInv(t)' /\ OverdueInv(t)'
  BY OthersMail
<1>3. QueueInv' /\ RecordedOnce'
  BY QueuesBySlot, OnceBySlot
<1> QED BY <1>1, <1>2, <1>3 DEF FilesInv

LEMMA FilesByCore ==
  ASSUME HeadlessAssumption, TypeInv, SessionInv, SlotsInv, FilesInv,
         StartCycle \/ Creates \/ Replaces \/ RunEnds \/ Interrupt
  PROVE  FilesInv'
<1>1. UNCHANGED <<batch, reports, settled, completed, timer, overdue, page,
                  position, mail, busy>>
  BY DEF StartCycle, Creates, Replaces, RunEnds, Interrupt, runVars, slotVars,
         timerVars, pageVars, mailVars
<1>2. \A s \in Slots : MailInv(s)' /\ OverdueInv(s)'
  BY <1>1 DEF FilesInv, MailInv, OverdueInv, Unsent, Unrecorded, InMail
<1>3. RecordedOnce'
  BY <1>1 DEF FilesInv, RecordedOnce
<1> QED BY <1>2, <1>3, QueuesByCore DEF FilesInv

-----------------------------------------------------------------------------
(* A run that nothing has cut short loses no file.                           *)
LEMMA RecordsGrow ==
  ASSUME HeadlessAssumption, TypeInv, SlotsInv, FilesInv, NEW s \in Slots,
         Work(s) \/ Paging(s) \/ Hosting(s)
  PROVE  \A r \in Runs, f \in FileSet :
           reports[r][f] # 0 => reports'[r][f] # 0
<1>0. /\ RunOf(s) \in Runs /\ queue[RunOf(s)] \in Seq(FileSet)
      /\ batch[s] \in Seq(FileSet)
      /\ \A r \in Runs, f \in FileSet : reports[r][f] \in Nat
  BY SlotFacts DEF TypeInv, RunTypes, SlotTypes
<1>1. ASSUME NEW f \in FileSet, Adds(RunOf(s), f)
      PROVE  \A r \in Runs, g \in FileSet :
               reports[r][g] # 0 => reports'[r][g] # 0
  <2>1. reports[RunOf(s)][f] + 1 # 0
    BY <1>0
  <2> QED BY <1>0, <1>1, <2>1, AddsFacts
<1>2. CASE Drain(s) /\ queue[RunOf(s)] # <<>>
  <2>1. Adds(RunOf(s), Head(queue[RunOf(s)]))
    BY <1>2 DEF Drain, Record, Adds
  <2>2. Head(queue[RunOf(s)]) \in FileSet
    BY <1>0, <1>2, PopFacts
  <2> QED BY <1>1, <2>1, <2>2
<1>3. CASE \E f \in ToSet(batch[s]) : Unrecorded(s, f) /\ Adds(RunOf(s), f)
  <2>1. ToSet(batch[s]) \subseteq FileSet
    BY <1>0, InSet
  <2> QED BY <1>1, <1>3, <2>1
<1> QED BY <1>2, <1>3, RecordingFacts DEF Recording, FilesInv

LEMMA CleanBefore ==
  ASSUME TypeInv, SessionInv, NEW s \in Slots, Effect(s), Clean'
  PROVE  /\ Clean /\ cycle \in Runs /\ cycle' = cycle
         /\ ~Abandoned(cycle) /\ ~isTokenStale(cycle)
         /\ ~fatalError' /\ ~IsCancelled(cycle)'
<1>1. UNCHANGED <<cycle, phase>> /\ (fatalError => fatalError')
  BY DEF Effect
<1>2. cycle \in Runs
  BY <1>1 DEF Clean, TypeInv, CoreTypes, Runs
<1>3. Clean
  BY <1>1, <1>2, AbandonedBySlot DEF Clean
<1>4. Begun(cycle)
  BY <1>3 DEF Clean, Begun
<1>5. tokenOf[cycle] = token
  BY <1>3, <1>4 DEF SessionInv, TokensInv, Clean
<1> QED BY <1>1, <1>2, <1>3, <1>5 DEF Abandoned, isTokenStale, Clean

LEMMA CleanOthers ==
  ASSUME HeadlessAssumption, TypeInv, SlotsInv, FilesInv, NEW s \in Slots,
         Work(s) \/ Paging(s) \/ Hosting(s), NEW t \in Slots \ {s},
         CleanSlot(t)
  PROVE  CleanSlot(t)'
<1>1. /\ batch'[t] = batch[t] /\ settled'[t] = settled[t]
      /\ ended'[t] = ended[t] /\ completed'[t] = completed[t]
      /\ page'[t] = page[t] /\ position'[t] = position[t]
      /\ mail'[t] = mail[t] /\ busy'[t] = busy[t]
  BY SlotStep DEF Effect, OthersRest
<1>2. /\ RunOf(t) \in Runs /\ batch[t] \in Seq(FileSet)
      /\ completed[t] \subseteq FileSet
  BY SlotFacts DEF TypeInv, SlotTypes
<1>3. \A f \in FileSet : ~Unrecorded(t, f) => ~Unrecorded(t, f)'
  BY <1>2, RecordsGrow DEF Unrecorded
<1>4. /\ ToSet(batch[t]) \subseteq FileSet
      /\ \A k \in DOMAIN batch[t] : batch[t][k] \in FileSet
  BY <1>2, InSet
<1>5. \A f : InMail(t, f) => InMail(t, f)'
  BY <1>1 DEF InMail
<1>6. /\ \A f \in completed'[t] : ~Unrecorded(t, f)'
      /\ busy'[t] \in FileSet => ~Unrecorded(t, busy[t])'
      /\ ended'[t] = "done" => \A f \in ToSet(batch'[t]) : ~Unrecorded(t, f)'
  BY <1>1, <1>2, <1>3, <1>4 DEF CleanSlot
<1>7. ASSUME ~settled'[t]
      PROVE  /\ \A k \in DOMAIN batch'[t] : k < position'[t] =>
                  ~Unrecorded(t, batch[t][k])' \/ InMail(t, batch[t][k])'
             /\ \A i \in DOMAIN mail'[t] : mail'[t][i].type = "complete" =>
                  /\ i = Len(mail'[t]) /\ page'[t] \notin Live
                  /\ \A f \in ToSet(batch'[t]) :
                       ~Unrecorded(t, f)' \/ InMail(t, f)'
  <2>1. \A k \in DOMAIN batch[t] : k < position[t] =>
          ~Unrecorded(t, batch[t][k])' \/ InMail(t, batch[t][k])'
    <3> SUFFICES ASSUME NEW k \in DOMAIN batch[t], k < position[t]
                 PROVE  ~Unrecorded(t, batch[t][k])' \/ InMail(t, batch[t][k])'
      OBVIOUS
    <3>1. ~Unrecorded(t, batch[t][k]) \/ InMail(t, batch[t][k])
      BY <1>1, <1>7 DEF CleanSlot
    <3> QED BY <1>1, <1>3, <1>4, <1>5, <3>1
  <2>2. \A i \in DOMAIN mail[t] : mail[t][i].type = "complete" =>
          /\ i = Len(mail[t]) /\ page[t] \notin Live
          /\ \A f \in ToSet(batch[t]) : ~Unrecorded(t, f) \/ InMail(t, f)
    BY <1>1, <1>7 DEF CleanSlot
  <2> QED BY <1>1, <1>3, <1>4, <1>5, <2>1, <2>2
<1> QED BY <1>1, <1>6, <1>7 DEF CleanSlot

LEMMA CleanOfWork ==
  ASSUME HeadlessAssumption, TypeInv, SlotsInv, FilesInv, NEW s \in Slots,
         Work(s), CleanSlot(s), ~fatalError'
  PROVE  CleanSlot(s)'
<1> USE DEF coreVars, runVars, slotVars, timerVars, pageVars, mailVars
<1>0. /\ RunOf(s) \in Runs /\ SlotTypes /\ PageTypes /\ SlotInv(s)
  BY SlotFacts DEF TypeInv, SlotsInv
<1>b. "no" \notin FileSet /\ "collect" \notin FileSet
  BY FilesFacts
<1>c. /\ batch'[s] \in Seq(FileSet) /\ DOMAIN batch'[s] = 1 .. Len(batch'[s])
      /\ Len(batch'[s]) \in Nat
  BY SlotStep DEF TypeInv, SlotTypes
<1>e. ASSUME completed'[s] = {}, busy'[s] \in {"no", "collect"},
             ended'[s] = "no", mail'[s] = <<>>, position'[s] \in {0, 1}
      PROVE  CleanSlot(s)'
  <2>1. \A k \in DOMAIN batch'[s] : ~(k < position'[s])
    BY <1>c, <1>e
  <2>2. DOMAIN mail'[s] = {}
    BY <1>e
  <2> QED BY <1>b, <1>e, <2>1, <2>2 DEF CleanSlot
<1>f. ASSUME UNCHANGED <<batch, settled, ended, completed, page, position, mail,
                         busy, reports>>
      PROVE  CleanSlot(s)'
  BY <1>f DEF CleanSlot, Unrecorded, InMail
<1>1. CASE PickNext(s)
  <2>1. Fresh(s)
    BY <1>0, <1>1 DEF PickNext, SlotInv
  <2> QED BY <1>1, <1>e, <2>1 DEF PickNext, Fresh
<1>2. CASE Drain(s)
  <2>1. Fresh(s)
    BY <1>0, <1>2 DEF Drain, SlotInv
  <2> QED BY <1>2, <1>e, <2>1 DEF Drain, Fresh
<1>3. CASE WorkerEnds(s) \/ ContextFails(s) \/ Races(s) \/ Failed(s) \/ Leaves(s)
  BY <1>3, <1>f DEF WorkerEnds, ContextFails, Races, Failed, Goes, Leaves, Leave
<1>4. CASE ContextOpens(s)
  <2>1. Fresh(s) /\ position'[s] = 1
    BY <1>0, <1>4 DEF ContextOpens, SlotInv, PageTypes
  <2> QED BY <1>4, <1>e, <2>1 DEF ContextOpens, Fresh
<1>5. CASE FailRun(s)
  BY <1>5 DEF FailRun
<1>6. CASE PageIsClosed(s)
  <2>1. busy[s] \in {"no", "collect"}
    BY <1>0, <1>6 DEF PageIsClosed, SlotInv
  <2>2. /\ completed'[s] = {} /\ busy' = busy /\ ended'[s] = "no"
        /\ mail'[s] = <<>> /\ position'[s] = 0
    BY <1>0, <1>6 DEF PageIsClosed, SlotTypes, PageTypes
  <2> QED BY <1>e, <2>1, <2>2
<1> QED BY <1>1, <1>2, <1>3, <1>4, <1>5, <1>6 DEF Work

(* What a page has sent of its batch.                                        *)
Sent(s) ==
  /\ \A k \in DOMAIN batch[s] : k < position[s] =>
       ~Unrecorded(s, batch[s][k]) \/ InMail(s, batch[s][k])
  /\ \A i \in DOMAIN mail[s] : mail[s][i].type = "complete" =>
       /\ i = Len(mail[s]) /\ page[s] \notin Live
       /\ \A f \in ToSet(batch[s]) : ~Unrecorded(s, f) \/ InMail(s, f)

LEMMA CleanIfSent ==
  ASSUME NEW s \in Slots, CleanSlot(s), batch' = batch, reports' = reports,
         completed' = completed, busy' = busy,
         ended'[s] = ended[s] \/ ended'[s] = "crash",
         ~settled'[s] => Sent(s)'
  PROVE  CleanSlot(s)'
<1>1. \A f : Unrecorded(s, f)' <=> Unrecorded(s, f)
  BY DEF Unrecorded
<1> QED BY <1>1 DEF CleanSlot, Sent

LEMMA CleanOfPaging ==
  ASSUME HeadlessAssumption, TypeInv, SlotsInv, FilesInv, NEW s \in Slots,
         Paging(s), CleanSlot(s), ~Abandoned(RunOf(s))
  PROVE  CleanSlot(s)'
<1> USE DEF coreVars, runVars, slotVars, timerVars, pageVars, mailVars
<1>0. /\ SlotTypes /\ PageTypes /\ SlotInv(s) /\ mail[s] \in Seq(Messages)
      /\ batch[s] \in Seq(FileSet) /\ DOMAIN batch[s] = 1 .. Len(batch[s])
      /\ Len(batch[s]) \in Nat /\ position[s] \in Nat
  BY DEF TypeInv, SlotsInv, PageTypes, SlotTypes
<1>a. UNCHANGED <<batch, reports, completed, busy>>
  BY DEF Paging, PageCloses, PageCrashes, Dies, Chats, RunTests, CleanupEnds,
         WorkerCleanupEnds
<1>b. \A f : Unrecorded(s, f)' <=> Unrecorded(s, f)
  BY <1>a DEF Unrecorded
<1>c. ~isTokenStale(RunOf(s))
  BY DEF Abandoned
<1>d. ~settled[s] => Sent(s)
  BY DEF CleanSlot, Sent
<1>e. page[s] # "none" => position[s] \in 1 .. Len(batch[s])
  BY <1>0 DEF SlotInv
<1>1. ASSUME NEW how \in {"closed", "dead"}, Dies(s, how) PROVE CleanSlot(s)'
  <2>1. \/ settled'[s] /\ ended'[s] = "crash"
        \/ settled[s] /\ UNCHANGED <<settled, ended>>
    BY <1>0, <1>1 DEF Dies, SlotTypes
  <2> QED BY <1>a, <2>1, CleanIfSent
<1>2. ASSUME NEW next, NEW m \in Chatter(s), Sends(s, m, next),
             page[s] \in Live, UNCHANGED <<settled, ended, position>>
      PROVE  CleanSlot(s)'
  <2> SUFFICES ASSUME ~settled[s] PROVE Sent(s)'
    BY <1>a, <1>2, CleanIfSent
  <2>1. \A i \in DOMAIN mail[s] : mail[s][i].type # "complete"
    BY <1>2, <1>d DEF Sent
  <2>0. page[s] # "none"
    BY <1>2 DEF Live
  <2>2. /\ \A i \in DOMAIN mail[s] :
             i \in DOMAIN mail'[s] /\ mail'[s][i] = mail[s][i]
        /\ \A i \in DOMAIN mail'[s] : mail'[s][i].type # "complete"
    BY <1>0, <1>2, <2>0, <2>1, ChatterPushed
  <2>3. \A f : InMail(s, f) => InMail(s, f)'
    BY <2>2 DEF InMail
  <2>4. \A k \in DOMAIN batch[s] : k < position[s] =>
          ~Unrecorded(s, batch[s][k]) \/ InMail(s, batch[s][k])
    BY <1>d DEF Sent
  <2> QED BY <1>2, <1>a, <1>b, <2>2, <2>3, <2>4 DEF Sent
<1>3. CASE Chats(s)
  BY <1>3, <1>2 DEF Chats, Live
<1>4. CASE RunTests(s)
  BY <1>4, <1>2 DEF RunTests, Live, Chatter
<1>5. CASE CleanupEnds(s) \/ WorkerCleanupEnds(s)
  <2>1. CASE CleanupEnds(s) /\ position[s] = Len(batch[s])
    BY <1>2, <1>c, <2>1 DEF CleanupEnds, Live, Chatter
  <2>2. CASE CleanupEnds(s) /\ position[s] # Len(batch[s])
    <3>1. PICK outcome \in Outcomes(s) : Sends(s, <<Result(s, outcome)>>, "test")
      BY <1>c, <2>2 DEF CleanupEnds
    <3>2. /\ mail'[s] = mail[s] \o <<Result(s, outcome)>> /\ page[s] = "cleanup"
          /\ position'[s] = position[s] + 1 /\ page'[s] = "test"
          /\ UNCHANGED <<settled, ended>>
      BY <1>0, <1>c, <2>2, <3>1 DEF CleanupEnds, Sends, PageTypes
    <3> SUFFICES ASSUME ~settled[s] PROVE Sent(s)'
      BY <1>a, <3>2, CleanIfSent
    <3>3. /\ Result(s, outcome) \in Messages /\ Result(s, outcome).type = "file"
          /\ Result(s, outcome).file = batch[s][position[s]]
      BY <1>0, <3>2, ResultFacts
    <3>4. /\ mail'[s] \in Seq(Messages) /\ Len(mail'[s]) = Len(mail[s]) + 1
          /\ \A i \in 1 .. Len(mail[s]) : mail'[s][i] = mail[s][i]
          /\ mail'[s][Len(mail[s]) + 1] = Result(s, outcome)
      BY <1>0, <3>2, <3>3, PushFacts
    <3>5. /\ DOMAIN mail'[s] = 1 .. Len(mail[s]) + 1
          /\ DOMAIN mail[s] = 1 .. Len(mail[s]) /\ Len(mail[s]) \in Nat
      BY <1>0, <3>4
    <3>6. \A i \in DOMAIN mail[s] : mail[s][i].type # "complete"
      BY <1>d, <3>2 DEF Sent, Live
    <3>7. \A i \in DOMAIN mail'[s] : mail'[s][i].type # "complete"
      BY <3>3, <3>4, <3>5, <3>6
    <3>8. PICK g : g = batch[s][position[s]]
      OBVIOUS
    <3>9. (\A f : InMail(s, f) => InMail(s, f)') /\ InMail(s, g)'
      BY <3>3, <3>4, <3>5, <3>8 DEF InMail
    <3>10. ASSUME NEW k \in DOMAIN batch[s], k < position'[s],
                  NEW f, f = batch[s][k]
           PROVE  ~Unrecorded(s, f)' \/ InMail(s, f)'
      <4>1. k < position[s] \/ k = position[s]
        BY <1>0, <3>2, <3>10
      <4>2. k < position[s] => ~Unrecorded(s, f) \/ InMail(s, f)
        BY <1>d, <3>10 DEF Sent
      <4> QED BY <1>b, <3>8, <3>9, <3>10, <4>1, <4>2
    <3> QED BY <1>a, <3>7, <3>10 DEF Sent
  <2>3. CASE WorkerCleanupEnds(s)
    <3>1. PICK outcome \in Outcomes(s) :
            Sends(s, <<Result(s, outcome), [type |-> "complete"]>>, "over")
      BY <2>3 DEF WorkerCleanupEnds
    <3>2. /\ mail'[s] = mail[s] \o <<Result(s, outcome), [type |-> "complete"]>>
          /\ page[s] = "worker" /\ page'[s] = "over"
          /\ position[s] = Len(batch[s])
          /\ UNCHANGED <<settled, ended, position>>
      BY <1>0, <2>3, <3>1 DEF WorkerCleanupEnds, Sends, PageTypes, SlotInv
    <3> SUFFICES ASSUME ~settled[s] PROVE Sent(s)'
      BY <1>a, <3>2, CleanIfSent
    <3>3. /\ Result(s, outcome) \in Messages /\ Result(s, outcome).type = "file"
          /\ Result(s, outcome).file = batch[s][position[s]]
      BY <1>0, <3>2, ResultFacts
    <3>4. /\ mail'[s] \in Seq(Messages) /\ Len(mail'[s]) = Len(mail[s]) + 2
          /\ \A i \in 1 .. Len(mail[s]) : mail'[s][i] = mail[s][i]
          /\ mail'[s][Len(mail[s]) + 1] = Result(s, outcome)
          /\ mail'[s][Len(mail[s]) + 2] = [type |-> "complete"]
      BY <1>0, <3>2, <3>3, PushTwoFacts, MessageFacts
    <3>5. /\ DOMAIN mail'[s] = 1 .. Len(mail[s]) + 2
          /\ DOMAIN mail[s] = 1 .. Len(mail[s]) /\ Len(mail[s]) \in Nat
          /\ \A i \in 1 .. Len(mail[s]) : i \in 1 .. Len(mail[s]) + 2
          /\ Len(mail[s]) + 1 \in 1 .. Len(mail[s]) + 2
          /\ \A i \in 1 .. Len(mail[s]) + 2 :
               \/ i \in 1 .. Len(mail[s]) \/ i = Len(mail[s]) + 1
               \/ i = Len(mail[s]) + 2
      BY <1>0, <3>4
    <3>6. \A i \in DOMAIN mail[s] : mail[s][i].type # "complete"
      BY <1>d, <3>2 DEF Sent, Live
    <3>7. \A i \in DOMAIN mail'[s] : mail'[s][i].type = "complete" =>
            i = Len(mail'[s])
      BY <3>3, <3>4, <3>5, <3>6
    <3>8. PICK g : g = batch[s][position[s]]
      OBVIOUS
    <3>9. (\A f : InMail(s, f) => InMail(s, f)') /\ InMail(s, g)'
      BY <3>3, <3>4, <3>5, <3>8 DEF InMail
    <3>10. ASSUME NEW k \in DOMAIN batch[s], NEW f, f = batch[s][k]
           PROVE  ~Unrecorded(s, f)' \/ InMail(s, f)'
      <4>1. k < position[s] \/ k = position[s]
        BY <1>0, <3>2
      <4>2. k < position[s] => ~Unrecorded(s, f) \/ InMail(s, f)
        BY <1>d, <3>10 DEF Sent
      <4> QED BY <1>b, <3>8, <3>9, <3>10, <4>1, <4>2
    <3>11. ASSUME NEW f \in ToSet(batch[s])
           PROVE  ~Unrecorded(s, f)' \/ InMail(s, f)'
      <4>1. PICK k \in DOMAIN batch[s] : f = batch[s][k]
        BY <1>0, InSet
      <4> QED BY <3>10, <4>1
    <3>12. page'[s] \notin Live
      BY <3>2 DEF Live
    <3> QED BY <1>a, <3>7, <3>10, <3>11, <3>12 DEF Sent
  <2> QED BY <1>5, <2>1, <2>2, <2>3
<1> QED BY <1>1, <1>3, <1>4, <1>5 DEF Paging, PageCloses, PageCrashes

LEMMA CleanOfHosting ==
  ASSUME HeadlessAssumption, TypeInv, SlotsInv, FilesInv, NEW s \in Slots,
         Hosting(s), CleanSlot(s), ~isTokenStale(RunOf(s)),
         ~fatalError', ~IsCancelled(RunOf(s))'
  PROVE  CleanSlot(s)'
<1> USE DEF coreVars, runVars, slotVars, timerVars, pageVars, mailVars
<1>0. /\ SlotTypes /\ PageTypes /\ SlotInv(s) /\ mail[s] \in Seq(Messages)
      /\ batch[s] \in Seq(FileSet) /\ completed[s] \subseteq FileSet
      /\ RunOf(s) \in Runs /\ MailInv(s)
      /\ \A f \in FileSet : reports[RunOf(s)][f] \in Nat
  BY SlotFacts DEF TypeInv, SlotsInv, PageTypes, SlotTypes, FilesInv, RunTypes
<1>a. UNCHANGED <<batch, page, position>>
  BY DEF Hosting, Handle, FileHandled, EventHandled, HookThrows,
     FatalDispatched, RunFails, Cancel, DeadlinePasses, FileOverdue,
     WorkerOverdue
<1>b. /\ ToSet(batch[s]) \subseteq FileSet
      /\ \A k \in DOMAIN batch[s] : batch[s][k] \in ToSet(batch[s])
      /\ "no" \notin FileSet /\ "coverage" \notin FileSet
      /\ "event" \notin FileSet
  BY <1>0, InSet, FilesFacts
<1>g. \A f \in FileSet : ~Unrecorded(s, f) => ~Unrecorded(s, f)'
  BY <1>0, RecordsGrow DEF Unrecorded
<1>r. ASSUME NEW f \in FileSet, Adds(RunOf(s), f) PROVE ~Unrecorded(s, f)'
  <2>1. reports[RunOf(s)][f] + 1 # 0
    BY <1>0
  <2> QED BY <1>0, <1>r, <2>1, AddsFacts DEF Unrecorded
<1>s. ASSUME settled'[s], \A f \in completed'[s] : ~Unrecorded(s, f)',
             busy'[s] \notin FileSet,
             ended'[s] = "done" =>
               ended[s] = "done" \/ ToSet(batch[s]) \subseteq completed'[s]
      PROVE  CleanSlot(s)'
  <2>1. ended'[s] = "done" => \A f \in ToSet(batch[s]) : ~Unrecorded(s, f)'
    BY <1>b, <1>g, <1>s DEF CleanSlot
  <2> QED BY <1>a, <1>s, <2>1 DEF CleanSlot
<1>1. CASE Handle(s)
  <2> DEFINE m == Head(mail[s])
             n == Len(mail[s])
  <2>0. /\ mail[s] # <<>> /\ mail'[s] = Tail(mail[s]) /\ busy[s] = "no"
        /\ UNCHANGED completed
    BY <1>0, <1>1 DEF Handle, PageTypes
  <2>1. /\ n \in Nat \ {0} /\ m = mail[s][1] /\ m \in Messages
        /\ Tail(mail[s]) \in Seq(Messages) /\ Len(Tail(mail[s])) = n - 1
        /\ \A i \in 1 .. n - 1 : Tail(mail[s])[i] = mail[s][i + 1]
    BY <1>0, <2>0, PopFacts
  <2>2. /\ DOMAIN mail[s] = 1 .. n /\ DOMAIN mail'[s] = 1 .. n - 1
        /\ Len(mail'[s]) = n - 1
        /\ \A i \in 1 .. n - 1 : mail'[s][i] = mail[s][i + 1]
        /\ \A i \in 1 .. n - 1 : i + 1 \in 1 .. n
        /\ \A i \in 1 .. n : i = 1 \/ i - 1 \in 1 .. n - 1
        /\ 1 \in 1 .. n
    BY <1>0, <2>0, <2>1
  <2>3. m.type \in {"file", "start", "case", "complete", "fatal"}
    BY <2>1, MessageFacts
  <2>4. \A f \in completed'[s] : ~Unrecorded(s, f)'
    BY <1>0, <1>g, <2>0 DEF CleanSlot
  <2> HIDE DEF m, n
  <2>5. CASE settled[s]
    <3>1. settled'[s] /\ UNCHANGED <<busy, ended>>
      BY <1>1, <2>5 DEF Handle
    <3> QED BY <1>b, <1>s, <2>0, <2>4, <3>1
  <2>6. CASE ~settled[s]
    <3>1. Sent(s) /\ ended[s] = "no"
      BY <1>0, <2>6 DEF CleanSlot, Sent, SlotInv, SlotTypes
    <3>2. CASE m.type = "complete"
      <4>1. settled'[s] /\ ended'[s] = "done" /\ UNCHANGED <<busy, reports>>
        BY <1>0, <1>1, <2>6, <3>2 DEF Handle, MarkDone, SlotTypes, m
      <4>2. n = 1
        BY <2>1, <2>2, <3>1, <3>2 DEF Sent, n
      <4>3. \A f : ~InMail(s, f)
        BY <2>1, <2>2, <3>2, <4>2 DEF InMail
      <4>4. \A f \in ToSet(batch[s]) : ~Unrecorded(s, f)
        BY <2>1, <2>2, <3>1, <3>2, <4>3 DEF Sent
      <4>5. \A f : Unrecorded(s, f)' <=> Unrecorded(s, f)
        BY <4>1 DEF Unrecorded
      <4> QED BY <1>a, <1>b, <2>0, <2>4, <4>1, <4>4, <4>5 DEF CleanSlot
    <3>3. CASE m.type # "complete"
      <4>1. /\ UNCHANGED <<settled, ended>>
            /\ m.type = "file" => busy'[s] = m.file /\ Adds(RunOf(s), m.file)
            /\ m.type # "file" => busy'[s] \in {"no", "event", "coverage"}
        BY <1>0, <1>1, <2>0, <2>3, <2>6, <3>3
           DEF Handle, PageTypes, m, Record, Adds
      <4>2. ASSUME NEW g, m.type = "file", g = m.file
            PROVE  g \in FileSet /\ busy'[s] = g /\ ~Unrecorded(s, g)'
        BY <1>r, <2>1, <4>1, <4>2, MessageFacts
      <4>3. busy'[s] \in FileSet => m.type = "file"
        BY <1>b, <2>3, <3>3, <4>1
      <4>4. busy'[s] \in FileSet => reports'[RunOf(s)][busy'[s]] # 0
        BY <4>2, <4>3 DEF Unrecorded
      <4>5. ASSUME NEW f \in FileSet, ~Unrecorded(s, f) \/ InMail(s, f)
            PROVE  ~Unrecorded(s, f)' \/ InMail(s, f)'
        <5>1. CASE ~Unrecorded(s, f)
          BY <1>g, <5>1
        <5>2. ASSUME NEW i \in 1 .. n, mail[s][i].type = "file",
                     mail[s][i].file = f
              PROVE  ~Unrecorded(s, f)' \/ InMail(s, f)'
          <6>1. CASE i = 1
            <7>1. m.type = "file" /\ f = m.file
              BY <2>1, <5>2, <6>1
            <7> QED BY <4>2, <7>1
          <6>2. CASE i # 1
            <7>1. i - 1 \in 1 .. n - 1 /\ mail'[s][i - 1] = mail[s][i]
              <8>1. i - 1 \in 1 .. n - 1
                BY <2>2, <6>2
              <8>2. (i - 1) + 1 = i
                BY <5>2
              <8> QED BY <2>2, <8>1, <8>2
            <7> QED BY <2>2, <5>2, <7>1 DEF InMail
          <6> QED BY <6>1, <6>2
        <5> QED BY <2>2, <4>5, <5>1, <5>2 DEF InMail
      <4>6. ASSUME NEW k \in DOMAIN batch[s], k < position[s],
                   NEW f, f = batch[s][k]
            PROVE  ~Unrecorded(s, f)' \/ InMail(s, f)'
        BY <1>b, <3>1, <4>5, <4>6 DEF Sent
      <4>7. ASSUME NEW i \in DOMAIN mail'[s], mail'[s][i].type = "complete"
            PROVE  /\ i = Len(mail'[s]) /\ page'[s] \notin Live
                   /\ \A f \in ToSet(batch[s]) :
                        ~Unrecorded(s, f)' \/ InMail(s, f)'
        <5>1. i + 1 \in DOMAIN mail[s] /\ mail[s][i + 1].type = "complete"
          BY <2>2, <4>7
        <5>2. /\ i + 1 = n /\ page[s] \notin Live
              /\ \A f \in ToSet(batch[s]) : ~Unrecorded(s, f) \/ InMail(s, f)
          BY <3>1, <5>1 DEF Sent, n
        <5>3. i = n - 1
          BY <2>1, <2>2, <4>7, <5>2
        <5> QED BY <1>a, <1>b, <2>2, <4>5, <5>2, <5>3
      <4>8. /\ \A k \in DOMAIN batch'[s] : k < position'[s] =>
                 \A f : f = batch[s][k] => ~Unrecorded(s, f)' \/ InMail(s, f)'
            /\ ended'[s] # "done"
        BY <1>a, <3>1, <4>1, <4>6
      <4> QED BY <1>a, <2>4, <4>4, <4>7, <4>8 DEF CleanSlot, Unrecorded
    <3> QED BY <3>2, <3>3
  <2> QED BY <2>5, <2>6
<1>2. CASE FileHandled(s)
  <2>1. /\ busy[s] \in FileSet /\ busy'[s] = "no" /\ mail' = mail
        /\ completed'[s] = completed[s] \cup {busy[s]}
        /\ UNCHANGED reports
    BY <1>0, <1>2 DEF FileHandled, SlotTypes, PageTypes
  <2>2. \A f : Unrecorded(s, f)' <=> Unrecorded(s, f)
    BY <2>1 DEF Unrecorded
  <2>3. \A f \in completed'[s] : ~Unrecorded(s, f)'
    BY <2>1, <2>2 DEF CleanSlot
  <2>4. CASE options.isolate
    <3>1. settled'[s] /\ ended'[s] = IF settled[s] THEN ended[s] ELSE "done"
      BY <1>0, <1>2, <2>4 DEF FileHandled, MarkDone, SlotTypes
    <3>2. Len(batch[s]) <= 1 /\ busy[s] \in ToSet(batch[s])
      BY <1>0, <2>1, <2>4 DEF SlotInv
    <3>3. ToSet(batch[s]) \subseteq completed'[s]
      <4> SUFFICES ASSUME NEW f \in ToSet(batch[s]) PROVE f = busy[s]
        BY <2>1
      <4>1. PICK i, j \in 1 .. Len(batch[s]) :
              f = batch[s][i] /\ busy[s] = batch[s][j]
        BY <1>0, <3>2, InSet
      <4>2. Len(batch[s]) \in Nat
        BY <1>0
      <4>3. i = j
        BY <3>2, <4>1, <4>2
      <4> QED BY <4>1, <4>3
    <3> QED BY <1>b, <1>s, <2>1, <2>3, <3>1, <3>3
  <2>5. CASE ~options.isolate
    <3>1. UNCHANGED <<settled, ended>>
      BY <1>2, <2>5 DEF FileHandled
    <3>2. \A f : InMail(s, f)' <=> InMail(s, f)
      BY <2>1 DEF InMail
    <3> QED BY <1>a, <1>b, <2>1, <2>2, <2>3, <3>1, <3>2 DEF CleanSlot
  <2> QED BY <2>4, <2>5
<1>3. CASE HookThrows(s) \/ FatalDispatched(s) \/ WorkerOverdue(s)
  BY <1>3 DEF HookThrows, FatalDispatched, WorkerOverdue
<1>4. CASE RunFails(s)
  BY <1>0, <1>4 DEF RunFails, Cancel, IsCancelled, TypeInv, RunTypes
<1>5. CASE DeadlinePasses(s)
  <2>1. settled'[s] /\ busy[s] = "no" /\ UNCHANGED <<ended, busy>>
    BY <1>0, <1>5 DEF DeadlinePasses, SlotTypes
  <2>2. CASE completed' = completed
    BY <1>0, <1>b, <1>g, <1>s, <2>1, <2>2 DEF CleanSlot
  <2>3. CASE completed' # completed
    <3> DEFINE f == batch[s][position[s]]
    <3>1. /\ Adds(RunOf(s), f) /\ completed'[s] = completed[s] \cup {f}
          /\ timer[s] # "off"
      BY <1>0, <1>5, <2>3 DEF DeadlinePasses, SlotTypes, Record, Adds
    <3>2. f \in FileSet
      BY <1>0, <3>1, InTurn DEF SlotInv
    <3> HIDE DEF f
    <3>3. \A g \in completed'[s] : ~Unrecorded(s, g)'
      BY <1>0, <1>g, <1>r, <3>1, <3>2 DEF CleanSlot
    <3> QED BY <1>b, <1>s, <2>1, <3>3
  <2> QED BY <2>2, <2>3
<1>6. CASE FileOverdue(s)
  <2>1. settled'[s] /\ busy[s] = "no" /\ UNCHANGED busy
    BY <1>0, <1>6 DEF FileOverdue, SlotInv
  <2>2. CASE Pending(s) = {}
    <3>1. completed' = completed
      BY <1>6, <2>2 DEF FileOverdue
    <3>2. ToSet(batch[s]) \subseteq completed[s]
      <4> SUFFICES ASSUME NEW f \in ToSet(batch[s]) PROVE f \in completed[s]
        OBVIOUS
      <4>1. PICK k \in DOMAIN batch[s] : f = batch[s][k]
        BY <1>0, InSet
      <4> QED BY <2>2, <4>1 DEF Pending
    <3> QED BY <1>0, <1>b, <1>g, <1>s, <2>1, <3>1, <3>2 DEF CleanSlot
  <2>3. CASE Pending(s) # {}
    <3> DEFINE f == batch[s][Min(Pending(s))]
    <3>1. /\ Adds(RunOf(s), f) /\ completed'[s] = completed[s] \cup {f}
          /\ UNCHANGED ended
      BY <1>0, <1>6, <2>3 DEF FileOverdue, SlotTypes, Record, Adds
    <3>2. f \in FileSet
      <4>1. Min(Pending(s)) \in DOMAIN batch[s]
        BY <1>0, <2>3, NextPending DEF Pending
      <4> QED BY <1>b, <4>1
    <3> HIDE DEF f
    <3>3. \A g \in completed'[s] : ~Unrecorded(s, g)'
      BY <1>0, <1>g, <1>r, <3>1, <3>2 DEF CleanSlot
    <3> QED BY <1>b, <1>s, <2>1, <3>1, <3>3
  <2> QED BY <2>2, <2>3
<1>7. CASE EventHandled(s)
  <2>1. /\ busy'[s] = "no"
        /\ UNCHANGED <<settled, ended, completed, mail, reports>>
    BY <1>0, <1>7 DEF EventHandled, PageTypes
  <2> QED BY <1>a, <1>b, <2>1 DEF CleanSlot, Unrecorded, InMail
<1> QED BY <1>1, <1>2, <1>3, <1>4, <1>5, <1>6, <1>7 DEF Hosting

(* Where a file of the cycle is: in its queue, in a batch, or recorded.      *)
Covered(f) ==
  \/ f \in ToSet(queue[cycle]) \/ reports[cycle][f] # 0
  \/ \E s \in SlotsOf(cycle) : f \in ToSet(batch[s])

LEMMA CoveredBySlot ==
  ASSUME HeadlessAssumption, TypeInv, SlotsInv, FilesInv, NEW s \in Slots,
         Work(s) \/ Paging(s) \/ Hosting(s), cycle \in Runs, cycle' = cycle,
         RunOf(s) = cycle, ~Abandoned(cycle), CleanSlot(s)
  PROVE  \A f \in FileSet : Covered(f) => Covered(f)'
<1>0. /\ SlotInv(s) /\ s \in SlotsOf(cycle) /\ batch \in [Slots -> Seq(FileSet)]
      /\ queue \in [Runs -> Seq(FileSet)] /\ queue[cycle] \in Seq(FileSet)
      /\ IsInjective(queue[cycle]) /\ SlotsOf(cycle) \subseteq Slots
      /\ \A f \in FileSet : reports[cycle][f] \in Nat
  BY SlotFacts
     DEF TypeInv, RunTypes, SlotTypes, FilesInv, QueueInv, SlotsInv, SlotsOf
<1>1. \A f \in FileSet : reports[cycle][f] # 0 => reports'[cycle][f] # 0
  BY RecordsGrow
<1>2. SlotsOf(cycle)' = SlotsOf(cycle)
  BY DEF SlotsOf
<1>3. CASE UNCHANGED <<queue, batch>>
  BY <1>1, <1>2, <1>3 DEF Covered
<1>4. CASE PickNext(s) /\ ~UNCHANGED <<queue, batch>>
  <2>1. /\ at[s] = "free" /\ queue[cycle] # <<>>
        /\ batch' = [batch EXCEPT ![s] = BatchOf(cycle)]
        /\ queue' = [queue EXCEPT ![cycle] =
                       SubSeq(@, Len(BatchOf(cycle)) + 1, Len(@))]
    BY <1>4 DEF PickNext
  <2>2. PICK n \in 1 .. Len(queue[cycle]) :
          BatchOf(cycle) = SubSeq(queue[cycle], 1, n) /\ Len(BatchOf(cycle)) = n
    BY <1>0, <2>1, BatchFacts
  <2>3. \A x : x \in ToSet(queue[cycle]) <=>
          \/ x \in ToSet(SubSeq(queue[cycle], 1, n))
          \/ x \in ToSet(SubSeq(queue[cycle], n + 1, Len(queue[cycle])))
    BY <1>0, <2>2, CutApart
  <2>4. /\ batch'[s] = SubSeq(queue[cycle], 1, n)
        /\ queue'[cycle] = SubSeq(queue[cycle], n + 1, Len(queue[cycle]))
        /\ \A t \in Slots : t # s => batch'[t] = batch[t]
    BY <1>0, <2>1, <2>2
  <2>5. batch[s] = <<>>
    BY <1>0, <2>1 DEF SlotInv
  <2>6. \A x : x \notin ToSet(batch[s])
    BY <2>5 DEF ToSet
  <2> QED BY <1>0, <1>1, <1>2, <2>3, <2>4, <2>6 DEF Covered
<1>5. CASE Drain(s) /\ ~UNCHANGED <<queue, batch>>
  <2>1. /\ queue[cycle] # <<>> /\ batch' = batch
        /\ Adds(cycle, Head(queue[cycle])) /\ queue'[cycle] = Tail(queue[cycle])
    BY <1>0, <1>5 DEF Drain, Record, Adds
  <2>2. \A f \in ToSet(queue[cycle]) :
          f = Head(queue[cycle]) \/ f \in ToSet(Tail(queue[cycle]))
    <3>1. /\ Len(queue[cycle]) \in Nat \ {0} /\ Head(queue[cycle]) = queue[cycle][1]
          /\ Tail(queue[cycle]) \in Seq(FileSet)
          /\ Len(Tail(queue[cycle])) = Len(queue[cycle]) - 1
          /\ \A i \in 1 .. Len(queue[cycle]) - 1 :
               Tail(queue[cycle])[i] = queue[cycle][i + 1]
      BY <1>0, <2>1, PopFacts
    <3>2. ASSUME NEW i \in 1 .. Len(queue[cycle]), i # 1
          PROVE  queue[cycle][i] \in ToSet(Tail(queue[cycle]))
      <4>1. i - 1 \in 1 .. Len(queue[cycle]) - 1 /\ (i - 1) + 1 = i
        BY <3>1, <3>2
      <4>2. PICK j \in 1 .. Len(Tail(queue[cycle])) : j = i - 1
        BY <3>1, <4>1
      <4>3. Tail(queue[cycle])[j] = queue[cycle][i]
        BY <3>1, <4>1, <4>2
      <4>4. DOMAIN Tail(queue[cycle]) = 1 .. Len(Tail(queue[cycle]))
        BY <3>1, InSet
      <4> QED BY <4>2, <4>3, <4>4 DEF ToSet
    <3> QED BY <1>0, <3>1, <3>2, InSet
  <2>3. Head(queue[cycle]) \in FileSet
    BY <1>0, <2>1, PopFacts
  <2>4. reports'[cycle][Head(queue[cycle])] # 0
    <3>1. \A g \in FileSet : Adds(cycle, g) => reports'[cycle][g] # 0
      <4> SUFFICES ASSUME NEW g \in FileSet, Adds(cycle, g)
                   PROVE  reports'[cycle][g] # 0
        OBVIOUS
      <4>1. reports'[cycle][g] = reports[cycle][g] + 1 /\ reports[cycle][g] \in Nat
        BY <1>0, AddsFacts
      <4> QED BY <4>1
    <3> QED BY <2>1, <2>3, <3>1
  <2> QED BY <1>1, <1>2, <2>1, <2>2, <2>4 DEF Covered
<1>6. CASE PageIsClosed(s)
  <2>1. /\ ended[s] = "done" /\ UNCHANGED <<queue, reports>>
        /\ \A t \in Slots : t # s => batch'[t] = batch[t]
    BY <1>0, <1>6 DEF PageIsClosed, SlotInv, runVars, coreVars
  <2>2. \A f \in ToSet(batch[s]) : reports[cycle][f] # 0
    BY <2>1 DEF CleanSlot, Unrecorded
  <2> QED BY <1>0, <1>1, <1>2, <2>1, <2>2 DEF Covered
<1> QED BY <1>3, <1>4, <1>5, <1>6, QueuesChange

LEMMA CoveredByOthers ==
  ASSUME TypeInv, NEW s \in Slots, Effect(s), cycle \in Runs, cycle' = cycle,
         RunOf(s) # cycle
  PROVE  \A f \in FileSet : Covered(f) => Covered(f)'
<1>1. /\ queue'[cycle] = queue[cycle] /\ reports'[cycle] = reports[cycle]
  BY DEF Effect, OtherRunsRest
<1>2. \A t \in SlotsOf(cycle) : t \in Slots /\ t # s
  BY DEF SlotsOf
<1>3. \A t \in SlotsOf(cycle) : batch'[t] = batch[t]
  BY <1>2 DEF Effect, OthersRest
<1>4. SlotsOf(cycle)' = SlotsOf(cycle)
  BY DEF SlotsOf
<1> QED BY <1>1, <1>3, <1>4 DEF Covered

LEMMA CleanBySlot ==
  ASSUME HeadlessAssumption, TypeInv, SessionInv, SlotsInv, FilesInv, CleanInv,
         NEW s \in Slots, Work(s) \/ Paging(s) \/ Hosting(s)
  PROVE  CleanInv'
<1> SUFFICES ASSUME Clean'
             PROVE  /\ \A t \in SlotsOf(cycle)' : CleanSlot(t)'
                    /\ \A f \in FileSet : Covered(f)'
  BY DEF CleanInv, Covered
<1>1. Effect(s)
  BY SlotStep
<1>2. /\ Clean /\ cycle \in Runs /\ cycle' = cycle
      /\ ~Abandoned(cycle) /\ ~isTokenStale(cycle)
      /\ ~fatalError' /\ ~IsCancelled(cycle)'
  BY <1>1, CleanBefore
<1>3. /\ \A t \in SlotsOf(cycle) : CleanSlot(t)
      /\ \A f \in FileSet : Covered(f)
  BY <1>2 DEF CleanInv, Covered
<1>4. SlotsOf(cycle)' = SlotsOf(cycle)
  BY <1>2 DEF SlotsOf
<1>5. \A t \in SlotsOf(cycle) : t \in Slots /\ RunOf(t) = cycle
  BY DEF SlotsOf
<1>6. ASSUME NEW t \in SlotsOf(cycle) PROVE CleanSlot(t)'
  <2>1. CASE t = s
    <3>1. CleanSlot(s) /\ RunOf(s) = cycle
      BY <1>3, <1>5, <2>1
    <3>2. /\ ~isTokenStale(RunOf(s)) /\ ~Abandoned(RunOf(s))
          /\ ~IsCancelled(RunOf(s))'
      BY <1>2, <3>1
    <3> QED BY <1>2, <2>1, <3>1, <3>2, CleanOfWork, CleanOfPaging,
       CleanOfHosting
  <2>2. CASE t # s
    <3>1. t \in Slots \ {s} /\ CleanSlot(t)
      BY <1>3, <1>5, <2>2
    <3> QED BY <3>1, CleanOthers
  <2> QED BY <2>1, <2>2
<1>7. \A f \in FileSet : Covered(f)'
  <2>1. CASE RunOf(s) = cycle
    <3>1. CleanSlot(s)
      BY <1>3, <2>1, SlotFacts
    <3> QED BY <1>2, <1>3, <2>1, <3>1, CoveredBySlot
  <2>2. CASE RunOf(s) # cycle
    BY <1>1, <1>2, <1>3, <2>2, CoveredByOthers
  <2> QED BY <2>1, <2>2
<1> QED BY <1>4, <1>6, <1>7

LEMMA CleanByCore ==
  ASSUME HeadlessAssumption, TypeInv, SessionInv, SlotsInv, CleanInv,
         StartCycle \/ Creates \/ Replaces \/ RunEnds \/ Interrupt
  PROVE  CleanInv'
<1> SUFFICES ASSUME Clean' PROVE CleanInv'
  BY DEF CleanInv
<1>0. cycle \in Nat /\ CoreInv /\ RunsInv
  BY DEF TypeInv, CoreTypes, SessionInv
<1>1. CASE StartCycle \/ Replaces
  BY <1>1 DEF StartCycle, Replaces, Clean
<1>2. CASE RunEnds \/ Interrupt
  <2>1. UNCHANGED <<cycle, reports, queue, slotVars, pageVars, mailVars>>
    BY <1>2 DEF RunEnds, Interrupt, runVars
  <2>2. Clean
    <3>1. phase \in {"running", "idle"} /\ cycle > 0 /\ ~fatalError
      BY <1>2 DEF RunEnds, Interrupt, Clean
    <3>2. cycle \in Runs
      BY <1>0, <3>1 DEF TypeInv, CoreTypes, Runs
    <3>3. ~IsCancelled(cycle)
      BY <1>2, <2>1, <3>2, AbandonedByCore DEF SessionInv, Clean
    <3> QED BY <3>1, <3>3 DEF Clean
  <2>3. \A s : CleanSlot(s)' <=> CleanSlot(s)
    BY <2>1 DEF CleanSlot, Unrecorded, InMail, slotVars, pageVars, mailVars
  <2>4. SlotsOf(cycle)' = SlotsOf(cycle)
    BY <2>1 DEF SlotsOf
  <2>5. UNCHANGED <<cycle, reports, queue, batch>>
    BY <2>1 DEF slotVars
  <2> QED BY <2>2, <2>3, <2>4, <2>5 DEF CleanInv
<1>3. CASE Creates
  <2>1. /\ cycle \in Runs /\ queue'[cycle] = Files /\ cycle' = cycle
    BY <1>3, Created DEF SessionInv, Creates
  <2>2. ~Begun(cycle)
    BY <1>0, <1>3 DEF Creates, Begun
  <2>3. "no" \notin FileSet
    BY FilesFacts
  <2>4. ASSUME NEW s \in SlotsOf(cycle) PROVE CleanSlot(s)'
    <3>1. s \in Slots /\ RunOf(s) = cycle
      BY DEF SlotsOf
    <3>2. SlotInv(s) /\ batch[s] \in Seq(FileSet)
      BY <3>1 DEF SlotsInv, TypeInv, SlotTypes
    <3>3. /\ Fresh(s) /\ batch[s] = <<>> /\ busy[s] = "no"
      BY <2>2, <3>1, <3>2 DEF SlotInv
    <3>4. UNCHANGED <<batch, settled, ended, completed, page, position, mail,
                      busy, reports>>
      BY <1>3 DEF Creates
    <3>5. DOMAIN mail'[s] = {} /\ DOMAIN batch'[s] = {}
      BY <3>3, <3>4 DEF Fresh
    <3> QED BY <2>3, <3>3, <3>4, <3>5 DEF CleanSlot, Fresh
  <2>5. ToSet(Files) = FileSet
    BY DEF FileSet
  <2>6. SlotsOf(cycle)' = SlotsOf(cycle)
    BY <2>1 DEF SlotsOf
  <2>7. \A f \in FileSet : f \in ToSet(queue'[cycle'])
    BY <2>1, <2>5
  <2> QED BY <2>4, <2>6, <2>7 DEF CleanInv
<1> QED BY <1>1, <1>2, <1>3

(* A cycle that ends as nothing had cut it short.                            *)
LEMMA RecordedInTheEnd ==
  ASSUME HeadlessAssumption, TypeInv, SessionInv, SlotsInv, FilesInv, CleanInv
  PROVE  EveryFileRecorded
<1> SUFFICES ASSUME phase = "idle", cycle > 0, active = 0, ~IsCancelled(cycle),
                    ~fatalError, NEW f \in FileSet
             PROVE  reports[cycle][f] = 1
  BY DEF EveryFileRecorded
<1>1. cycle \in Runs /\ reports[cycle][f] \in Nat /\ options.workers \in Nat \ {0}
  <2>1. cycle \in Runs /\ options \in Options
    BY DEF TypeInv, CoreTypes, Runs
  <2>2. reports \in [Runs -> [FileSet -> Nat]]
    BY DEF TypeInv, RunTypes
  <2> QED BY <2>1, <2>2, OptionsFacts
<1>2. Clean /\ Begun(cycle)
  BY DEF Clean, Begun
<1>3. tokenOf[cycle] = token
  BY <1>2 DEF SessionInv, TokensInv, Clean
<1>4. ~Abandoned(cycle)
  BY <1>3 DEF Abandoned, isTokenStale
<1>5. \A s \in SlotsOf(cycle) : at[s] \in {"none", "over"}
  BY DEF SessionInv, CoreInv
<1>6. ASSUME NEW s \in SlotsOf(cycle)
      PROVE  batch[s] = <<>> /\ (at[s] = "over" => queue[cycle] = <<>>)
  <2>1. s \in Slots /\ RunOf(s) = cycle
    BY DEF SlotsOf
  <2>2. SlotInv(s)
    BY <2>1 DEF SlotsInv
  <2> QED BY <1>4, <1>5, <2>1, <2>2 DEF SlotInv
<1>7. queue[cycle] = <<>>
  <2>1. 1 \in 1 .. Len(Files)
    BY FilesFacts
  <2>2. <<cycle, 1>> \in Slots /\ RunOf(<<cycle, 1>>) = cycle
    BY <1>1, <2>1 DEF Slots, RunOf
  <2>3. <<cycle, 1>> \in SlotsOf(cycle) /\ SlotInv(<<cycle, 1>>)
    BY <2>2 DEF SlotsOf, SlotsInv
  <2>4. <<cycle, 1>>[2] <= options.workers
    BY <1>1
  <2>5. at[<<cycle, 1>>] # "none"
    BY <1>2, <2>2, <2>3, <2>4 DEF SlotInv
  <2> QED BY <1>5, <1>6, <2>3, <2>5
<1>8. reports[cycle][f] # 0
  <2>1. \A x : x \notin ToSet(<<>>)
    BY DEF ToSet
  <2> QED BY <1>2, <1>6, <1>7, <2>1 DEF CleanInv
<1>9. reports[cycle][f] <= 1
  BY <1>1 DEF FilesInv, RecordedOnce
<1> QED BY <1>1, <1>8, <1>9

-----------------------------------------------------------------------------
(* What is recorded, of which run and by whom.                               *)
NewRecord(s, x) ==
  /\ x.run = RunOf(s) /\ x.file \in FileSet /\ Unrecorded(s, x.file)
  /\ recorded' = recorded \cup {x} /\ Adds(RunOf(s), x.file) /\ batch' = batch
  /\ \/ x.source = "deadline" /\ x.file \in ToSet(batch[s])
     \/ x.source = "page" /\ x.file \in ToSet(batch[s]) /\ mail[s] # <<>>
          /\ ~isTokenStale(RunOf(s))
     \/ x.source = "bail" /\ x.counts = 0 /\ at[s] = "draining"

LEMMA NewRecordFacts ==
  ASSUME HeadlessAssumption, TypeInv, SlotsInv, FilesInv, NEW s \in Slots,
         Work(s) \/ Paging(s) \/ Hosting(s)
  PROVE  UNCHANGED <<recorded, reports>> \/ \E x : NewRecord(s, x)
<1> USE DEF coreVars, runVars, slotVars, timerVars, pageVars, mailVars
<1>0. /\ SlotInv(s) /\ batch[s] \in Seq(FileSet) /\ RunOf(s) \in Runs
      /\ ToSet(batch[s]) \subseteq FileSet /\ MailInv(s) /\ OverdueInv(s)
      /\ queue[RunOf(s)] \in Seq(FileSet)
  <2>1. batch[s] \in Seq(FileSet) /\ queue[RunOf(s)] \in Seq(FileSet)
    BY SlotFacts DEF TypeInv, SlotTypes, RunTypes
  <2> QED BY <2>1, SlotFacts, InSet DEF SlotsInv, FilesInv
<1>a. ASSUME NEW f \in FileSet, NEW status, NEW source, NEW counts,
             Unrecorded(s, f),
             Record(RunOf(s), f, status, counts, source), batch' = batch,
             \/ source = "deadline" /\ f \in ToSet(batch[s])
             \/ source = "page" /\ f \in ToSet(batch[s]) /\ mail[s] # <<>>
                  /\ ~isTokenStale(RunOf(s))
             \/ source = "bail" /\ counts = 0 /\ at[s] = "draining"
      PROVE  \E x : NewRecord(s, x)
  <2> DEFINE x == [run |-> RunOf(s), file |-> f, status |-> status,
                   counts |-> counts, source |-> source]
  <2>1. /\ x.run = RunOf(s) /\ x.file = f /\ x.counts = counts
        /\ x.source = source
    OBVIOUS
  <2>2. recorded' = recorded \cup {x} /\ Adds(RunOf(s), f)
    BY <1>a DEF Record, Adds
  <2> HIDE DEF x
  <2>3. NewRecord(s, x)
    BY <1>a, <2>1, <2>2 DEF NewRecord
  <2> QED BY <2>3
<1>1. CASE Drain(s) /\ ~UNCHANGED <<recorded, reports>>
  <2>1. /\ queue[RunOf(s)] # <<>> /\ at[s] = "draining" /\ batch' = batch
        /\ Record(RunOf(s), Head(queue[RunOf(s)]), "skip", 0, "bail")
    BY <1>1 DEF Drain
  <2>2. /\ Head(queue[RunOf(s)]) = queue[RunOf(s)][1]
        /\ 1 \in DOMAIN queue[RunOf(s)] /\ Head(queue[RunOf(s)]) \in FileSet
    <3>1. /\ Head(queue[RunOf(s)]) = queue[RunOf(s)][1]
          /\ Head(queue[RunOf(s)]) \in FileSet
          /\ Len(queue[RunOf(s)]) \in Nat \ {0}
      BY <1>0, <2>1, PopFacts
    <3> QED BY <1>0, <3>1
  <2>3. Unrecorded(s, Head(queue[RunOf(s)]))
    BY <1>0, <2>2 DEF FilesInv, QueueInv, Unrecorded
  <2> QED BY <1>a, <2>1, <2>2, <2>3
<1>2. CASE Handle(s) /\ ~UNCHANGED <<recorded, reports>>
  <2> DEFINE m == Head(mail[s])
  <2>1. mail[s] \in Seq(Messages) /\ mail[s] # <<>> /\ batch' = batch
    BY <1>2 DEF Handle, TypeInv, PageTypes
  <2>2. m = mail[s][1] /\ m \in Messages /\ 1 \in DOMAIN mail[s]
    <3>1. Len(mail[s]) \in Nat \ {0} /\ m = mail[s][1] /\ m \in Messages
      BY <2>1, PopFacts
    <3> QED BY <2>1, <3>1
  <2>3. m.type \in {"file", "start", "case", "complete", "fatal"}
    BY <2>2, MessageFacts
  <2>4. /\ ~settled[s] /\ m.type = "file" /\ ~isTokenStale(RunOf(s))
        /\ Record(RunOf(s), m.file, m.status, m.counts, "page")
    BY <1>2, <2>3 DEF Handle
  <2>5. m.file \in ToSet(batch[s]) /\ Unrecorded(s, m.file)
    BY <1>0, <2>2, <2>4 DEF MailInv
  <2> HIDE DEF m
  <2> QED BY <1>0, <1>a, <2>1, <2>4, <2>5
<1>3. CASE DeadlinePasses(s) /\ ~UNCHANGED <<recorded, reports>>
  <2> DEFINE f == batch[s][position[s]]
  <2>1. /\ ~settled[s] /\ timer[s] = "file" /\ batch' = batch
        /\ \E counts \in Counts(s) :
             Record(RunOf(s), f, "fail", counts, "deadline")
    BY <1>3 DEF DeadlinePasses
  <2>2. /\ position[s] \in DOMAIN batch[s] /\ f \in ToSet(batch[s])
    BY <1>0, <2>1, InTurn DEF SlotInv
  <2>3. Unrecorded(s, f)
    BY <1>0, <2>1, <2>2 DEF MailInv, Unsent
  <2> HIDE DEF f
  <2> QED BY <1>0, <1>a, <2>1, <2>2, <2>3
<1>4. CASE FileOverdue(s) /\ ~UNCHANGED <<recorded, reports>>
  <2> DEFINE f == batch[s][Min(Pending(s))]
  <2>1. /\ overdue[s] = "file" /\ Pending(s) # {} /\ batch' = batch
        /\ Record(RunOf(s), f, "fail", 1, "deadline")
    BY <1>4 DEF FileOverdue
  <2>2. Min(Pending(s)) \in DOMAIN batch[s] /\ f \notin completed[s]
    BY <1>0, <2>1, NextPending DEF Pending
  <2>3. f \in ToSet(batch[s])
    BY <1>0, <2>2, InSet
  <2>4. Unrecorded(s, f)
    BY <1>0, <2>1, <2>2, <2>3 DEF OverdueInv
  <2> HIDE DEF f
  <2> QED BY <1>0, <1>a, <2>1, <2>3, <2>4
<1>5. CASE Work(s) /\ ~Drain(s)
  BY <1>5 DEF Work, PickNext, WorkerEnds, ContextOpens, ContextFails, Races,
     Failed, Leaves, Leave, Goes, FailRun, PageIsClosed
<1>6. CASE Paging(s)
  BY <1>6 DEF Paging, PageCloses, PageCrashes, Dies, Chats, RunTests,
     CleanupEnds, WorkerCleanupEnds
<1>7. CASE /\ Hosting(s)
           /\ ~Handle(s) /\ ~DeadlinePasses(s) /\ ~FileOverdue(s)
  BY <1>7 DEF Hosting, FileHandled, EventHandled, HookThrows, FatalDispatched,
     RunFails, WorkerOverdue
<1> QED BY <1>1, <1>2, <1>3, <1>4, <1>5, <1>6, <1>7

LEMMA SilentBySlot ==
  ASSUME HeadlessAssumption, TypeInv, SessionInv, SlotsInv, FilesInv,
         SupersededIsSilent, NEW s \in Slots, Work(s) \/ Paging(s) \/ Hosting(s)
  PROVE  SupersededIsSilent'
<1>1. Effect(s) /\ cycle' = cycle
  BY SlotStep DEF Effect
<1>2. \A r \in Runs : cancelled[r] = "failed" => cancelled'[r] = "failed"
  BY <1>1 DEF Effect, OtherRunsRest
<1>3. \A t \in Slots : at[t] = "rejected" => at'[t] = "rejected"
  BY <1>1 DEF Effect, OthersRest
<1>4. \A r : SlotsOf(r)' = SlotsOf(r) /\ SlotsOf(r) \subseteq Slots
  BY DEF SlotsOf
<1>5. ASSUME NEW x \in recorded, x.run # cycle
      PROVE  \/ x.source = "deadline" \/ cancelled'[x.run] = "failed"
             \/ \E t \in SlotsOf(x.run) : at'[t] = "rejected"
  <2>1. x.run \in Runs
    BY DEF TypeInv, RunTypes, Records
  <2> QED BY <1>2, <1>3, <1>4, <1>5, <2>1 DEF SupersededIsSilent
<1>6. ASSUME NEW x, NewRecord(s, x), x.run # cycle
      PROVE  \/ x.source = "deadline" \/ cancelled'[x.run] = "failed"
             \/ \E t \in SlotsOf(x.run) : at'[t] = "rejected"
  <2> DEFINE r == RunOf(s)
  <2>1. x.run = r /\ r \in Runs /\ r # cycle /\ s \in SlotsOf(r) /\ SlotInv(s)
    BY <1>6, SlotFacts DEF NewRecord, SlotsInv
  <2>2. Begun(r) /\ at[s] # "none"
    BY <1>1, <2>1 DEF SlotInv, Effect
  <2>3. DoneSettled(r)
    BY <2>1, <2>2 DEF SessionInv, RunsInv, RunInv
  <2>4. CASE Rejects(r)
    BY <1>3, <1>4, <2>1, <2>4 DEF Rejects
  <2>5. CASE ~Rejects(r)
    <3>1. at[s] = "over"
      BY <2>1, <2>2, <2>3, <2>5 DEF DoneSettled, Rejects, Over
    <3>2. CASE x.source = "page"
      <4>1. mail[s] # <<>> /\ ~isTokenStale(r)
        BY <1>6, <3>2 DEF NewRecord
      <4>2. Abandoned(r)
        BY <2>1, <3>1, <4>1 DEF SlotInv, Fresh
      <4>3. cancelled[r] \in {"superseded", "failed"}
        BY <2>1, <4>1, <4>2 DEF Abandoned, IsCancelled, TypeInv, RunTypes
      <4>4. cancelled[r] # "superseded"
        BY <2>1, <2>5, <4>1 DEF SessionInv, TokensInv
      <4> QED BY <1>2, <2>1, <4>3, <4>4
    <3>3. CASE x.source # "page"
      BY <1>6, <3>1, <3>3 DEF NewRecord
    <3> QED BY <3>2, <3>3
  <2> QED BY <2>4, <2>5
<1>7. \A x \in recorded' : x \in recorded \/ NewRecord(s, x)
  BY NewRecordFacts DEF NewRecord
<1> QED BY <1>1, <1>4, <1>5, <1>6, <1>7 DEF SupersededIsSilent

LEMMA SilentByCore ==
  ASSUME HeadlessAssumption, TypeInv, SessionInv, SupersededIsSilent,
         StartCycle \/ Creates \/ Replaces \/ RunEnds \/ Interrupt
  PROVE  SupersededIsSilent'
<1>0. /\ cancelled \in [Runs -> {"no", "superseded", "failed"}]
      /\ \A x \in recorded : x.run \in Runs
      /\ \A r : SlotsOf(r)' = SlotsOf(r)
      /\ \A r : \A s \in SlotsOf(r) : s \in Slots /\ RunOf(s) = r
  BY DEF TypeInv, RunTypes, Records, SlotsOf
<1>1. CASE StartCycle
  BY <1>1 DEF StartCycle, SupersededIsSilent
<1>2. CASE Creates
  <2>1. /\ UNCHANGED <<cycle, recorded, cancelled>>
        /\ \A s \in Slots : RunOf(s) # cycle => at'[s] = at[s]
    BY <1>2, Created DEF SessionInv, Creates
  <2> QED BY <1>0, <2>1 DEF SupersededIsSilent
<1>3. CASE Replaces
  <2>1. /\ UNCHANGED <<cycle, recorded, at>>
        /\ \A r \in Runs : cancelled[r] = "failed" => cancelled'[r] = "failed"
    BY <1>0, <1>3 DEF Replaces, Cancel
  <2> QED BY <1>0, <2>1 DEF SupersededIsSilent
<1>4. CASE RunEnds
  BY <1>0, <1>4 DEF RunEnds, SupersededIsSilent, slotVars
<1>5. CASE Interrupt
  <2>1. /\ UNCHANGED <<cycle, recorded, at>>
        /\ \A r \in Runs : cancelled[r] = "failed" => cancelled'[r] = "failed"
    BY <1>0, <1>5 DEF Interrupt, IsCancelled, slotVars
  <2> QED BY <1>0, <2>1 DEF SupersededIsSilent
<1> QED BY <1>1, <1>2, <1>3, <1>4, <1>5

LEMMA RecordsBySlot ==
  ASSUME HeadlessAssumption, TypeInv, SlotsInv, FilesInv, RecordInv,
         NEW s \in Slots, Work(s) \/ Paging(s) \/ Hosting(s)
  PROVE  RecordInv'
<1>0. /\ \A x \in recorded : x.run \in Runs /\ x.file \in FileSet
      /\ RunOf(s) \in Runs
      /\ \A r \in Runs, f \in FileSet : reports[r][f] \in Nat
  BY SlotFacts DEF TypeInv, RunTypes, Records
<1>1. CASE UNCHANGED <<recorded, reports>>
  BY <1>1 DEF RecordInv
<1>2. ASSUME NEW x, NewRecord(s, x) PROVE RecordInv'
  <2>1. /\ x.run = RunOf(s) /\ x.file \in FileSet /\ reports[x.run][x.file] = 0
        /\ recorded' = recorded \cup {x} /\ Adds(x.run, x.file)
    BY <1>2 DEF NewRecord, Unrecorded
  <2>2. IsFiniteSet(recorded')
    BY <2>1, FS_AddElement DEF RecordInv
  <2>3. reports'[x.run][x.file] = reports[x.run][x.file] + 1
    BY <1>0, <2>1, AddsFacts
  <2>4. \A y \in recorded : ~(y.run = x.run /\ y.file = x.file)
    BY <2>1 DEF RecordInv
  <2>5. \A y \in recorded' : reports'[y.run][y.file] # 0
    <3>1. \A y \in recorded : reports'[y.run][y.file] # 0
      BY <1>0, RecordsGrow DEF RecordInv
    <3> QED BY <1>0, <2>1, <2>3, <3>1
  <2>6. \A y, z \in recorded' : y.run = z.run /\ y.file = z.file => y = z
    BY <2>1, <2>4 DEF RecordInv
  <2> QED BY <2>2, <2>5, <2>6 DEF RecordInv
<1> QED BY <1>1, <1>2, NewRecordFacts

LEMMA RecordsByCore ==
  ASSUME RecordInv, StartCycle \/ Creates \/ Replaces \/ RunEnds \/ Interrupt
  PROVE  RecordInv'
<1>1. CASE StartCycle
  BY <1>1, FS_EmptySet DEF StartCycle, RecordInv
<1>2. CASE ~StartCycle
  <2>1. UNCHANGED <<recorded, reports>>
    BY <1>2 DEF Creates, Replaces, RunEnds, Interrupt
  <2> QED BY <2>1 DEF RecordInv
<1> QED BY <1>1, <1>2

-----------------------------------------------------------------------------
(* Bail: at most one file of each worker is under way.                       *)
LEMMA UnderWayIsSmall ==
  ASSUME HeadlessAssumption, TypeInv, SlotsInv, options.bail > 0
  PROVE  IsFiniteSet(UnderWay) /\ Cardinality(UnderWay) <= options.workers
<1>0. options.workers \in Nat \ {0}
  BY OptionsFacts DEF TypeInv, CoreTypes
<1>1. \A f \in UnderWay : \E s \in SlotsOf(cycle) : f \in ToSet(batch[s])
  BY DEF UnderWay
<1> DEFINE holder == [f \in UnderWay |->
                        CHOOSE s \in SlotsOf(cycle) : f \in ToSet(batch[s])]
           number == [f \in UnderWay |-> holder[f][2]]
<1>2. \A f \in UnderWay :
        holder[f] \in SlotsOf(cycle) /\ f \in ToSet(batch[holder[f]])
  BY <1>1
<1>n. \A f \in UnderWay : number[f] = holder[f][2]
  OBVIOUS
<1>d. DOMAIN number = UnderWay /\ number = [f \in UnderWay |-> number[f]]
  OBVIOUS
<1> HIDE DEF holder, number
<1>3. ASSUME NEW s \in SlotsOf(cycle), NEW f \in ToSet(batch[s])
      PROVE  /\ s = <<cycle, s[2]>> /\ s[2] \in 1 .. options.workers
             /\ \A g \in ToSet(batch[s]) : g = f
  <2>1. s \in Slots /\ RunOf(s) = cycle
    BY DEF SlotsOf
  <2>2. /\ s = <<cycle, s[2]>> /\ s[2] \in 1 .. Len(Files) /\ SlotInv(s)
        /\ batch[s] \in Seq(FileSet)
    BY <2>1, SlotFacts DEF SlotsInv, TypeInv, SlotTypes
  <2>3. batch[s] # <<>>
    BY DEF ToSet
  <2>4. at[s] # "none" /\ s[2] <= options.workers /\ Len(batch[s]) <= 1
    BY <2>2, <2>3 DEF SlotInv
  <2>5. s[2] \in 1 .. options.workers
    BY <1>0, <2>2, <2>4, FilesFacts
  <2>6. ASSUME NEW g \in ToSet(batch[s]) PROVE g = f
    <3>1. PICK i, j \in 1 .. Len(batch[s]) : f = batch[s][i] /\ g = batch[s][j]
      BY <2>2, InSet
    <3>2. Len(batch[s]) \in Nat
      BY <2>2
    <3>3. i = j
      BY <2>4, <3>1, <3>2
    <3> QED BY <3>1, <3>3
  <2> QED BY <2>2, <2>5, <2>6
<1>4. number \in Injection(UnderWay, 1 .. options.workers)
  <2>1. \A f \in UnderWay : number[f] \in 1 .. options.workers
    BY <1>2, <1>3, <1>n
  <2>2. ASSUME NEW f \in UnderWay, NEW g \in UnderWay, number[f] = number[g]
        PROVE  f = g
    <3>1. holder[f] = <<cycle, number[f]>> /\ holder[g] = <<cycle, number[g]>>
      BY <1>2, <1>3, <1>n
    <3>2. holder[f] = holder[g]
      BY <2>2, <3>1
    <3> QED BY <1>2, <1>3, <3>2
  <2>3. number \in [UnderWay -> 1 .. options.workers]
    BY <1>d, <2>1
  <2> QED BY <2>2, <2>3 DEF Injection, IsInjective
<1>5. /\ IsFiniteSet(1 .. options.workers)
      /\ Cardinality(1 .. options.workers) = options.workers
  BY <1>0, FS_Interval
<1> QED BY <1>4, <1>5, FS_Injection

(* The results that fail and the files that do are as many.                  *)
LEMMA FailingFacts ==
  ASSUME HeadlessAssumption, TypeInv, RecordInv
  PROVE  /\ IsFiniteSet(Failing) /\ IsFiniteSet(FailedFiles)
         /\ Cardinality(Failing) = Cardinality(FailedFiles)
         /\ Cardinality(Failing) <= FailedTests
         /\ FailedFiles \subseteq FileSet /\ UnderWay \subseteq FileSet
         /\ Cardinality(Failing) \in Nat /\ FailedTests \in Nat
<1> DEFINE count == [x \in recorded |-> x.counts]
           fileOf == [x \in Failing |-> x.file]
<1>1. /\ IsFiniteSet(recorded) /\ Failing \subseteq recorded
      /\ \A x \in recorded : x.counts \in Nat
  BY DEF RecordInv, Failing, TypeInv, RunTypes, Records
<1>2. IsFiniteSet(Failing)
  BY <1>1, FS_Subset
<1>3. fileOf \in Surjection(Failing, FailedFiles)
  BY DEF Surjection, FailedFiles
<1>4. fileOf \in Injection(Failing, FailedFiles)
  BY DEF Injection, IsInjective, FailedFiles, Failing, RecordInv
<1> HIDE DEF fileOf
<1>5. /\ IsFiniteSet(FailedFiles)
      /\ Cardinality(FailedFiles) = Cardinality(Failing)
  BY <1>2, <1>3, <1>4, FS_Surjection
<1>6. FailedFiles \subseteq FileSet /\ UnderWay \subseteq FileSet
  BY DEF FailedFiles, Failing, UnderWay, TypeInv, RunTypes, Records
<1>7. Cardinality(Failing) \in Nat
  BY <1>2, FS_CardinalityType
<1>8. FailedTests = SumFunctionOnSet(running, FileSet)
                      + SumFunctionOnSet(count, recorded)
  <2>1. DOMAIN running = FileSet /\ DOMAIN count = recorded
    BY DEF TypeInv, RunTypes
  <2>2. FailedTests = SumFunction(running) + SumFunction(count)
    BY DEF FailedTests
  <2> HIDE DEF count
  <2> QED BY <2>1, <2>2 DEF SumFunction
<1>9. /\ \A f \in FileSet : running[f] \in Nat
      /\ \A x \in recorded : count[x] \in Nat
      /\ \A x \in Failing : count[x] >= 1
  BY <1>1 DEF TypeInv, RunTypes, Failing
<1> HIDE DEF count
<1>10. SumFunctionOnSet(running, FileSet) \in Nat
  BY <1>9, FilesFacts, SumIsNat
<1>11. /\ SumFunctionOnSet(count, recorded) \in Nat
       /\ SumFunctionOnSet(count, Failing) \in Nat
       /\ SumFunctionOnSet(count, Failing)
            <= SumFunctionOnSet(count, recorded)
  BY <1>1, <1>2, <1>9, SumIsNat, SumOfSubset
<1>12. Cardinality(Failing) <= SumFunctionOnSet(count, Failing)
  BY <1>1, <1>2, <1>9, SumOfPositives
<1> QED BY <1>2, <1>5, <1>6, <1>7, <1>8, <1>10, <1>11, <1>12

LEMMA BailIfNoMore ==
  ASSUME HeadlessAssumption, TypeInv, RecordInv, BailInv, options' = options,
         options.bail > 0, cycle > 0,
         (FailedFiles \cup UnderWay)' \subseteq FailedFiles \cup UnderWay
  PROVE  BailInv'
<1>1. /\ FailedFiles \cup UnderWay \subseteq FileSet /\ IsFiniteSet(FileSet)
      /\ options.bail \in Nat /\ options.workers \in Nat
  BY FailingFacts, FilesFacts, OptionsFacts DEF TypeInv, CoreTypes
<1>2. IsFiniteSet(FailedFiles \cup UnderWay)
  BY <1>1, FS_Subset
<1>3. /\ IsFiniteSet((FailedFiles \cup UnderWay)')
      /\ Cardinality((FailedFiles \cup UnderWay)')
           <= Cardinality(FailedFiles \cup UnderWay)
  BY <1>2, FS_Subset
<1>4. Cardinality(FailedFiles \cup UnderWay) \in Nat
  BY <1>2, FS_CardinalityType
<1>5. Cardinality((FailedFiles \cup UnderWay)') \in Nat
  BY <1>3, FS_CardinalityType
<1>6. Cardinality(FailedFiles \cup UnderWay)
        <= options.bail - 1 + options.workers
  BY DEF BailInv
<1>7. Cardinality((FailedFiles \cup UnderWay)')
        <= options.bail - 1 + options.workers
  BY <1>1, <1>3, <1>4, <1>5, <1>6
<1>8. options'.bail = options.bail /\ options'.workers = options.workers
  OBVIOUS
<1> QED BY <1>7, <1>8 DEF BailInv

LEMMA BailIfBelow ==
  ASSUME HeadlessAssumption, TypeInv, SlotsInv, RecordInv, options.bail > 0,
         Cardinality(Failing) <= options.bail - 1
  PROVE  Cardinality(FailedFiles \cup UnderWay)
           <= options.bail - 1 + options.workers
<1>1. IsFiniteSet(UnderWay) /\ Cardinality(UnderWay) <= options.workers
  BY UnderWayIsSmall
<1>2. /\ IsFiniteSet(FailedFiles)
      /\ Cardinality(FailedFiles) = Cardinality(Failing)
  BY FailingFacts
<1>3. Cardinality(FailedFiles \cup UnderWay)
        = Cardinality(FailedFiles) + Cardinality(UnderWay)
            - Cardinality(FailedFiles \cap UnderWay)
  BY <1>1, <1>2, FS_Union
<1>4. FailedFiles \cap UnderWay \in SUBSET FailedFiles
  OBVIOUS
<1>5. IsFiniteSet(FailedFiles \cap UnderWay)
  BY <1>2, <1>4, FS_Subset
<1>6. /\ Cardinality(FailedFiles) \in Nat /\ Cardinality(UnderWay) \in Nat
      /\ Cardinality(FailedFiles \cap UnderWay) \in Nat
  BY <1>1, <1>2, <1>5, FS_CardinalityType
<1>7. options.bail \in Nat /\ options.workers \in Nat
  BY OptionsFacts DEF TypeInv, CoreTypes
<1> QED BY <1>1, <1>2, <1>3, <1>6, <1>7

LEMMA BailByCore ==
  ASSUME HeadlessAssumption, TypeInv, SlotsInv, RecordInv, BailInv,
         StartCycle \/ Creates \/ Replaces \/ RunEnds \/ Interrupt
  PROVE  BailInv'
<1>1. CASE StartCycle
  <2>1. /\ cycle' = cycle + 1 /\ recorded' = {} /\ UNCHANGED <<options, batch>>
        /\ cycle \in Nat
    BY <1>1 DEF StartCycle, slotVars, TypeInv, CoreTypes
  <2>2. FailedFiles' = {}
    BY <2>1 DEF FailedFiles, Failing
  <2>3. UnderWay' = {}
    <3> SUFFICES ASSUME NEW s \in Slots, RunOf(s) = cycle + 1
                 PROVE  \A f : f \notin ToSet(batch[s])
      BY <2>1 DEF UnderWay, SlotsOf
    <3>1. SlotInv(s) /\ ~Begun(cycle + 1)
      BY <2>1 DEF SlotsInv, Begun
    <3>2. batch[s] = <<>>
      BY <3>1 DEF SlotInv
    <3> QED BY <3>2 DEF ToSet
  <2>4. Cardinality((FailedFiles \cup UnderWay)') = 0
    BY <2>2, <2>3, FS_EmptySet
  <2>5. options.bail \in Nat /\ options.workers \in Nat
    BY OptionsFacts DEF TypeInv, CoreTypes
  <2>6. options.bail > 0 => 0 <= options.bail - 1 + options.workers
    BY <2>5
  <2> QED BY <2>1, <2>4, <2>6 DEF BailInv
<1>2. CASE ~StartCycle
  <2>1. UNCHANGED <<options, cycle, recorded, reports, batch>>
    BY <1>2 DEF Creates, Replaces, RunEnds, Interrupt, slotVars
  <2> QED BY <2>1
      DEF BailInv, FailedFiles, Failing, UnderWay, SlotsOf
<1> QED BY <1>1, <1>2

LEMMA BailBySlot ==
  ASSUME HeadlessAssumption, TypeInv, SlotsInv, FilesInv, RecordInv, BailInv,
         NEW s \in Slots, Work(s) \/ Paging(s) \/ Hosting(s),
         TypeInv', SlotsInv', RecordInv'
  PROVE  BailInv'
<1>1. UNCHANGED <<options, cycle>>
  BY SlotStep DEF Effect
<1> SUFFICES ASSUME options.bail > 0, cycle > 0 PROVE BailInv'
  BY <1>1 DEF BailInv
<1>2. cycle \in Runs
  BY DEF TypeInv, CoreTypes, Runs
<1>3. /\ SlotsOf(cycle)' = SlotsOf(cycle)
      /\ \A t \in SlotsOf(cycle) : t \in Slots /\ RunOf(t) = cycle
  BY <1>1 DEF SlotsOf
<1>4. \A f \in FileSet : reports[cycle][f] # 0 => reports'[cycle][f] # 0
  BY <1>2, RecordsGrow
<1>5. CASE PickNext(s) /\ batch' # batch
  <2>1. ~(FailedTests >= options.bail) /\ UNCHANGED recorded
    BY <1>5 DEF PickNext, coreVars
  <2>2. Cardinality(Failing) <= options.bail - 1
    <3>1. /\ Cardinality(Failing) <= FailedTests /\ FailedTests \in Nat
          /\ Cardinality(Failing) \in Nat
      BY FailingFacts
    <3>2. options.bail \in Nat
      BY OptionsFacts DEF TypeInv, CoreTypes
    <3> QED BY <2>1, <3>1, <3>2
  <2>3. Failing' = Failing
    BY <1>1, <2>1 DEF Failing
  <2>4. HeadlessAssumption' /\ (options.bail > 0)'
    BY <1>1
  <2>5. (Cardinality(Failing) <= options.bail - 1)'
    BY <1>1, <2>2, <2>3
  <2>6. (Cardinality(FailedFiles \cup UnderWay)
          <= options.bail - 1 + options.workers)'
    BY <2>4, <2>5, BailIfBelow, PTL
  <2> QED BY <2>6 DEF BailInv
<1>6. CASE ~(PickNext(s) /\ batch' # batch)
  <2>1. \A t \in SlotsOf(cycle) : ToSet(batch'[t]) \subseteq ToSet(batch[t])
    <3>1. CASE batch' = batch
      BY <3>1
    <3>2. CASE PageIsClosed(s)
      <4>1. \A t \in Slots :
              batch'[t] = batch[t] \/ batch'[t] = <<>>
        BY <3>2 DEF PageIsClosed, TypeInv, SlotTypes
      <4>2. ToSet(<<>>) = {}
        BY DEF ToSet
      <4> QED BY <1>3, <4>1, <4>2
    <3> QED BY <1>6, <3>1, <3>2, QueuesChange DEF Drain
  <2>2. UnderWay' \subseteq UnderWay
    BY <1>1, <1>3, <1>4, <2>1 DEF UnderWay
  <2>3. FailedFiles' \subseteq FailedFiles \cup UnderWay
    <3>1. CASE recorded' = recorded
      BY <1>1, <3>1 DEF FailedFiles, Failing
    <3>2. ASSUME NEW x, NewRecord(s, x)
          PROVE  FailedFiles' \subseteq FailedFiles \cup UnderWay
      <4>1. recorded' = recorded \cup {x}
        BY <3>2 DEF NewRecord
      <4>2. x.run = cycle /\ x.counts > 0 => x.file \in UnderWay
        <5> SUFFICES ASSUME x.run = cycle, x.counts > 0
                     PROVE  x.file \in UnderWay
          OBVIOUS
        <5>1. /\ RunOf(s) = cycle /\ x.file \in FileSet
              /\ reports[cycle][x.file] = 0 /\ x.file \in ToSet(batch[s])
          BY <3>2 DEF NewRecord, Unrecorded
        <5>2. s \in SlotsOf(cycle)
          BY <5>1, SlotFacts
        <5> QED BY <5>1, <5>2 DEF UnderWay
      <4> QED BY <1>1, <4>1, <4>2 DEF FailedFiles, Failing
    <3> QED BY <3>1, <3>2, NewRecordFacts
  <2>4. (FailedFiles \cup UnderWay)' \subseteq FailedFiles \cup UnderWay
    BY <2>2, <2>3
  <2> QED BY <1>1, <2>4, BailIfNoMore
<1> QED BY <1>5, <1>6

-----------------------------------------------------------------------------
(* The invariant, from the start and from step to step.                      *)
LEMMA FaultsWithin ==
  ASSUME HeadlessAssumption, TypeInv, faults <= options.faults,
         options' = options, faults' = faults \/ \E fault : Strikes(fault)
  PROVE  faults' <= options'.faults
<1>1. faults \in Nat /\ options.faults \in Nat
  BY OptionsFacts DEF TypeInv, CoreTypes
<1>2. CASE faults' = faults
  BY <1>2
<1>3. CASE faults' # faults
  <2>1. faults < options.faults /\ faults' = faults + 1
    BY <1>3 DEF Strikes
  <2> QED BY <1>1, <2>1
<1> QED BY <1>2, <1>3

LEMMA FaultsAreBounded ==
  ASSUME HeadlessAssumption, TypeInv, faults <= options.faults, [Next]_vars
  PROVE  faults' <= options'.faults
<1> USE DEF coreVars, runVars, slotVars, timerVars, pageVars, mailVars
<1> DEFINE Bounded ==
      options' = options /\ (faults' = faults \/ \E fault : Strikes(fault))
<1>1. ASSUME StartCycle \/ RunFiles \/ RunReplaced \/ RunEnds \/ Interrupt
      PROVE  Bounded
  BY <1>1 DEF StartCycle, RunFiles, RunReplaced, RunEnds, Interrupt
<1>2. ASSUME NEW s \in Slots, Work(s) PROVE Bounded
  BY <1>2 DEF Work, PickNext, Drain, WorkerEnds, ContextOpens, ContextFails,
     Races, Failed, Leaves, Goes, Leave, FailRun, PageIsClosed
<1>3. ASSUME NEW s \in Slots, Paging(s) PROVE Bounded
  BY <1>3 DEF Paging, PageCloses, PageCrashes, Dies, Chats, RunTests,
     CleanupEnds, WorkerCleanupEnds
<1>4. ASSUME NEW s \in Slots, Hosting(s) PROVE Bounded
  BY <1>4 DEF Hosting, Handle, FileHandled, EventHandled, HookThrows,
     FatalDispatched, RunFails, DeadlinePasses, FileOverdue, WorkerOverdue
<1>5. ASSUME UNCHANGED vars PROVE Bounded
  BY <1>5 DEF vars
<1> HIDE DEF Bounded
<1>6. Bounded
  BY <1>1, <1>2, <1>3, <1>4, <1>5, Steps
<1> QED BY <1>6, FaultsWithin DEF Bounded

LEMMA IInvAtFirst ==
  ASSUME HeadlessAssumption, Init
  PROVE  IInv
<1>0. /\ options \in Options /\ options.faults \in Nat
      /\ MaxRuns \in Nat \ {0} /\ options.workers \in Nat \ {0}
  BY OptionsFacts DEF Init
<1>1. \A r \in Runs : ~Begun(r)
  <2>1. cycle = 0 /\ \A r \in Runs : ~(r < 0) /\ r # 0
    BY <1>0 DEF Init, Runs
  <2> QED BY <2>1 DEF Begun
<1>2. \A s \in Slots : RunOf(s) \in Runs
  BY SlotFacts
<1>3. TypeInv
  <2>1. <<>> \in Seq(FileSet) /\ <<>> \in Seq(Messages)
    OBVIOUS
  <2>2. CoreTypes
    <3>1. 0 \in 0 .. MaxRuns /\ 0 \in Nat
      BY <1>0
    <3> QED BY <1>0, <3>1 DEF Init, CoreTypes
  <2>3. RunTypes /\ SlotTypes /\ PageTypes
    BY <2>1 DEF Init, RunTypes, SlotTypes, PageTypes, AtValues, PageValues,
                BusyValues, BusyMarks
  <2> QED BY <2>2, <2>3 DEF TypeInv
<1>4. TokensInv
  BY <1>1 DEF Init, TokensInv
<1>5. CoreInv /\ RunsInv
  BY <1>1 DEF Init, CoreInv, RunsInv, RunInv
<1>6. \A s \in Slots : SlotInv(s)
  <2> SUFFICES ASSUME NEW s \in Slots PROVE SlotInv(s)
    OBVIOUS
  <2>1. /\ at[s] = "none" /\ batch[s] = <<>> /\ ~settled[s] /\ ended[s] = "no"
        /\ completed[s] = {} /\ timer[s] = "off" /\ overdue[s] = "no"
        /\ page[s] = "none" /\ position[s] = 0 /\ ~closing[s]
        /\ mail[s] = <<>> /\ busy[s] = "no"
    BY DEF Init
  <2>2. Len(<<>>) = 0 /\ "no" \notin FileSet
    BY FilesFacts
  <2> QED BY <1>1, <1>2, <2>1, <2>2 DEF SlotInv, Fresh, HasContext
<1>7. FilesInv
  <2>1. /\ IsInjective(<<>>) /\ ToSet(<<>>) = {} /\ DOMAIN <<>> = {}
    BY DEF IsInjective, ToSet
  <2>2. QueueInv
    BY <2>1 DEF Init, QueueInv
  <2>3. RecordedOnce
    BY DEF Init, RecordedOnce
  <2>4. \A s \in Slots : MailInv(s) /\ OverdueInv(s)
    BY <2>1 DEF Init, MailInv, OverdueInv
  <2> QED BY <2>2, <2>3, <2>4 DEF FilesInv
<1>8. CleanInv /\ SupersededIsSilent /\ RecordInv /\ BailInv
  BY FS_EmptySet DEF Init, CleanInv, Clean, SupersededIsSilent, RecordInv,
                     BailInv
<1>9. faults <= options.faults
  BY <1>0 DEF Init
<1> QED BY <1>3, <1>4, <1>5, <1>6, <1>7, <1>8, <1>9 DEF IInv, SlotsInv

LEMMA IInvIsKept ==
  ASSUME HeadlessAssumption, IInv, [Next]_vars
  PROVE  IInv'
<1>0. /\ TypeInv /\ SessionInv /\ SlotsInv /\ FilesInv /\ CleanInv
      /\ SupersededIsSilent /\ RecordInv /\ BailInv
  BY DEF IInv, SessionInv
<1>f. (faults <= options.faults)'
  BY FaultsAreBounded DEF IInv
<1>1. CASE StartCycle \/ RunFiles \/ RunReplaced \/ RunEnds \/ Interrupt
  <2>1. StartCycle \/ Creates \/ Replaces \/ RunEnds \/ Interrupt
    BY <1>1, CoreSteps
  <2>2. TypeInv'
    BY <1>0, <1>1, TypesOfCore
  <2>3. TokensInv' /\ CoreInv' /\ RunsInv'
    BY <1>0, <2>1, TokensByCore, CoreByCore, RunsByCore DEF SessionInv
  <2>4. SlotsInv' /\ FilesInv' /\ CleanInv'
    BY <1>0, <2>1, SlotsByCore, FilesByCore, CleanByCore
  <2>5. SupersededIsSilent' /\ RecordInv' /\ BailInv'
    BY <1>0, <2>1, SilentByCore, RecordsByCore, BailByCore
  <2> QED BY <1>f, <2>2, <2>3, <2>4, <2>5 DEF IInv
<1>2. ASSUME NEW s \in Slots, Work(s) \/ Paging(s) \/ Hosting(s) PROVE IInv'
  <2>1. Effect(s) /\ TypeInv' /\ MailInv(s)
    BY <1>0, <1>2, SlotStep DEF FilesInv
  <2>2. SessionInv'
    BY <1>0, <2>1, SessionBySlot
  <2>3. SlotsInv' /\ FilesInv' /\ CleanInv'
    BY <1>0, <1>2, <2>1, SlotsBySlot, FilesBySlot, CleanBySlot
  <2>4. SupersededIsSilent' /\ RecordInv'
    BY <1>0, <1>2, SilentBySlot, RecordsBySlot
  <2>5. BailInv'
    BY <1>0, <1>2, <2>1, <2>3, <2>4, BailBySlot
  <2> QED BY <1>f, <2>1, <2>2, <2>3, <2>4, <2>5 DEF IInv, SessionInv
<1>3. CASE UNCHANGED vars
  <2> USE <1>3 DEF vars, coreVars, runVars, slotVars, timerVars, pageVars,
                   mailVars
  <2>1. TypeInv'
    BY <1>0 DEF TypeInv, CoreTypes, RunTypes, SlotTypes, PageTypes
  <2>2. TokensInv' /\ CoreInv' /\ RunsInv'
    BY <1>0 DEF SessionInv, TokensInv, CoreInv, RunsInv, RunInv, Begun, Rejects,
                IsCancelled, isTokenStale, DoneSettled, Over
  <2>3. SlotsInv'
    BY <1>0 DEF SlotsInv, SlotInv, Begun, Fresh, HasContext, Abandoned,
                IsCancelled, isTokenStale
  <2>4. FilesInv'
    BY <1>0 DEF FilesInv, QueueInv, RecordedOnce, MailInv, OverdueInv, Unsent,
                Unrecorded, InMail
  <2>5. CleanInv'
    BY <1>0 DEF CleanInv, Clean, CleanSlot, Unrecorded, InMail, IsCancelled,
                SlotsOf
  <2>6. SupersededIsSilent' /\ RecordInv' /\ BailInv'
    BY <1>0 DEF SupersededIsSilent, RecordInv, BailInv, FailedFiles, Failing,
                UnderWay, SlotsOf
  <2> QED BY <1>f, <2>1, <2>2, <2>3, <2>4, <2>5, <2>6 DEF IInv
<1> QED BY <1>1, <1>2, <1>3, Steps

(* What it says of the properties.                                           *)
LEMMA TypesAreRight ==
  ASSUME HeadlessAssumption, IInv
  PROVE  TypeOK
<1>1. /\ CoreTypes /\ RunTypes /\ SlotTypes /\ PageTypes
      /\ \A r \in Runs : tokenOf[r] <= token
      /\ \A s \in Slots : completed[s] \subseteq ToSet(batch[s])
  BY DEF IInv, TypeInv, TokensInv, SlotsInv, SlotInv
<1>2. faults \in 0 .. options.faults
  <2>1. options.faults \in Nat /\ faults \in Nat /\ faults <= options.faults
    BY <1>1, OptionsFacts DEF CoreTypes, IInv
  <2> QED BY <2>1
<1>3. \A r \in Runs :
        /\ tokenOf[r] \in 0 .. token
        /\ cancelled[r] \in {"no", "superseded", "failed"}
        /\ ToSet(queue[r]) \subseteq FileSet
        /\ \A f \in FileSet : reports[r][f] \in Nat
  BY <1>1, InSet DEF CoreTypes, RunTypes
<1>4. \A s \in Slots : ToSet(mail[s]) \subseteq Messages
  BY <1>1, InSet DEF PageTypes
<1>5. \A s \in Slots :
        /\ at[s] \in AtValues /\ page[s] \in PageValues /\ cases[s] \in Nat
        /\ busy[s] \in BusyValues
        /\ ended[s] \in {"no", "done", "crash"} /\ settled[s] \in BOOLEAN
        /\ timer[s] \in {"off", "file", "worker"}
        /\ overdue[s] \in {"no", "file", "worker"} /\ closing[s] \in BOOLEAN
  BY <1>1 DEF SlotTypes, PageTypes
<1>6. \A f \in FileSet : running[f] \in Nat
  BY <1>1 DEF RunTypes
<1> QED BY <1>1, <1>2, <1>3, <1>4, <1>5, <1>6
    DEF TypeOK, CoreTypes, RunTypes, AtValues, PageValues, BusyValues

LEMMA LimitsAreKept ==
  ASSUME HeadlessAssumption, IInv
  PROVE  WithinLimits
<1>1. PagesClosedInBand
  <2> SUFFICES ASSUME NEW s \in Slots, at[s] \in {"free", "draining", "context"}
               PROVE  Gone(s) \/ Abandoned(RunOf(s))
    BY DEF PagesClosedInBand
  <2>1. SlotInv(s)
    BY DEF IInv, SlotsInv
  <2> QED BY <2>1 DEF SlotInv, Fresh, Gone
<1>2. BailBoundsTheFiles
  <2> SUFFICES ASSUME options.bail > 0
               PROVE  Cardinality(Failing)
                        <= options.bail - 1 + options.workers
    BY DEF BailBoundsTheFiles, Failing
  <2>0. /\ TypeInv /\ RecordInv /\ options.bail \in Nat
        /\ options.workers \in Nat /\ cycle \in Nat
    BY OptionsFacts DEF IInv, TypeInv, CoreTypes
  <2>1. CASE cycle = 0
    <3>1. Failing = {}
      BY <2>0, <2>1 DEF Failing, TypeInv, RunTypes, Records, Runs
    <3> QED BY <2>0, <3>1, FS_EmptySet
  <2>2. CASE cycle > 0
    <3>1. Cardinality(FailedFiles \cup UnderWay)
            <= options.bail - 1 + options.workers
      BY <2>2 DEF IInv, BailInv
    <3>2. /\ FailedFiles \cup UnderWay \subseteq FileSet
          /\ IsFiniteSet(FileSet)
          /\ Cardinality(Failing) = Cardinality(FailedFiles)
          /\ Cardinality(Failing) \in Nat
      BY <2>0, FailingFacts, FilesFacts
    <3>3. IsFiniteSet(FailedFiles \cup UnderWay)
      BY <3>2, FS_Subset
    <3>4. FailedFiles \in SUBSET (FailedFiles \cup UnderWay)
      OBVIOUS
    <3>5. /\ Cardinality(FailedFiles) <= Cardinality(FailedFiles \cup UnderWay)
          /\ Cardinality(FailedFiles \cup UnderWay) \in Nat
      BY <3>3, <3>4, FS_Subset, FS_CardinalityType
    <3> QED BY <2>0, <3>1, <3>2, <3>5
  <2> QED BY <2>0, <2>1, <2>2
<1> QED BY <1>1, <1>2 DEF WithinLimits

-----------------------------------------------------------------------------
(* The parts of the invariant hold in every state of a session, whatever its *)
(* files, workers and bail, however many cycles it has and whatever fails.   *)
THEOREM HeadlessInvariance == HeadlessAssumption => (Spec => []IInv)
<1> SUFFICES ASSUME HeadlessAssumption PROVE Spec => []IInv
  OBVIOUS
<1>1. Init => IInv
  BY IInvAtFirst
<1>2. IInv /\ [Next]_vars => IInv'
  BY IInvIsKept
<1> QED BY <1>1, <1>2, PTL DEF Spec

(* headlessScheduler.ts records each file of a run once, and when a run ends *)
(* that nothing has cut short, each of its files.                            *)
THEOREM FilesOnce == HeadlessAssumption => (Spec => []EachFileOnce)
<1> SUFFICES ASSUME HeadlessAssumption PROVE Spec => []EachFileOnce
  OBVIOUS
<1>1. IInv => EachFileOnce
  BY RecordedInTheEnd DEF IInv, SessionInv, FilesInv, EachFileOnce
<1> QED BY <1>1, HeadlessInvariance, PTL

(* No page of a run that is over or superseded is heard (runSession.ts), a   *)
(* worker closes its page before its next, and bail bounds what fails.       *)
THEOREM RunsApart == HeadlessAssumption => (Spec => []RunsKeepApart)
<1> SUFFICES ASSUME HeadlessAssumption PROVE Spec => []RunsKeepApart
  OBVIOUS
<1>1. IInv => RunsKeepApart
  BY TypesAreRight, LimitsAreKept DEF IInv, RunsKeepApart
<1> QED BY <1>1, HeadlessInvariance, PTL
=============================================================================
