-------------------------- MODULE CollectionLemmas --------------------------
(* Facts about queues without repetitions, for the models whose code keeps   *)
(* runners, callers or cycles in JavaScript arrays, and about sums over      *)
(* finite sets, for those that count.                                        *)
EXTENDS Integers, SequencesExt, SequenceTheorems, FiniteSetTheorems, TLAPS

(* What the queue operations of the pool do to a sequence without            *)
(* repetitions: its elements, its length, and that it stays so.              *)
LEMMA RemoveAtFacts ==
  ASSUME NEW S, NEW s \in Seq(S), NEW i \in 1..Len(s), IsInjective(s)
  PROVE  /\ RemoveAt(s, i) \in Seq(S)
         /\ Len(RemoveAt(s, i)) = Len(s) - 1
         /\ Range(RemoveAt(s, i)) = Range(s) \ {s[i]}
         /\ IsInjective(RemoveAt(s, i))
<1> DEFINE a == SubSeq(s, 1, i-1)
           b == SubSeq(s, i+1, Len(s))
           r == RemoveAt(s, i)
<1>1. /\ Len(s) \in Nat
      /\ DOMAIN s = 1..Len(s)
      /\ \A j \in 1..Len(s) : s[j] \in S
  BY LenProperties
<1>2. /\ a \in Seq(S)
      /\ Len(a) = i - 1
      /\ \A j \in 1..(i-1) : a[j] = s[j]
  <2>1. \A j \in 1..(i-1) : s[j] \in S
    BY <1>1
  <2>2. /\ SubSeq(s, 1, i-1) \in Seq(S)
        /\ Len(SubSeq(s, 1, i-1)) = IF 1 <= i-1 THEN i-1-1+1 ELSE 0
        /\ \A j \in 1..(i-1-1+1) : SubSeq(s, 1, i-1)[j] = s[1+j-1]
    BY <1>1, <2>1, SubSeqProperties
  <2> QED BY <1>1, <2>2
<1>3. /\ b \in Seq(S)
      /\ Len(b) = Len(s) - i
      /\ \A j \in 1..(Len(s)-i) : b[j] = s[i+j]
  <2>1. \A j \in (i+1)..Len(s) : s[j] \in S
    BY <1>1
  <2>2. /\ SubSeq(s, i+1, Len(s)) \in Seq(S)
        /\ Len(SubSeq(s, i+1, Len(s))) =
             IF i+1 <= Len(s) THEN Len(s)-(i+1)+1 ELSE 0
        /\ \A j \in 1..(Len(s)-(i+1)+1) :
             SubSeq(s, i+1, Len(s))[j] = s[i+1+j-1]
    BY <1>1, <2>1, SubSeqProperties
  <2>3. Len(b) = Len(s) - i
    <3>1. Len(b) = IF i+1 <= Len(s) THEN Len(s)-(i+1)+1 ELSE 0
      BY <2>2
    <3>2. \A n \in Nat : \A k \in 1..n :
            (IF k+1 <= n THEN n-(k+1)+1 ELSE 0) = n - k
      OBVIOUS
    <3>3. (IF i+1 <= Len(s) THEN Len(s)-(i+1)+1 ELSE 0) = Len(s) - i
      BY <1>1, <3>2
    <3> HIDE DEF b
    <3> QED BY <3>1, <3>3
  <2>4. ASSUME NEW j \in 1..(Len(s)-i)
        PROVE  b[j] = s[i+j]
    <3>1. i+1+j-1 = i+j /\ j \in 1..(Len(s)-(i+1)+1)
      BY <1>1
    <3> QED BY <2>2, <3>1
  <2> QED BY <2>2, <2>3, <2>4
<1>4. r = a \o b
  BY DEF RemoveAt
<1>5. /\ r \in Seq(S)
      /\ Len(r) = Len(s) - 1
      /\ \A j \in 1..(Len(s)-1) : r[j] = IF j < i THEN s[j] ELSE s[j+1]
  <2>1. /\ a \o b \in Seq(S)
        /\ Len(a \o b) = Len(a) + Len(b)
        /\ \A j \in 1..(Len(a) + Len(b)) :
             (a \o b)[j] = IF j <= Len(a) THEN a[j] ELSE b[j - Len(a)]
    BY <1>2, <1>3, ConcatProperties
  <2> HIDE DEF a, b
  <2>2. Len(a) + Len(b) = Len(s) - 1
    BY <1>1, <1>2, <1>3
  <2>3. ASSUME NEW j \in 1..(Len(s)-1)
        PROVE  (a \o b)[j] = IF j < i THEN s[j] ELSE s[j+1]
    <3>1. CASE j < i
      <4>1. j \in 1..(i-1) /\ j <= Len(a) /\ j \in 1..(Len(a) + Len(b))
        BY <3>1, <1>1, <1>2, <2>2
      <4> QED BY <4>1, <3>1, <2>1, <1>2
    <3>2. CASE ~(j < i)
      <4>1. /\ j - (i-1) \in 1..(Len(s)-i)
            /\ ~(j <= Len(a))
            /\ j \in 1..(Len(a) + Len(b))
            /\ j - Len(a) = j - (i-1)
            /\ i + (j - (i-1)) = j + 1
        BY <3>2, <1>1, <1>2, <2>2
      <4> QED BY <4>1, <3>2, <2>1, <1>3
    <3> QED BY <3>1, <3>2
  <2> HIDE DEF r
  <2> QED BY <2>1, <2>2, <2>3, <1>4
<1>6. DOMAIN r = 1..(Len(s) - 1)
  BY <1>5, LenProperties
<1> HIDE DEF a, b, r
<1>7. Range(r) = Range(s) \ {s[i]}
  <2>1. ASSUME NEW j \in 1..(Len(s)-1)
        PROVE  r[j] \in Range(s) \ {s[i]}
    BY <2>1, <1>1, <1>5 DEF Range, IsInjective
  <2>2. ASSUME NEW j \in 1..Len(s), s[j] # s[i]
        PROVE  \E k \in 1..(Len(s)-1) : r[k] = s[j]
    <3>1. CASE j < i
      BY <3>1, <1>1, <1>5
    <3>2. CASE j > i
      <4>1. j - 1 \in 1..(Len(s)-1) /\ ~(j - 1 < i) /\ (j - 1) + 1 = j
        BY <3>2, <1>1
      <4> QED BY <4>1, <1>5
    <3> QED BY <2>2, <3>1, <3>2, <1>1
  <2>3. Range(r) \subseteq Range(s) \ {s[i]}
    BY <2>1, <1>6 DEF Range
  <2>4. Range(s) \ {s[i]} \subseteq Range(r)
    BY <2>2, <1>1, <1>6 DEF Range
  <2> QED BY <2>3, <2>4
<1>8. IsInjective(r)
  BY <1>1, <1>5, <1>6 DEF IsInjective
<1> QED BY <1>5, <1>7, <1>8 DEF r

LEMMA TailFacts ==
  ASSUME NEW S, NEW s \in Seq(S), s # <<>>, IsInjective(s)
  PROVE  /\ Head(s) \in Range(s)
         /\ Tail(s) \in Seq(S)
         /\ Len(Tail(s)) = Len(s) - 1
         /\ Range(Tail(s)) = Range(s) \ {Head(s)}
         /\ IsInjective(Tail(s))
<1> DEFINE q == Tail(s)
<1>1. Len(s) \in Nat \ {0} /\ DOMAIN s = 1..Len(s)
  BY LenProperties, EmptySeq
<1>2. q \in Seq(S) /\ Len(q) = Len(s) - 1
      /\ \A j \in 1..Len(q) : q[j] = s[j+1]
  BY HeadTailProperties
<1>3. DOMAIN q = 1..(Len(s) - 1)
  BY <1>2, LenProperties
<1>4. Head(s) = s[1]
  BY <1>1
<1> HIDE DEF q
<1>5. IsInjective(q)
  <2> SUFFICES ASSUME NEW j \in 1..(Len(s)-1), NEW k \in 1..(Len(s)-1),
                      q[j] = q[k]
               PROVE  j = k
    BY <1>3 DEF IsInjective
  <2>1. s[j+1] = s[k+1] /\ j+1 \in DOMAIN s /\ k+1 \in DOMAIN s
    BY <1>1, <1>2
  <2>2. j+1 = k+1
    BY <2>1 DEF IsInjective
  <2> QED BY <2>2
<1>6. Range(q) = Range(s) \ {s[1]}
  <2>1. ASSUME NEW j \in 1..(Len(s)-1)
        PROVE  q[j] \in Range(s) \ {s[1]}
    BY <2>1, <1>1, <1>2 DEF Range, IsInjective
  <2>2. ASSUME NEW j \in 1..Len(s), s[j] # s[1]
        PROVE  \E k \in 1..(Len(s)-1) : q[k] = s[j]
    <3>1. j - 1 \in 1..(Len(s)-1) /\ (j - 1) + 1 = j
      BY <2>2, <1>1
    <3> QED BY <3>1, <1>2
  <2>3. Range(q) \subseteq Range(s) \ {s[1]}
    BY <2>1, <1>3 DEF Range
  <2>4. Range(s) \ {s[1]} \subseteq Range(q)
    BY <2>2, <1>1, <1>3 DEF Range
  <2> QED BY <2>3, <2>4
<1>7. Head(s) \in Range(s)
  BY <1>1, <1>4 DEF Range
<1> QED BY <1>2, <1>4, <1>5, <1>6, <1>7 DEF q

LEMMA AppendFacts ==
  ASSUME NEW S, NEW s \in Seq(S), NEW e \in S
  PROVE  /\ Append(s, e) \in Seq(S)
         /\ Append(s, e) # <<>>
         /\ Len(Append(s, e)) = Len(s) + 1
         /\ Range(Append(s, e)) = Range(s) \cup {e}
         /\ IsInjective(s) /\ e \notin Range(s) => IsInjective(Append(s, e))
<1>1. Len(s) \in Nat /\ DOMAIN s = 1..Len(s)
  BY LenProperties
<1>2. /\ Append(s, e) \in Seq(S)
      /\ Append(s, e) # <<>>
      /\ Len(Append(s, e)) = Len(s) + 1
      /\ \A i \in 1..Len(s) : Append(s, e)[i] = s[i]
      /\ Append(s, e)[Len(s)+1] = e
  BY AppendProperties
<1>3. DOMAIN Append(s, e) = 1..(Len(s) + 1)
  BY <1>2, LenProperties
<1>4. Range(Append(s, e)) = Range(s) \cup {e}
  <2>1. \A i \in 1..(Len(s)+1) : Append(s, e)[i] \in Range(s) \cup {e}
    BY <1>1, <1>2 DEF Range
  <2>2. \A i \in 1..Len(s) : s[i] \in Range(Append(s, e))
    BY <1>1, <1>2, <1>3 DEF Range
  <2>3. e \in Range(Append(s, e))
    BY <1>1, <1>2, <1>3 DEF Range
  <2> QED BY <2>1, <2>2, <2>3, <1>1, <1>3 DEF Range
<1>5. IsInjective(s) /\ e \notin Range(s) => IsInjective(Append(s, e))
  BY <1>1, <1>2, <1>3 DEF IsInjective, Range
<1> QED BY <1>2, <1>4, <1>5

LEMMA ConcatFacts ==
  ASSUME NEW S, NEW s \in Seq(S), NEW u \in Seq(S)
  PROVE  /\ s \o u \in Seq(S)
         /\ Range(s \o u) = Range(s) \cup Range(u)
         /\ IsInjective(s) /\ IsInjective(u) /\ Range(s) \cap Range(u) = {}
              => IsInjective(s \o u)
<1>1. /\ Len(s) \in Nat /\ DOMAIN s = 1..Len(s)
      /\ Len(u) \in Nat /\ DOMAIN u = 1..Len(u)
  BY LenProperties
<1>2. /\ s \o u \in Seq(S)
      /\ Len(s \o u) = Len(s) + Len(u)
      /\ \A i \in 1..(Len(s) + Len(u)) :
           (s \o u)[i] = IF i <= Len(s) THEN s[i] ELSE u[i - Len(s)]
  BY ConcatProperties
<1>3. DOMAIN (s \o u) = 1..(Len(s) + Len(u))
  BY <1>2, LenProperties
<1>4. ASSUME IsInjective(s), IsInjective(u), Range(s) \cap Range(u) = {}
      PROVE  IsInjective(s \o u)
  <2> DEFINE c == s \o u
  <2> SUFFICES ASSUME NEW i \in 1..(Len(s) + Len(u)),
                      NEW j \in 1..(Len(s) + Len(u)), c[i] = c[j]
               PROVE  i = j
    BY <1>3 DEF IsInjective
  <2>1. \A k \in 1..(Len(s) + Len(u)) :
          IF k <= Len(s) THEN k \in DOMAIN s /\ c[k] = s[k]
          ELSE k - Len(s) \in DOMAIN u /\ c[k] = u[k - Len(s)]
    BY <1>1, <1>2
  <2> HIDE DEF c
  <2>2. \A k \in 1..(Len(s) + Len(u)) :
          IF k <= Len(s) THEN c[k] \in Range(s) ELSE c[k] \in Range(u)
    BY <2>1 DEF Range
  <2>3. i <= Len(s) <=> j <= Len(s)
    BY <2>2, <1>4
  <2>4. CASE i <= Len(s)
    BY <2>1, <2>3, <2>4, <1>4 DEF IsInjective
  <2>5. CASE ~(i <= Len(s))
    <3>1. i - Len(s) = j - Len(s)
      BY <2>1, <2>3, <2>5, <1>4 DEF IsInjective
    <3> QED BY <3>1, <1>1
  <2> QED BY <2>4, <2>5
<1>5. Range(s \o u) = Range(s) \cup Range(u)
  BY RangeConcatenation
<1> QED BY <1>2, <1>4, <1>5

-----------------------------------------------------------------------------
(* A nonempty set of subsets of a finite set has a minimal member: the form  *)
(* in which the proofs below use induction over finite sets.                 *)
LEMMA Smallest ==
  ASSUME NEW S, IsFiniteSet(S), NEW T, T \subseteq SUBSET S, T # {}
  PROVE  \E x \in T : \A y \in T : y \subseteq x => y = x
<1>1. IsWellFoundedOn(StrictSubsetOrdering(S), SUBSET S)
  BY FS_FiniteSubsetsOfFinite, FS_StrictSubsetOrderingWellFounded
<1>2. \E x \in T : \A y \in T : ~ (<<y, x>> \in StrictSubsetOrdering(S))
  BY <1>1, WFMin
<1> QED BY <1>2 DEF StrictSubsetOrdering

(* SumFunctionOnSet as a function of the subsets summed over.                *)
One(s) == CHOOSE x \in s : TRUE
SumStep(f, S, g) ==
  [s \in SUBSET S |-> IF s = {} THEN 0 ELSE f[One(s)] + g[s \ {One(s)}]]
Below(g, W) == [s \in SUBSET W |-> g[s]]

(* The element by which SumFunctionOnSet splits a set.                       *)
LEMMA OneIsIn == \A s : s # {} => One(s) \in s
  BY DEF One

(* SumFunctionOnSet is what the equation of SumStep says it is ...           *)
LEMMA SumIsStep ==
  ASSUME NEW f, NEW S
  PROVE  SumFunctionOnSet(f, S) = (CHOOSE g : g = SumStep(f, S, g))[S]
  BY Zenon
     DEF SumFunctionOnSet, FoldFunctionOnSet, MapThenFoldSet, SumStep, One

(* ... and the equation has at most one solution ...                         *)
LEMMA StepUnique ==
  ASSUME NEW f, NEW S, IsFiniteSet(S),
         NEW g, g = SumStep(f, S, g), NEW h, h = SumStep(f, S, h)
  PROVE  g = h
<1> DEFINE T == {s \in SUBSET S : g[s] # h[s]}
<1>1. /\ g = [s \in SUBSET S |-> g[s]]
      /\ h = [s \in SUBSET S |-> h[s]]
      /\ \A s \in SUBSET S :
           /\ g[s] = IF s = {} THEN 0 ELSE f[One(s)] + g[s \ {One(s)}]
           /\ h[s] = IF s = {} THEN 0 ELSE f[One(s)] + h[s \ {One(s)}]
  BY DEF SumStep
<1>2. ASSUME T # {} PROVE FALSE
  <2>0. T \subseteq SUBSET S
    OBVIOUS
  <2>1. PICK s \in T : \A t \in T : t \subseteq s => t = s
    <3> HIDE DEF T
    <3> QED BY <1>2, <2>0, Smallest
  <2>2. s # {} /\ s \in SUBSET S
    BY <1>1, <2>1
  <2>3. s \ {One(s)} \notin T /\ s \ {One(s)} \in SUBSET S
    BY <2>1, <2>2, OneIsIn
  <2> QED BY <1>1, <2>1, <2>2, <2>3
<1> QED BY <1>1, <1>2

(* ... of which a restriction solves it on the subset ...                    *)
LEMMA StepRestricts ==
  ASSUME NEW f, NEW S, NEW g, g = SumStep(f, S, g), NEW W, W \subseteq S
  PROVE  Below(g, W) = SumStep(f, W, Below(g, W))
<1> DEFINE h == Below(g, W)
<1>1. \A s \in SUBSET S :
        g[s] = IF s = {} THEN 0 ELSE f[One(s)] + g[s \ {One(s)}]
  BY DEF SumStep
<1>2. \A s \in SUBSET W : s \in SUBSET S /\ s \ {One(s)} \in SUBSET W
  OBVIOUS
<1>3. \A s \in SUBSET W :
        h[s] = IF s = {} THEN 0 ELSE f[One(s)] + h[s \ {One(s)}]
  BY <1>1, <1>2 DEF Below
<1> QED BY <1>3 DEF SumStep, Below

(* ... so that a solution is the sum on every subset ...                     *)
LEMMA SumUnfolds ==
  ASSUME NEW f, NEW S, IsFiniteSet(S), NEW g, g = SumStep(f, S, g),
         NEW s \in SUBSET S
  PROVE  SumFunctionOnSet(f, s) = g[s]
<1> DEFINE h == Below(g, s)
           k == CHOOSE k : k = SumStep(f, s, k)
<1>1. h = SumStep(f, s, h)
  <2>1. s \subseteq S
    OBVIOUS
  <2> QED BY <2>1, StepRestricts
<1>2. k = SumStep(f, s, k)
  BY <1>1, Zenon
<1>3. IsFiniteSet(s)
  BY FS_Subset
<1> HIDE DEF h, k
<1>4. h = k
  BY <1>1, <1>2, <1>3, StepUnique
<1> QED BY <1>4, SumIsStep DEF h, k, Below

(* ... and there is one.                                                     *)
LEMMA StepExists ==
  ASSUME NEW f, NEW S, IsFiniteSet(S)
  PROVE  \E g : g = SumStep(f, S, g)
<1> DEFINE T == {U \in SUBSET S : ~ \E g : g = SumStep(f, U, g)}
<1> SUFFICES ASSUME T # {} PROVE FALSE
  BY S \in SUBSET S
<1>0. T \subseteq SUBSET S
  OBVIOUS
<1>1. PICK U \in T : \A V \in T : V \subseteq U => V = U
  <2> HIDE DEF T
  <2> QED BY <1>0, Smallest
<1>2. U \in SUBSET S /\ IsFiniteSet(U)
  BY <1>1, FS_Subset
<1> DEFINE val(s) == IF s = {} THEN 0
                     ELSE f[One(s)] + SumFunctionOnSet(f, s \ {One(s)})
           h == [s \in SUBSET U |-> val(s)]
<1>3. ASSUME NEW s \in SUBSET U, s # U
      PROVE  SumFunctionOnSet(f, s) = val(s)
  <2>1. PICK g : g = SumStep(f, s, g)
    BY <1>1, <1>2, <1>3
  <2>2. IsFiniteSet(s)
    BY <1>2, FS_Subset
  <2>3. \A t \in SUBSET s : SumFunctionOnSet(f, t) = g[t]
    BY <2>1, <2>2, SumUnfolds
  <2>4. g[s] = IF s = {} THEN 0 ELSE f[One(s)] + g[s \ {One(s)}]
    BY <2>1 DEF SumStep
  <2> QED BY <2>3, <2>4
<1>4. \A s \in SUBSET U :
        h[s] = IF s = {} THEN 0 ELSE f[One(s)] + h[s \ {One(s)}]
  <2> SUFFICES ASSUME NEW s \in SUBSET U, s # {}
               PROVE  val(s) = f[One(s)] + val(s \ {One(s)})
    OBVIOUS
  <2>1. s \ {One(s)} \in SUBSET U /\ s \ {One(s)} # U
    BY OneIsIn
  <2> QED BY <1>3, <2>1
<1> HIDE DEF val
<1>5. h = SumStep(f, U, h)
  BY <1>4 DEF SumStep
<1> QED BY <1>1, <1>5

(* The recursion that defines a sum over a finite set.                       *)
LEMMA SumRecursion ==
  ASSUME NEW f, NEW S, IsFiniteSet(S)
  PROVE  SumFunctionOnSet(f, S) =
           IF S = {} THEN 0
           ELSE f[One(S)] + SumFunctionOnSet(f, S \ {One(S)})
<1>1. PICK g : g = SumStep(f, S, g)
  BY StepExists
<1>2. \A s \in SUBSET S : SumFunctionOnSet(f, s) = g[s]
  BY <1>1, SumUnfolds
<1>3. g[S] = IF S = {} THEN 0 ELSE f[One(S)] + g[S \ {One(S)}]
  BY <1>1 DEF SumStep
<1> QED BY <1>2, <1>3

(* A sum of nothing.                                                         *)
LEMMA SumOfNone == \A f : SumFunctionOnSet(f, {}) = 0
  BY SumRecursion, FS_EmptySet

(* A sum of integers is one.                                                 *)
LEMMA SumIsInt ==
  ASSUME NEW f, NEW S, IsFiniteSet(S), \A x \in S : f[x] \in Int
  PROVE  SumFunctionOnSet(f, S) \in Int
<1> DEFINE T == {U \in SUBSET S : SumFunctionOnSet(f, U) \notin Int}
<1>1. T \subseteq SUBSET S
  OBVIOUS
<1> SUFFICES ASSUME T # {} PROVE FALSE
  OBVIOUS
<1>2. PICK U \in T : \A V \in T : V \subseteq U => V = U
  <2> HIDE DEF T
  <2> QED BY <1>1, Smallest
<1>3. IsFiniteSet(U) /\ U \subseteq S
  BY FS_Subset
<1>4. SumFunctionOnSet(f, U) =
        IF U = {} THEN 0 ELSE f[One(U)] + SumFunctionOnSet(f, U \ {One(U)})
  BY <1>3, SumRecursion
<1>5. U # {} => One(U) \in U /\ U \ {One(U)} \notin T
  BY <1>2, OneIsIn
<1> QED BY <1>2, <1>3, <1>4, <1>5

(* Any element may be summed first.                                          *)
LEMMA SumSplits ==
  ASSUME NEW f, NEW S, IsFiniteSet(S), \A x \in S : f[x] \in Int,
         NEW a \in S
  PROVE  SumFunctionOnSet(f, S) = f[a] + SumFunctionOnSet(f, S \ {a})
<1> DEFINE F(U) == SumFunctionOnSet(f, U)
           T == {U \in SUBSET S : \E x \in U : F(U) # f[x] + F(U \ {x})}
<1>1. T \subseteq SUBSET S
  OBVIOUS
<1> SUFFICES ASSUME T # {} PROVE FALSE
  OBVIOUS
<1>2. PICK U \in T : \A V \in T : V \subseteq U => V = U
  <2> HIDE DEF T
  <2> QED BY <1>1, Smallest
<1>3. PICK x \in U : F(U) # f[x] + F(U \ {x})
  BY <1>2
<1>4. /\ IsFiniteSet(U) /\ U \subseteq S
      /\ IsFiniteSet(U \ {x})
  BY <1>2, FS_Subset
<1> DEFINE y == One(U)
           W == U \ {x, y}
<1>5. y \in U /\ F(U) = f[y] + F(U \ {y})
  BY <1>3, <1>4, OneIsIn, SumRecursion
<1>6. y # x
  BY <1>3, <1>5
<1>7. /\ F(U \ {y}) = f[x] + F((U \ {y}) \ {x})
      /\ F(U \ {x}) = f[y] + F((U \ {x}) \ {y})
  <2>1. U \ {y} \notin T /\ U \ {x} \notin T
    BY <1>2, <1>3, <1>5
  <2> HIDE DEF F, y
  <2> QED BY <2>1, <1>3, <1>4, <1>5, <1>6
<1>8. (U \ {y}) \ {x} = W /\ (U \ {x}) \ {y} = W
  OBVIOUS
<1>9. F(W) \in Int /\ f[x] \in Int /\ f[y] \in Int
  <2>1. IsFiniteSet(W) /\ W \subseteq S
    BY <1>4, FS_Subset
  <2> QED BY <2>1, <1>3, <1>4, <1>5, SumIsInt
<1>10. F(U \ {y}) = f[x] + F(W) /\ F(U \ {x}) = f[y] + F(W)
  BY <1>7, <1>8
<1> HIDE DEF F, y, W
<1> QED BY <1>3, <1>5, <1>9, <1>10

(* A sum depends on the values summed alone.                                 *)
LEMMA SumIsSame ==
  ASSUME NEW f, NEW g, NEW S, IsFiniteSet(S),
         \A x \in S : f[x] = g[x]
  PROVE  SumFunctionOnSet(f, S) = SumFunctionOnSet(g, S)
<1> DEFINE F(U) == SumFunctionOnSet(f, U)
           G(U) == SumFunctionOnSet(g, U)
           T == {U \in SUBSET S : F(U) # G(U)}
<1>1. T \subseteq SUBSET S
  OBVIOUS
<1> SUFFICES ASSUME T # {} PROVE FALSE
  OBVIOUS
<1>2. PICK U \in T : \A V \in T : V \subseteq U => V = U
  <2> HIDE DEF T
  <2> QED BY <1>1, Smallest
<1>3. IsFiniteSet(U) /\ U \subseteq S
  BY FS_Subset
<1>4. /\ F(U) = IF U = {} THEN 0 ELSE f[One(U)] + F(U \ {One(U)})
      /\ G(U) = IF U = {} THEN 0 ELSE g[One(U)] + G(U \ {One(U)})
  BY <1>3, SumRecursion
<1>5. U # {} => One(U) \in U /\ U \ {One(U)} \notin T
  BY <1>2, OneIsIn
<1> HIDE DEF F, G
<1> QED BY <1>2, <1>3, <1>4, <1>5

(* The sum over two disjoint sets.                                           *)
LEMMA SumOfUnion ==
  ASSUME NEW f, NEW A, IsFiniteSet(A), NEW B, IsFiniteSet(B),
         A \cap B = {}, \A x \in A \cup B : f[x] \in Int
  PROVE  SumFunctionOnSet(f, A \cup B) =
           SumFunctionOnSet(f, A) + SumFunctionOnSet(f, B)
<1> DEFINE F(U) == SumFunctionOnSet(f, U)
           T == {U \in SUBSET A : F(U \cup B) # F(U) + F(B)}
<1>1. T \subseteq SUBSET A
  OBVIOUS
<1> SUFFICES ASSUME T # {} PROVE FALSE
  BY A \in SUBSET A
<1>2. PICK U \in T : \A V \in T : V \subseteq U => V = U
  <2> HIDE DEF T
  <2> QED BY <1>1, Smallest
<1>3. IsFiniteSet(U) /\ U \subseteq A /\ IsFiniteSet(U \cup B)
  BY FS_Subset, FS_Union
<1>4. F(B) \in Int /\ F({}) = 0
  BY SumIsInt, SumOfNone
<1>5. PICK x : x \in U
  <2>1. CASE U = {}
    <3>1. U \cup B = B
      BY <2>1
    <3> HIDE DEF F
    <3> QED BY <1>2, <1>4, <2>1, <3>1
  <2> QED BY <2>1
<1>6. F(U) = f[x] + F(U \ {x}) /\ F(U \cup B) = f[x] + F((U \cup B) \ {x})
  BY <1>3, <1>5, SumSplits
<1>7. (U \cup B) \ {x} = (U \ {x}) \cup B
  BY <1>3, <1>5
<1>8. U \ {x} \notin T /\ U \ {x} \in SUBSET A
  BY <1>2, <1>3, <1>5
<1>9. f[x] \in Int /\ F(U \ {x}) \in Int
  <2>1. IsFiniteSet(U \ {x})
    BY <1>3, FS_Subset
  <2> QED BY <2>1, <1>3, <1>5, SumIsInt
<1>10. F((U \ {x}) \cup B) = F(U \ {x}) + F(B)
  BY <1>8
<1>11. F(U \cup B) = f[x] + F(U \ {x}) + F(B)
  <2>1. F(U \cup B) = f[x] + F((U \ {x}) \cup B)
    BY <1>6, <1>7
  <2> HIDE DEF F
  <2> QED BY <2>1, <1>4, <1>9, <1>10
<1>12. F(U \cup B) # F(U) + F(B)
  BY <1>2
<1> HIDE DEF F
<1> QED BY <1>4, <1>6, <1>9, <1>11, <1>12

(* A sum of larger numbers is larger.                                        *)
LEMMA SumGrows ==
  ASSUME NEW f, NEW g, NEW S, IsFiniteSet(S),
         \A x \in S : f[x] \in Int /\ g[x] \in Int /\ f[x] <= g[x]
  PROVE  SumFunctionOnSet(f, S) <= SumFunctionOnSet(g, S)
<1> DEFINE F(U) == SumFunctionOnSet(f, U)
           G(U) == SumFunctionOnSet(g, U)
           T == {U \in SUBSET S : ~ (F(U) <= G(U))}
<1>1. T \subseteq SUBSET S
  OBVIOUS
<1> SUFFICES ASSUME T # {} PROVE FALSE
  OBVIOUS
<1>2. PICK U \in T : \A V \in T : V \subseteq U => V = U
  <2> HIDE DEF T
  <2> QED BY <1>1, Smallest
<1>3. IsFiniteSet(U) /\ U \subseteq S
  BY FS_Subset
<1>4. /\ F(U) = IF U = {} THEN 0 ELSE f[One(U)] + F(U \ {One(U)})
      /\ G(U) = IF U = {} THEN 0 ELSE g[One(U)] + G(U \ {One(U)})
  BY <1>3, SumRecursion
<1>5. U # {} => One(U) \in U /\ U \ {One(U)} \notin T
  BY <1>2, OneIsIn
<1>6. F(U \ {One(U)}) \in Int /\ G(U \ {One(U)}) \in Int
  <2>1. IsFiniteSet(U \ {One(U)})
    BY <1>3, FS_Subset
  <2> QED BY <2>1, <1>3, SumIsInt
<1> HIDE DEF F, G
<1> QED BY <1>2, <1>3, <1>4, <1>5, <1>6

(* A sum of natural numbers is one.                                          *)
LEMMA SumIsNat ==
  ASSUME NEW f, NEW S, IsFiniteSet(S), \A x \in S : f[x] \in Nat
  PROVE  SumFunctionOnSet(f, S) \in Nat
<1> DEFINE T == {U \in SUBSET S : SumFunctionOnSet(f, U) \notin Nat}
<1>1. T \subseteq SUBSET S
  OBVIOUS
<1> SUFFICES ASSUME T # {} PROVE FALSE
  OBVIOUS
<1>2. PICK U \in T : \A V \in T : V \subseteq U => V = U
  <2> HIDE DEF T
  <2> QED BY <1>1, Smallest
<1>3. IsFiniteSet(U) /\ U \subseteq S
  BY FS_Subset
<1>4. SumFunctionOnSet(f, U) =
        IF U = {} THEN 0 ELSE f[One(U)] + SumFunctionOnSet(f, U \ {One(U)})
  BY <1>3, SumRecursion
<1>5. U # {} => One(U) \in U /\ U \ {One(U)} \notin T
  BY <1>2, OneIsIn
<1> QED BY <1>2, <1>3, <1>4, <1>5

(* A sum of zeros.                                                           *)
LEMMA SumOfZeros ==
  ASSUME NEW f, NEW S, IsFiniteSet(S), \A x \in S : f[x] = 0
  PROVE  SumFunctionOnSet(f, S) = 0
<1> DEFINE T == {U \in SUBSET S : SumFunctionOnSet(f, U) # 0}
<1>1. T \subseteq SUBSET S
  OBVIOUS
<1> SUFFICES ASSUME T # {} PROVE FALSE
  OBVIOUS
<1>2. PICK U \in T : \A V \in T : V \subseteq U => V = U
  <2> HIDE DEF T
  <2> QED BY <1>1, Smallest
<1>3. IsFiniteSet(U) /\ U \subseteq S
  BY FS_Subset
<1>4. SumFunctionOnSet(f, U) =
        IF U = {} THEN 0 ELSE f[One(U)] + SumFunctionOnSet(f, U \ {One(U)})
  BY <1>3, SumRecursion
<1>5. U # {} => One(U) \in U /\ U \ {One(U)} \notin T
  BY <1>2, OneIsIn
<1> QED BY <1>2, <1>3, <1>4, <1>5

(* A sum of positive numbers is at least as large as they are many.          *)
LEMMA SumOfPositives ==
  ASSUME NEW f, NEW S, IsFiniteSet(S), \A x \in S : f[x] \in Nat /\ f[x] >= 1
  PROVE  Cardinality(S) <= SumFunctionOnSet(f, S)
<1> DEFINE F(U) == SumFunctionOnSet(f, U)
           T == {U \in SUBSET S : ~ (Cardinality(U) <= F(U))}
<1>1. T \subseteq SUBSET S
  OBVIOUS
<1> SUFFICES ASSUME T # {} PROVE FALSE
  OBVIOUS
<1>2. PICK U \in T : \A V \in T : V \subseteq U => V = U
  <2> HIDE DEF T
  <2> QED BY <1>1, Smallest
<1>3. IsFiniteSet(U) /\ U \subseteq S
  BY FS_Subset
<1>4. F(U) = IF U = {} THEN 0 ELSE f[One(U)] + F(U \ {One(U)})
  BY <1>3, SumRecursion
<1>5. U # {} => One(U) \in U /\ U \ {One(U)} \notin T
  BY <1>2, OneIsIn
<1>6. /\ IsFiniteSet(U \ {One(U)}) /\ F(U \ {One(U)}) \in Nat
      /\ Cardinality(U \ {One(U)}) \in Nat
  <2>1. IsFiniteSet(U \ {One(U)}) /\ U \ {One(U)} \subseteq S
    BY <1>3, FS_Subset
  <2> QED BY <2>1, SumIsNat, FS_CardinalityType
<1>7. /\ U = {} => Cardinality(U) = 0
      /\ U # {} => Cardinality(U) = Cardinality(U \ {One(U)}) + 1
  <2>1. One(U) \in U =>
          Cardinality(U \ {One(U)}) = Cardinality(U) - 1
    BY <1>3, FS_RemoveElement
  <2>2. Cardinality(U) \in Nat
    BY <1>3, FS_CardinalityType
  <2> QED BY <1>5, <2>1, <2>2, FS_EmptySet
<1> HIDE DEF F
<1> QED BY <1>2, <1>3, <1>4, <1>5, <1>6, <1>7

(* A sum over fewer elements is smaller.                                     *)
LEMMA SumOfSubset ==
  ASSUME NEW f, NEW B, IsFiniteSet(B), \A x \in B : f[x] \in Nat,
         NEW A, A \subseteq B
  PROVE  SumFunctionOnSet(f, A) <= SumFunctionOnSet(f, B)
<1> DEFINE F(U) == SumFunctionOnSet(f, U)
           R == B \ A
<1>1. IsFiniteSet(A) /\ IsFiniteSet(R) /\ A \cap R = {} /\ A \cup R = B
  BY FS_Subset
<1>2. F(A) \in Nat /\ F(R) \in Nat
  BY <1>1, SumIsNat
<1>3. F(A \cup R) = F(A) + F(R)
  BY <1>1, SumOfUnion
<1>4. F(B) = F(A) + F(R)
  BY <1>1, <1>3
<1> HIDE DEF F, R
<1> QED BY <1>2, <1>4 DEF F

(* A sum may be moved along an injection, past which there are zeros.        *)
LEMMA SumMoves ==
  ASSUME NEW f, NEW g, NEW A, NEW B, IsFiniteSet(A), IsFiniteSet(B),
         \A x \in A : f[x] \in Int, \A y \in B : g[y] \in Int,
         NEW m, \A x \in A : m[x] \in B /\ g[m[x]] = f[x],
         \A x, y \in A : m[x] = m[y] => x = y,
         \A y \in B : (\A x \in A : m[x] # y) => g[y] = 0
  PROVE  SumFunctionOnSet(g, B) = SumFunctionOnSet(f, A)
<1> DEFINE F(U) == SumFunctionOnSet(f, U)
           G(U) == SumFunctionOnSet(g, U)
           M(U) == {m[x] : x \in U}
           T == {U \in SUBSET A : G(M(U)) # F(U)}
<1>1. T \subseteq SUBSET A
  OBVIOUS
<1>2. ASSUME T # {} PROVE FALSE
  <2>1. PICK U \in T : \A V \in T : V \subseteq U => V = U
    <3> HIDE DEF T
    <3> QED BY <1>1, <1>2, Smallest
  <2>2. IsFiniteSet(U) /\ U \subseteq A /\ M(U) \subseteq B
    BY FS_Subset
  <2>3. F({}) = 0 /\ G({}) = 0
    BY SumOfNone
  <2>4. PICK x : x \in U
    <3>1. CASE U = {}
      <4>1. M(U) = {}
        BY <3>1
      <4> HIDE DEF F, G, M
      <4> QED BY <2>1, <2>3, <3>1, <4>1
    <3> QED BY <3>1
  <2>5. F(U) = f[x] + F(U \ {x})
    BY <2>2, <2>4, SumSplits
  <2>6. G(M(U)) = g[m[x]] + G(M(U) \ {m[x]})
    <3>1. IsFiniteSet(M(U)) /\ m[x] \in M(U) /\ \A y \in M(U) : g[y] \in Int
      BY <2>2, <2>4, FS_Subset
    <3> HIDE DEF M
    <3> QED BY <3>1, SumSplits
  <2>7. M(U) \ {m[x]} = M(U \ {x})
    BY <2>2, <2>4
  <2>8. G(M(U \ {x})) = F(U \ {x})
    BY <2>1, <2>2, <2>4
  <2>9. g[m[x]] = f[x] /\ G(M(U)) # F(U)
    BY <2>1, <2>2, <2>4
  <2> HIDE DEF F, G, M
  <2> QED BY <2>5, <2>6, <2>7, <2>8, <2>9
<1>3. G(M(A)) = F(A)
  BY <1>2, A \in SUBSET A
<1> DEFINE R == B \ M(A)
<1>4. /\ IsFiniteSet(M(A)) /\ IsFiniteSet(R)
      /\ M(A) \cap R = {} /\ M(A) \cup R = B
  <2>1. M(A) \subseteq B
    OBVIOUS
  <2> HIDE DEF M
  <2> QED BY <2>1, FS_Subset
<1>5. \A y \in R : g[y] = 0
  OBVIOUS
<1>6. G(R) = 0
  <2> HIDE DEF R
  <2> QED BY <1>4, <1>5, SumOfZeros
<1>7. G(M(A) \cup R) = G(M(A)) + G(R) /\ G(M(A)) \in Int
  <2>1. \A y \in M(A) \cup R : g[y] \in Int
    BY <1>4
  <2> HIDE DEF M, R
  <2> QED BY <2>1, <1>4, SumOfUnion, SumIsInt
<1>8. G(B) = G(M(A)) + G(R)
  BY <1>4, <1>7
<1> HIDE DEF F, G, M, R
<1>9. G(B) = F(A)
  BY <1>3, <1>6, <1>7, <1>8
<1> QED BY <1>9 DEF F, G

(* A bounded set of natural numbers has a greatest member ...                *)
LEMMA GreatestExists ==
  ASSUME NEW S \in SUBSET Nat, S # {}, NEW n \in Nat, \A x \in S : x <= n
  PROVE  \E m \in S : \A x \in S : x <= m
<1> DEFINE N == 0 .. n
           T == {x .. n : x \in S}
<1>1. T \subseteq SUBSET N /\ T # {} /\ IsFiniteSet(N)
  <2>1. IsFiniteSet(N)
    BY FS_Interval
  <2>2. \A x \in S : x .. n \subseteq N
    OBVIOUS
  <2>3. T \subseteq SUBSET N
    BY <2>2, Zenon
  <2>4. T # {}
    OBVIOUS
  <2> HIDE DEF N, T
  <2> QED BY <2>1, <2>3, <2>4
<1>2. PICK I \in T : \A J \in T : J \subseteq I => J = I
  <2> HIDE DEF N, T
  <2> QED BY <1>1, Smallest
<1>3. PICK m \in S : I = m .. n
  BY <1>2
<1>4. ASSUME NEW x \in S, x > m PROVE FALSE
  <2>1. x .. n \subseteq m .. n /\ m \in m .. n /\ m \notin x .. n
    BY <1>4
  <2>2. x .. n \in T
    OBVIOUS
  <2> HIDE DEF T
  <2> QED BY <1>2, <1>3, <2>1, <2>2
<1> QED BY <1>4

(* ... which is its Max.                                                     *)
LEMMA MaxIsGreatest ==
  ASSUME NEW S \in SUBSET Nat, NEW n \in Nat, \A x \in S : x <= n,
         NEW y \in S
  PROVE  y <= Max(S) /\ Max(S) \in S
<1>1. \E m \in S : \A x \in S : m >= x
  BY GreatestExists
<1>2. Max(S) \in S /\ \A x \in S : Max(S) >= x
  BY <1>1, Zenon DEF Max
<1> QED BY <1>2

(* The sum of sums.                                                          *)
LEMMA SumAdds ==
  ASSUME NEW f, NEW g, NEW h, NEW S, IsFiniteSet(S),
         \A x \in S : f[x] \in Int /\ g[x] \in Int /\ h[x] = f[x] + g[x]
  PROVE  SumFunctionOnSet(h, S) =
           SumFunctionOnSet(f, S) + SumFunctionOnSet(g, S)
<1> DEFINE F(U) == SumFunctionOnSet(f, U)
           G(U) == SumFunctionOnSet(g, U)
           H(U) == SumFunctionOnSet(h, U)
           T == {U \in SUBSET S : H(U) # F(U) + G(U)}
<1>1. T \subseteq SUBSET S
  OBVIOUS
<1> SUFFICES ASSUME T # {} PROVE FALSE
  OBVIOUS
<1>2. PICK U \in T : \A V \in T : V \subseteq U => V = U
  <2> HIDE DEF T
  <2> QED BY <1>1, Smallest
<1>3. IsFiniteSet(U) /\ U \subseteq S
  BY FS_Subset
<1>4. /\ F(U) = IF U = {} THEN 0 ELSE f[One(U)] + F(U \ {One(U)})
      /\ G(U) = IF U = {} THEN 0 ELSE g[One(U)] + G(U \ {One(U)})
      /\ H(U) = IF U = {} THEN 0 ELSE h[One(U)] + H(U \ {One(U)})
  BY <1>3, SumRecursion
<1>5. U # {} => One(U) \in U /\ U \ {One(U)} \notin T
  BY <1>2, OneIsIn
<1>6. F(U \ {One(U)}) \in Int /\ G(U \ {One(U)}) \in Int
  <2>1. IsFiniteSet(U \ {One(U)})
    BY <1>3, FS_Subset
  <2> QED BY <2>1, <1>3, SumIsInt
<1>7. H(U) # F(U) + G(U)
  BY <1>2
<1>8. U # {} => H(U \ {One(U)}) = F(U \ {One(U)}) + G(U \ {One(U)})
  BY <1>3, <1>5
<1>9. U # {} => /\ f[One(U)] \in Int /\ g[One(U)] \in Int
                /\ h[One(U)] = f[One(U)] + g[One(U)]
  BY <1>3, <1>5
<1> HIDE DEF F, G, H, T
<1> QED BY <1>4, <1>6, <1>7, <1>8, <1>9
=============================================================================
