------------------------------- MODULE Lists --------------------------------
(***************************************************************************)
(* The array operations of JavaScript that the other modules use.          *)
(***************************************************************************)
EXTENDS Integers, Sequences, SequencesExt, FiniteSets

(* s.map(Op).                                                                *)
Each(s, Op(_)) == FoldLeft(LAMBDA done, x : Append(done, Op(x)), <<>>, s)

(* s.flatMap(Op).                                                            *)
FlatEach(s, Op(_)) == FoldLeft(LAMBDA done, x : done \o Op(x), <<>>, s)

Indices(s) == FoldLeft(LAMBDA done, x : Append(done, Len(done) + 1), <<>>, s)

(* [...new Set(s)]: each element once, in the order of the first ones.       *)
Distinct(s) ==
  FoldLeft(LAMBDA done, x : IF x \in ToSet(done) THEN done
                            ELSE Append(done, x), <<>>, s)

(* s.sort: stable; Before(x, y) says that x is to come before y.             *)
Sorted(s, Before(_, _)) ==
  LET Insert(done, x) ==
        LET first == SelectSeq(done, LAMBDA y : ~Before(x, y))
        IN  Append(first, x) \o SelectSeq(done, LAMBDA y : Before(x, y))
  IN  FoldLeft(Insert, <<>>, s)
=============================================================================
