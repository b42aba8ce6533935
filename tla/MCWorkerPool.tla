---------------------------- MODULE MCWorkerPool ----------------------------
(* Instances of WorkerPool for TLC: three test files, the third of which     *)
(* needs another environment than the first two.                             *)
EXTENDS WorkerPool

CONSTANTS t1, t2, t3

TwoEnvs == [t \in Tasks |-> IF t = t3 THEN "jsdom" ELSE "node"]

(* Tasks of the same environment are interchangeable.                        *)
TwoEnvsSymmetry == Permutations({t1, t2})

Pool(isolate, gated, watch) ==
  [isolate |-> isolate, gated |-> gated, watch |-> watch]

(* Pools of a watch session: one that reuses its runners, with and without a *)
(* memory gate, and one that does not and has a gate; and a one-shot pool    *)
(* that reuses its runners.                                                  *)
SomePools ==
  {Pool(FALSE, FALSE, TRUE), Pool(FALSE, TRUE, TRUE), Pool(TRUE, TRUE, TRUE),
   Pool(FALSE, FALSE, FALSE)}

=============================================================================
