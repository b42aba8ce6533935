------------------------------- MODULE MCCycles ------------------------------
(* The cycles of a session in headless pages for TLC: two pages at a time,   *)
(* without and with `bail` and isolation, one at a time, and a batch of both *)
(* files in one page, whose run another one supersedes.                      *)
EXTENDS HeadlessRuns

MCFiles == <<"a", "b">>

Config(isolate, workers, limit, runs, mishaps, failed) ==
  [isolate |-> isolate, workers |-> workers, bail |-> limit, runs |-> runs,
   faults |-> mishaps, cases |-> failed]

MCOptions ==
  {Config(TRUE, 2, 0, 1, 1, 0), Config(TRUE, 2, 1, 1, 0, 1),
   Config(TRUE, 1, 1, 1, 1, 1), Config(FALSE, 2, 0, 1, 1, 0),
   Config(FALSE, 1, 0, 2, 2, 0),
   Config(TRUE, 1, 1, 2, 0, 1)}

ASSUME PagesAreLegal == HeadlessAssumption
==============================================================================
