SPECIFICATION FairSpec
CONSTANTS
  Files <- MCFiles
  MaxRuns = 2
  Options <- MCOptions
  Faults = {"context", "crash", "fatal", "hang", "hook"}
INVARIANTS
  EachFileOnce
  RunsKeepApart
PROPERTY CyclesEnd
\* A session whose cycles are over is at rest.
CHECK_DEADLOCK FALSE
