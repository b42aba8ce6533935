SPECIFICATION FairSpec
CONSTANTS
  Paths <- MCPaths
  FirstFiles = {"a"}
  MaxRuns = 2
  MaxRebuilds = 2
  MaxEpoch = 3
  MaxFaults = 2
  MaxTrouble = 3
  Faults = {"drop", "reload", "replace", "fatal", "hook", "wedge", "hmr", "slow", "coverage"}
INVARIANTS
  RunsAreSettledOnce
  OpenRunsCanComplete
CHECK_DEADLOCK FALSE
PROPERTY CyclesEnd
