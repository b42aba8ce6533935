SPECIFICATION FairSpec
CONSTANTS
  Paths <- MCPaths
  FirstFiles = {"a"}
  MaxRuns = 2
  MaxRebuilds = 2
  MaxEpoch = 1
  MaxFaults = 1
  MaxTrouble = 3
  Faults = {"wedge"}
PROPERTY RebuildsEnd
CHECK_DEADLOCK FALSE
