SPECIFICATION MCFairSpec
CONSTANTS
  Executors <- Sides
  Files <- SomeFiles
  Calls <- SomeCalls
  MaxCalls = 3
  LateEvents = FALSE
  node = "node"
  browser = "browser"
  Sessions <- SomeSessions
  GlobalSetups <- Sides
  Shortcuts = TRUE
  CloseIn = {}
  None = None
INVARIANTS
  CyclesKeepApart
  SessionIsContained
  ReportsAreTrue
PROPERTIES
  ServesInBatches
  CallSettles
  CloseReturns
\* A session whose cycles are over, or that was closed, rests.
CHECK_DEADLOCK FALSE
