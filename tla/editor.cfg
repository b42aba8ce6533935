SPECIFICATION MCFairSpec
CONSTANTS
  Nothing = Nothing
  Files <- MCFiles
  Paths <- MCPaths
  Entries <- MCEntries
  Cycle <- MCCycle
  PathOf <- MCPathOf
  CasesIn <- MCCasesIn
  AtOnce <- MCAtOnce
  MaxWorkers = 2
  Bails = {0, 1}
  MayThrow = {"f1"}
  MayCrash = {"f1", "f2"}
INVARIANTS
  EditorIsTrue
  ResultsAreKept
  EnqueuedInOrder
  AccountsAreExact
PROPERTY RequestsEnd
\* Nobody has to edit a file or to run a test.
CHECK_DEADLOCK FALSE
