SPECIFICATION MCFairSpec
CONSTANTS
  None = None
  Fixtures <- MCFixtures
  Scope <- MCScope
  Deps <- MCDeps
  Tests <- MCTests
  Uses <- MCUses
INVARIANTS
  CasesRunAsDeclared
  CleanupIsOrdered
  VerdictIsDue
PROPERTIES
  PoolSettles
  FilesSettle
\* Whatever has settled does nothing more.
CHECK_DEADLOCK FALSE
