SPECIFICATION FairSpec

CONSTANTS
  MaxTasks = 2
  SpawnErrors = FALSE

INVARIANTS
  RunnerIsSound

PROPERTIES
  TasksNeverOverlap
  FilesAreServedWhole
  ImplementsContract
  CallsSettle

\* A stopped runner does nothing more.
CHECK_DEADLOCK FALSE
