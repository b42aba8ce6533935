SPECIFICATION Spec
CONSTANTS
  f1 = f1
  f2 = f2
  f3 = f3
  None = None
SYMMETRY Symmetry
INVARIANTS
  RebuildsAreRight
  HistorySelects
  MergedIsTheRun
  DoublesAreTrue
  BrowsersServeTests
  FilesAreServedApart
\* The calls, events and runs of each machine are bounded.
CHECK_DEADLOCK FALSE
