SPECIFICATION Spec
CONSTANT NoFile = NoFile
INVARIANTS
  PlansAreRight
  SelectionIsRight
  CollectionIsRight
  CoverageIsTrue
\* One input to one algorithm is all a behavior has.
CHECK_DEADLOCK FALSE
