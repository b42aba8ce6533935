SPECIFICATION Spec
CONSTANTS
  Ids = {"a", "d"}
  Static = "a"
  Manual = "m"
  MaxCalls = 6
  None = None
INVARIANT ActualIsOriginal
CHECK_DEADLOCK FALSE
