SPECIFICATION HookedSpec
CONSTANT NoFile = NoFile
INVARIANTS OneOwnerOfGlobalSetup
CHECK_DEADLOCK FALSE
