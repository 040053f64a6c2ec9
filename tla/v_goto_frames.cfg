CONSTANTS
  MaxOffset = 1000
  CodeLimit = 1000
  CloseLine = 99
  Programs <- NestedIfPrograms
SPECIFICATION Spec
INVARIANT FramesOffGotos
CHECK_DEADLOCK FALSE
