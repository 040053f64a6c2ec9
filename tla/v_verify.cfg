CONSTANTS
  MaxOffset = 1000
  CodeLimit = 1000
  CloseLine = 99
  Programs <- LastIfPrograms
SPECIFICATION Spec
INVARIANT Verified
CHECK_DEADLOCK FALSE
