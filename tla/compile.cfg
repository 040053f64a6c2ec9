CONSTANTS
  MaxOffset = 26
  CodeLimit = 1000
  CloseLine = 99
  Programs <- EveryProgram
SPECIFICATION Spec
CHECK_DEADLOCK FALSE
INVARIANTS TypeOK AssertsHold PreflightPrecise LinesAttributed Verified SemaSound
PROPERTY Implements
