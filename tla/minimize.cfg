SPECIFICATION Spec
CONSTANTS
  Bodies <- SomeBodies
  Tries = 2
  Cap = 12
CHECK_DEADLOCK FALSE
INVARIANTS TypeOK Kept Minimal
PROPERTY Ends
