SPECIFICATION Spec
CONSTANTS
  Compiles = 2
  CounterSpace = 16
  Sizes = {1, 4}
  Starts <- SomeStarts
  MaxOps = 2
  MaxTicks = 3
CHECK_DEADLOCK FALSE
INVARIANTS Truthful CleanAccepted
