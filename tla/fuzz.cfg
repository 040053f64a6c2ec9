SPECIFICATION Spec
CONSTANTS
  MaxFaults = 1
  Count = 3
  Batches = {2}
  Cases <- SomeCases
  ScheduledCount = 1
  UnsupportedCap = 1
  Classes <- SomeClasses
  Prints <- SomePrints
  Ending <- SomeEndings
  Text <- SomeText
  Structure <- SomeStructure
CHECK_DEADLOCK FALSE
INVARIANTS ExitHonest FindingsKept
PROPERTY Implements
