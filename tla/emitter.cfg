CONSTANTS
  MaxOffset = 6
  CodeLimit = 1000
  Straight <- SomeStraight
  LocalStates <- SomeLocals
  Lines = {1, 2}
  MaxInstructions = 5
  MaxLabels = 3
SPECIFICATION Spec
CONSTRAINT ShortWithLines
CHECK_DEADLOCK FALSE
INVARIANTS TypeOK LineEventsOrdered RowsOrdered OnlyGotosDeleted BranchesPlaced JumpsLand ControlKept
PROPERTY FinishTerminates
