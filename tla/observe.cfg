SPECIFICATION Spec
CONSTANTS
  Classes <- AllClasses
  Prints <- SomePrints
  Ending <- SomeEndings
  MaxPairs = 2
  MaxCrashes = 1
CHECK_DEADLOCK FALSE
INVARIANTS NoProtocolError OutputIsolated
PROPERTIES AnswersHonestly AnswersInTheEnd AlwaysSettles
