SPECIFICATION Spec
CONSTANTS
  Texts <- ClassFileTexts
  Units <- TextUnits
  Numbers = {70000}
  NaNs = {70000}
  CanonicalNaN = 70000
  IndexSpace = 64
  MaxEntries = 0
  MaxOperands = 1
  Operands <- AnyOperands
  Literals <- AnyLiterals
  Plans <- AllPlans
CHECK_DEADLOCK FALSE
INVARIANTS ReadsBack SmallestForms
