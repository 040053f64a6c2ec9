SPECIFICATION Spec
CONSTANTS
  IntBits = 8
  LongBits = 10
  Texts <- AllTexts
  Programs <- AllPrograms
CHECK_DEADLOCK FALSE
INVARIANTS LexesAsJava RoundTrip
