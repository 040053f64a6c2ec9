SPECIFICATION Spec
CONSTANTS
  Writers = {w1, w2}
  Fixtures = 2
  Slots = {"s1", "s2"}
  Wrong = {2}
  MaxEdits = 1
  MaxFaults = 2
CHECK_DEADLOCK FALSE
INVARIANT SuccessIsTrue
PROPERTY PublishedOnce
