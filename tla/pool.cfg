SPECIFICATION PoolSpec
CONSTANTS
  Texts = {A, B, C}
  Numbers = {0, 1}
  NaNs = {0, 1}
  CanonicalNaN = 1
  IndexSpace = 10
  MaxEntries = 4
SYMMETRY TextSymmetry
CHECK_DEADLOCK FALSE
INVARIANTS TypeOK SlotsDisjoint Serializable JavacOrder
PROPERTY ImplementsTable
