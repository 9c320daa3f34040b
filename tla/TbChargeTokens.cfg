SPECIFICATION Spec
CONSTANTS
  a1 = a1  a2 = a2  b1 = b1  b2 = b2
  Account <- MCOne
  Block <- MCBlock
  offset <- MCOffset
  OtherOffsets = {0, 2}
  SEEK_CAP = 1
  reqs_capacity = 2
  bytes_cap = 4
  Limits = {0, 2}
  Incomes = {1, 2}
  MaxIO = 4
  MaxEstimate = 2
  MaxLost = 3
SYMMETRY Symmetry
CHECK_DEADLOCK FALSE
INVARIANT CountWithinLimit
PROPERTY Monotonic
