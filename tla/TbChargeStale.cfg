SPECIFICATION SwitchSpec
CONSTANTS
  a1 = a1  a2 = a2  b1 = b1  b2 = b2
  Account <- MCTwo
  Block <- MCBlock
  offset <- MCOffset
  OtherOffsets = {1}
  SEEK_CAP = 1
  reqs_capacity = 2
  bytes_cap = 2
  Limits = {0}
  Incomes = {}
  MaxIO = 3
  MaxEstimate = 2
  MaxLost = 0
SYMMETRY Symmetry
CHECK_DEADLOCK FALSE
INVARIANT BatchEstimateCharged

