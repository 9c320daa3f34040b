SPECIFICATION FairSpec
CONSTANTS
  r1 = r1  r2 = r2  r3 = r3  w1 = w1  w2 = w2
  None = None
  Reads = {r1, r2}
  Writes = {w1}
  Pos = {1, 2, 3}
  Expires = {1, 2}
  fifo_batch = 2
  writes_starved = 1
INVARIANTS TypeOK StarvationBound
PROPERTY EventuallyDispatched
