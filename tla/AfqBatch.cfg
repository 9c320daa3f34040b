SPECIFICATION Spec
CONSTANTS
  a1 = a1  a2 = a2  f1 = f1  w1 = w1  m1 = m1  r1 = r1  r2 = r2  q1 = q1
  b1 = b1  b2 = b2
  NoOne = NoOne
  Acct = {a1, a2}
  Fsync = {}  Write = {w1}  Mkdir = {m1}
  Read = {r1}  WriteReq = {q1}
  Batch = {b1, b2}
  AcctOf <- MCAcctOf
  Parent <- MCMkdirReads
  MIN_BATCH_SIZE = 2  MAX_BATCH_SIZE = 2  MIN_IN_FLIGHT = 2
  MaxUncounted = 1  MaxEmlink = 1  MaxSwitches = 1
SYMMETRY Symmetry
INVARIANTS TypeOK OwnerIsLive LoopWorkExact NoBatchLeak ClosedMeansBusy TimerBacksUp ActiveExact StaleOnlyDeclines InflightBound
