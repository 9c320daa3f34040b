SPECIFICATION FairSpec
CONSTANTS
  a1 = a1  a2 = a2  f1 = f1  w1 = w1  m1 = m1  r1 = r1  r2 = r2  q1 = q1
  b1 = b1  b2 = b2
  NoOne = NoOne
  Acct = {a1, a2}
  Fsync = {f1}  Write = {}  Mkdir = {}
  Read = {r1, r2}  WriteReq = {q1}
  Batch = {b1, b2}
  AcctOf <- MCAcctOf
  Parent <- MCFsyncReads
  MIN_BATCH_SIZE = 2  MAX_BATCH_SIZE = 2  MIN_IN_FLIGHT = 2
  MaxUncounted = 0  MaxEmlink = 0  MaxSwitches = 1
PROPERTY NoStall
