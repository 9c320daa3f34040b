SPECIFICATION MergeSpec
CONSTANTS
  dflt = dflt  a1 = a1  r1 = r1  r2 = r2  r3 = r3  w1 = w1
  Account = {dflt, a1}
  DEFAULT_ACCOUNT = dflt
  Limited = {a1}
  Request <- MCRequest
  acct <- MCAcct
  rw <- MCRw
  RUN_SIZE_LIMIT = 2
  Depth = 1
  MaxKicks = 3
INVARIANT NothingLost
