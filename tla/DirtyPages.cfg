SPECIFICATION FairSpec
CONSTANTS
  List = {l1, l2}
  Proc = {p1, p2}
  Magics <- MCAllMagics
  DIRTY_PAGE_THRES = 1
  FSYNC_WB_PAGES = 1
  MaxDirtied = 2
  MaxSwitches = 1
INVARIANTS TypeOK CountExact HooksNotNegative
PROPERTY FsyncReturns
CHECK_DEADLOCK FALSE
