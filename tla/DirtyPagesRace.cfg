SPECIFICATION Spec
CONSTANTS
  List = {l1, l2, l3}
  Proc = {p1}
  Magics <- MCOneMagic
  DIRTY_PAGE_THRES = 2
  FSYNC_WB_PAGES = 2
  MaxDirtied = 3
  MaxSwitches = 0
INVARIANT NotNegative
CHECK_DEADLOCK FALSE
