SPECIFICATION LiveSpec
CONSTANTS
  c1 = c1  boot = boot  i1 = i1  i2 = i2
  NoInst = NoInst
  Call = {c1}
  Inst = {boot, i1, i2}
  Faults = {"alloc", "threads", "sysfs"}
  INT_MAX = 2147483647
  MaxLeaks = 1
INVARIANTS TypeOK RefsExact CodeInUse NoBug
PROPERTY OnlyStranded
CHECK_DEADLOCK FALSE
