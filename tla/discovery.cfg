CONSTANTS
  c1 = c1
  c2 = c2
  Ctls = {c1, c2}
  MaxNn = 3
  NsidEnd = 5
  Bits32 = 16
  Dstrd = 0
SPECIFICATION FairSpec
INVARIANTS
  TypeOK
  AdminRoom
  RefsCounted
  ServedWhenComplete
  NothingDangles
PROPERTIES
  ImplementsDeviceScan
  ScanFinishes
CHECK_DEADLOCK FALSE
