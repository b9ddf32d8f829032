CONSTANTS
  c1 = c1
  Ctls = {c1}
  MaxNn = 2
  NsidEnd = 4
  Bits32 = 16
  Dstrd = 8
SPECIFICATION Spec
INVARIANTS
  DoorbellsMapped
CHECK_DEADLOCK FALSE
