CONSTANTS
  c1 = c1
  c2 = c2
  c3 = c3
  Ctls = {c1, c2, c3}
  Machines <- FallbackMachines
  None = None
SPECIFICATION Spec
INVARIANTS
  FallbackShares
CHECK_DEADLOCK FALSE
