CONSTANTS
  c1 = c1
  c2 = c2
  c3 = c3
  Ctls = {c1, c2, c3}
  Machines <- ServedMachines
  None = None
SPECIFICATION Spec
INVARIANTS
  TypeOK
  MsisOwned
  QueuesServed
  ReceiversAlive
  FallbackShares
  VectorsInTable
CHECK_DEADLOCK FALSE
