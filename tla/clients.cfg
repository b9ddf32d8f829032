CONSTANTS
  cl1 = cl1
  cl2 = cl2
  absent = absent
  d1 = d1
  d2 = d2
  r1 = r1
  Disks = {n1}
  Parts <- MCParts
  Devices <- MCDevices
  Names = {cl1, cl2, absent}
  Caps = {cl1, cl2}
  MaxArgs = 5
  MaxStatic = 3
  Dynamic = {d1, d2}
  Requests = {r1}
  None = None
SPECIFICATION Spec
INVARIANTS
  TypeOK
  RefusedForGood
  StaticFirst
  MappingsExact
PROPERTIES
  OptionsScoped
CHECK_DEADLOCK FALSE
