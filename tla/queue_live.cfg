SPECIFICATION FairSpec
CONSTANTS
  Size = 2
  Requests = {r1, r2, z1}
  ZeroRequests = {z1}
  None = None
  Triggers = {TRUE, FALSE}
INVARIANTS
  IInv
PROPERTIES
  IssuedIsAnswered
  RefusedIsRetried
