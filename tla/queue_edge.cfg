SPECIFICATION Spec
CONSTANTS
  Size = 3
  Requests = {r1, r2, r3, z1}
  ZeroRequests = {z1}
  None = None
  Triggers = {TRUE}
SYMMETRY MCSymmetry
INVARIANTS
  TypeOK
  CommandsAccountedFor
  DeviceSeesWholeCommands
  FreshIffPosted
  SearchTerminates
  RefusedHasWaker
  InterruptOnTheWay
PROPERTIES
  NoCommandLost
  ImplementsService
