CONSTANTS
  PageSize = 4
  EntriesPerPage = 4
  ListPages = 3
  Sgls = 2
  MaxBytes = 40
  NlbLimit = 64
  Bits32 = 64
  Controllers <- MCControllers
  MaxAddr = 7
SPECIFICATION Spec
INVARIANTS
  TypeOK
  DeviceFindsPages
  ListSuffices
  RequestDescribed
  WithinMdts
CHECK_DEADLOCK FALSE
