CONSTANTS
  Instances = 4
  EndPoints = {"Start", "Disable", "WaitDisabled", "Program", "Enable", "BusMaster", "Running", "Failed"}
SPECIFICATION LiveSpec
INVARIANTS
  TypeOK
  TakenOver
PROPERTIES
  WrittenWhileDisabled
  ConstructorEnds
CHECK_DEADLOCK FALSE
