CONSTANTS
  Instances = 2
  EndPoints = {"Start", "Disable", "WaitDisabled", "Program", "Enable", "WaitReady", "BusMaster", "Running", "Failed"}
SPECIFICATION Spec
INVARIANT TakenOver
CHECK_DEADLOCK FALSE
