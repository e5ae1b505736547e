CONSTANTS
  MaxFaults = 0
  Attempts = 3
  MayCancel = TRUE
  Slow = FALSE
  Others = FALSE
SPECIFICATION InstanceSpec
INVARIANTS Terminated
CHECK_DEADLOCK FALSE
