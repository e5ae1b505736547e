CONSTANTS
  Calls = 2
  NoAnswer = NoAnswer
  Failed = Failed
  Skews = {0}
  Limit = 2
  Window = 1
  MaxWait = 1
  OutputLines = {0}
  Lossy = FALSE
  Horizon = 2
SPECIFICATION Spec
INVARIANTS SignalIsOwn
CHECK_DEADLOCK FALSE
