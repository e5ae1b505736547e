CONSTANTS
  Calls = 2
  NoAnswer = NoAnswer
  Failed = Failed
  Skews <- MCSkews
  Limit = 1
  Window = 1
  MaxWait = 1
  OutputLines = {0, 1}
  Lossy = TRUE
  Horizon = 3
  MaxFaults = 4
  Attempts = 3
  MayCancel = TRUE
  Slow = TRUE
  Others = TRUE
SPECIFICATION MCSpec
INVARIANTS FailureIsOwn NothingBilled LeftIsReported
PROPERTIES ResultIsRead ImplementsContract Answered Returns
CHECK_DEADLOCK FALSE
