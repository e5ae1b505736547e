CONSTANTS
  Services <- OwnContexts
  NoBuild = NoBuild
  NoAnswer = NoAnswer
  Failed = Failed
SPECIFICATION Spec
INVARIANTS NoUnfinishedImage
PROPERTIES ImplementsContract Answered

CHECK_DEADLOCK FALSE
