CONSTANTS
  Services <- OneContext
  NoBuild = NoBuild
  NoAnswer = NoAnswer
  Failed = Failed
SPECIFICATION Spec
INVARIANTS OwnTag

CHECK_DEADLOCK FALSE
