CONSTANTS
  Invocations <- MCInvocations
  Resources = {"r1", "r2"}
  MaxSignals = 2
  None = None
  Writers = {"engine"}
  Chunks <- MCChunks
  MaxWrites = 2
  NL = NL
  Nobody = Nobody
  Clouds <- MCClouds
  Minute = 2
  Year = 8
  CdTimeout = 2
  TTLs <- MCTTLs
  Horizon = 14
  MaxUps = 2
  NoTrigger = NoTrigger
SPECIFICATION MCSpec
INVARIANTS TypeOK Uploaded NothingOrphaned StatusTellsTruth OutputWhole Armed
PROPERTIES RunEnds NeverEarly
CHECK_DEADLOCK FALSE
