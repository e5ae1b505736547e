SPECIFICATION FairSpec
CONSTANTS
  Machines <- MCMachines
  Names = {"main", "data", "migrate"}
  Keys = {"A", "B"}
  Main = "main"
  MaxAttempts = 2
  Threshold = 2
  MaxDelay = 1
  MaxAge = 3
  MaxFaults = 3
INVARIANTS SecretsWhole AwaitedFirst MigratedOnce
PROPERTIES BrokenIsTold Recovers
