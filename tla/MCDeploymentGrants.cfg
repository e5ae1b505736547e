CONSTANT Cases <- GrantCases
SPECIFICATION Spec
INVARIANTS GrantsAwaited
CHECK_DEADLOCK FALSE
