CONSTANTS
  app = app
  side = side
  store = store
  peer = peer
  ghost = ghost
  NoParent = NoParent
  Names <- MCNames
  Projects <- MCProjects
  WaitForSteadyState = FALSE
SPECIFICATION Spec
INVARIANTS TypeOK GrantsMatch DependencyErrorMeansCycle
PROPERTIES ImplementsOrder InOrderDeploys
CHECK_DEADLOCK FALSE
