CONSTANTS
  Services = {web, api, db}
  Ghost = ghost
  Names <- MCNames
  Graphs <- MCGraphs
SPECIFICATION FairSpec
INVARIANTS DependenciesFirst NoneForgotten
PROPERTIES ImplementsOrder Terminates
CHECK_DEADLOCK FALSE
