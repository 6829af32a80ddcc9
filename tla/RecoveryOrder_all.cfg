SPECIFICATION FairOrderSpec
CONSTANTS
  Addons = {1, 2, 3}
  Graphs <- AllGraphs
INVARIANTS
  RunsOverLiveProviders
  HealthyGraphIsFullyBound
PROPERTIES
  KeepsPromise
  Terminates
CHECK_DEADLOCK FALSE
