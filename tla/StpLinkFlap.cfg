SPECIFICATION FairSpec
CONSTANTS
  Node = {1, 2, 3}
  Neighbor <- Ring3
  HelloTicks = 1
  ReelectTicks = 3
  Timely = TRUE
  MaxInFlight = 0
  MaxPath = 8
  MaxLinkChanges = 2
  MaxBacklog = 2
  MaxFloods = 0
  WaitConverged = TRUE
  PathModulus = 65536
  Dist <- HopDistance
PROPERTIES Converges
