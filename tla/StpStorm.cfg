SPECIFICATION Spec
CONSTANTS
  Node = {1, 2, 3}
  Neighbor <- Ring3
  HelloTicks = 1
  ReelectTicks = 3
  Timely = TRUE
  MaxInFlight = 0
  MaxPath = 8
  MaxLinkChanges = 0
  MaxBacklog = 0
  MaxFloods = 1
  WaitConverged = FALSE
  PathModulus = 65536
  Dist <- HopDistance
INVARIANTS FloodAtMostOnce
