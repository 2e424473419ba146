SPECIFICATION Spec
CONSTANTS
  Node = {1, 2, 3}
  Neighbor <- Line3
  HelloTicks = 1
  ReelectTicks = 1
  Timely = FALSE
  MaxInFlight = 1
  MaxPath = 5
  MaxLinkChanges = 2
  MaxBacklog = 0
  MaxFloods = 0
  WaitConverged = FALSE
  PathModulus = 65536
  Dist <- HopDistance
INVARIANTS TypeOK ParentPortOpen PathNeverUndershoots
PROPERTIES VectorsOnlyImprove
