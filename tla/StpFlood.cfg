SPECIFICATION FairSpec
CONSTANTS
  Node = {1, 2, 3, 4}
  Neighbor <- Ring4
  HelloTicks = 1
  ReelectTicks = 3
  Timely = TRUE
  MaxInFlight = 0
  MaxPath = 8
  MaxLinkChanges = 1
  MaxBacklog = 1
  MaxFloods = 1
  WaitConverged = TRUE
  PathModulus = 65536
  Dist <- HopDistance
INVARIANTS FloodExactlyOnce
PROPERTIES NoSpuriousReelection SteadyFloods Converges FloodsDie
