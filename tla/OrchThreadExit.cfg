SPECIFICATION Spec
CONSTANTS
  N = 2
  Neighbor <- Pair
  MaxOps = 1
  MaxFaults = 1
INVARIANTS PrematureExitReported
