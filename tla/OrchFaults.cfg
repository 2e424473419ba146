SPECIFICATION OrchestratorSpec
CONSTANTS
  N = 2
  Neighbor <- Pair
  MaxOps = 2
  MaxFaults = 2
INVARIANTS TypeOK AnswersTheRequest LinksOutliveNodes NoOrphans SuccessIsReal
PROPERTIES RunReturns AllGone
