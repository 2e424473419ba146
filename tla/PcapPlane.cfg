SPECIFICATION FairSpec
CONSTANTS
  N = 2
  Source = {1}
  UserDepth = 1
  PcapDepth = 1
  WireDepth = 1
  MaxPackets = 2
  MaxChanges = 2
  MaxCrashes = 1
INVARIANTS NothingLost EndReachesReader BrokenPcapSurfaces
PROPERTIES CountSettles FloodsCounted
