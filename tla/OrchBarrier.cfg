SPECIFICATION Spec
CONSTANTS
  N = 3
  Neighbor <- Line3
  MaxOps = 1
  MaxFaults = 1
INVARIANTS NetworkBeforeNodes NoSpuriousError
