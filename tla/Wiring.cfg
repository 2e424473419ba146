SPECIFICATION Spec
CONSTANTS
  N = 3
  Topology <- Generated
  Addr = {a, b}
INVARIANTS OneProcessPerFragment PortsMatch
