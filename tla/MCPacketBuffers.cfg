CONSTANTS
  Pkt = {p1, p2, p3}
  NoPkt = NoPkt
  N = 2
  Cookies = 2
  OVERWRITE_SECS = 1
  MaxDepth = 2
  MaxTime = 3
  MaxSaves = 5
SPECIFICATION Spec
INVARIANTS NoDangling NoLeak TicketsExact KeptInTime
SYMMETRY PktSymmetry
