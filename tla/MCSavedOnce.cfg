\* One second may begin while a packet is sent to the controller twice.
CONSTANTS
  Pkt = {p1, p2, p3}
  NoPkt = NoPkt
  N = 2
  Cookies = 2
  OVERWRITE_SECS = 1
  MaxDepth = 2
  MaxTime = 3
  MaxSaves = 5
SPECIFICATION Spec
INVARIANT SavedOnce
