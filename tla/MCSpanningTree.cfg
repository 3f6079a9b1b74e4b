\* Two bridges that two links join, and three in a ring; a period of a second is
\* half the hello time; an identifier taken from the local port makes a bridge of
\* the pair 5, 6 the best of the network and one of the pair 1, 2 the worst.
CONSTANTS
  Ports = {1, 2}
  LittleEndian = TRUE
  Bridges = {1, 2, 3, 5, 6}
  Networks <- PairsAndRing
  TickMs = 1000
  Costs = {4, 19}
  NewIds = {4}
SPECIFICATION Spec
INVARIANTS NoRing FollowersAge
PROPERTY Converges
