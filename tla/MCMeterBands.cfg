CONSTANTS
  Rate = {0, 1, 2}
  Burst = {1}
  MaxBands = 2
  Size = {1, 3}
  PrecLevel = {1, 2}
  Drop = {1, 2, 4}
  Kilo = 2
  Width = 64
  Second = 2
  MaxTime = 4
  MaxForwarded = 10
SPECIFICATION Spec
INVARIANTS DropLimits BandsOrdered RemarkValid
