SPECIFICATION RdSpec
CONSTANTS
  Modes = {"icmp", "fallback", "raw"}
  MaxHops = 2
  Dists = {1, 2}
  MaxSeqs = {2, 4}
  MaxConsec = 2
  MaxBackoff = 2
  RoundLimits = {2}
  RoundCap = 2
  ResetCap = 1
INVARIANTS
  RoundsSound
PROPERTIES
  TableSpec
CHECK_DEADLOCK FALSE
