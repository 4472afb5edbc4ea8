SPECIFICATION FairSpec
CONSTANTS
  Sizes = {1, 3, 4, 7}
  MaxDist = 3
  ProbeSize = 6
  MinMTU = 2
  Starts = {1, 4, 7}
  BeginHop = 1
  MaxHops = 3
  Queries = 2
  Tokens = 13
  Ports = 4
INVARIANTS
  PathMTUExact
  HopOfItsTTL

CHECK_DEADLOCK FALSE
PROPERTIES Ends
