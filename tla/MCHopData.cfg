SPECIFICATION HopDataSpec
CONSTANTS
  c1 = c1
  c2 = c2
  c3 = c3
  Calls <- MCCalls
  MaxSeq = 2
  MaxRotations = 1
  MaxResets = 1
  TTLs = {1}
  Peers = {1, 2}
  RTTs = {1, 3}
  Hosts = {FALSE}
  Geos = {FALSE}
  PerHop = 2
  MaxUpdates = 2
  MaxClears = 1
  h1 = h1
  h2 = h2
  a = a
  b = b
  r = r
  Hops = {h1, h2}
  Addrs = {a, b, r}
  Reserved = {r}
  Cases <- MCCases
  MaxConns = 2
  MaxMsgs = 1
  CacheMaxSize = 1
  MaxAttempts = 2
  Resolvers = {"system", "scope"}
SYMMETRY MCSymmetry
INVARIANTS
  RightReply
  WaitersServed
  StatisticsExact
  ReceiverServes
  RowsSettled
  CacheConsistent
PROPERTIES
  StaleRoundFails
CHECK_DEADLOCK FALSE
