SPECIFICATION ProcSpec
CONSTANTS
  CommandLines <- MCCommandLines
  Listens <- MCListens
  MaxToken = 2
  NaliIPs = {a, b, c, d6}
  NaliIPv6 = {d6}
  NaliReserved = {b}
  maxCacheEntries = 2
  MaxSpans = 1
  MenuLines = {"", "2"}
  MaxTargets = 2
  MaxGpAddrs = 2
  Items <- MCItems
  MaxItems = 2
  mtrParserMaxCSI = 4
  IPs = {s4, s6}
  IPv6 = {s6}
  MaxChunks = 1
  LoadedCap = 1
  BusCap = 1
  Requests <- MCRequests
  MaxTicks = 1
INVARIANTS
  ModeAsAsked
  NewestLabels
  AnswerAsTyped
  SequencesSwallowed
  SpeedRunClean
PROPERTIES
  InterruptEnds
CHECK_DEADLOCK FALSE
