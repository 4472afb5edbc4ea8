SPECIFICATION FairSpec
CONSTANTS
  r1 = r1
  IPs <- MCIPs
  UseGeo = TRUE
  UseRDNS = TRUE
  DN42 = {TRUE, FALSE}
  MaxTries = 3
  Slots = 1
  ChCap = 1
  MaxResets = 1
INVARIANTS
  LookupsTracked
PROPERTIES
  StalePatchIgnored
  LookupsEnd
CHECK_DEADLOCK FALSE
