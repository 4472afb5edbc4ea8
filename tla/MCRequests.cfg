SPECIFICATION RFairSpec
CONSTANTS
  Procs <- MCProcs
  Parent <- MCParent
  Owner <- MCOwner
  Awaited = {"l"}
  Names = {"google", "dnspod"}
  NoDot = ""
  Default = "dnspod"
  Calls = 3
  MaxLookups = 1
  Mixes <- MCMixes
  AuthEnabled = TRUE
  CliPow = "cli"
INVARIANTS
  ResolverSound
  PowKept
PROPERTIES
  RequestsEnd
CHECK_DEADLOCK FALSE
