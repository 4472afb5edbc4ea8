\* Two slots over two hops, two probes in flight per hop, a budget of two, lookups, one reset; a failed send counts as a loss.
CONSTANTS
  BeginHop = 1
  MaxHops = 2
  Parallelism = 2
  MaxInFlightHop = 2
  MaxPerHop = 2
  MaxConsecErrs = 1
  AsyncMetadata = TRUE
  MaxResets = 1
SPECIFICATION FairSpec
INVARIANTS
  ScheduleSound
  NoGhostDestination
  CompleteWhenFinished
PROPERTIES
  StaleResultsNotCounted
  RunEnds
CHECK_DEADLOCK FALSE
