SPECIFICATION FairSpec
CONSTANTS
  Traces <- MCLive
  QueueCap = 1
PROPERTIES
  GroupsComplete
  Terminates

CHECK_DEADLOCK FALSE
