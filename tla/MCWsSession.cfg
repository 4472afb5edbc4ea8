SPECIFICATION SessionFairSpec
CONSTANTS
  QueueSize = 2
  Records = 2
  Modes = {"single", "mtr"}
INVARIANTS
  SessionSound
PROPERTIES
  SessionEnds
CHECK_DEADLOCK FALSE
