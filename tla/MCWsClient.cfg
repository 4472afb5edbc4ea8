\* Two connections, queues of one: every race of a dial with Close.
SPECIFICATION Spec
CONSTANTS
  MaxConns = 2
  QueueCap = 1
  Breaks = {"write"}
  MayClose = TRUE
  MayCancel = TRUE
INVARIANTS
  ConnectionsAccounted
  NoSendOnClosed
  CloseWaitsForLateReadersOnly
CHECK_DEADLOCK FALSE
