SPECIFICATION Spec
CONSTANTS
  Traces <- MCTraces
  QueueCap = 1
INVARIANTS
  BucketsSound
  AnswerOfItsProbe
  NaturalIsComplete
PROPERTIES
  ReturnedResultStable
CHECK_DEADLOCK FALSE
