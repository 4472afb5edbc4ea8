SPECIFICATION Spec
CONSTANTS
  c1 = c1
  c2 = c2
  c3 = c3
  Calls <- MCCalls
  MaxSeq = 2
  MaxRotations = 1
  MaxResets = 0
SYMMETRY MCSymmetry
INVARIANTS
  NeverPanics

CHECK_DEADLOCK FALSE
