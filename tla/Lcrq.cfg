CONSTANTS
  p1 = p1
  p2 = p2
  p3 = p3
  Procs <- MCProcs
  RING_SIZE = 2
  CloseTries = 1
  MaxPuts = 2
  MaxGets = 2
  MaxPosition = 5
SPECIFICATION Spec
SYMMETRY MCSymmetry
INVARIANTS
  FifoOrder
  NothingLost
  ReadOnce
CHECK_DEADLOCK FALSE
