SPECIFICATION Spec
CONSTANTS
  p1 = p1
  p2 = p2
  p3 = p3
  n0 = n0
  n1 = n1
  n2 = n2
  n3 = n3
  null = null
  Producers <- MCProducers
  Nodes <- MCNodes
  Stub = n0
  MaxWrites = 2
INVARIANTS
  NoUseAfterFree
PROPERTY
  ImplementsFifo
CHECK_DEADLOCK FALSE
