SPECIFICATION Spec
CONSTANTS
  v1 = v1
  v2 = v2
  Values <- MCValues
  MaxCells = 5
INVARIANTS
  ListIsSymmetric
  CellsAccountedFor
PROPERTY
  ImplementsQueue
