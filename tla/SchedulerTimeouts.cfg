CONSTANTS
  Routines <- MCRoutines
  Semaphores <- MCOneSemaphore
  Files <- MCNoFile
  Dates <- MCOneDate
  RoundsOf <- MCTimeouts
  MaxCalls <- MCOneCall
  MaxPosts = 1
  MaxTakes = 0
SPECIFICATION Spec
INVARIANT NobodyStranded
CHECK_DEADLOCK FALSE
