CONSTANTS
  Routines <- MCRoutines
  Semaphores <- MCSemaphores
  Files <- MCFiles
  Dates <- MCDates
  RoundsOf <- MCShared
  MaxCalls <- MCSharedCalls
  MaxPosts = 1
  MaxTakes = 1
SPECIFICATION FairSpec
INVARIANTS
  AssertionsHold
  OneOwner
  EventsReachWaiter
  IdleIffFinished
CHECK_DEADLOCK FALSE
PROPERTY TimedWaitEnds
