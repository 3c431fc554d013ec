\* One ticket at first and two posts, for three routines on two threads.
SPECIFICATION FairSpec
CONSTANTS
  t1 = t1
  t2 = t2
  r1 = r1
  r2 = r2
  r3 = r3
  Threads <- MCThreads
  Routines <- MCRoutines
  Home <- MCHome
  Capacity = 1
  MaxPosts = 2
INVARIANTS
  TypeOK
  OneEntryPerWaiter
  TicketConservation
  Ledger
  WakeupsMatch
  NoStrandedWaiter
  CounterInRange
PROPERTIES
  ImplementsPool
  DisableReleasesWaiters
  TicketReachesWaiter
\* All routines may be suspended on a semaphore nobody will ever post.
CHECK_DEADLOCK FALSE
