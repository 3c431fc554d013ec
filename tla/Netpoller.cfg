CONSTANTS
  Routines <- MCRoutines
  Fds <- MCFds
  CallsOf <- MCCalls
  CloseHere = TRUE
  WaysOf <- MCWays
  Reused <- MCReused
  MaxCalls <- MCMaxCalls
  MaxOpens = 1
SPECIFICATION FairSpec
INVARIANTS
  NoLostEdge
  RegisteredIsWatched
  EventsFindTheirCall
CHECK_DEADLOCK FALSE
PROPERTY UnblockedCallRuns
