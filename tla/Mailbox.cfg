SPECIFICATION FairSpec
CONSTANTS
  p1 = p1
  p2 = p2
  Pushers <- MCPushers
  MaxPushes = 2
INVARIANTS
  PendingMatches
  NoSleepingCommand
PROPERTY
  EveryCommandHandled
