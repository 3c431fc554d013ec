SPECIFICATION FairSpec
CONSTANTS
  t1 = t1
  t2 = t2
  r1 = r1
  r2 = r2
  r3 = r3
  Ring <- MCRing
  Routines <- MCRoutines
  MainRoutine = r1
INVARIANTS
  FlatRunWaitsForAll
  EngineDrained
  NoForgottenCommand
  OneFinishPerThread
PROPERTY
  RunReturns
CHECK_DEADLOCK FALSE
