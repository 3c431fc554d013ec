SPECIFICATION FairSpec
CONSTANTS
  w1 = w1
  w2 = w2
  r1 = r1
  r2 = r2
  c1 = c1
  Writers <- TwoWriters
  Readers <- TwoReaders
  Closers <- OneCloser
  Size = 1
  MaxWrites = 2
INVARIANTS
  ReadsWhatWasWritten
  CellsNotShared
  ClosedAndEmptyReleases
  EarlyWritesDelivered
PROPERTY
  ReadersTold
CHECK_DEADLOCK FALSE
