SPECIFICATION Spec
CONSTANTS
  w1 = w1
  w2 = w2
  r1 = r1
  r2 = r2
  c1 = c1
  Writers <- TwoWriters
  Readers <- OneReader
  Closers <- OneCloser
  Size = 2
  MaxWrites = 1
INVARIANT
  ReadsWhatWasWritten
CHECK_DEADLOCK FALSE
