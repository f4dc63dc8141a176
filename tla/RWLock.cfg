\* Three readers, two of which also write, any number of times.
CONSTANTS
  r1 = r1
  r2 = r2
  m = m
  Readers <- ThreeReaders
  Writers <- TwoWriters
  MaxReaders = 3
SPECIFICATION FairSpec
INVARIANTS TypeOK WordCounts Exclusion NoOverflow
PROPERTIES WriterAcquires LoneReaderAcquires AbstractSpec
\* A thread that spins takes no step; whether it spins for ever is what the
\* temporal properties say.
CHECK_DEADLOCK FALSE
