\* Two workers of two writes each and a batch limit of 2, below the four writes.
CONSTANTS
  w1 = w1
  w2 = w2
  Worker <- TwoWorkers
  MaxWrites = 2
  BatchSize = 2
SPECIFICATION FairSpec
INVARIANT TypeOK
PROPERTIES ImplementsDurableLog BufferReachesFile
CHECK_DEADLOCK FALSE
