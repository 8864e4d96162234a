\* One write is enough for the lost signal.
CONSTANTS
  w1 = w1
  w2 = w2
  Worker <- TwoWorkers
  MaxWrites = 1
  BatchSize = 2
SPECIFICATION FairSpec
PROPERTY ShutdownCompletes
CHECK_DEADLOCK FALSE
