\* A message published on one worker for a subscriber of the other.
CONSTANTS
  w1 = w1
  w2 = w2
  c1 = c1
  c2 = c2
  Worker <- TwoWorkers
  Conn <- PairConn
  Home <- PairHome
  Subs <- PairSubs
  MaxCmds <- PairCmds
  Sends <- PairSends
  MaxPerLoop = 1
  MaxBatch = 1
  Publish = Publish
  Bad = Bad
  Fenced = TRUE
SPECIFICATION Spec
INVARIANT PushesAreScheduled
CHECK_DEADLOCK FALSE
