\* One client of two frames; loop and batch limits of 1, so that both are hit.
CONSTANTS
  w1 = w1
  w2 = w2
  c1 = c1
  c2 = c2
  Worker <- TwoWorkers
  Conn <- OneConn
  Home <- OneHome
  Subs <- OneSubs
  MaxCmds <- TwoCmds
  Sends <- AnySends
  MaxPerLoop = 1
  MaxBatch = 1
  Publish = Publish
  Bad = Bad
  Fenced = TRUE
SPECIFICATION FairSpec
PROPERTY EveryCommandAnswered
INVARIANTS TypeOK SingleHandler RepliesAreScheduled SameWorkerRepliesInOrder
CHECK_DEADLOCK FALSE
