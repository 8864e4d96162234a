\* The handler's release store may be buffered past the load that follows it.
CONSTANTS
  w1 = w1
  w2 = w2
  c1 = c1
  c2 = c2
  Worker <- TwoWorkers
  Conn <- OneConn
  Home <- OneHome
  Subs <- OneSubs
  MaxCmds <- TwoCmds
  Sends <- AnySends
  MaxPerLoop = 1
  MaxBatch = 1
  Publish = Publish
  Bad = Bad
  Fenced = FALSE
SPECIFICATION Spec
INVARIANT RepliesAreScheduled
CHECK_DEADLOCK FALSE
