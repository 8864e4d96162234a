\* A publisher on one worker, a subscriber on the other; the handler's store of the
\* flag may be delayed.
CONSTANTS
  w1 = w1
  w2 = w2
  c1 = c1
  c2 = c2
  Worker <- TwoWorkers
  Conn <- PairConn
  Home <- PairHome
  Subs <- PairSubs
  MaxCmds <- MessageCmds
  Sends <- PairSends
  MaxPerLoop = 2
  MaxBatch = 2
  Publish = Publish
  Bad = Bad
  Fenced = FALSE
SPECIFICATION Spec
INVARIANT PushesInOrder
CHECK_DEADLOCK FALSE
