\* One connection watches a hash that another worker writes twice.
CONSTANTS
  c1 = c1
  c2 = c2
  near = near
  far = far
  NoKey = NoKey
  Conn <- OneConn
  Key <- NearKey
  Local <- NearKey
  Sends <- WatchOnly
  Forwards <- Hashes
  MaxFrames <- OneFrame
  MaxQueue = 3
  MaxForwarded = 2
  MaxPerLoop = 4
SPECIFICATION Spec
INVARIANT WriteIsNoticed
