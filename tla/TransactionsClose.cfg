\* One connection sends MULTI, SET and a DISCARD or EXEC and closes.
CONSTANTS
  c1 = c1
  c2 = c2
  near = near
  far = far
  NoKey = NoKey
  Conn <- OneConn
  Key <- NearKey
  Local <- NearKey
  Sends <- MultiOnly
  Forwards <- NoForwards
  MaxFrames <- ThreeFrames
  MaxQueue = 3
  MaxForwarded = 0
  MaxPerLoop = 4
SPECIFICATION Spec
INVARIANT TransactionKept
