\* c1 runs transactions on a local and a remote key while c2 and another worker write;
\* two commands per loop, so that tasks run between the commands of a transaction.
CONSTANTS
  c1 = c1
  c2 = c2
  near = near
  far = far
  NoKey = NoKey
  Conn <- TwoConns
  Key <- TwoKeys
  Local <- NearKey
  Sends <- RunnerAndWriter
  Forwards <- ForwardsSome
  MaxFrames <- RunnerFrames
  MaxQueue = 2
  MaxForwarded = 1
  MaxPerLoop = 2
SPECIFICATION Spec
INVARIANTS
  TypeOK
  SetIsNoticed
  OpenTransactionKept
  NothingQueuedOutside
