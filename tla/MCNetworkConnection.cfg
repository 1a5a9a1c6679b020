SPECIFICATION FairSpec
CONSTANTS
  c1 = c1
  c2 = c2
  io1 = io1
  io2 = io2
  None = None
  Garbage = Garbage
  Callers <- TwoCallers
  IoThreads <- TwoIo
  MaxSends = 2
  MaxReads = 2
INVARIANTS
  OneWriteOutstanding
  StallOnlyByRelock
  QueueContinuesStream
  OneReadOutstanding
  DisconnectReported
  OutboundConnectFirst
PROPERTIES
  LinkSpec
  PeerLossNoticed
CHECK_DEADLOCK FALSE
