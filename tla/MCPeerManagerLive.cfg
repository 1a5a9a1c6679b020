SPECIFICATION FairSpec
CONSTANTS
  u1 = u1
  u2 = u2
  io1 = io1
  io2 = io2
  None = None
  Users <- TwoUsers
  IoThreads <- TwoIo
  MaxAdds = 1
  MaxConns = 1
  MaxRemovals = 1
PROPERTIES
  DisconnectCompletes
  CallsReturn
CHECK_DEADLOCK FALSE
