SPECIFICATION FairSpec
CONSTANTS
  u1 = u1
  io1 = io1
  io2 = io2
  None = None
  Callers <- OneCaller
  IoThreads <- TwoIo
  MaxConns = 2
INVARIANTS
  NoGhost
  QuietEndIsClean
  NoneForgotten
PROPERTIES
  CallsReturn
  LostIsRemoved
CHECK_DEADLOCK FALSE
