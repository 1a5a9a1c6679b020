SPECIFICATION FairSpec
CONSTANTS
  c1 = c1
  c2 = c2
  io1 = io1
  io2 = io2
  None = None
  Garbage = Garbage
  Callers <- OneCaller
  IoThreads <- TwoIo
  MaxSends = 2
  MaxReads = 0
PROPERTIES
  AcceptedIsWritten
CHECK_DEADLOCK FALSE
