SPECIFICATION Spec
CONSTANTS
  u1 = u1
  u2 = u2
  io1 = io1
  io2 = io2
  None = None
  Users <- OneUser
  IoThreads <- TwoIo
  MaxAdds = 1
  MaxConns = 2
  MaxRemovals = 1
SYMMETRY IoSymmetry
INVARIANTS
  OnePeerPerConnection
  NoDeadPeer
  NoLostConnection
CHECK_DEADLOCK FALSE
