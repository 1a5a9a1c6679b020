SPECIFICATION Spec
CONSTANTS
  Ui = Ui
  None = None
  i1 = i1
  i2 = i2
  i3 = i3
  IoThreads <- ThreeIo
  MaxConns = 3
SYMMETRY IoSymmetry
INVARIANTS
  ConnectedIsLive
  NoStrayConnection
CHECK_DEADLOCK FALSE
