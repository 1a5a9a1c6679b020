SPECIFICATION Spec
CONSTANTS
  r1 = r1
  r2 = r2
  e1 = e1
  None = None
  Conns <- TwoConns
  Endpoints <- OneEndpoint
  MaxSender = 2
  MaxList = 2
  MaxAdds = 1
  MaxAdopts = 1
  MaxTasks = 2
SYMMETRY Symmetry
INVARIANTS
  FewTwins
  
  DiscoveryFollowsSwitch
CHECK_DEADLOCK FALSE
