SPECIFICATION FairSpec
CONSTANTS
  c1 = c1
  c2 = c2
  Clients <- TwoClients
PROPERTIES
  ClientIsServed
CHECK_DEADLOCK FALSE
