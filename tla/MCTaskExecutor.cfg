SPECIFICATION FairSpec
CONSTANTS
  k1 = k1
  k2 = k2
  w1 = w1
  w2 = w2
  u1 = u1
  None = None
  Tasks <- TwoTasks
  Priority <- Priorities
  Workers <- TwoWorkers
  Users <- OneUser
  MaxStarts = 2
INVARIANTS
  NoIdlePool
  StateMatchesResult
PROPERTIES
  PoolSpec
  ResultStable
  WaitSeesAll
  StopReturns
  GetResultReturns
CHECK_DEADLOCK FALSE
