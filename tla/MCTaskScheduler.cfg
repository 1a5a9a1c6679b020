SPECIFICATION FairSpec
CONSTANTS
  u1 = u1
  u2 = u2
  Users <- TwoUsers
  Delays <- TwoDelays
  Intervals <- OneInterval
  MaxTasks = 2
  MaxTime = 4
  MaxStarts = 2
INVARIANTS
  SameTasks
  OnceMeansOnce
  NoOversleep
PROPERTIES
  Spacing
  DueIsExecuted
CHECK_DEADLOCK FALSE
