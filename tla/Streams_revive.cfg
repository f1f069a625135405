CONSTANTS
  t1 = t1
  t2 = t2
  Tasks <- MCTasks
  Num = 2
  MaxErr = 1
  FbMax = 2
  Settled = FALSE
\* Every stream has ended: nothing is left to do.
CHECK_DEADLOCK FALSE
SPECIFICATION FairSpec
PROPERTIES
  StopEndsStreams
