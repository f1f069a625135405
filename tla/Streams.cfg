CONSTANTS
  t1 = t1
  t2 = t2
  Tasks <- MCTasks
  Num = 2
  MaxErr = 1
  FbMax = 2
  Settled = TRUE
\* Every stream has ended: nothing is left to do.
CHECK_DEADLOCK FALSE
SPECIFICATION FairSpec
INVARIANTS
  TypeOK
  PipelineFull
  CleanEndDrains
  AltMatchesUse
PROPERTIES
  StopEndsStreams
  DeadDeviceEnds
