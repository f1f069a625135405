CONSTANTS
  p1 = p1
  i1 = i1
  Plain <- MCPlain
  Iso <- MCIso
\* The transport has been dropped: nothing is left to do.
CHECK_DEADLOCK FALSE
SPECIFICATION FairSpec
INVARIANTS
  TypeOK
  NoUseAfterFree
  ReclaimedOrLeaked
PROPERTIES
  AwaitReturns
  CloseReturns
