CONSTANTS
  i1 = i1
  i2 = i2
  o1 = o1
  o2 = o2
  In <- MCIn
  Out <- MCOut
  FbMax = 2
  Pkts = 16
  MaxNf = 7
  Rate = 44100
  PacketRate = 8000
  Totals <- MCTotals
  MaxIn = 4
\* run() has returned: nothing is left to do.
CHECK_DEADLOCK FALSE
SPECIFICATION FairSpec
INVARIANTS
  TypeOK
  NoFreeInFlight
  PacedExactly
PROPERTIES
  MirrorIsFifo
  RunReturns
