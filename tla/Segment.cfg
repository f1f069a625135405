CONSTANTS
  MaxObj = 4
  MaxKills = 2
  MaxCap = 3
SPECIFICATION FairSpec
INVARIANTS
  TypeOK
  IoReaches
  LagBounded
PROPERTIES
  DaemonComesUp
  Reconnects
