\* Any three faults of the device, the daemon, coreaudiod or a control client.
SPECIFICATION FairSpec
CONSTANTS
  Rates <- MCRates
  Arg = 48000
  PowerOnRate = 44100
  ProbeEvery = 2
  IdleStop = 2
  MaxClients = 2
  Faults <- MCFaults
  MaxFaults = 3
INVARIANTS
  TypeOK
  PresentMeansOpen
  OkMeansSetUp
PROPERTIES
  StreamFollowsRate
  IdleSuspends
  DetachNoticed
  ActiveClientsStream
  SetupHeals
