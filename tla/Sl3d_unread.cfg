\* One reply of the device stays unread.
SPECIFICATION FairSpec
CONSTANTS
  Rates <- MCRates
  Arg = 48000
  PowerOnRate = 44100
  ProbeEvery = 2
  IdleStop = 2
  MaxClients = 1
  Faults <- MCUnread
  MaxFaults = 1
PROPERTIES
  EveryRunSetsUp
