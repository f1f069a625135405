CONSTANTS
  a1 = a1
  rd = rd
  Apps <- MCApps
  Reader <- MCReader
  Clients <- MCClients
  Calls <- MCCalls
  Reenter <- MCReenter
  HidReportLen = 64
  AudioCtrlBytes = 2
  RateReadBack = FALSE
  MaxReads = 2
  MaxCmds = 2
  MaxEvents = 1
  MaxLate = 1
\* The handle has been closed: nothing is left to do.
CHECK_DEADLOCK FALSE
SPECIFICATION FairSpec
INVARIANTS
  TypeOK
  ReplyIsOursOrLate
  ReadsSeeWrites
  EventsAccounted
PROPERTIES
  CallsReturn
