\* IO may restart at any time; the app reads input before the ring laps it.
SPECIFICATION Spec
CONSTANTS
  RingFrames = 4
  Cushion = 2
  MaxLat = 2
  Word = 64
  UsbFrames <- MCUsbTwo
  IoFrames = 1
  MaxClients = 2
  MaxCap = 6
  MaxPlay = 2
  ReaderKeepsUp = TRUE
  DrainedRestart = FALSE
INVARIANTS
  TypeOK
  CapReadBehindWrite
PROPERTIES
  CaptureIsFifo
