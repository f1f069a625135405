\* IO restarts before the playback ring has drained.
SPECIFICATION Spec
CONSTANTS
  RingFrames = 4
  Cushion = 2
  MaxLat = 2
  Word = 64
  UsbFrames <- MCUsbTwo
  IoFrames = 1
  MaxClients = 1
  MaxCap = 2
  MaxPlay = 4
  ReaderKeepsUp = FALSE
  DrainedRestart = FALSE
INVARIANTS
  PlayReadBehindWrite
