\* No crashes: an underflow of the playback cursors is repaired.
SPECIFICATION FairSpec
CONSTANTS
  RingFrames = 4
  Cushion = 2
  MaxLat = 2
  Word = 64
  UsbFrames <- MCUsbTwo
  IoFrames = 1
  MaxClients = 1
  MaxCap = 0
  MaxPlay = 4
  ReaderKeepsUp = FALSE
  DrainedRestart = FALSE
PROPERTIES
  PlaybackHeals
