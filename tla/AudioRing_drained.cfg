\* IO restarts only once the playback ring is empty.
SPECIFICATION Spec
CONSTANTS
  RingFrames = 4
  Cushion = 2
  MaxLat = 2
  Word = 64
  UsbFrames <- MCUsbTwo
  IoFrames = 1
  MaxClients = 1
  MaxCap = 2
  MaxPlay = 7
  ReaderKeepsUp = TRUE
  DrainedRestart = TRUE
INVARIANTS
  PlayReadBehindWrite
PROPERTIES
  PlaybackIsFifo
\* A tail shorter than the cushion is never played, so IO then never restarts.
CHECK_DEADLOCK FALSE
