CONSTANTS
  MaxFrameBuffer = 10
  CanMaxDlen = 4
  Crc <- MCCrc
  Requests <- MCRequests
  Noise <- MCNoise
  MaxSent = 3
  RxMbs <- MCRxMbs
  QueueMax = 1
  Loads <- MCLoads
  Quirks <- MCQuirks
  Wanted <- MCWanted
SPECIFICATION MCSpec
INVARIANTS BufferBounded RequestsServed FramesInOrder StateKnown TimingKept
PROPERTIES QueueWakes
CHECK_DEADLOCK FALSE
