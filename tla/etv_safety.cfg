SPECIFICATION FairSpec
CONSTANTS
  NumChunks = 1
  FramesPerChunk = 3
  SeqMod = 4
  RingWords = 41
  MaxPresses = 3
  Lossy = TRUE
  RetryTicks = 2
  AbortTicks = 4
  BeginWords = 1
  FrameWords = 9
INVARIANTS
  TypeOK
  CreditEarned
  NoRingOverrun
  IInv
PROPERTIES
  ImplementsLog
  DoneMeansComplete
  ReturnsToIdle
CHECK_DEADLOCK TRUE
