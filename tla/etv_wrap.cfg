SPECIFICATION Spec
CONSTANTS
  NumChunks = 1
  FramesPerChunk = 3
  SeqMod = 2
  RingWords = 32
  MaxPresses = 2
  Lossy = TRUE
  RetryTicks = 2
  AbortTicks = 4
  BeginWords = 1
  FrameWords = 9
INVARIANTS
  CreditEarned
CHECK_DEADLOCK TRUE
