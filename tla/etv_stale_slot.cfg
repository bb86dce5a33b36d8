SPECIFICATION PromptSpec
CONSTANTS
  NumChunks = 1
  FramesPerChunk = 2
  SeqMod = 4
  RingWords = 200
  MaxPresses = 1
  Lossy = FALSE
  RetryTicks = 2
  AbortTicks = 12
  BeginWords = 1
  FrameWords = 9
  StallTicks = 4
PROPERTIES
  EveryPressGrabs
CHECK_DEADLOCK TRUE
