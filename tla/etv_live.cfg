SPECIFICATION PromptSpec
CONSTANTS
  NumChunks = 1
  FramesPerChunk = 2
  SeqMod = 4
  RingWords = 200
  MaxPresses = 3
  Lossy = FALSE
  RetryTicks = 2
  AbortTicks = 12
  BeginWords = 1
  FrameWords = 9
  StallTicks = 4
PROPERTIES
  Delivered
  FreshSlotGrabs
CHECK_DEADLOCK TRUE
