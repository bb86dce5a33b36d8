SPECIFICATION FairSpec
CONSTANTS
  NumChunks = 3
  FramesPerChunk = 1
  SeqMod = 3
  RingWords = 16384
  MaxPresses = 3
  Lossy = TRUE
  Retries = 3
  Stalls = {2, 5}
  BeginWords = 28
  ChunkWords = 1012
INVARIANTS
  TypeOK
  IInv
PROPERTIES
  ImplementsCleanLog
  AckMeansReceived
  Delivered
CHECK_DEADLOCK TRUE
