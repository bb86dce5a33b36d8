SPECIFICATION Spec
CONSTANTS
  NumChunks = 3
  FramesPerChunk = 1
  SeqMod = 4
  RingWords = 16384
  MaxPresses = 3
  Lossy = FALSE
  Retries = 3
  Stalls = {3}
  BeginWords = 28
  ChunkWords = 1012
PROPERTIES
  AckIdentifies
CHECK_DEADLOCK TRUE
