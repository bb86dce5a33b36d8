SPECIFICATION Spec
CONSTANTS
  Attempts = 4
  Header = 2
  Seeds = {1}
  Frames = {254}
  MaxSplits = 1
  MaxStalls = 3
  MaxKeys = 2
  MaxRenders = 1
INVARIANTS
  TypeOK
  ActsOnce
  RezKnown
PROPERTIES
  ImplementsKeyLog
  KeysArrive
  ShowsLatest
CHECK_DEADLOCK TRUE
