SPECIFICATION PowerOnSpec
CONSTANTS
  HoldTurns = 3
  Attempts = 2
  MaxResets = 1
  NumKeys = 2
  Value <- MCValue
  Default <- MCDefault
  Noise <- MCNoise
  PageBytes = 256
  EntryBytes = 127
  NumPages = 2
  MaxCuts = 2
INVARIANTS
  PowerOnTypeOK
  HookOnDesktop
  NothingSpurious
  KeepsSettings
  NeverMixes
  ShownIsSaved
PROPERTIES
  ReachesDesktop
  BootsToMenu
CHECK_DEADLOCK FALSE
