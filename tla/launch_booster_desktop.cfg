SPECIFICATION Spec
CONSTANTS
  HoldTurns = 3
  Attempts = 4
  MaxResets = 2
INVARIANTS
  BoosterResetsDesktop
CHECK_DEADLOCK FALSE
