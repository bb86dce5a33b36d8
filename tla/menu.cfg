SPECIFICATION Spec
CONSTANTS
  PageRows = 2
  MaxShots = 3
  MaxFiles = 4
  ArmSecs = 1
  ExitSecs = 2
INVARIANTS
  TypeOK
  SelectionShown
  ScreenCurrent
  PreviewMatches
PROPERTIES
  NoSurpriseExit
  LeavesByItself
CHECK_DEADLOCK FALSE
