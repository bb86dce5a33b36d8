SPECIFICATION Spec
CONSTANTS
  Suffix = {"low", "menu"}
  MaxIndex = 4
  LateCard = TRUE
PROPERTIES
  NeverOverwrites
CHECK_DEADLOCK TRUE
