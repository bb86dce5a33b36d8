SPECIFICATION PngSpec
CONSTANTS
  Suffix = {"low", "menu"}
  MaxIndex = 3
  LateCard = FALSE
  Format <- Formats
  NoFault = 99
INVARIANTS
  TypeOK
  PreviewFaithful
PROPERTIES
  NeverOverwrites
  ContinuesPast
  WholeIsPng
CHECK_DEADLOCK TRUE
