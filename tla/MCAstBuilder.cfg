SPECIFICATION FairSpec
CONSTANTS
  Texts <- MCTexts
  UTF8_BUF_MIN_SIZE = 2
  FREAD_BUF_SIZE = 2
INVARIANTS
  ParsesTheGrammar
  NoTreeFromBrokenInput
  AbortOnlyBehindAClosedItem
PROPERTY ParseEnds
CHECK_DEADLOCK FALSE
