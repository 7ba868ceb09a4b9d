SPECIFICATION Spec
CONSTANTS
  Texts <- FewTexts
  UTF8_BUF_MIN_SIZE = 2
  FREAD_BUF_SIZE = 2
INVARIANT ReadAheadBeforePeek
CHECK_DEADLOCK FALSE
