SPECIFICATION FairSpec
CONSTANTS
  FREAD_BUF_SIZE = 4
  UTF8_BUF_MIN_SIZE = 3
  Files <- MCFiles
  LookAheads = {1, 3}
  Wanted = {97}
INVARIANTS
  TypeOK
  BytesConserved
  DecoderInv
  OverflowNeedsDrain
  LineNumbers
PROPERTIES
  ImplementsCharStream
  CallsReturn
CHECK_DEADLOCK FALSE
