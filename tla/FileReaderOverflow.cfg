SPECIFICATION FairSpec
CONSTANTS
  FREAD_BUF_SIZE = 4
  UTF8_BUF_MIN_SIZE = 4
  Files <- DrainFiles
  LookAheads = {1, 4}
  Wanted = {97}
INVARIANT NeverOverflows
CHECK_DEADLOCK FALSE
