SPECIFICATION FairSpec
CONSTANTS
  FREAD_BUF_SIZE = 4
  UTF8_BUF_MIN_SIZE = 4
  Files <- TruncatedFiles
  LookAheads = {1}
  Wanted = {97}
PROPERTY CallsAlwaysReturn
CHECK_DEADLOCK FALSE
