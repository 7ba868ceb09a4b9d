SPECIFICATION ArenaFairSpec
CONSTANTS
  PAGE_SIZE = 8
  PAGE_ALIGNMENT = 4
  MAX_SMALL_BLOCK_SIZE = 5
  MaxBlocks = 4
  Requests <- MCRequests
INVARIANTS
  BlocksDisjoint
  BlocksPlaced
  OnePagePerCall
PROPERTY AllocationReturns
CHECK_DEADLOCK FALSE
