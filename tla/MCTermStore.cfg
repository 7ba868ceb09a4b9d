SPECIFICATION Spec
CONSTANTS
  Plans <- MCPlans
  Types <- MCTypes
INVARIANTS
  OneAddressPerTree
  GivenAsAsked
  CacheIsTextbook
  OneTypePerTermInContext
  StopsAtTheUnsupported
