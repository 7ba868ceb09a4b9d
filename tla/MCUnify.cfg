SPECIFICATION FairSpec
CONSTANTS
  Nestings <- MCNestings
  Problems <- MCProblems
  MAX_INT = 3
INVARIANTS
  BindingsUnify
  RefusesOnlyMismatches
  AbortsOnlyOnMixedParts
  
PROPERTY ReturnsForGroundTypes
CHECK_DEADLOCK FALSE
