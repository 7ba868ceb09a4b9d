SPECIFICATION Spec
CONSTANTS
  Inputs <- MCInputs
  MaxGrammar = 6
  Nestings <- MCNestings
INVARIANTS
  ParsesTheGrammar
  EvaluatesAsMeant
  UndefinedNeedsATupleOrFn
