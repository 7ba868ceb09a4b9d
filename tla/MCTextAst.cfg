SPECIFICATION Spec
CONSTANT Inputs <- MCInputs
INVARIANTS
  StackIsTheOpenLines
  TreeFollowsIndentation
  OutcomeByFirstBadLine
  VariablesResolve
  LiteralsReadBack
