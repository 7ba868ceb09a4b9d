SPECIFICATION Spec
CONSTANTS
  Words <- MCWords
  NESTING = 5
  FileNames <- FileNamesAB
  Inputs <- MCInputs
INVARIANTS
  ResolvesLexically
  AcceptsTheCore
  SucceedsForPrograms
