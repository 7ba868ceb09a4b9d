SPECIFICATION Spec
CONSTANTS
  Variables <- MCVariables
  Requests <- MCRequests
INVARIANTS
  MadeIfWellScoped
  FreeVariablesAreTextbook
