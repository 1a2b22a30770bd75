CONSTANTS
  Inputs <- MCInputs
  Selector <- MCSelector
SPECIFICATION Spec
INVARIANTS
  CompileMatchesReference
CHECK_DEADLOCK FALSE
