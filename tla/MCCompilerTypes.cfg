CONSTANTS
  Inputs <- MCInputs
  Selector <- MCSelector
SPECIFICATION Spec
INVARIANTS
  SupportedTypesOnly
CHECK_DEADLOCK FALSE
