CONSTANTS
  Classes <- MCClasses
  Props <- MCProps
  Decls <- MCDecls
  None = None
  NaN = NaN
  Undefined = Undefined
  TableIds = {0, 1}
  NatVals <- MCNatVals
  TextVals <- MCTextVals
  Counts = {1}
  RepoPlan <- MCRepoPlan
  MaxBuilders = 3
  MaxRows = 2
  MaxClauses = 1
SPECIFICATION Spec
INVARIANTS
  TableRouting
