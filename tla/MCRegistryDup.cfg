CONSTANTS
  Classes <- MCClasses
  Props <- MCProps
  Decls <- MCDeclsDup
  None = None
SPECIFICATION RegSpec
INVARIANTS
  ColumnsMatchIndex
