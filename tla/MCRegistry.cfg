CONSTANTS
  Classes <- MCClasses
  Props <- MCProps
  Decls <- MCDecls
  None = None
SPECIFICATION RegSpec
INVARIANTS
  RegTypeOK
  DeclarationOrderStable
  ColumnIndexSound
  UniqueTableIDs
PROPERTIES
  MetadataKept
