------------------------------ MODULE Registry ------------------------------
(***************************************************************************)
(* The entity metadata registry of the application library                 *)
(* (src/application-lib/src/typeReflector.ts).                             *)
(*                                                                         *)
(* Every @Column(type) decorator on a property of an entity class calls    *)
(* two registries one after the other:                                     *)
(*   - MetadataStorage.addColumn, keyed by the class (target.constructor), *)
(*     which Repository and TypedQuery read (columns, columnToIDMapping,   *)
(*     amountOfColumns, tableID);                                          *)
(*   - TypeReflector.register, keyed by the prototype, which Serialize and *)
(*     Deserialize read (the property list of the TypeMetaClass).          *)
(* Decorators run while the class body is evaluated, one after the other,  *)
(* in source order, and nothing else runs in between: the variable        *)
(* classState makes the decorators of one class consecutive.  A            *)
(* Repository constructor calls getEntityMetadata, which creates an empty  *)
(* entry (and consumes a tableID) for a class that has none yet.           *)
(***************************************************************************)
EXTENDS Naturals, Sequences, FiniteSets

CONSTANTS
  Classes,   \* the entity classes of the program
  Props,     \* the property names used by the classes
  Decls,     \* Decls[c]: the @Column decorators of c, in source order
  None       \* absent value (an undefined Map entry, a null metaclass)

(* The DataType enum of typeReflector.ts.                                  *)
DataType == {"Bool", "Uint64", "String"}

(* A ColumnMetadata / TypeMetaProperty: property name and data type.       *)
Column == [propertyName : Props, type : DataType]

ASSUME DeclsAssumption ==
  /\ None \notin Props \cup Nat \cup Seq(Column)
  /\ Decls \in [Classes -> Seq(Column)]

VARIABLES
  entities,       \* MetadataStorage.entities: class -> RepositoryMetadata
  entitiesAmount, \* MetadataStorage.entitiesAmount
  reflector,      \* TypeReflector.meta: class prototype -> property list
  classState,     \* how far the evaluation of each class declaration is
  pos             \* pos[c]: how many decorators of c have run

regVars == <<entities, entitiesAmount, reflector, classState, pos>>

(* The RepositoryMetadata records.                                         *)
Metadata == [tableID : Nat,
             columns : Seq(Column),
             columnToIDMapping : [Props -> Nat \cup {None}],
             currentColumnID : Nat,
             amountOfColumns : Nat]

ASSUME NoneAssumption == None \notin Metadata

(* The entry getEntityMetadata creates for a class seen for the first      *)
(* time (typeReflector.ts:30-37).                                          *)
NewMetadata(id) == [tableID |-> id,
                    columns |-> << >>,
                    columnToIDMapping |-> [p \in Props |-> None],
                    currentColumnID |-> 0,
                    amountOfColumns |-> 0]

(* Mutant: entitiesAmount is not advanced when an entry is created.        *)
AmountAfterLookupStale(c) == entitiesAmount

(* Mutant: a new entry takes the id before entitiesAmount.                 *)
MetadataOfPrev(c) ==
  IF entities[c] = None THEN NewMetadata(entitiesAmount - 1) ELSE entities[c]

(* Mutant: getEntityMetadata creates a new entry without checking has().   *)
MetadataOfFresh(c) == NewMetadata(entitiesAmount)

(* The metadata getEntityMetadata(c) returns, and the new value of         *)
(* entitiesAmount after the call.                                          *)
MetadataOf(c) ==
  IF entities[c] = None THEN NewMetadata(entitiesAmount) ELSE entities[c]

AmountAfterLookup(c) ==
  IF entities[c] = None THEN entitiesAmount + 1 ELSE entitiesAmount

(* Mutant: the column id is read after the counter is advanced.            *)
AddColumnLate(m, col) ==
  [tableID |-> m.tableID,
   columns |-> Append(m.columns, col),
   columnToIDMapping |->
     [m.columnToIDMapping EXCEPT ![col.propertyName] = m.currentColumnID + 1],
   currentColumnID |-> m.currentColumnID + 1,
   amountOfColumns |-> m.amountOfColumns + 1]

(* addColumn: append the column and give it the next column id            *)
(* (typeReflector.ts:45-54).                                               *)
AddColumn(m, col) ==
  [tableID |-> m.tableID,
   columns |-> Append(m.columns, col),
   columnToIDMapping |->
     [m.columnToIDMapping EXCEPT ![col.propertyName] = m.currentColumnID],
   currentColumnID |-> m.currentColumnID + 1,
   amountOfColumns |-> m.amountOfColumns + 1]

(* Mutant: the property is put in front of the list (unshift for push).    *)
RegisterUnshift(props, col) ==
  IF props = None THEN << col >> ELSE << col >> \o props

(* TypeReflector.register: create the metaclass if the prototype has none, *)
(* then push the property (typeReflector.ts:152-169).                      *)
Register(props, col) ==
  IF props = None THEN << col >> ELSE Append(props, col)

RegInit ==
  /\ entities = [c \in Classes |-> None]
  /\ entitiesAmount = 0
  /\ reflector = [c \in Classes |-> None]
  /\ classState = [c \in Classes |-> "undeclared"]
  /\ pos = [c \in Classes |-> 0]

(* No class body is being evaluated: other code may run.                   *)
Idle == \A c \in Classes : classState[c] # "declaring"

(* The evaluation of the declaration of class c starts.  A class without   *)
(* decorators is declared at once.                                         *)
BeginClass(c) ==
  /\ Idle
  /\ classState[c] = "undeclared"
  /\ classState' = [classState EXCEPT ![c] =
                      IF Decls[c] = << >> THEN "declared" ELSE "declaring"]
  /\ UNCHANGED <<entities, entitiesAmount, reflector, pos>>

(* The next @Column decorator of c runs: the function returned by Column   *)
(* (typeReflector.ts:59-71) calls addColumn, then TypeReflector.register.  *)
Decorate(c) ==
  LET k   == pos[c] + 1
      col == Decls[c][k]
  IN
  /\ classState[c] = "declaring"
  /\ entities' = [entities EXCEPT ![c] = AddColumn(MetadataOf(c), col)]
  /\ entitiesAmount' = AmountAfterLookup(c)
  /\ reflector' = [reflector EXCEPT ![c] = Register(reflector[c], col)]
  /\ pos' = [pos EXCEPT ![c] = k]
  /\ classState' = [classState EXCEPT ![c] =
                      IF k = Len(Decls[c]) THEN "declared" ELSE "declaring"]

(* getEntityMetadata(c) (typeReflector.ts:27-43), as the Repository        *)
(* constructor calls it on a class that has been declared.                 *)
GetEntityMetadata(c) ==
  /\ entities' = [entities EXCEPT ![c] = MetadataOf(c)]
  /\ entitiesAmount' = AmountAfterLookup(c)

Lookup(c) ==
  /\ Idle
  /\ classState[c] = "declared"
  /\ GetEntityMetadata(c)
  /\ UNCHANGED <<reflector, classState, pos>>

RegNext ==
  \E c \in Classes : BeginClass(c) \/ Decorate(c) \/ Lookup(c)

RegSpec == RegInit /\ [][RegNext]_regVars

-----------------------------------------------------------------------------
(***************************************************************************)
(* Properties.                                                             *)
(***************************************************************************)

(* Every variable has the type the code gives it.                          *)
RegTypeOK ==
  /\ entities \in [Classes -> Metadata \cup {None}]
  /\ entitiesAmount \in Nat
  /\ reflector \in [Classes -> Seq(Column) \cup {None}]
  /\ classState \in [Classes -> {"undeclared", "declaring", "declared"}]
  /\ pos \in [Classes -> Nat]

(* Declaration-order stability: whatever the order in which classes are    *)
(* declared and repositories are constructed, the columns of the class     *)
(* metadata and the properties of its TypeMetaClass are both exactly the   *)
(* decorators of the class that have run, in source order.  Insert and     *)
(* update encode in the first order, Deserialize decodes in the second:   *)
(* positional rows are only read back correctly if both agree.            *)
DeclarationOrderStable ==
  \A c \in Classes :
    LET ran == SubSeq(Decls[c], 1, pos[c]) IN
    /\ entities[c] # None => entities[c].columns = ran
    /\ reflector[c] = IF pos[c] = 0 THEN None ELSE ran
    /\ pos[c] > 0 => entities[c] # None

(* The column index of a property names a column of that property, below   *)
(* the width the query sends as number_of_fields, and the two counters     *)
(* addColumn increments stay equal to the number of columns.               *)
MetadataSound(m) ==
  /\ m.amountOfColumns = Len(m.columns)
  /\ m.currentColumnID = Len(m.columns)
  /\ \A p \in Props : m.columnToIDMapping[p] # None =>
       /\ m.columnToIDMapping[p] < m.amountOfColumns
       /\ m.columns[m.columnToIDMapping[p] + 1].propertyName = p

ColumnIndexSound ==
  \A c \in Classes : entities[c] # None => MetadataSound(entities[c])

(* Two classes never share a backend table: the tableIDs getEntityMetadata *)
(* hands out are distinct and below entitiesAmount, whatever the order of  *)
(* class declarations and Repository constructions.                        *)
UniqueTableIDs ==
  /\ \A c \in Classes : entities[c] # None =>
       entities[c].tableID < entitiesAmount
  /\ \A c, d \in Classes :
       (c # d /\ entities[c] # None /\ entities[d] # None) =>
         entities[c].tableID # entities[d].tableID

(* The invariant of the entity metadata stated in the specification:       *)
(* columns.length equals the number of mapped properties (every property   *)
(* has exactly one column).                                                *)
ColumnsMatchIndex ==
  \A c \in Classes : entities[c] # None =>
    Len(entities[c].columns) =
      Cardinality({p \in Props : entities[c].columnToIDMapping[p] # None})

(* Every Repository and TypedQuery call reads the metadata of its class     *)
(* again (getEntityMetadata, typeReflector.ts:27-43).  A step never drops  *)
(* the entry of a class, never changes its tableID, and only adds columns  *)
(* after the ones it has, so the rows written through one call are found  *)
(* by the next, in the same table at the same positions.                   *)
MetadataKept ==
  [][\A c \in Classes : entities[c] # None =>
       /\ entities'[c] # None
       /\ entities'[c].tableID = entities[c].tableID
       /\ Len(entities[c].columns) <= Len(entities'[c].columns)
       /\ SubSeq(entities'[c].columns, 1, Len(entities[c].columns)) = entities[c].columns
    ]_regVars

=============================================================================
