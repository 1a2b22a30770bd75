--------------------------- MODULE RegistryProofs ---------------------------
(***************************************************************************)
(* Proofs about the entity metadata registry, for every program: every set *)
(* of classes and property names and every list of decorators.             *)
(***************************************************************************)
EXTENDS Registry, TLAPS

(* How far each class declaration has got: an undeclared class has run no *)
(* decorator, a declared one all of them, and at most one is in progress.  *)
DeclProgress ==
  /\ \A c \in Classes : pos[c] \in 0..Len(Decls[c])
  /\ \A c \in Classes : classState[c] = "undeclared" => pos[c] = 0
  /\ \A c \in Classes : classState[c] = "declared" => pos[c] = Len(Decls[c])
  /\ \A c \in Classes : classState[c] = "declaring" => pos[c] < Len(Decls[c])

(* The inductive invariant: the registry's invariants, with the progress   *)
(* of the declarations they are stated against.                            *)
IInv ==
  /\ RegTypeOK
  /\ DeclProgress
  /\ DeclarationOrderStable
  /\ ColumnIndexSound
  /\ UniqueTableIDs

-----------------------------------------------------------------------------
(***************************************************************************)
(* Lemmas about the operators the registry is built from.                  *)
(***************************************************************************)

LEMMA NewMetadataType ==
  ASSUME NEW n \in Nat
  PROVE  NewMetadata(n) \in Metadata
BY DEF NewMetadata, Metadata

LEMMA AddColumnFacts ==
  ASSUME NEW m \in Metadata, NEW col \in Column
  PROVE  LET a == AddColumn(m, col) IN
         /\ a \in Metadata
         /\ a.tableID = m.tableID
         /\ a.columns = Append(m.columns, col)
         /\ a.columnToIDMapping[col.propertyName] = m.currentColumnID
         /\ \A p \in Props \ {col.propertyName} :
              a.columnToIDMapping[p] = m.columnToIDMapping[p]
         /\ a.currentColumnID = m.currentColumnID + 1
         /\ a.amountOfColumns = m.amountOfColumns + 1
<1>1. col.propertyName \in Props
  BY DEF Column
<1>2. [m.columnToIDMapping EXCEPT ![col.propertyName] = m.currentColumnID]
        \in [Props -> Nat \cup {None}]
  BY <1>1 DEF Metadata
<1>3. QED
  BY <1>1, <1>2 DEF AddColumn, Metadata

(* Appending the next element of a sequence to a prefix of it gives the   *)
(* next prefix.                                                            *)
LEMMA AppendPrefix ==
  ASSUME NEW S, NEW d \in Seq(S), NEW k \in 1..Len(d)
  PROVE  Append(SubSeq(d, 1, k - 1), d[k]) = SubSeq(d, 1, k)
OBVIOUS

(* The first prefix of a non-empty sequence.                               *)
LEMMA FirstPrefix ==
  ASSUME NEW S, NEW d \in Seq(S), Len(d) >= 1
  PROVE  SubSeq(d, 1, 1) = << d[1] >>
<1>1. Append(SubSeq(d, 1, 0), d[1]) = SubSeq(d, 1, 1)
  BY AppendPrefix
<1>2. SubSeq(d, 1, 0) = << >>
  OBVIOUS
<1>3. Append(<< >>, d[1]) = << d[1] >>
  OBVIOUS
<1>4. QED
  BY <1>1, <1>2, <1>3

LEMMA NewMetadataSound ==
  ASSUME NEW n \in Nat
  PROVE  /\ MetadataSound(NewMetadata(n))
         /\ NewMetadata(n).columns = << >>
         /\ NewMetadata(n).tableID = n
BY DeclsAssumption DEF NewMetadata, MetadataSound

(* addColumn keeps the column index sound.                                 *)
LEMMA AddColumnSound ==
  ASSUME NEW m \in Metadata, NEW col \in Column, MetadataSound(m)
  PROVE  MetadataSound(AddColumn(m, col))
<1> DEFINE a == AddColumn(m, col)
           n == col.propertyName
<1>1. /\ a \in Metadata
      /\ a.columns = Append(m.columns, col)
      /\ a.columnToIDMapping[n] = m.currentColumnID
      /\ \A p \in Props \ {n} : a.columnToIDMapping[p] = m.columnToIDMapping[p]
      /\ a.currentColumnID = m.currentColumnID + 1
      /\ a.amountOfColumns = m.amountOfColumns + 1
  BY AddColumnFacts
<1>2. m.columns \in Seq(Column) /\ n \in Props
  BY DEF Metadata, Column
<1>3. a.amountOfColumns = Len(a.columns) /\ a.currentColumnID = Len(a.columns)
  BY <1>1, <1>2 DEF MetadataSound
<1>4. ASSUME NEW p \in Props, a.columnToIDMapping[p] # None
      PROVE  /\ a.columnToIDMapping[p] < a.amountOfColumns
             /\ a.columns[a.columnToIDMapping[p] + 1].propertyName = p
  <2>1. CASE p = n
    BY <1>1, <1>2, <2>1 DEF MetadataSound
  <2>2. CASE p # n
    <3>1. m.columnToIDMapping[p] # None
      BY <1>1, <2>2, <1>4
    <3>2. m.columnToIDMapping[p] \in Nat
      BY <3>1 DEF Metadata
    <3>3. /\ m.columnToIDMapping[p] < m.amountOfColumns
          /\ m.columns[m.columnToIDMapping[p] + 1].propertyName = p
      BY <3>1 DEF MetadataSound
    <3>4. m.amountOfColumns = Len(m.columns)
      BY DEF MetadataSound
    <3>5. a.columnToIDMapping[p] = m.columnToIDMapping[p]
      BY <1>1, <2>2
    <3>6. m.columnToIDMapping[p] + 1 \in 1..Len(m.columns)
      BY <1>2, <3>2, <3>3, <3>4
    <3>7. a.columns[m.columnToIDMapping[p] + 1] = m.columns[m.columnToIDMapping[p] + 1]
      BY <1>1, <1>2, <3>6
    <3>8. QED
      BY <1>1, <1>2, <3>2, <3>3, <3>4, <3>5, <3>7
  <2>3. QED
    BY <2>1, <2>2
<1>5. QED
  BY <1>3, <1>4 DEF MetadataSound

(* What getEntityMetadata(c) returns, in a state of the invariant: a sound *)
(* entry holding the decorators of c that have run, under a table id no    *)
(* other class has.                                                        *)
LEMMA MetadataOfFacts ==
  ASSUME IInv, NEW c \in Classes
  PROVE  /\ MetadataOf(c) \in Metadata
         /\ MetadataSound(MetadataOf(c))
         /\ MetadataOf(c).columns = SubSeq(Decls[c], 1, pos[c])
         /\ AmountAfterLookup(c) \in Nat
         /\ AmountAfterLookup(c) >= entitiesAmount
         /\ MetadataOf(c).tableID < AmountAfterLookup(c)
         /\ \A d \in Classes \ {c} : entities[d] # None =>
              entities[d].tableID # MetadataOf(c).tableID
<1>1. CASE entities[c] = None
  <2>1. pos[c] = 0
    <3>1. pos[c] \in Nat
      BY DEF IInv, RegTypeOK
    <3>2. pos[c] > 0 => entities[c] # None
      BY DEF IInv, DeclarationOrderStable
    <3>3. QED
      BY <1>1, <3>1, <3>2
  <2>2. entitiesAmount \in Nat
    BY DEF IInv, RegTypeOK
  <2>3. MetadataOf(c) = NewMetadata(entitiesAmount)
        /\ AmountAfterLookup(c) = entitiesAmount + 1
    BY <1>1 DEF MetadataOf, AmountAfterLookup
  <2>4. \A d \in Classes \ {c} : entities[d] # None =>
          /\ entities[d].tableID < entitiesAmount
          /\ entities[d].tableID \in Nat
    BY DEF IInv, UniqueTableIDs, RegTypeOK, Metadata
  <2>5. SubSeq(Decls[c], 1, 0) = << >>
    BY DeclsAssumption
  <2>6. /\ NewMetadata(entitiesAmount) \in Metadata
        /\ MetadataSound(NewMetadata(entitiesAmount))
        /\ NewMetadata(entitiesAmount).columns = << >>
        /\ NewMetadata(entitiesAmount).tableID = entitiesAmount
    BY <2>2, NewMetadataType, NewMetadataSound
  <2>7. QED
    BY <2>1, <2>2, <2>3, <2>4, <2>5, <2>6
<1>2. CASE entities[c] # None
  <2>1. MetadataOf(c) = entities[c] /\ AmountAfterLookup(c) = entitiesAmount
    BY <1>2 DEF MetadataOf, AmountAfterLookup
  <2>2. entities[c] \in Metadata /\ entitiesAmount \in Nat
    BY <1>2 DEF IInv, RegTypeOK
  <2>3. QED
    BY <1>2, <2>1, <2>2 DEF IInv, ColumnIndexSound, DeclarationOrderStable,
                          UniqueTableIDs
<1>3. QED
  BY <1>1, <1>2

(* Storing an entry under the table id getEntityMetadata(c) gives keeps    *)
(* the table ids distinct: the step shared by Decorate and Lookup.         *)
LEMMA StoreKeepsTableIDsUnique ==
  ASSUME IInv, NEW c \in Classes, NEW e,
         e.tableID = MetadataOf(c).tableID,
         entities' = [entities EXCEPT ![c] = e],
         entitiesAmount' = AmountAfterLookup(c)
  PROVE  UniqueTableIDs'
<1>1. /\ AmountAfterLookup(c) >= entitiesAmount
      /\ MetadataOf(c).tableID < AmountAfterLookup(c)
      /\ \A d \in Classes \ {c} : entities[d] # None =>
           entities[d].tableID # MetadataOf(c).tableID
  BY MetadataOfFacts
<1>2. \A d \in Classes : entities[d] # None =>
        entities[d].tableID \in Nat /\ entities[d].tableID < entitiesAmount
  BY DEF IInv, UniqueTableIDs, RegTypeOK, Metadata
<1>3. entitiesAmount \in Nat /\ AmountAfterLookup(c) \in Nat
  BY MetadataOfFacts DEF IInv, RegTypeOK
<1>4. \A d \in Classes : entities'[d] # None =>
        entities'[d].tableID < entitiesAmount'
  BY <1>1, <1>2, <1>3 DEF IInv, RegTypeOK
<1>5. \A d1, d2 \in Classes :
        (d1 # d2 /\ entities'[d1] # None /\ entities'[d2] # None) =>
          entities'[d1].tableID # entities'[d2].tableID
  BY <1>1 DEF IInv, UniqueTableIDs, RegTypeOK
<1>6. QED
  BY <1>4, <1>5 DEF UniqueTableIDs

-----------------------------------------------------------------------------
(***************************************************************************)
(* The invariant holds initially and is preserved by every step.           *)
(***************************************************************************)

LEMMA InitIInv == RegInit => IInv
BY DeclsAssumption DEF RegInit, IInv, RegTypeOK, DeclProgress,
                       DeclarationOrderStable, ColumnIndexSound, UniqueTableIDs

(* The declaration of a class starts: only classState changes.            *)
LEMMA BeginClassIInv ==
  ASSUME IInv, NEW c \in Classes, BeginClass(c)
  PROVE  IInv'
<1>1. RegTypeOK'
  BY DEF BeginClass, IInv, RegTypeOK
<1>2. DeclProgress'
  <2>1. pos[c] = 0
    BY DEF BeginClass, IInv, DeclProgress
  <2>2. Decls[c] # << >> => 0 < Len(Decls[c])
    BY DeclsAssumption
  <2>3. QED
    BY <2>1, <2>2 DEF BeginClass, IInv, DeclProgress
<1>3. (DeclarationOrderStable /\ ColumnIndexSound /\ UniqueTableIDs)'
  BY DEF BeginClass, IInv, DeclarationOrderStable, ColumnIndexSound,
         UniqueTableIDs
<1>4. QED
  BY <1>1, <1>2, <1>3 DEF IInv

(* A decorator of the class being declared runs.                           *)
LEMMA DecorateIInv ==
  ASSUME IInv, NEW c \in Classes, Decorate(c)
  PROVE  IInv'
<1> DEFINE k   == pos[c] + 1
           d   == Decls[c]
           col == d[k]
           m   == MetadataOf(c)
           a   == AddColumn(m, col)
<1>1. d \in Seq(Column) /\ pos[c] \in Nat /\ k \in 1..Len(d)
  <2>1. d \in Seq(Column)
    BY DeclsAssumption
  <2>2. pos[c] \in 0..Len(d) /\ pos[c] < Len(d)
    BY DEF Decorate, IInv, DeclProgress
  <2>3. QED
    BY <2>1, <2>2
<1>2. col \in Column
  BY <1>1
<1>3. /\ m \in Metadata
      /\ MetadataSound(m)
      /\ m.columns = SubSeq(d, 1, pos[c])
      /\ AmountAfterLookup(c) \in Nat
  BY MetadataOfFacts
<1>4. /\ a \in Metadata
      /\ MetadataSound(a)
      /\ a.tableID = m.tableID
      /\ a.columns = SubSeq(d, 1, k)
  <2>1. a \in Metadata /\ a.tableID = m.tableID
        /\ a.columns = Append(m.columns, col)
    BY <1>2, <1>3, AddColumnFacts
  <2>2. Append(SubSeq(d, 1, k - 1), d[k]) = SubSeq(d, 1, k)
    BY <1>1, AppendPrefix
  <2>3. MetadataSound(a)
    BY <1>2, <1>3, AddColumnSound
  <2>4. a.columns = SubSeq(d, 1, k)
    <3>1. k - 1 = pos[c]
      BY <1>1
    <3>2. QED
      BY <1>3, <2>1, <2>2, <3>1
  <2>5. QED
    BY <2>1, <2>3, <2>4
<1>5. Register(reflector[c], col) = SubSeq(d, 1, k)
  <2>1. reflector[c] = IF pos[c] = 0 THEN None ELSE SubSeq(d, 1, pos[c])
    BY DEF IInv, DeclarationOrderStable
  <2>2. Append(SubSeq(d, 1, k - 1), d[k]) = SubSeq(d, 1, k)
    BY <1>1, AppendPrefix
  <2>3. CASE pos[c] = 0
    <3>1. SubSeq(d, 1, k - 1) = << >> /\ k = 1
      BY <1>1, <2>3
    <3>2. SubSeq(d, 1, k) = << col >>
      <4>1. d \in Seq(Column) /\ 1 <= Len(d) /\ k = 1
        BY <1>1, <3>1
      <4>2. SubSeq(d, 1, 1) = << d[1] >>
        BY <4>1, FirstPrefix
      <4>3. QED
        BY <4>1, <4>2
    <3>3. QED
      BY <2>1, <2>3, <3>2 DEF Register
  <2>4. CASE pos[c] # 0
    <3>0. k - 1 = pos[c]
      BY <1>1
    <3>1. reflector[c] = SubSeq(d, 1, k - 1)
      BY <2>1, <2>4, <3>0
    <3>2. SubSeq(d, 1, k - 1) \in Seq(Column)
      BY <1>1
    <3>3. reflector[c] # None
      BY <3>1, <3>2, DeclsAssumption
    <3>4. QED
      BY <2>2, <3>1, <3>3 DEF Register
  <2>5. QED
    BY <2>3, <2>4
<1>6. entities' = [entities EXCEPT ![c] = a]
      /\ entitiesAmount' = AmountAfterLookup(c)
      /\ reflector' = [reflector EXCEPT ![c] = SubSeq(d, 1, k)]
      /\ pos' = [pos EXCEPT ![c] = k]
      /\ classState' = [classState EXCEPT ![c] =
                          IF k = Len(d) THEN "declared" ELSE "declaring"]
  BY <1>5 DEF Decorate
<1>7. SubSeq(d, 1, k) \in Seq(Column)
  BY <1>1
<1>8. RegTypeOK'
  BY <1>1, <1>3, <1>4, <1>6, <1>7 DEF IInv, RegTypeOK
<1>9. DeclProgress'
  BY <1>1, <1>6, SMTT(30) DEF IInv, DeclProgress, RegTypeOK
<1>10. DeclarationOrderStable'
  <2>1. SUFFICES ASSUME NEW e \in Classes
                 PROVE  LET ran == SubSeq(Decls[e], 1, pos'[e]) IN
                        /\ entities'[e] # None => entities'[e].columns = ran
                        /\ reflector'[e] = IF pos'[e] = 0 THEN None ELSE ran
                        /\ pos'[e] > 0 => entities'[e] # None
    BY DEF DeclarationOrderStable
  <2>2. CASE e = c
    <3>1. pos'[e] = k /\ k # 0
      BY <1>1, <1>6, <2>2 DEF IInv, RegTypeOK
    <3>2. entities'[e] = a /\ reflector'[e] = SubSeq(d, 1, k)
      BY <1>6, <2>2 DEF IInv, RegTypeOK
    <3>3. a # None
      BY <1>4, NoneAssumption
    <3>4. QED
      BY <1>4, <2>2, <3>1, <3>2, <3>3
  <2>3. CASE e # c
    <3>1. entities'[e] = entities[e] /\ reflector'[e] = reflector[e]
          /\ pos'[e] = pos[e]
      BY <1>6, <2>3
    <3>2. QED
      BY <3>1 DEF IInv, DeclarationOrderStable
  <2>4. QED
    BY <2>2, <2>3
<1>11. ColumnIndexSound'
  BY <1>4, <1>6 DEF IInv, ColumnIndexSound
<1>12. UniqueTableIDs'
  BY <1>4, <1>6, StoreKeepsTableIDsUnique
<1>13. QED
  BY <1>8, <1>9, <1>10, <1>11, <1>12 DEF IInv

(* A Repository constructor looks the metadata of a declared class up.    *)
LEMMA LookupIInv ==
  ASSUME IInv, NEW c \in Classes, Lookup(c)
  PROVE  IInv'
<1> DEFINE m == MetadataOf(c)
<1>1. /\ m \in Metadata
      /\ MetadataSound(m)
      /\ m.columns = SubSeq(Decls[c], 1, pos[c])
      /\ AmountAfterLookup(c) \in Nat
  BY MetadataOfFacts
<1>2. m # None
  BY <1>1, NoneAssumption
<1>3. entities' = [entities EXCEPT ![c] = m]
      /\ entitiesAmount' = AmountAfterLookup(c)
      /\ UNCHANGED <<reflector, classState, pos>>
  BY DEF Lookup, GetEntityMetadata
<1>4. RegTypeOK'
  BY <1>1, <1>3 DEF IInv, RegTypeOK
<1>5. DeclProgress'
  BY <1>3 DEF IInv, DeclProgress
<1>6. DeclarationOrderStable'
  BY <1>1, <1>2, <1>3 DEF IInv, DeclarationOrderStable, RegTypeOK
<1>7. ColumnIndexSound'
  BY <1>1, <1>3 DEF IInv, ColumnIndexSound
<1>8. UniqueTableIDs'
  BY <1>3, StoreKeepsTableIDsUnique
<1>9. QED
  BY <1>4, <1>5, <1>6, <1>7, <1>8 DEF IInv

LEMMA NextIInv == IInv /\ [RegNext]_regVars => IInv'
<1> SUFFICES ASSUME IInv, [RegNext]_regVars PROVE IInv'
  OBVIOUS
<1>1. CASE RegNext
  BY <1>1, BeginClassIInv, DecorateIInv, LookupIInv DEF RegNext
<1>2. CASE UNCHANGED regVars
  BY <1>2 DEF regVars, IInv, RegTypeOK, DeclProgress, DeclarationOrderStable,
              ColumnIndexSound, UniqueTableIDs, MetadataSound
<1>3. QED
  BY <1>1, <1>2

-----------------------------------------------------------------------------
(***************************************************************************)
(* Theorems.                                                               *)
(***************************************************************************)

(* The registry's inductive invariant holds in every reachable state.      *)
THEOREM RegistryInvariant == RegSpec => []IInv
BY InitIInv, NextIInv, PTL DEF RegSpec

(* Type correctness of MetadataStorage and TypeReflector: every entry is a *)
(* RepositoryMetadata record or absent, every metaclass a property list.   *)
THEOREM RegTypeCorrect == RegSpec => []RegTypeOK
<1>1. IInv => RegTypeOK
  BY DEF IInv
<1>2. QED
  BY RegistryInvariant, <1>1, PTL

(* For every program and every order of class declarations and Repository  *)
(* constructions, addColumn and TypeReflector.register record the same     *)
(* columns in source order, so the positional encoding of insert/update    *)
(* and the positional decoding of Deserialize agree.                       *)
THEOREM DeclarationOrderStableTheorem == RegSpec => []DeclarationOrderStable
<1>1. IInv => DeclarationOrderStable
  BY DEF IInv
<1>2. QED
  BY RegistryInvariant, <1>1, PTL

(* columnToIDMapping always names a column of the mapped property below    *)
(* amountOfColumns (the number_of_fields of every query).                  *)
THEOREM ColumnIndexSoundTheorem == RegSpec => []ColumnIndexSound
<1>1. IInv => ColumnIndexSound
  BY DEF IInv
<1>2. QED
  BY RegistryInvariant, <1>1, PTL

(* getEntityMetadata never hands two classes the same tableID.             *)
THEOREM UniqueTableIDsTheorem == RegSpec => []UniqueTableIDs
<1>1. IInv => UniqueTableIDs
  BY DEF IInv
<1>2. QED
  BY RegistryInvariant, <1>1, PTL


-----------------------------------------------------------------------------
(***************************************************************************)
(* The action property MetadataKept: a step keeps every existing entry,    *)
(* its tableID and its columns, from the invariant (the entry of a class  *)
(* is a RepositoryMetadata record, and a class being declared has a       *)
(* decorator left to run).                                                 *)
(***************************************************************************)
EntryKept(c) ==
  entities[c] # None =>
    /\ entities'[c] # None
    /\ entities'[c].tableID = entities[c].tableID
    /\ Len(entities[c].columns) <= Len(entities'[c].columns)
    /\ SubSeq(entities'[c].columns, 1, Len(entities[c].columns)) = entities[c].columns

(* An entry left as it is, or given one more column, is kept.              *)
LEMMA KeptByColumn ==
  ASSUME NEW m \in Metadata, NEW e, e # None, e.tableID = m.tableID,
         \/ e.columns = m.columns
         \/ \E col \in Column : e.columns = Append(m.columns, col)
  PROVE  /\ Len(m.columns) <= Len(e.columns)
         /\ SubSeq(e.columns, 1, Len(m.columns)) = m.columns
<1>1. m.columns \in Seq(Column)
  BY DEF Metadata
<1>. QED
  BY <1>1

LEMMA MetadataKeptStep ==
  ASSUME IInv, [RegNext]_regVars, NEW c \in Classes
  PROVE  EntryKept(c)
<1> SUFFICES ASSUME entities[c] # None
             PROVE  EntryKept(c)
  BY DEF EntryKept
<1>1. entities[c] \in Metadata
  BY DEF IInv, RegTypeOK
<1>2. SUFFICES ASSUME NEW e, e = entities'[c], e # None,
                      e.tableID = entities[c].tableID,
                      \/ e.columns = entities[c].columns
                      \/ \E col \in Column : e.columns = Append(entities[c].columns, col)
               PROVE  EntryKept(c)
  <2>1. CASE UNCHANGED regVars
    BY <2>1 DEF regVars
  <2>2. ASSUME NEW d \in Classes, BeginClass(d) PROVE entities'[c] = entities[c]
    BY <2>2 DEF BeginClass
  <2>3. ASSUME NEW d \in Classes, Lookup(d) PROVE entities'[c] = entities[c]
    BY <2>3 DEF Lookup, GetEntityMetadata, MetadataOf, IInv, RegTypeOK
  <2>4. ASSUME NEW d \in Classes, Decorate(d), d # c PROVE entities'[c] = entities[c]
    BY <2>4, SMTT(30) DEF Decorate, IInv, RegTypeOK
  <2>5. ASSUME Decorate(c)
        PROVE  /\ entities'[c] # None /\ entities'[c].tableID = entities[c].tableID
               /\ \E col \in Column : entities'[c].columns = Append(entities[c].columns, col)
    <3>1. classState[c] = "declaring"
      BY <2>5 DEF Decorate
    <3>2. pos[c] + 1 \in 1..Len(Decls[c])
      BY <3>1 DEF IInv, DeclProgress
    <3>3. Decls[c][pos[c] + 1] \in Column
      BY <3>2, DeclsAssumption
    <3>4. entities'[c] = AddColumn(entities[c], Decls[c][pos[c] + 1])
      BY <2>5 DEF Decorate, MetadataOf, IInv, RegTypeOK
    <3>5. /\ AddColumn(entities[c], Decls[c][pos[c] + 1]) \in Metadata
          /\ AddColumn(entities[c], Decls[c][pos[c] + 1]).tableID = entities[c].tableID
          /\ AddColumn(entities[c], Decls[c][pos[c] + 1]).columns
               = Append(entities[c].columns, Decls[c][pos[c] + 1])
      BY <1>1, <3>3, AddColumnFacts
    <3>. QED
      BY <3>3, <3>4, <3>5, NoneAssumption
  <2>. QED
    BY <2>1, <2>2, <2>3, <2>4, <2>5 DEF RegNext
<1>3. /\ Len(entities[c].columns) <= Len(entities'[c].columns)
      /\ SubSeq(entities'[c].columns, 1, Len(entities[c].columns)) = entities[c].columns
  BY <1>1, <1>2, KeptByColumn
<1>. QED
  BY <1>2, <1>3 DEF EntryKept

(* Every step of the registry keeps the entry of every class: its table id *)
(* and its columns, to which a decorator can only add one.  Rows written   *)
(* through one Repository call are read back by the next from the same     *)
(* table at the same positions.                                            *)
THEOREM MetadataKeptTheorem == RegSpec => MetadataKept
<1>1. IInv /\ [RegNext]_regVars => [\A c \in Classes : EntryKept(c)]_regVars
  BY MetadataKeptStep
<1>2. []IInv /\ [][RegNext]_regVars => [][\A c \in Classes : EntryKept(c)]_regVars
  BY <1>1, PTL
<1>. QED
  BY <1>2, RegistryInvariant, PTL DEF RegSpec, MetadataKept, EntryKept

=============================================================================
