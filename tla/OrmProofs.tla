------------------------------ MODULE OrmProofs ------------------------------
(***************************************************************************)
(* Proofs about the query builder (dblib.ts), for every program: every set *)
(* of classes and decorators, every plan of Repository constructions and  *)
(* every bound.  The registry's invariant IInv (RegistryProofs) carries    *)
(* over, since every step of the database layer is a step of the registry *)
(* or leaves it alone.                                                     *)
(***************************************************************************)
EXTENDS Orm, RegistryProofs

(* A where clause as the model's where() builds it.                        *)
WhereClause == [field_id : Nat, value : WhereStrings]

(* The number_of_fields get() sends for a builder of repository r.        *)
Width(r) == Meta(r).amountOfColumns

(* Every repository was built for a declared class, which has metadata.   *)
ReposDeclared ==
  /\ repos \in Seq([cls : Classes, tableID : TableIds])
  /\ \A r \in DOMAIN repos :
       classState[repos[r].cls] = "declared" /\ entities[repos[r].cls] # None

(* A builder points at a repository and at the arrays query() allocated   *)
(* for an earlier builder of the same chain, hence of the same repository. *)
BuildersShaped ==
  /\ builders \in Seq(Builder)
  /\ Len(builders) <= MaxBuilders
  /\ \A b \in DOMAIN builders :
       /\ builders[b].repo \in DOMAIN repos
       /\ builders[b].wref \in 1..b
       /\ builders[b].sref = builders[b].wref
       /\ builders[builders[b].wref].repo = builders[b].repo

(* The arrays of a builder not yet allocated are empty, and the clauses   *)
(* of an allocated one name columns of its repository's class.            *)
ArraysInRange ==
  /\ whereArr \in [BuilderIds -> Seq(WhereClause)]
  /\ sortArr \in [BuilderIds -> Seq(SortingOperation)]
  /\ \A w \in BuilderIds \ DOMAIN builders : whereArr[w] = << >> /\ sortArr[w] = << >>
  /\ \A w \in DOMAIN builders :
       /\ \A k \in DOMAIN whereArr[w] : whereArr[w][k].field_id < Width(builders[w].repo)
       /\ \A k \in DOMAIN sortArr[w] : sortArr[w][k].field_id < Width(builders[w].repo)

OInv == IInv /\ ReposDeclared /\ BuildersShaped /\ ArraysInRange


-----------------------------------------------------------------------------
LEMMA InitOInv == Init => OInv
<1> SUFFICES ASSUME Init PROVE OInv
  OBVIOUS
<1>1. IInv
  BY InitIInv DEF Init
<1>2. MaxBuilders \in Nat
  BY OrmAssumption
<1>. QED
  BY <1>1, <1>2 DEF Init, OrmInit, OInv, ReposDeclared, BuildersShaped, ArraysInRange,
                   BuilderIds

(* A step that leaves the registry, the repositories, the builders and    *)
(* their arrays alone: get(), insert, update, createTable.                 *)
LEMMA FrameOInv ==
  ASSUME OInv, UNCHANGED <<regVars, repos, builders, whereArr, sortArr>>
  PROVE  OInv'
<1>1. IInv'
  BY DEF OInv, IInv, regVars, RegTypeOK, DeclProgress, DeclarationOrderStable,
         ColumnIndexSound, MetadataSound, UniqueTableIDs
<1>. QED
  BY <1>1 DEF OInv, regVars, ReposDeclared, BuildersShaped, ArraysInRange, Width, Meta

(* query(): a builder with fresh arrays, still empty.                      *)
LEMMA QueryOInv ==
  ASSUME OInv, NEW r, Query(r)
  PROVE  OInv'
<1> DEFINE nb == Len(builders) + 1
           B  == [repo |-> r, wref |-> nb, sref |-> nb, limit |-> 0, offset |-> 0]
<1>1. /\ builders \in Seq(Builder) /\ Len(builders) <= MaxBuilders
      /\ r \in DOMAIN repos /\ nb \in BuilderIds /\ nb \notin DOMAIN builders
      /\ builders' = Append(builders, B)
      /\ UNCHANGED <<regVars, repos, whereArr, sortArr>>
  BY DEF OInv, BuildersShaped, Query, BuilderIds
<1>2. B \in Builder
  BY <1>1 DEF Builder, ReposDeclared, OInv
<1>3. whereArr[nb] = << >> /\ sortArr[nb] = << >>
  BY <1>1 DEF OInv, ArraysInRange
<1>4. IInv'
  BY <1>1 DEF OInv, IInv, regVars, RegTypeOK, DeclProgress, DeclarationOrderStable,
              ColumnIndexSound, MetadataSound, UniqueTableIDs
<1>5. ReposDeclared'
  BY <1>1 DEF OInv, regVars, ReposDeclared
<1>6. /\ DOMAIN builders' = DOMAIN builders \cup {nb}
      /\ \A w \in DOMAIN builders : builders'[w] = builders[w]
      /\ builders'[nb] = B
  BY <1>1
<1>7. BuildersShaped'
  <2>1. builders' \in Seq(Builder) /\ Len(builders') <= MaxBuilders
    BY <1>1, <1>2 DEF BuilderIds
  <2>2. ASSUME NEW b \in DOMAIN builders'
        PROVE  /\ builders'[b].repo \in DOMAIN repos'
               /\ builders'[b].wref \in 1..b
               /\ builders'[b].sref = builders'[b].wref
               /\ builders'[builders'[b].wref].repo = builders'[b].repo
    <3>1. CASE b = nb
      BY <1>1, <1>6, <3>1
    <3>2. CASE b \in DOMAIN builders
      <4>1. builders[b].wref \in 1..b /\ builders[b].wref \in DOMAIN builders
        BY <3>2 DEF OInv, BuildersShaped
      <4>. QED
        BY <1>1, <1>6, <3>2, <4>1 DEF OInv, BuildersShaped
    <3>. QED
      BY <1>6, <3>1, <3>2
  <2>. QED
    BY <2>1, <2>2 DEF BuildersShaped
<1>8. \A x \in DOMAIN repos : Width(x)' = Width(x)
  BY <1>1 DEF Width, Meta, regVars
<1>9. ArraysInRange'
  <2>1. ASSUME NEW w \in DOMAIN builders'
        PROVE  (/\ \A k \in DOMAIN whereArr[w] : whereArr[w][k].field_id < Width(builders[w].repo)
                /\ \A k \in DOMAIN sortArr[w] : sortArr[w][k].field_id < Width(builders[w].repo))'
    <3>1. CASE w = nb
      BY <1>1, <1>3, <3>1
    <3>2. CASE w \in DOMAIN builders
      <4>1. builders[w].repo \in DOMAIN repos
        BY <3>2 DEF OInv, BuildersShaped
      <4>2. (Width(builders[w].repo))' = Width(builders[w].repo)
        BY <1>6, <1>8, <3>2, <4>1
      <4>. QED
        BY <1>1, <3>2, <4>2 DEF OInv, ArraysInRange
    <3>. QED
      BY <1>6, <2>1, <3>1, <3>2
  <2>2. \A w \in BuilderIds \ DOMAIN builders' : w \in BuilderIds \ DOMAIN builders
    BY <1>6
  <2>. QED
    BY <1>1, <2>1, <2>2 DEF OInv, ArraysInRange
<1>. QED
  BY <1>4, <1>5, <1>7, <1>9 DEF OInv


(* An element of a sequence is in the sequence's set.                     *)
LEMMA SeqElement ==
  ASSUME NEW S, NEW s \in Seq(S), NEW i \in 1..Len(s)
  PROVE  s[i] \in S
OBVIOUS

(* The column id where() or orderBy() reads for a property of builder b's *)
(* class, when there is one, is a number below the class's width.          *)
LEMMA ColumnIdInRange ==
  ASSUME OInv, NEW b \in DOMAIN builders, NEW f \in Props,
         Meta(builders[b].repo).columnToIDMapping[f] # None
  PROVE  /\ Meta(builders[b].repo).columnToIDMapping[f] \in Nat
         /\ Meta(builders[b].repo).columnToIDMapping[f] < Width(builders[b].repo)
<1>1. builders[b].repo \in DOMAIN repos
  BY DEF OInv, BuildersShaped
<1>2. repos[builders[b].repo].cls \in Classes
      /\ entities[repos[builders[b].repo].cls] # None
  <2>0. repos \in Seq([cls : Classes, tableID : TableIds])
    BY DEF OInv, ReposDeclared
  <2>1. repos[builders[b].repo] \in [cls : Classes, tableID : TableIds]
    <3>1. builders[b].repo \in 1..Len(repos)
      BY <1>1, <2>0
    <3>. QED
      BY <2>0, <3>1, SeqElement, ZenonT(60)
  <2>. QED
    BY <1>1, <2>1 DEF OInv, ReposDeclared
<1>3. Meta(builders[b].repo) \in Metadata /\ MetadataSound(Meta(builders[b].repo))
  BY <1>2 DEF OInv, IInv, RegTypeOK, ColumnIndexSound, Meta
<1>. QED
  BY <1>3 DEF Metadata, MetadataSound, Width

(* A chained call: clone() appends a copy of builder b (limit and offset  *)
(* may differ), and the array the chain shares may gain clauses that name *)
(* columns of the chain's class.                                           *)
LEMMA CloneOInv ==
  ASSUME OInv, NEW b \in DOMAIN builders, NEW B \in Builder,
         B.repo = builders[b].repo, B.wref = builders[b].wref,
         B.sref = builders[b].sref,
         Len(builders) < MaxBuilders,
         builders' = Append(builders, B),
         UNCHANGED <<regVars, repos>>,
         whereArr' \in [BuilderIds -> Seq(WhereClause)],
         sortArr' \in [BuilderIds -> Seq(SortingOperation)],
         \A w \in BuilderIds \ {builders[b].wref} :
           whereArr'[w] = whereArr[w] /\ sortArr'[w] = sortArr[w],
         \A k \in DOMAIN whereArr'[builders[b].wref] :
           whereArr'[builders[b].wref][k].field_id < Width(builders[b].repo),
         \A k \in DOMAIN sortArr'[builders[b].wref] :
           sortArr'[builders[b].wref][k].field_id < Width(builders[b].repo)
  PROVE  OInv'
<1> DEFINE nb == Len(builders) + 1
           w0 == builders[b].wref
<1>1. /\ builders \in Seq(Builder)
      /\ w0 \in 1..b /\ w0 \in DOMAIN builders
      /\ builders[w0].repo = builders[b].repo
      /\ builders[b].sref = w0
      /\ builders[b].repo \in DOMAIN repos
  BY DEF OInv, BuildersShaped
<1>2. /\ DOMAIN builders' = DOMAIN builders \cup {nb}
      /\ \A w \in DOMAIN builders : builders'[w] = builders[w]
      /\ builders'[nb] = B
      /\ nb \notin DOMAIN builders
      /\ nb \in BuilderIds /\ DOMAIN builders \subseteq BuilderIds
      /\ builders' \in Seq(Builder) /\ Len(builders') <= MaxBuilders
  <2>1. Len(builders) \in Nat /\ Len(builders) < MaxBuilders
    BY <1>1
  <2>2. builders' = Append(builders, B)
    OBVIOUS
  <2>3. DOMAIN builders' = DOMAIN builders \cup {nb}
    BY <1>1, <2>2
  <2>4. \A w \in DOMAIN builders : builders'[w] = builders[w]
    BY <1>1, <2>2
  <2>5. builders'[nb] = B
    BY <1>1, <2>2
  <2>6. nb \notin DOMAIN builders /\ nb \in BuilderIds /\ DOMAIN builders \subseteq BuilderIds
    BY <1>1, <2>1, OrmAssumption DEF BuilderIds
  <2>7. builders' \in Seq(Builder) /\ Len(builders') <= MaxBuilders
    BY <1>1, <2>1, <2>2, OrmAssumption, SMTT(30)
  <2>. QED
    BY <2>3, <2>4, <2>5, <2>6, <2>7
<1>3. IInv'
  BY DEF OInv, IInv, regVars, RegTypeOK, DeclProgress, DeclarationOrderStable,
         ColumnIndexSound, MetadataSound, UniqueTableIDs
<1>4. ReposDeclared'
  BY DEF OInv, regVars, ReposDeclared
<1>5. BuildersShaped'
  <2>1. builders' \in Seq(Builder) /\ Len(builders') <= MaxBuilders
    BY <1>2
  <2>2. ASSUME NEW c \in DOMAIN builders'
        PROVE  /\ builders'[c].repo \in DOMAIN repos'
               /\ builders'[c].wref \in 1..c
               /\ builders'[c].sref = builders'[c].wref
               /\ builders'[builders'[c].wref].repo = builders'[c].repo
    <3>1. CASE c = nb
      BY <1>1, <1>2, <3>1
    <3>2. CASE c \in DOMAIN builders
      <4>1. builders[c].wref \in 1..c /\ builders[c].wref \in DOMAIN builders
        BY <3>2 DEF OInv, BuildersShaped
      <4>2. /\ builders[c].repo \in DOMAIN repos
            /\ builders[c].sref = builders[c].wref
            /\ builders[builders[c].wref].repo = builders[c].repo
        BY <3>2 DEF OInv, BuildersShaped
      <4>3. builders'[c] = builders[c] /\ builders'[builders[c].wref] = builders[builders[c].wref]
        BY <1>2, <3>2, <4>1
      <4>. QED
        BY <4>1, <4>2, <4>3
    <3>. QED
      BY <1>2, <3>1, <3>2, SMTT(30)
  <2>. QED
    BY <2>1, <2>2 DEF BuildersShaped
<1>6. \A x \in DOMAIN repos : Width(x)' = Width(x)
  BY DEF Width, Meta, regVars
<1>7. ArraysInRange'
  <2>1. ASSUME NEW w \in DOMAIN builders'
        PROVE  (/\ \A k \in DOMAIN whereArr[w] : whereArr[w][k].field_id < Width(builders[w].repo)
                /\ \A k \in DOMAIN sortArr[w] : sortArr[w][k].field_id < Width(builders[w].repo))'
    <3>1. CASE w = nb
      <4>1. whereArr[nb] = << >> /\ sortArr[nb] = << >> /\ nb # w0
        BY <1>1, <1>2 DEF OInv, ArraysInRange
      <4>2. whereArr'[nb] = << >> /\ sortArr'[nb] = << >>
        BY <1>2, <4>1, ZenonT(60)
      <4>. QED
        BY <3>1, <4>2
    <3>2. CASE w \in DOMAIN builders
      <4>1. builders[w].repo \in DOMAIN repos
        BY <3>2 DEF OInv, BuildersShaped
      <4>2. (Width(builders[w].repo))' = Width(builders[w].repo)
        BY <1>2, <1>6, <3>2, <4>1
      <4>3. CASE w = w0
        BY <1>1, <4>2, <4>3
      <4>4. CASE w # w0
        <5>1. w \in BuilderIds \ {w0}
          BY <1>2, <3>2, <4>4
        <5>2. whereArr'[w] = whereArr[w] /\ sortArr'[w] = sortArr[w]
          BY <5>1
        <5>3. /\ \A k \in DOMAIN whereArr[w] : whereArr[w][k].field_id < Width(builders[w].repo)
              /\ \A k \in DOMAIN sortArr[w] : sortArr[w][k].field_id < Width(builders[w].repo)
          BY <3>2 DEF OInv, ArraysInRange
        <5>. QED
          BY <1>2, <3>2, <4>2, <5>2, <5>3, SMTT(30)
      <4>. QED
        BY <4>3, <4>4
    <3>. QED
      BY <1>2, <2>1, <3>1, <3>2
  <2>2. ASSUME NEW w \in BuilderIds \ DOMAIN builders'
        PROVE  whereArr'[w] = << >> /\ sortArr'[w] = << >>
    <3>1. w \in BuilderIds \ DOMAIN builders /\ w # w0
      BY <1>1, <1>2
    <3>. QED
      BY <3>1 DEF OInv, ArraysInRange
  <2>. QED
    BY <2>1, <2>2 DEF ArraysInRange
<1>. QED
  BY <1>3, <1>4, <1>5, <1>7 DEF OInv


(* The arrays builder b pushes onto are those of the builder query()      *)
(* allocated for its chain, and their clauses already name columns of b's *)
(* class.                                                                  *)
LEMMA ChainArrays ==
  ASSUME OInv, NEW b \in DOMAIN builders
  PROVE  /\ builders[b] \in Builder
         /\ builders[b].wref \in DOMAIN builders /\ builders[b].wref \in BuilderIds
         /\ builders[b].sref = builders[b].wref
         /\ whereArr[builders[b].wref] \in Seq(WhereClause)
         /\ sortArr[builders[b].wref] \in Seq(SortingOperation)
         /\ \A k \in DOMAIN whereArr[builders[b].wref] :
              whereArr[builders[b].wref][k].field_id < Width(builders[b].repo)
         /\ \A k \in DOMAIN sortArr[builders[b].wref] :
              sortArr[builders[b].wref][k].field_id < Width(builders[b].repo)
<1>1. builders \in Seq(Builder) /\ b \in 1..Len(builders)
  BY DEF OInv, BuildersShaped
<1>2. builders[b] \in Builder
  BY <1>1, SeqElement
<1>3. /\ builders[b].wref \in 1..b /\ builders[b].sref = builders[b].wref
      /\ builders[builders[b].wref].repo = builders[b].repo
  BY DEF OInv, BuildersShaped
<1>4. builders[b].wref \in DOMAIN builders /\ builders[b].wref \in BuilderIds
  BY <1>1, <1>2, <1>3 DEF Builder
<1>. QED
  BY <1>2, <1>3, <1>4 DEF OInv, ArraysInRange

(* where(field, "==", value): the clause is pushed when the field has a    *)
(* column id.                                                              *)
LEMMA WhereOInv ==
  ASSUME OInv, NEW b \in DOMAIN builders, NEW f \in Props, NEW x \in WhereStrings,
         Where(b, f, x)
  PROVE  OInv'
<1> DEFINE qb == builders[b]
<1> DEFINE w == qb.wref
<1> DEFINE id == Meta(qb.repo).columnToIDMapping[f]
<1> DEFINE op == [field_id |-> id, value |-> x]
<1>1. /\ qb \in Builder
      /\ w \in DOMAIN builders /\ w \in BuilderIds /\ qb.sref = w
      /\ whereArr[w] \in Seq(WhereClause)
      /\ \A k \in DOMAIN whereArr[w] : whereArr[w][k].field_id < Width(qb.repo)
      /\ \A k \in DOMAIN sortArr[w] : sortArr[w][k].field_id < Width(qb.repo)
  BY ChainArrays, ZenonT(60)
<1>2. /\ Len(builders) < MaxBuilders
      /\ builders' = Append(builders, qb)
      /\ UNCHANGED <<regVars, repos, sortArr>>
  BY DEF Where, Clone
<1>3. whereArr \in [BuilderIds -> Seq(WhereClause)]
      /\ sortArr \in [BuilderIds -> Seq(SortingOperation)]
  BY DEF OInv, ArraysInRange
<1>4. /\ whereArr' \in [BuilderIds -> Seq(WhereClause)]
      /\ \A v \in BuilderIds \ {w} : whereArr'[v] = whereArr[v]
      /\ \A k \in DOMAIN whereArr'[w] : whereArr'[w][k].field_id < Width(qb.repo)
  <2>1. CASE id # None
    <3>2. id \in Nat /\ id < Width(qb.repo)
      BY <2>1, ColumnIdInRange
    <3>3. op \in WhereClause
      BY <3>2 DEF WhereClause
    <3>4. whereArr' = [whereArr EXCEPT ![w] = Append(@, op)]
      BY <2>1 DEF Where
    <3>. QED
      BY <1>1, <1>3, <3>2, <3>3, <3>4
  <2>5. CASE id = None
    <3>6. whereArr' = whereArr
      BY <2>5 DEF Where
    <3>. QED
      BY <1>1, <1>3, <3>6
  <2>. QED
    BY <2>1, <2>5, SMTT(30)
<1>. QED
  BY <1>1, <1>2, <1>3, <1>4, CloneOInv, ZenonT(60)

(* orderBy(field, direction): the same on the sort array.                  *)
LEMMA OrderByOInv ==
  ASSUME OInv, NEW b \in DOMAIN builders, NEW f \in Props, NEW d \in BOOLEAN,
         OrderBy(b, f, d)
  PROVE  OInv'
<1> DEFINE qb == builders[b]
<1> DEFINE w == qb.wref
<1> DEFINE id == Meta(qb.repo).columnToIDMapping[f]
<1> DEFINE op == [field_id |-> id, descending |-> d]
<1>1. /\ qb \in Builder
      /\ w \in DOMAIN builders /\ w \in BuilderIds /\ qb.sref = w
      /\ sortArr[w] \in Seq(SortingOperation)
      /\ \A k \in DOMAIN whereArr[w] : whereArr[w][k].field_id < Width(qb.repo)
      /\ \A k \in DOMAIN sortArr[w] : sortArr[w][k].field_id < Width(qb.repo)
  BY ChainArrays, ZenonT(60)
<1>2. /\ Len(builders) < MaxBuilders
      /\ builders' = Append(builders, qb)
      /\ UNCHANGED <<regVars, repos, whereArr>>
  BY DEF OrderBy, Clone
<1>3. whereArr \in [BuilderIds -> Seq(WhereClause)]
      /\ sortArr \in [BuilderIds -> Seq(SortingOperation)]
  BY DEF OInv, ArraysInRange
<1>4. /\ sortArr' \in [BuilderIds -> Seq(SortingOperation)]
      /\ \A v \in BuilderIds \ {w} : sortArr'[v] = sortArr[v]
      /\ \A k \in DOMAIN sortArr'[w] : sortArr'[w][k].field_id < Width(qb.repo)
  <2>1. CASE id # None
    <3>2. id \in Nat /\ id < Width(qb.repo)
      BY <2>1, ColumnIdInRange
    <3>3. op \in SortingOperation
      BY <3>2 DEF SortingOperation
    <3>4. sortArr' = [sortArr EXCEPT ![w] = Append(@, op)]
      BY <1>1, <2>1 DEF OrderBy
    <3>. QED
      BY <1>1, <1>3, <3>2, <3>3, <3>4
  <2>5. CASE id = None
    <3>6. sortArr' = sortArr
      BY <2>5 DEF OrderBy
    <3>. QED
      BY <1>1, <1>3, <3>6
  <2>. QED
    BY <2>1, <2>5, SMTT(30)
<1>. QED
  BY <1>1, <1>2, <1>3, <1>4, CloneOInv, ZenonT(60)

(* limit(count) and offset(count): a copy with another count, the arrays   *)
(* untouched.                                                              *)
LEMMA LimitOffsetOInv ==
  ASSUME OInv, NEW b \in DOMAIN builders, NEW n \in Counts,
         Limit(b, n) \/ Offset(b, n)
  PROVE  OInv'
<1> DEFINE qb == builders[b]
<1>1. /\ qb \in Builder
      /\ qb.wref \in DOMAIN builders /\ qb.wref \in BuilderIds /\ qb.sref = qb.wref
      /\ \A k \in DOMAIN whereArr[qb.wref] : whereArr[qb.wref][k].field_id < Width(qb.repo)
      /\ \A k \in DOMAIN sortArr[qb.wref] : sortArr[qb.wref][k].field_id < Width(qb.repo)
  BY ChainArrays, ZenonT(60)
<1>2. whereArr \in [BuilderIds -> Seq(WhereClause)]
      /\ sortArr \in [BuilderIds -> Seq(SortingOperation)]
  BY DEF OInv, ArraysInRange
<1>3. ASSUME NEW B \in Builder,
             B.repo = qb.repo, B.wref = qb.wref, B.sref = qb.sref,
             Len(builders) < MaxBuilders,
             builders' = Append(builders, B),
             UNCHANGED <<regVars, repos, whereArr, sortArr>>
      PROVE  OInv'
  BY <1>1, <1>2, <1>3, CloneOInv, ZenonT(60)
<1>4. CASE Limit(b, n)
  <2> DEFINE B == [qb EXCEPT !.limit = n]
  <2>1. B \in Builder /\ B.repo = qb.repo /\ B.wref = qb.wref /\ B.sref = qb.sref
    BY <1>1 DEF Builder
  <2>2. /\ Len(builders) < MaxBuilders
        /\ builders' = Append(builders, B)
        /\ UNCHANGED <<regVars, repos, whereArr, sortArr>>
    BY <1>4 DEF Limit, Clone
  <2>. QED
    BY <2>1, <2>2, <1>3, ZenonT(60)
<1>5. CASE Offset(b, n)
  <2> DEFINE B == [qb EXCEPT !.offset = n]
  <2>1. B \in Builder /\ B.repo = qb.repo /\ B.wref = qb.wref /\ B.sref = qb.sref
    BY <1>1 DEF Builder
  <2>2. /\ Len(builders) < MaxBuilders
        /\ builders' = Append(builders, B)
        /\ UNCHANGED <<regVars, repos, whereArr, sortArr>>
    BY <1>5 DEF Offset, Clone
  <2>. QED
    BY <2>1, <2>2, <1>3, ZenonT(60)
<1>. QED
  BY <1>4, <1>5


(* A registry step that keeps the state and the entry of every class a     *)
(* repository was built for keeps the builders' invariant.                *)
LEMMA EntriesKeptOInv ==
  ASSUME OInv, IInv', UNCHANGED <<repos, builders, whereArr, sortArr>>,
         \A r \in DOMAIN repos :
           /\ classState'[repos[r].cls] = "declared"
           /\ entities'[repos[r].cls] = entities[repos[r].cls]
  PROVE  OInv'
<1>1. ReposDeclared'
  BY DEF OInv, ReposDeclared
<1>2. BuildersShaped'
  BY DEF OInv, BuildersShaped
<1>3. \A w \in DOMAIN builders :
        (Width(builders[w].repo))' = Width(builders[w].repo)
  BY DEF OInv, BuildersShaped, Width, Meta
<1>4. ArraysInRange'
  BY <1>3 DEF OInv, ArraysInRange
<1>. QED
  BY <1>1, <1>2, <1>4 DEF OInv

(* A class declaration step (a decorator or the start of a class body)   *)
(* is about a class no repository was built for: those are declared       *)
(* already, so their state and their entries stay.                        *)
LEMMA DeclareKeepsRepos ==
  ASSUME OInv, NEW c \in Classes, Declare(c), NEW r \in DOMAIN repos
  PROVE  /\ classState'[repos[r].cls] = "declared"
         /\ entities'[repos[r].cls] = entities[repos[r].cls]
<1>1. classState \in [Classes -> {"undeclared", "declaring", "declared"}]
      /\ entities \in [Classes -> Metadata \cup {None}]
  BY DEF OInv, IInv, RegTypeOK
<1>2. repos[r] \in [cls : Classes, tableID : TableIds]
  <2>1. repos \in Seq([cls : Classes, tableID : TableIds]) /\ r \in 1..Len(repos)
    BY DEF OInv, ReposDeclared
  <2>. QED
    BY <2>1, SeqElement, ZenonT(60)
<1>3. repos[r].cls \in Classes /\ classState[repos[r].cls] = "declared"
  BY <1>2 DEF OInv, ReposDeclared
<1>4. CASE BeginClass(c)
  BY <1>1, <1>3, <1>4, SMTT(30) DEF BeginClass
<1>5. CASE Decorate(c)
  BY <1>1, <1>3, <1>5, SMTT(30) DEF Decorate
<1>. QED
  BY <1>4, <1>5 DEF Declare

LEMMA DeclareOInv ==
  ASSUME OInv, NEW c \in Classes, Declare(c)
  PROVE  OInv'
<1>1. IInv'
  BY NextIInv DEF Declare, RegNext, OInv
<1>2. \A r \in DOMAIN repos :
        /\ classState'[repos[r].cls] = "declared"
        /\ entities'[repos[r].cls] = entities[repos[r].cls]
  BY DeclareKeepsRepos
<1>. QED
  BY <1>1, <1>2, EntriesKeptOInv DEF Declare, ormVars

(* new Repository() appends a repository and looks up the metadata of its *)
(* class: the repositories already built and their entries stay.          *)
LEMMA NewRepositoryKeepsRepos ==
  ASSUME OInv, NewRepository, NEW r \in DOMAIN repos
  PROVE  /\ repos'[r] = repos[r]
         /\ entities'[repos[r].cls] = entities[repos[r].cls]
<1> DEFINE next == RepoPlan[Len(repos) + 1]
<1>1. repos \in Seq([cls : Classes, tableID : TableIds]) /\ r \in 1..Len(repos)
  BY DEF OInv, ReposDeclared
<1>2. repos[r] \in [cls : Classes, tableID : TableIds]
  BY <1>1, SeqElement, ZenonT(60)
<1>3. entities \in [Classes -> Metadata \cup {None}]
      /\ entities[repos[r].cls] # None
  BY DEF OInv, IInv, RegTypeOK, ReposDeclared
<1>4. entities' = [entities EXCEPT ![next.cls] = MetadataOf(next.cls)]
      /\ repos' = Append(repos, next)
  BY DEF NewRepository, GetEntityMetadata
<1>. QED
  BY <1>1, <1>2, <1>3, <1>4 DEF MetadataOf

(* new Repository(): the next construction of the program, for a declared *)
(* class, whose constructor looks the class's metadata up.                *)
LEMMA NewRepositoryOInv ==
  ASSUME OInv, NewRepository
  PROVE  OInv'
<1> DEFINE next == RepoPlan[Len(repos) + 1]
<1>1. repos \in Seq([cls : Classes, tableID : TableIds])
  BY DEF OInv, ReposDeclared
<1>2. next \in [cls : Classes, tableID : TableIds]
  <2>1. Len(repos) + 1 \in 1..Len(RepoPlan)
    BY <1>1 DEF NewRepository
  <2>. QED
    BY <2>1, OrmAssumption, SeqElement, ZenonT(60)
<1>3. Lookup(next.cls)
  BY DEF NewRepository, Lookup
<1>4. IInv'
  BY <1>2, <1>3, LookupIInv, SMTT(30) DEF OInv
<1>5. /\ MetadataOf(next.cls) \in Metadata
      /\ entities \in [Classes -> Metadata \cup {None}]
  BY <1>2, MetadataOfFacts DEF OInv, IInv, RegTypeOK
<1>6. /\ entities' = [entities EXCEPT ![next.cls] = MetadataOf(next.cls)]
      /\ repos' = Append(repos, next)
      /\ UNCHANGED <<classState, builders, whereArr, sortArr>>
  BY DEF NewRepository, GetEntityMetadata
<1>7. entities'[next.cls] # None
  BY <1>2, <1>5, <1>6, NoneAssumption
<1>9. \A r \in DOMAIN repos : repos'[r] = repos[r]
  BY NewRepositoryKeepsRepos
<1>10. \A r \in DOMAIN repos :
         entities'[repos'[r].cls] = entities[repos[r].cls]
  BY NewRepositoryKeepsRepos
<1>11. ReposDeclared'
  <2>1. repos' \in Seq([cls : Classes, tableID : TableIds])
    BY <1>1, <1>2, <1>6, SMTT(30)
  <2>2. ASSUME NEW r \in DOMAIN repos'
        PROVE  classState'[repos'[r].cls] = "declared" /\ entities'[repos'[r].cls] # None
    <3>1. CASE r = Len(repos) + 1
      BY <1>1, <1>6, <1>7, <3>1 DEF NewRepository
    <3>2. CASE r \in DOMAIN repos
      BY <1>6, <1>9, <1>10, <3>2, SMTT(30) DEF OInv, ReposDeclared
    <3>. QED
      BY <1>1, <1>6, <3>1, <3>2, SMTT(30)
  <2>. QED
    BY <2>1, <2>2 DEF ReposDeclared
<1>12. BuildersShaped'
  <2>1. DOMAIN repos \subseteq DOMAIN repos'
    BY <1>1, <1>6, SMTT(30)
  <2>. QED
    BY <1>6, <2>1 DEF OInv, BuildersShaped
<1>13. \A w \in DOMAIN builders :
         (Width(builders[w].repo))' = Width(builders[w].repo)
  BY <1>6, <1>10 DEF OInv, BuildersShaped, Width, Meta
<1>14. ArraysInRange'
  BY <1>6, <1>13 DEF OInv, ArraysInRange
<1>. QED
  BY <1>4, <1>11, <1>12, <1>14 DEF OInv


(* Every step of the database layer keeps OInv.                            *)
LEMMA NextOInv == OInv /\ [Next]_vars => OInv'
<1> SUFFICES ASSUME OInv, [Next]_vars PROVE OInv'
  OBVIOUS
<1>1. CASE \E c \in Classes : Declare(c)
  BY <1>1, DeclareOInv
<1>2. CASE NewRepository
  BY <1>2, NewRepositoryOInv
<1>3. CASE \E r \in DOMAIN repos : Query(r)
  BY <1>3, QueryOInv
<1>4. CASE \E r \in DOMAIN repos :
             \/ CreateTable(r)
             \/ \E v \in Entity(repos[r].cls) :
                  Insert(r, v) \/ \E pk \in NatVals : Update(r, pk, v)
  <2>1. UNCHANGED <<regVars, repos, builders, whereArr, sortArr>>
    BY <1>4, ZenonT(60) DEF CreateTable, Insert, Update
  <2>. QED
    BY <2>1, FrameOInv
<1>5. CASE \E b \in DOMAIN builders : Get(b)
  <2>1. UNCHANGED <<regVars, repos, builders, whereArr, sortArr>>
    BY <1>5 DEF Get
  <2>. QED
    BY <2>1, FrameOInv
<1>6. CASE \E b \in DOMAIN builders, f \in Props, x \in WhereStrings : Where(b, f, x)
  BY <1>6, WhereOInv
<1>7. CASE \E b \in DOMAIN builders, f \in Props, d \in BOOLEAN : OrderBy(b, f, d)
  BY <1>7, OrderByOInv
<1>8. CASE \E b \in DOMAIN builders, n \in Counts : Limit(b, n) \/ Offset(b, n)
  BY <1>8, LimitOffsetOInv
<1>9. CASE UNCHANGED vars
  BY <1>9, FrameOInv, SMTT(30) DEF vars, ormVars
<1>. QED
  BY <1>1, <1>2, <1>3, <1>4, <1>5, <1>6, <1>7, <1>8, <1>9 DEF Next

(* OInv bounds the clause ids of the query a builder would send.          *)
LEMMA OInvFieldsInRange == OInv => QueryFieldsInRange
<1> SUFFICES ASSUME OInv, NEW b \in DOMAIN builders
             PROVE  /\ \A k \in DOMAIN WireQuery(b).where_operations :
                          WireQuery(b).where_operations[k].field_id
                            < WireQuery(b).number_of_fields
                    /\ \A k \in DOMAIN WireQuery(b).sorting_operations :
                          WireQuery(b).sorting_operations[k].field_id
                            < WireQuery(b).number_of_fields
  BY DEF QueryFieldsInRange
<1>1. /\ builders[b].sref = builders[b].wref
      /\ \A k \in DOMAIN whereArr[builders[b].wref] :
           whereArr[builders[b].wref][k].field_id < Width(builders[b].repo)
      /\ \A k \in DOMAIN sortArr[builders[b].wref] :
           sortArr[builders[b].wref][k].field_id < Width(builders[b].repo)
  BY ChainArrays, ZenonT(60)
<1>. QED
  BY <1>1, ZenonT(60) DEF WireQuery, Width

-----------------------------------------------------------------------------
(***************************************************************************)
(* Queries only grow.                                                      *)
(***************************************************************************)

(* Sequence t is s, or s with one more element at the end.                *)
Extends(t, s) == t = s \/ \E x : t = Append(s, x)

LEMMA ExtendsPrefix ==
  ASSUME NEW S, NEW s \in Seq(S), NEW t, Extends(t, s)
  PROVE  Len(s) <= Len(t) /\ SubSeq(t, 1, Len(s)) = s
<1>1. CASE t = s
  BY <1>1
<1>2. CASE \E x : t = Append(s, x)
  <2>1. PICK x : t = Append(s, x)
    BY <1>2
  <2>. QED
    BY <2>1
<1>. QED
  BY <1>1, <1>2 DEF Extends

(* What a step does to one existing builder: it keeps the builder, its    *)
(* repository and that repository's metadata, and pushes at most one      *)
(* clause onto each array of its chain.                                   *)
LEMMA BuilderStep ==
  ASSUME OInv, [Next]_vars, NEW b \in DOMAIN builders
  PROVE  /\ builders'[b] = builders[b]
         /\ repos'[builders[b].repo] = repos[builders[b].repo]
         /\ entities'[repos[builders[b].repo].cls] = entities[repos[builders[b].repo].cls]
         /\ Extends(whereArr'[builders[b].wref], whereArr[builders[b].wref])
         /\ Extends(sortArr'[builders[b].wref], sortArr[builders[b].wref])
<1> DEFINE w == builders[b].wref
<1> DEFINE rb == builders[b].repo
<1>1. /\ builders \in Seq(Builder) /\ b \in 1..Len(builders)
      /\ rb \in DOMAIN repos /\ w \in BuilderIds
      /\ whereArr \in [BuilderIds -> Seq(WhereClause)]
      /\ sortArr \in [BuilderIds -> Seq(SortingOperation)]
  <2>1. builders \in Seq(Builder) /\ b \in 1..Len(builders) /\ rb \in DOMAIN repos
    BY DEF OInv, BuildersShaped
  <2>2. w \in BuilderIds
    BY ChainArrays, ZenonT(60)
  <2>3. whereArr \in [BuilderIds -> Seq(WhereClause)]
        /\ sortArr \in [BuilderIds -> Seq(SortingOperation)]
    BY DEF OInv, ArraysInRange
  <2>. QED
    BY <2>1, <2>2, <2>3
<1>2. ASSUME NEW X, builders' = Append(builders, X)
      PROVE  builders'[b] = builders[b]
  BY <1>1, <1>2, SMTT(30)
<1>3. CASE \E c \in Classes : Declare(c)
  <2>1. PICK c \in Classes : Declare(c)
    BY <1>3, SMTT(30)
  <2>2. entities'[repos[rb].cls] = entities[repos[rb].cls]
    BY <1>1, <2>1, DeclareKeepsRepos, SMTT(30)
  <2>. QED
    BY <2>1, <2>2 DEF Declare, ormVars, Extends
<1>4. CASE NewRepository
  <2>1. repos'[rb] = repos[rb] /\ entities'[repos[rb].cls] = entities[repos[rb].cls]
    BY <1>1, <1>4, NewRepositoryKeepsRepos, SMTT(30)
  <2>. QED
    BY <1>4, <2>1, SMTT(30) DEF NewRepository, Extends
<1>5. CASE \E r \in DOMAIN repos : Query(r)
  BY <1>2, <1>5 DEF Query, regVars, Extends
<1>6. CASE \E r \in DOMAIN repos :
             \/ CreateTable(r)
             \/ \E v \in Entity(repos[r].cls) :
                  Insert(r, v) \/ \E pk \in NatVals : Update(r, pk, v)
  <2>1. UNCHANGED <<regVars, repos, builders, whereArr, sortArr>>
    BY <1>6, ZenonT(60) DEF CreateTable, Insert, Update
  <2>. QED
    BY <2>1 DEF regVars, Extends
<1>7. CASE \E b0 \in DOMAIN builders : Get(b0)
  <2>1. UNCHANGED <<regVars, repos, builders, whereArr, sortArr>>
    BY <1>7, ZenonT(60) DEF Get
  <2>. QED
    BY <2>1 DEF regVars, Extends
<1>8. CASE \E b0 \in DOMAIN builders, f \in Props, x \in WhereStrings : Where(b0, f, x)
  <2>1. PICK b0 \in DOMAIN builders, f \in Props, x \in WhereStrings : Where(b0, f, x)
    BY <1>8
  <2> DEFINE w0 == builders[b0].wref
  <2> DEFINE id == Meta(builders[b0].repo).columnToIDMapping[f]
  <2> DEFINE op == [field_id |-> id, value |-> x]
  <2>2. /\ builders' = Append(builders, builders[b0])
        /\ UNCHANGED <<regVars, repos, sortArr>>
    BY <2>1, SMTT(30) DEF Where
  <2>3. w0 \in BuilderIds
    BY ChainArrays, SMTT(30)
  <2>4. Extends(whereArr'[w], whereArr[w])
    <3>1. CASE id = None
      BY <2>1, <3>1 DEF Where, Extends
    <3>2. CASE id # None
      <4>1. whereArr' = [whereArr EXCEPT ![w0] = Append(@, op)]
        BY <2>1, <3>2, SMTT(30) DEF Where
      <4>2. whereArr'[w] = whereArr[w] \/ whereArr'[w] = Append(whereArr[w], op)
        BY <1>1, <2>3, <4>1
      <4>. QED
        BY <4>2, ZenonT(60) DEF Extends
    <3>. QED
      BY <3>1, <3>2
  <2>. QED
    BY <1>2, <2>2, <2>4, ZenonT(60) DEF regVars, Extends
<1>9. CASE \E b0 \in DOMAIN builders, f \in Props, d \in BOOLEAN : OrderBy(b0, f, d)
  <2>1. PICK b0 \in DOMAIN builders, f \in Props, d \in BOOLEAN : OrderBy(b0, f, d)
    BY <1>9
  <2> DEFINE w0 == builders[b0].sref
  <2> DEFINE id == Meta(builders[b0].repo).columnToIDMapping[f]
  <2> DEFINE op == [field_id |-> id, descending |-> d]
  <2>2. /\ builders' = Append(builders, builders[b0])
        /\ UNCHANGED <<regVars, repos, whereArr>>
    BY <2>1, SMTT(30) DEF OrderBy
  <2>3. w0 \in BuilderIds
    BY ChainArrays, SMTT(30)
  <2>4. Extends(sortArr'[w], sortArr[w])
    <3>1. CASE id = None
      BY <2>1, <3>1 DEF OrderBy, Extends
    <3>2. CASE id # None
      <4>1. sortArr' = [sortArr EXCEPT ![w0] = Append(@, op)]
        BY <2>1, <3>2, SMTT(30) DEF OrderBy
      <4>2. sortArr'[w] = sortArr[w] \/ sortArr'[w] = Append(sortArr[w], op)
        BY <1>1, <2>3, <4>1, SMTT(30)
      <4>. QED
        BY <4>2, ZenonT(60) DEF Extends
    <3>. QED
      BY <3>1, <3>2
  <2>. QED
    BY <1>2, <2>2, <2>4, ZenonT(60) DEF regVars, Extends
<1>10. CASE \E b0 \in DOMAIN builders, n \in Counts : Limit(b0, n) \/ Offset(b0, n)
  BY <1>2, <1>10, SMTT(30) DEF Limit, Offset, regVars, Extends
<1>11. CASE UNCHANGED vars
  BY <1>11, SMTT(30) DEF vars, regVars, ormVars, Extends
<1>. QED
  BY <1>3, <1>4, <1>5, <1>6, <1>7, <1>8, <1>9, <1>10, <1>11, ZenonT(60) DEF Next

(* Every step keeps QueryGrows for every builder that exists before it.   *)
LEMMA QueryGrowsStep ==
  ASSUME OInv, [Next]_vars, NEW b \in DOMAIN builders
  PROVE  QueryGrows(b)
<1> DEFINE w == builders[b].wref
<1> DEFINE rb == builders[b].repo
<1>1. /\ builders'[b] = builders[b]
      /\ repos'[rb] = repos[rb]
      /\ entities'[repos[rb].cls] = entities[repos[rb].cls]
      /\ Extends(whereArr'[w], whereArr[w])
      /\ Extends(sortArr'[w], sortArr[w])
  BY BuilderStep, SMTT(30)
<1>2. /\ builders[b].sref = w
      /\ whereArr[w] \in Seq(WhereClause)
      /\ sortArr[w] \in Seq(SortingOperation)
  BY ChainArrays
<1>3. /\ Len(whereArr[w]) <= Len(whereArr'[w])
      /\ SubSeq(whereArr'[w], 1, Len(whereArr[w])) = whereArr[w]
  BY <1>1, <1>2, ExtendsPrefix, ZenonT(60)
<1>4. /\ Len(sortArr[w]) <= Len(sortArr'[w])
      /\ SubSeq(sortArr'[w], 1, Len(sortArr[w])) = sortArr[w]
  BY <1>1, <1>2, ExtendsPrefix, ZenonT(60)
<1>5. /\ (WireQuery(b))'.table_id = WireQuery(b).table_id
      /\ (WireQuery(b))'.number_of_fields = WireQuery(b).number_of_fields
      /\ (WireQuery(b))'.limit = WireQuery(b).limit
      /\ (WireQuery(b))'.offset = WireQuery(b).offset
  BY <1>1, <1>2, ZenonT(60) DEF WireQuery, Meta
<1>6. /\ WireQuery(b).where_operations = whereArr[w]
      /\ (WireQuery(b))'.where_operations = whereArr'[w]
      /\ WireQuery(b).sorting_operations = sortArr[w]
      /\ (WireQuery(b))'.sorting_operations = sortArr'[w]
  BY <1>1, <1>2, ZenonT(60) DEF WireQuery
<1>7. /\ Len(WireQuery(b).where_operations) <= Len((WireQuery(b))'.where_operations)
      /\ SubSeq((WireQuery(b))'.where_operations, 1, Len(WireQuery(b).where_operations))
           = WireQuery(b).where_operations
      /\ Len(WireQuery(b).sorting_operations) <= Len((WireQuery(b))'.sorting_operations)
      /\ SubSeq((WireQuery(b))'.sorting_operations, 1, Len(WireQuery(b).sorting_operations))
           = WireQuery(b).sorting_operations
  BY <1>3, <1>4, <1>6
<1>. QED
  BY <1>5, <1>7, SMTT(30) DEF QueryGrows

-----------------------------------------------------------------------------
(* Every clause of the query a builder's get() would send names a column   *)
(* of the table (field_id < number_of_fields), however the program chains *)
(* where(), orderBy(), limit() and offset() and however its classes are    *)
(* declared: the clone() of every chained call shares its arrays with     *)
(* the builder of the same repository that query() made, and where() and  *)
(* orderBy() push only ids read from the metadata's columnToIDMapping     *)
(* (dblib.ts:46-73).                                                       *)
THEOREM QueryFieldsInRangeTheorem == Spec => []QueryFieldsInRange
<1>1. Init => OInv
  BY InitOInv
<1>2. OInv /\ [Next]_vars => OInv'
  BY NextOInv
<1>3. OInv => QueryFieldsInRange
  BY OInvFieldsInRange
<1>. QED
  BY <1>1, <1>2, <1>3, PTL DEF Spec


(* A step never takes anything back from the query an existing builder's  *)
(* get() would send, however the program chains its calls and declares   *)
(* its classes: the table, number_of_fields, limit and offset stay and    *)
(* the clauses only gain entries at the end.  limit() and offset() clone  *)
(* (dblib.ts:78-88), where() and orderBy() only push onto the shared      *)
(* arrays (dblib.ts:46-76), and the metadata of a repository's class was  *)
(* complete when the repository was built.                                *)
THEOREM QueryOnlyGrowsTheorem == Spec => QueryOnlyGrows
<1>0. ASSUME OInv, [Next]_vars
      PROVE  \A b \in DOMAIN builders : QueryGrows(b)
  BY <1>0, QueryGrowsStep
<1>1. OInv /\ [Next]_vars =>
        [UNCHANGED queryVars \/ \A b \in DOMAIN builders : QueryGrows(b)]_vars
  BY <1>0
<1>2. []OInv /\ [][Next]_vars =>
        [][UNCHANGED queryVars \/ \A b \in DOMAIN builders : QueryGrows(b)]_vars
  BY <1>1, PTL
<1>3. Spec => []OInv
  BY InitOInv, NextOInv, PTL DEF Spec
<1>. QED
  BY <1>2, <1>3 DEF Spec, QueryOnlyGrows

=============================================================================
