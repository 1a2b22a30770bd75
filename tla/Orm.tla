-------------------------------- MODULE Orm --------------------------------
(***************************************************************************)
(* The database layer of the application library: Repository and          *)
(* TypedQuery (src/application-lib/src/dblib.ts), the wire messages of     *)
(* src/application-lib/src/index.ts, and the storage host they are sent    *)
(* to, on top of the Registry and the Codec.                               *)
(*                                                                         *)
(* Objects are allocated in order: repository r is the r-th Repository    *)
(* constructed, builder b the b-th TypedQuery.  A TypedQuery holds          *)
(* references to its where and sort arrays: query() allocates them (they  *)
(* are named after the builder it returns) and clone() copies the          *)
(* references, so every builder of one chain pushes onto the same arrays  *)
(* (dblib.ts:109-120).                                                     *)
(*                                                                         *)
(* The storage host (its operators are in Wire) keeps one table per       *)
(* table_id with a width and its rows of strings; a call that the host     *)
(* cannot carry out (unknown table, wrong width, table already there)     *)
(* fails and changes nothing.                                              *)
(*                                                                         *)
(* Two history variables serve the properties: ghost holds, beside every   *)
(* stored row, the entity the application wrote there, and expected holds *)
(* the clauses each builder would have if builders were values.            *)
(***************************************************************************)
EXTENDS Registry, Wire

CONSTANTS
  TableIds,     \* the table ids the application passes to Repository
  NatVals,      \* the numbers the application stores and queries
  TextVals,     \* the strings the application stores and queries
  Counts,       \* the arguments of limit() and offset()
  RepoPlan,     \* the Repository constructions of the program, in order
  MaxBuilders,  \* bound on TypedQuery allocations
  MaxRows,      \* bound on the rows of one table
  MaxClauses    \* bound on the clauses of one where or sort array

ASSUME OrmAssumption ==
  /\ TableIds \subseteq Nat
  /\ NatVals \subseteq Nat
  /\ TextVals \subseteq Seq(Chars)
  /\ Counts \subseteq Nat
  /\ RepoPlan \in Seq([cls : Classes, tableID : TableIds])
  /\ {MaxBuilders, MaxRows, MaxClauses} \subseteq Nat

VARIABLES
  repos,      \* the Repository objects: class and the tableID passed in
  builders,   \* the TypedQuery objects
  whereArr,   \* the where_operations arrays, by allocating builder
  sortArr,    \* the sorting_operations arrays, by allocating builder
  tables,     \* the storage host: table_id -> table or None
  ghost,      \* the entity written into each stored row
  expected,   \* the clauses of each builder under value semantics
  lastMsg,    \* the last message sent to the host
  lastResult  \* what the last get() returned, beside what was written

ormVars == <<repos, builders, whereArr, sortArr, tables, ghost, expected,
             lastMsg, lastResult>>
vars == <<regVars, ormVars>>

BuilderIds == 1..MaxBuilders

WhereOperation == [field_id : Nat, value : Seq(Chars)]
SortingOperation == [field_id : Nat, descending : BOOLEAN]

(* The entities of class c the application writes: a value of the        *)
(* column's type for every decorated property.                             *)
ColumnProps(c) == {Decls[c][i].propertyName : i \in DOMAIN Decls[c]}

Entity(c) ==
  LET d == Decls[c]
      tuples[k \in 0..Len(d)] ==
        IF k = 0 THEN {<< >>}
        ELSE {Append(s, x) : s \in tuples[k - 1],
                             x \in ValuesOf(d[k].type, NatVals, TextVals)}
  IN  {[p \in ColumnProps(c) |->
          s[CHOOSE i \in DOMAIN d : d[i].propertyName = p /\
                     \A j \in DOMAIN d : j > i => d[j].propertyName # p]] :
         s \in tuples[Len(d)]}

(* The host can run the query: the table exists and every field id is a   *)
(* column of it.                                                           *)
QueryRunnable(q) ==
  /\ tables[q.table_id] # None
  /\ \A k \in DOMAIN q.where_operations :
       q.where_operations[k].field_id < tables[q.table_id].width
  /\ \A k \in DOMAIN q.sorting_operations :
       q.sorting_operations[k].field_id < tables[q.table_id].width

-----------------------------------------------------------------------------
OrmInit ==
  /\ repos = << >>
  /\ builders = << >>
  /\ whereArr = [b \in BuilderIds |-> << >>]
  /\ sortArr = [b \in BuilderIds |-> << >>]
  /\ tables = [t \in TableIds |-> None]
  /\ ghost = [t \in TableIds |-> << >>]
  /\ expected = [b \in BuilderIds |-> [where |-> << >>, sort |-> << >>]]
  /\ lastMsg = None
  /\ lastResult = None

Init == RegInit /\ OrmInit

(* The decorators run as in the Registry; no repository call can run while *)
(* a class body is being evaluated.                                        *)
Declare(c) ==
  /\ BeginClass(c) \/ Decorate(c)
  /\ UNCHANGED ormVars

(* new Repository(entityClass, tableID) (dblib.ts:136-140), the next one   *)
(* of the program's constructions, once its class is declared.             *)
NewRepository ==
  LET next == RepoPlan[Len(repos) + 1] IN
  /\ Idle
  /\ Len(repos) < Len(RepoPlan)
  /\ classState[next.cls] = "declared"
  /\ GetEntityMetadata(next.cls)
  /\ repos' = Append(repos, next)
  /\ UNCHANGED <<reflector, classState, pos, builders, whereArr, sortArr,
                 tables, ghost, expected, lastMsg, lastResult>>

(* The metadata a repository or a builder of repository r reads.          *)
Meta(r) == entities[repos[r].cls]

(* Repository.query(): a fresh builder with fresh, empty arrays            *)
(* (dblib.ts:142-144, 36-43).                                              *)
Query(r) ==
  LET nb == Len(builders) + 1 IN
  /\ Idle
  /\ r \in DOMAIN repos
  /\ nb <= MaxBuilders
  /\ builders' = Append(builders, [repo |-> r, wref |-> nb, sref |-> nb,
                                   limit |-> 0, offset |-> 0])
  /\ UNCHANGED <<regVars, repos, whereArr, sortArr, tables, ghost, expected,
                 lastMsg, lastResult>>

(* The builder clone() returns, as the b-th chained call allocates it.     *)
Clone(b) ==
  /\ Idle
  /\ b \in DOMAIN builders
  /\ Len(builders) < MaxBuilders

(* Mutant: the clause is pushed whether or not the field is a column.      *)
WhereUnguarded(b, field, value) ==
  LET qb == builders[b]
      id == Meta(qb.repo).columnToIDMapping[field]
      op == [field_id |-> id, value |-> value]
      nb == Len(builders) + 1
  IN
  /\ Clone(b)
  /\ builders' = Append(builders, qb)
  /\ Len(whereArr[qb.wref]) < MaxClauses
  /\ whereArr' = [whereArr EXCEPT ![qb.wref] = Append(@, op)]
  /\ expected' = [expected EXCEPT ![nb] =
                    [expected[b] EXCEPT !.where = Append(@, op)]]
  /\ UNCHANGED <<regVars, repos, sortArr, tables, ghost, lastMsg, lastResult>>

(* Mutant: the clause names the column by its 1-based position.            *)
WhereOneBased(b, field, value) ==
  LET qb == builders[b]
      id == Meta(qb.repo).columnToIDMapping[field]
      op == [field_id |-> id + 1, value |-> value]
      nb == Len(builders) + 1
  IN
  /\ Clone(b)
  /\ builders' = Append(builders, qb)
  /\ IF id # None
     THEN /\ Len(whereArr[qb.wref]) < MaxClauses
          /\ whereArr' = [whereArr EXCEPT ![qb.wref] = Append(@, op)]
          /\ expected' = [expected EXCEPT ![nb] =
                            [expected[b] EXCEPT !.where = Append(@, op)]]
     ELSE /\ UNCHANGED whereArr
          /\ expected' = [expected EXCEPT ![nb] = expected[b]]
  /\ UNCHANGED <<regVars, repos, sortArr, tables, ghost, lastMsg, lastResult>>

(* where(field, "==", value) (dblib.ts:46-59): clone, look the field up,   *)
(* push the clause onto the shared array if the field is a column.  The   *)
(* argument is value.toString(): the numeral of a number, a string itself. *)
WhereStrings == {ToDecimal[n] : n \in NatVals} \cup TextVals

Where(b, field, value) ==
  LET qb == builders[b]
      id == Meta(qb.repo).columnToIDMapping[field]
      op == [field_id |-> id, value |-> value]
      nb == Len(builders) + 1
  IN
  /\ Clone(b)
  /\ builders' = Append(builders, qb)
  /\ IF id # None
     THEN /\ Len(whereArr[qb.wref]) < MaxClauses
          /\ whereArr' = [whereArr EXCEPT ![qb.wref] = Append(@, op)]
          /\ expected' = [expected EXCEPT ![nb] =
                            [expected[b] EXCEPT !.where = Append(@, op)]]
     ELSE /\ UNCHANGED whereArr
          /\ expected' = [expected EXCEPT ![nb] = expected[b]]
  /\ UNCHANGED <<regVars, repos, sortArr, tables, ghost, lastMsg, lastResult>>

(* orderBy(field, direction) (dblib.ts:61-76).                             *)
OrderBy(b, field, descending) ==
  LET qb == builders[b]
      id == Meta(qb.repo).columnToIDMapping[field]
      op == [field_id |-> id, descending |-> descending]
      nb == Len(builders) + 1
  IN
  /\ Clone(b)
  /\ builders' = Append(builders, qb)
  /\ IF id # None
     THEN /\ Len(sortArr[qb.sref]) < MaxClauses
          /\ sortArr' = [sortArr EXCEPT ![qb.sref] = Append(@, op)]
          /\ expected' = [expected EXCEPT ![nb] =
                            [expected[b] EXCEPT !.sort = Append(@, op)]]
     ELSE /\ UNCHANGED sortArr
          /\ expected' = [expected EXCEPT ![nb] = expected[b]]
  /\ UNCHANGED <<regVars, repos, whereArr, tables, ghost, lastMsg, lastResult>>

(* Mutant: limit() sets the count on the builder it is called on and      *)
(* returns it, instead of setting it on a clone.                          *)
LimitInPlace(b, n) ==
  /\ Clone(b)
  /\ builders' = [builders EXCEPT ![b].limit = n]
  /\ UNCHANGED <<regVars, repos, whereArr, sortArr, tables, ghost, expected,
                 lastMsg, lastResult>>

(* limit(count) and offset(count) (dblib.ts:78-88).                        *)
Limit(b, n) ==
  /\ Clone(b)
  /\ builders' = Append(builders, [builders[b] EXCEPT !.limit = n])
  /\ expected' = [expected EXCEPT ![Len(builders) + 1] = expected[b]]
  /\ UNCHANGED <<regVars, repos, whereArr, sortArr, tables, ghost, lastMsg,
                 lastResult>>

Offset(b, n) ==
  /\ Clone(b)
  /\ builders' = Append(builders, [builders[b] EXCEPT !.offset = n])
  /\ expected' = [expected EXCEPT ![Len(builders) + 1] = expected[b]]
  /\ UNCHANGED <<regVars, repos, whereArr, sortArr, tables, ghost, lastMsg,
                 lastResult>>

(* The DatabaseQuery get() sends for builder b (dblib.ts:91-98).           *)
WireQuery(b) ==
  LET qb == builders[b] IN
  [table_id |-> Meta(qb.repo).tableID,
   number_of_fields |-> Meta(qb.repo).amountOfColumns,
   sorting_operations |-> sortArr[qb.sref],
   where_operations |-> whereArr[qb.wref],
   limit |-> qb.limit,
   offset |-> qb.offset]

(* get() (dblib.ts:90-107): send the query, then Deserialize every row     *)
(* returned; Deserialize throws on a class without a TypeMetaClass.        *)
Get(b) ==
  LET q     == WireQuery(b)
      t     == q.table_id
      props == reflector[repos[builders[b].repo].cls]
  IN
  /\ Idle
  /\ b \in DOMAIN builders
  /\ lastMsg' = [op |-> "query", repo |-> builders[b].repo, table |-> t]
  /\ IF QueryRunnable(q)
     THEN \E ans \in QueryAnswers(tables[t].rows, q) :
            lastResult' =
              IF ans # << >> /\ props = None THEN None
              ELSE [got  |-> [k \in DOMAIN ans |->
                                Deserialize(tables[t].rows[ans[k]], props)],
                    want |-> [k \in DOMAIN ans |-> ghost[t][ans[k]]]]
     ELSE lastResult' = None
  /\ UNCHANGED <<regVars, repos, builders, whereArr, sortArr, tables, ghost,
                 expected>>

(* insert(value) (dblib.ts:146-158): encode every column in order and     *)
(* send the row; the host appends it to a table of that width.            *)
Insert(r, v) ==
  LET data == EncodeColumns(Meta(r).columns, v, 0)
      t    == Meta(r).tableID
  IN
  /\ Idle
  /\ lastMsg' = [op |-> "insert", repo |-> r, table |-> t]
  /\ IF tables[t] # None /\ tables[t].width = Len(data)
     THEN /\ Len(tables[t].rows) < MaxRows
          /\ tables' = [tables EXCEPT ![t].rows = Append(@, data)]
          /\ ghost' = [ghost EXCEPT ![t] = Append(@, v)]
     ELSE UNCHANGED <<tables, ghost>>
  /\ UNCHANGED <<regVars, repos, builders, whereArr, sortArr, expected,
                 lastResult>>

(* update(select_on_primary_key_value, value) (dblib.ts:159-174): encode  *)
(* every column but the first; the host rewrites the rows whose first     *)
(* column is the key, keeping that column.                                 *)
Update(r, pk, v) ==
  LET cols == Meta(r).columns
      data == EncodeColumns(cols, v, 1)
      key  == ToDecimal[pk]
      t    == Meta(r).tableID
      rows == tables[t].rows
  IN
  /\ Idle
  /\ lastMsg' = [op |-> "update", repo |-> r, table |-> t]
  /\ IF tables[t] # None /\ tables[t].width = Len(data) + 1
     THEN /\ tables' = [tables EXCEPT ![t].rows = UpdateRows(rows, key, data)]
          /\ ghost' = [ghost EXCEPT ![t] =
                         [i \in DOMAIN rows |->
                            IF rows[i][1] = key
                            THEN [v EXCEPT ![cols[1].propertyName] =
                                            ghost[t][i][cols[1].propertyName]]
                            ELSE ghost[t][i]]]
     ELSE UNCHANGED <<tables, ghost>>
  /\ UNCHANGED <<regVars, repos, builders, whereArr, sortArr, expected,
                 lastResult>>

(* createTable() (dblib.ts:175-189): every column as Text, under the      *)
(* tableID the repository was constructed with.                            *)
CreateTable(r) ==
  LET t == repos[r].tableID IN
  /\ Idle
  /\ lastMsg' = [op |-> "createTable", repo |-> r, table |-> t]
  /\ IF tables[t] = None
     THEN tables' = [tables EXCEPT ![t] =
                       [width |-> Len(Meta(r).columns), rows |-> << >>]]
     ELSE UNCHANGED tables
  /\ UNCHANGED <<regVars, repos, builders, whereArr, sortArr, ghost, expected,
                 lastResult>>

Next ==
  \/ \E c \in Classes : Declare(c)
  \/ NewRepository
  \/ \E r \in DOMAIN repos :
       \/ Query(r)
       \/ CreateTable(r)
       \/ \E v \in Entity(repos[r].cls) :
            \/ Insert(r, v)
            \/ \E pk \in NatVals : Update(r, pk, v)
  \/ \E b \in DOMAIN builders :
       \/ Get(b)
       \/ \E f \in Props :
            \/ \E x \in WhereStrings : Where(b, f, x)
            \/ \E d \in BOOLEAN : OrderBy(b, f, d)
       \/ \E n \in Counts : Limit(b, n) \/ Offset(b, n)

Spec == Init /\ [][Next]_vars

-----------------------------------------------------------------------------
(***************************************************************************)
(* Properties.                                                             *)
(***************************************************************************)

Table == [width : Nat, rows : Seq(Seq(Seq(Chars)))]
Builder == [repo : Nat, wref : BuilderIds, sref : BuilderIds,
            limit : Counts \cup {0}, offset : Counts \cup {0}]
Msg == [op : {"createTable", "insert", "update", "query"}, repo : Nat,
        table : Nat]

(* Every variable of the database layer has the type the code gives it.    *)
TypeOK ==
  /\ RegTypeOK
  /\ repos \in Seq([cls : Classes, tableID : TableIds])
  /\ builders \in Seq(Builder)
  /\ whereArr \in [BuilderIds -> Seq(WhereOperation)]
  /\ sortArr \in [BuilderIds -> Seq(SortingOperation)]
  /\ tables \in [TableIds -> Table \cup {None}]
  /\ lastMsg \in Msg \cup {None}

(* Round trip through the storage host: every entity get() returns is, on  *)
(* every column, the entity the application last wrote into that row by    *)
(* insert or update.  It needs insert, update and Deserialize to agree on  *)
(* the column order of the two registries, and decode to invert encode.    *)
RoundTrip ==
  lastResult # None => lastResult.got = lastResult.want

(* Builder immutability (specification section 8): a chained call leaves  *)
(* the builder it is called on unchanged, so get() on a builder sends the  *)
(* clauses of the calls that produced it and no others.                    *)
BuilderImmutable ==
  \A b \in DOMAIN builders :
    /\ whereArr[builders[b].wref] = expected[b].where
    /\ sortArr[builders[b].sref] = expected[b].sort

(* Every clause of the query get() sends (dblib.ts:91-98) names a column  *)
(* below the number_of_fields it sends: where() and orderBy() push only   *)
(* ids columnToIDMapping holds, the arrays a chain shares all belong to   *)
(* builders of one repository, and the metadata of a declared class never *)
(* changes afterwards.                                                     *)
QueryFieldsInRange ==
  \A b \in DOMAIN builders :
    LET q == WireQuery(b) IN
    /\ \A k \in DOMAIN q.where_operations :
         q.where_operations[k].field_id < q.number_of_fields
    /\ \A k \in DOMAIN q.sorting_operations :
         q.sorting_operations[k].field_id < q.number_of_fields

(* The state the query a builder would send is read from.               *)
queryVars == <<entities, repos, builders, whereArr, sortArr>>

(* What a step keeps of the query builder b's get() would send.         *)
QueryGrows(b) ==
  LET q == WireQuery(b)
      r == WireQuery(b)'
  IN
  /\ r.table_id = q.table_id
  /\ r.number_of_fields = q.number_of_fields
  /\ r.limit = q.limit
  /\ r.offset = q.offset
  /\ Len(q.where_operations) <= Len(r.where_operations)
  /\ SubSeq(r.where_operations, 1, Len(q.where_operations)) = q.where_operations
  /\ Len(q.sorting_operations) <= Len(r.sorting_operations)
  /\ SubSeq(r.sorting_operations, 1, Len(q.sorting_operations)) = q.sorting_operations

(* A step either leaves alone the state a query is read from (get,       *)
(* insert, update, createTable), or takes nothing back from the query an *)
(* existing builder's get() sends: its table, number_of_fields, limit and *)
(* offset stay, and its where and sorting clauses only gain entries at    *)
(* the end.  Chained calls clone (dblib.ts:46-88) and the shared arrays  *)
(* are only pushed to, and the registry never changes a declared class's *)
(* metadata.                                                              *)
QueryOnlyGrows ==
  [][UNCHANGED queryVars \/ \A b \in DOMAIN builders : QueryGrows(b)]_vars

(* Every message a repository sends after createTable goes to the table    *)
(* that createTable created: the table id the repository was built with.  *)
TableRouting ==
  lastMsg # None => lastMsg.table = repos[lastMsg.repo].tableID

=============================================================================
