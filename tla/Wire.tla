-------------------------------- MODULE Wire --------------------------------
(***************************************************************************)
(* Rows on the wire: the positional encoding of an entity by Repository    *)
(* (dblib.ts), its decoding by Deserialize (serializer.ts), and what the   *)
(* storage host does with the messages of src/application-lib/src/index.ts.*)
(*                                                                         *)
(* A column list is a sequence of [propertyName, type] records (the        *)
(* ColumnMetadata / TypeMetaProperty of typeReflector.ts); an entity is a  *)
(* record from property names to values; a row a sequence of wire strings.*)
(*                                                                         *)
(* The storage host is not part of this repository: its operators are      *)
(* modelled from the specification (section 6).  Every column is TEXT,    *)
(* where is string equality, sorting is on the TEXT order, limit 0 is no  *)
(* limit, and update rewrites the rows whose column 0 is the key.          *)
(***************************************************************************)
EXTENDS Codec

CONSTANT Undefined   \* the JavaScript value undefined

ASSUME UndefinedAssumption == Undefined \notin Nat \cup BOOLEAN \cup Seq(Chars) \cup {NaN}

(* The encoded columns from+1 .. Len(cols) of v: the loops of insert       *)
(* (from = 0) and of update (from = 1) (dblib.ts:147-150, 163-166).        *)
EncodeColumns(cols, v, from) ==
  [i \in 1..(Len(cols) - from) |->
     Encode(v[cols[i + from].propertyName], cols[i + from].type)]

(* Mutant: the payload is read one position further on.                    *)
DecodeAtShifted(row, i, datatype) ==
  IF i + 1 <= Len(row) THEN Decode(row[i + 1], datatype)
  ELSE CASE datatype = "Bool" -> FALSE
         [] datatype = "String" -> Undefined
         [] datatype = "Uint64" -> NaN

(* decode(payload[i], datatype) (serializer.ts:57, 73-81): past the end of *)
(* the row payload[i] is undefined, which decodes to false, undefined and  *)
(* Number(undefined) = NaN.                                                *)
DecodeAt(row, i, datatype) ==
  IF i <= Len(row) THEN Decode(row[i], datatype)
  ELSE CASE datatype = "Bool" -> FALSE
         [] datatype = "String" -> Undefined
         [] datatype = "Uint64" -> NaN

(* Deserialize(payload, type) (serializer.ts:31-60): each property of the  *)
(* metaclass, in its order, is decoded from the string at its position; a *)
(* later property of the same name overwrites an earlier one.              *)
Deserialize(row, props) ==
  [p \in {props[i].propertyName : i \in DOMAIN props} |->
     LET i == CHOOSE i \in DOMAIN props :
                /\ props[i].propertyName = p
                /\ \A j \in DOMAIN props : j > i => props[j].propertyName # p
     IN  DecodeAt(row, i, props[i].type)]

-----------------------------------------------------------------------------
(***************************************************************************)
(* The storage host's query: the rows meeting every where clause, in an    *)
(* order that respects the sort clauses (ties in any order), then offset   *)
(* and limit (0 is no limit).                                              *)
(***************************************************************************)
Matches(row, wheres) ==
  \A k \in DOMAIN wheres : row[wheres[k].field_id + 1] = wheres[k].value

(* Row r1 sorts strictly before row r2 under the sort clauses.             *)
SortsBefore(r1, r2, sorts) ==
  \E k \in DOMAIN sorts :
    LET f == sorts[k].field_id + 1 IN
    /\ \A j \in 1..(k - 1) : r1[sorts[j].field_id + 1] = r2[sorts[j].field_id + 1]
    /\ IF sorts[k].descending THEN TextLess(r2[f], r1[f])
                              ELSE TextLess(r1[f], r2[f])

Orderings(n) == {s \in [1..n -> 1..n] : \A i, j \in 1..n : i # j => s[i] # s[j]}

(* The sequences of row indices the host may answer a query with.          *)
QueryAnswers(rows, q) ==
  LET hits == SelectSeq([i \in 1..Len(rows) |-> i],
                        LAMBDA i : Matches(rows[i], q.where_operations))
      n    == Len(hits)
      last == IF q.limit = 0 THEN n ELSE q.offset + q.limit
  IN  { SubSeq([i \in 1..n |-> hits[s[i]]], q.offset + 1, IF last < n THEN last ELSE n) :
          s \in {s \in Orderings(n) :
                   \A i, j \in 1..n : i < j =>
                     ~SortsBefore(rows[hits[s[j]]], rows[hits[s[i]]],
                                  q.sorting_operations)} }

(* The host's update_entry: every row whose column 0 is the key becomes    *)
(* the key followed by the new data.                                       *)
UpdateRows(rows, key, data) ==
  [i \in DOMAIN rows |-> IF rows[i][1] = key THEN << key >> \o data ELSE rows[i]]

=============================================================================
