---------------------------- MODULE MCRegistry ----------------------------
(***************************************************************************)
(* Registry on a small program: three entity classes in the shape of the   *)
(* test entities and the forum's entities, one of them without columns.    *)
(***************************************************************************)
EXTENDS Registry

MCClasses == {"Post", "Reply", "Category", "Marker"}

MCProps == {"id", "title", "islast", "count"}

(* Post and Reply as in dblib.test.ts and apps/forum/src/types.ts, cut to  *)
(* three and two columns, the forum's Category; Marker has no @Column property.                  *)
MCDecls ==
  [c \in MCClasses |->
     CASE c = "Post"  -> << [propertyName |-> "id", type |-> "Uint64"],
                            [propertyName |-> "title", type |-> "String"],
                            [propertyName |-> "islast", type |-> "Bool"] >>
       [] c = "Reply" -> << [propertyName |-> "id", type |-> "Uint64"],
                            [propertyName |-> "title", type |-> "String"] >>
       [] c = "Category" -> << [propertyName |-> "id", type |-> "Uint64"],
                               [propertyName |-> "count", type |-> "Uint64"] >>
       [] OTHER       -> << >>]

(* A property decorated twice (@Column(DataType.Uint64) written twice on   *)
(* id): the decorator registers it twice.                                  *)
MCDeclsDup ==
  [c \in MCClasses |->
     CASE c = "Post"  -> << [propertyName |-> "id", type |-> "Uint64"],
                            [propertyName |-> "id", type |-> "Uint64"],
                            [propertyName |-> "title", type |-> "String"] >>
       [] c = "Reply" -> << [propertyName |-> "id", type |-> "Uint64"] >>
       [] OTHER       -> << >>]

=============================================================================
