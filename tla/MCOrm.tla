------------------------------- MODULE MCOrm -------------------------------
(***************************************************************************)
(* The database layer on two entity classes in the shape of dblib.test.ts *)
(* and the forum: Post (id, title, islast) and Reply (id, title).          *)
(***************************************************************************)
EXTENDS Orm

MCClasses == {"Post", "Reply"}

MCProps == {"id", "title", "islast"}

MCDecls ==
  [c \in MCClasses |->
     IF c = "Post"
     THEN << [propertyName |-> "id", type |-> "Uint64"],
             [propertyName |-> "title", type |-> "String"],
             [propertyName |-> "islast", type |-> "Bool"] >>
     ELSE << [propertyName |-> "id", type |-> "Uint64"],
             [propertyName |-> "title", type |-> "String"] >>]

(* The forum's constructions: Post on table 0, Reply on table 1.           *)
MCRepoPlan == << [cls |-> "Post", tableID |-> 0], [cls |-> "Reply", tableID |-> 1] >>

(* 2 and 10: a one-digit and a two-digit numeral, which sort the other way *)
(* round as text; the text "10" looks like the number 10.                  *)
MCNatVals == {2, 10}

MCTextVals == {<< "a" >>}

=============================================================================
