------------------------------- MODULE MCForum -------------------------------
(***************************************************************************)
(* The forum with two posts and two replies at most, one text, and block   *)
(* times 9 and 10, whose numerals sort the other way round as text.        *)
(***************************************************************************)
EXTENDS Forum

MCTextVals == {<< "a" >>}

=============================================================================
