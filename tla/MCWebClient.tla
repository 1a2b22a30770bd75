---------------------------- MODULE MCWebClient ----------------------------
EXTENDS WebClient

(* One site serves every route.                                            *)
MCSiteOf == [p \in Paths |-> CHOOSE s \in Sites : TRUE]

=============================================================================
