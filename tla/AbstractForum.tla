---------------------------- MODULE AbstractForum ----------------------------
(***************************************************************************)
(* What the forum application (src/apps/forum/src/index.ts) promises its  *)
(* users, with no tables, codec or routes: a board of posts in the order  *)
(* they were made, each with an id no other post has, a title, a content  *)
(* and the contents of its replies in the order they were made.           *)
(***************************************************************************)
EXTENDS Sequences

CONSTANTS PostIds, TextVals

VARIABLE board

Init == board = << >>

(* A user makes a post; it gets an id no post has yet.                     *)
MakePost(id, content, title) ==
  /\ id \in PostIds
  /\ \A i \in DOMAIN board : board[i].id # id
  /\ board' = Append(board, [id |-> id, title |-> title, content |-> content,
                             replies |-> << >>])

(* A user replies to the post at position i; the reply goes last.          *)
MakeReply(i, content) ==
  /\ i \in DOMAIN board
  /\ board' = [board EXCEPT ![i].replies = Append(@, content)]

Next ==
  \/ \E id \in PostIds, content, title \in TextVals : MakePost(id, content, title)
  \/ \E i \in DOMAIN board, content \in TextVals : MakeReply(i, content)

Spec == Init /\ [][Next]_board

=============================================================================
