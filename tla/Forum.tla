------------------------------- MODULE Forum -------------------------------
(***************************************************************************)
(* The forum application (src/apps/forum/src/index.ts, types.ts) over the  *)
(* application library and the storage host.                               *)
(*                                                                         *)
(* The module runs after the program's top level: the three entity        *)
(* classes are declared (types.ts, in the order Post, Post_Reply,          *)
(* Category, so getEntityMetadata gave them tableIDs 0, 1, 2) and the     *)
(* three repositories constructed with the table ids 0, 1, 2; the two     *)
(* numberings agree here.  Each exported handler is one atomic step: the  *)
(* runtime runs one call at a time, and every library call inside it is   *)
(* synchronous.  A handler that throws (get()[0] is undefined) throws     *)
(* before its first write, so it changes nothing.                          *)
(*                                                                         *)
(* State: the host's tables, the static routes the handlers registered,    *)
(* and the block time.                                                     *)
(***************************************************************************)
EXTENDS Wire, FiniteSets

CONSTANTS
  TextVals,     \* the post contents, titles and reply contents users send
  Times,        \* the block times
  MaxPosts,     \* bound on create_post calls
  MaxReplies,   \* bound on the replies stored, and on each post's count
  HostFaults    \* whether a host call may fail

ASSUME ForumAssumption ==
  /\ TextVals \subseteq Seq(Chars)
  /\ Times \subseteq Nat /\ Times # {}
  /\ {MaxPosts, MaxReplies} \subseteq Nat
  /\ HostFaults \in BOOLEAN

VARIABLES
  tables,     \* the host: table id -> [width, rows] or Undefined
  pages,      \* the routes "postcatalogue", "postsjson", "repliesjson"
  postPages,  \* the route post/<id> of each post id
  blockTime   \* what block_time() returns

fvars == <<tables, pages, postPages, blockTime>>

(* The entity classes of types.ts, their columns in declaration order.     *)
Col(name, type) == [propertyName |-> name, type |-> type]

PostCols == << Col("id", "Uint64"), Col("time", "Uint64"),
               Col("content", "String"), Col("title", "String"),
               Col("replies_length", "Uint64"),
               Col("last_activity_time", "Uint64") >>

ReplyCols == << Col("id", "Uint64"), Col("time", "Uint64"),
                Col("content", "String"), Col("parent_post_id", "Uint64") >>

CategoryCols == << Col("id", "Uint64"), Col("posts_length", "Uint64") >>

(* post_repo, post_replies_repo, categories_repo (index.ts:12-14).         *)
PostT     == 0
ReplyT    == 1
CategoryT == 2

Cols == << PostCols, ReplyCols, CategoryCols >>

PostIds == 1..MaxPosts

-----------------------------------------------------------------------------
(***************************************************************************)
(* The library calls, on a value tb of the host's tables.                  *)
(***************************************************************************)

(* The DatabaseQuery of repo t's query() with these clauses.               *)
Query(t, wheres, sorts, limit) ==
  [table_id |-> t, number_of_fields |-> Len(Cols[t + 1]),
   where_operations |-> wheres, sorting_operations |-> sorts,
   limit |-> limit, offset |-> 0]

WhereEq(field, n) == << [field_id |-> field, value |-> ToDecimal[n]] >>

(* The entity lists get() may return.                                      *)
GetFrom(tb, q) ==
  LET rows == tb[q.table_id].rows IN
  { [k \in DOMAIN ans |-> Deserialize(rows[ans[k]], Cols[q.table_id + 1])] :
      ans \in QueryAnswers(rows, q) }

(* repo.insert(v) and repo.update(key, v) (dblib.ts:146-174).              *)
InsertInto(tb, t, v) ==
  [tb EXCEPT ![t].rows = Append(@, EncodeColumns(Cols[t + 1], v, 0))]

UpdateIn(tb, t, key, v) ==
  [tb EXCEPT ![t].rows =
     UpdateRows(@, ToDecimal[key], EncodeColumns(Cols[t + 1], v, 1))]

(* Mutant: the replies are selected on the reply's id, not its parent.     *)
PostPageQueryOnId(post) ==
  Query(ReplyT, WhereEq(0, post.id), << [field_id |-> 1, descending |-> FALSE] >>, 100)

(* render_post's query (index.ts:21-30): the replies of the post, oldest  *)
(* first, at most 100.                                                     *)
PostPageQuery(post) ==
  Query(ReplyT, WhereEq(3, post.id), << [field_id |-> 1, descending |-> FALSE] >>, 100)

(* render_post_catalogue's query (index.ts:16-19): at most 100 posts, the  *)
(* latest activity first.                                                  *)
CatalogueQuery ==
  Query(PostT, << >>, << [field_id |-> 5, descending |-> TRUE] >>, 100)

(* save_all_posts and save_all_replies (index.ts:86-96).                   *)
AllQuery(t) == Query(t, << >>, << >>, 10000)

(* Mutant: the dump of save_all_replies queries post_repo.                 *)
RenderCopyPasted(tb, post, json) ==
  \E replies \in GetFrom(tb, PostPageQuery(post)),
     catalogue \in GetFrom(tb, CatalogueQuery),
     all \in GetFrom(tb, AllQuery(PostT)) :
    /\ postPages' = [postPages EXCEPT ![post.id] = [post |-> post, replies |-> replies]]
    /\ pages' = [pages EXCEPT !.postcatalogue = catalogue, ![json] = all]

(* The routes a handler registers at its end, rendered from tables tb:    *)
(* render_post(post), then render_post_catalogue(), then save_all_posts   *)
(* or save_all_replies as json names it.                                   *)
Render(tb, post, json) ==
  \E replies \in GetFrom(tb, PostPageQuery(post)),
     catalogue \in GetFrom(tb, CatalogueQuery),
     all \in GetFrom(tb, AllQuery(IF json = "postsjson" THEN PostT ELSE ReplyT)) :
    /\ postPages' = [postPages EXCEPT ![post.id] = [post |-> post, replies |-> replies]]
    /\ pages' = [pages EXCEPT !.postcatalogue = catalogue, ![json] = all]

-----------------------------------------------------------------------------
(* The host starts without tables; no route is registered.                 *)
Init ==
  /\ tables = [t \in {PostT, ReplyT, CategoryT} |-> Undefined]
  /\ pages = [r \in {"postcatalogue", "postsjson", "repliesjson"} |-> Undefined]
  /\ postPages = [p \in PostIds |-> Undefined]
  /\ blockTime \in Times

Deployed == tables[CategoryT] # Undefined

(* deploy() (index.ts:34-40): the three createTable calls, the category    *)
(* row (id 0, posts_length 0), then the catalogue.                         *)
Deploy ==
  LET created == [t \in DOMAIN tables |-> [width |-> Len(Cols[t + 1]), rows |-> << >>]]
      tb      == InsertInto(created, CategoryT, [id |-> 0, posts_length |-> 0])
  IN
  /\ ~Deployed
  /\ tables' = tb
  /\ \E catalogue \in GetFrom(tb, CatalogueQuery) :
       pages' = [pages EXCEPT !.postcatalogue = catalogue]
  /\ UNCHANGED <<postPages, blockTime>>

(* Mutant: the incremented counter is not saved.                           *)
MonotonicPostIdUnsaved(tb, category) == tb

(* monotonic_post_id() (index.ts:98-103): category 0's posts_length is     *)
(* incremented and saved; the new value is the post id.                    *)
MonotonicPostId(tb, category) ==
  UpdateIn(tb, CategoryT, category.id,
           [category EXCEPT !.posts_length = @ + 1])

(* The outcomes of a handler's last insert: with host faults it may fail   *)
(* and throw, and the writes before it stay (nothing rolls them back).    *)
InsertOutcomes == IF HostFaults THEN BOOLEAN ELSE {TRUE}

(* create_post(post_content, post_title) (index.ts:42-58).                 *)
CreatePost(content, title, insertOk) ==
  Deployed /\
  \E cats \in GetFrom(tables, Query(CategoryT, WhereEq(0, 0), << >>, 0)) :
    LET category == cats[1]
        id       == category.posts_length + 1
        post     == [id |-> id, time |-> blockTime, content |-> content,
                     title |-> title, replies_length |-> 0,
                     last_activity_time |-> blockTime]
        counted  == MonotonicPostId(tables, category)
        tb       == InsertInto(counted, PostT, post)
    IN
    /\ cats # << >>
    /\ id <= MaxPosts
    /\ IF insertOk THEN tables' = tb /\ Render(tb, post, "postsjson")
                    ELSE tables' = counted /\ UNCHANGED <<pages, postPages>>
    /\ UNCHANGED blockTime

(* Mutant: the parent's reply count is not incremented.                    *)
RepliedParentUncounted(parent) ==
  [parent EXCEPT !.last_activity_time = blockTime]

(* The parent post as create_post_reply changes it (index.ts:67-68).       *)
RepliedParent(parent) ==
  [parent EXCEPT !.replies_length = @ + 1, !.last_activity_time = blockTime]

(* Mutant: the reply is inserted before the parent is updated, so the     *)
(* write a host fault cuts off is the parent's update.                     *)
CreatePostReplyInsertFirst(content, parentId, insertOk) ==
  Deployed /\
  \E found \in GetFrom(tables, Query(PostT, WhereEq(0, parentId), << >>, 0)) :
    LET parent == RepliedParent(found[1])
        reply  == [id |-> parent.replies_length, time |-> blockTime,
                   content |-> content, parent_post_id |-> parentId]
        inserted == InsertInto(tables, ReplyT, reply)
        tb     == UpdateIn(inserted, PostT, parent.id, parent)
    IN
    /\ found # << >>
    /\ Len(tables[ReplyT].rows) < MaxReplies
    /\ found[1].replies_length < MaxReplies
    /\ IF insertOk THEN tables' = tb /\ Render(tb, parent, "repliesjson")
                    ELSE tables' = inserted /\ UNCHANGED <<pages, postPages>>
    /\ UNCHANGED blockTime

(* create_post_reply(content, parent_post_id) (index.ts:60-83): the        *)
(* parent is read, updated, and the reply inserted with the parent's new  *)
(* replies_length as its id.  The id arrives as the string the page's     *)
(* data-args holds; where() and encode() both turn it into that string.   *)
CreatePostReply(content, parentId, insertOk) ==
  Deployed /\
  \E found \in GetFrom(tables, Query(PostT, WhereEq(0, parentId), << >>, 0)) :
    LET parent == RepliedParent(found[1])
        reply  == [id |-> parent.replies_length, time |-> blockTime,
                   content |-> content, parent_post_id |-> parentId]
        updated == UpdateIn(tables, PostT, parent.id, parent)
        tb     == InsertInto(updated, ReplyT, reply)
    IN
    /\ found # << >>
    /\ Len(tables[ReplyT].rows) < MaxReplies
    /\ found[1].replies_length < MaxReplies
    /\ IF insertOk THEN tables' = tb /\ Render(tb, parent, "repliesjson")
                    ELSE tables' = updated /\ UNCHANGED <<pages, postPages>>
    /\ UNCHANGED blockTime

(* A new block: block_time() returns a later time.                         *)
NewBlock ==
  /\ \E t \in Times : t > blockTime /\ blockTime' = t
  /\ UNCHANGED <<tables, pages, postPages>>

Next ==
  \/ Deploy
  \/ \E content, title \in TextVals, ok \in InsertOutcomes : CreatePost(content, title, ok)
  \/ \E content \in TextVals, p \in PostIds, ok \in InsertOutcomes :
       CreatePostReply(content, p, ok)
  \/ NewBlock

Spec == Init /\ [][Next]_fvars

-----------------------------------------------------------------------------
(***************************************************************************)
(* Properties.                                                             *)
(***************************************************************************)

(* The stored rows and the entities they decode to.                        *)
RowsOf(t) == IF tables[t] = Undefined THEN << >> ELSE tables[t].rows
EntitiesOf(t) == [i \in DOMAIN RowsOf(t) |-> Deserialize(RowsOf(t)[i], Cols[t + 1])]
Posts   == EntitiesOf(PostT)
Replies == EntitiesOf(ReplyT)
RangeOf(s) == {s[i] : i \in DOMAIN s}

(* The entities the routes hold, as Deserialize builds them.              *)
PostEntity  == [id : Nat, time : Nat, content : Seq(Chars), title : Seq(Chars),
                replies_length : Nat, last_activity_time : Nat]
ReplyEntity == [id : Nat, time : Nat, content : Seq(Chars), parent_post_id : Nat]

(* Every route holds entities of the class it is about, decoded to typed   *)
(* values (no NaN, no undefined).                                          *)
ForumTypeOK ==
  /\ tables \in [{PostT, ReplyT, CategoryT} ->
                  [width : Nat, rows : Seq(Seq(Seq(Chars)))] \cup {Undefined}]
  /\ pages.postcatalogue \in Seq(PostEntity) \cup {Undefined}
  /\ pages.postsjson \in Seq(PostEntity) \cup {Undefined}
  /\ pages.repliesjson \in Seq(ReplyEntity) \cup {Undefined}
  /\ postPages \in [PostIds -> [post : PostEntity, replies : Seq(ReplyEntity)]
                                \cup {Undefined}]
  /\ blockTime \in Times

(* The replies stored under a post never outnumber its replies_length,    *)
(* even when the host fails a write: create_post_reply saves the parent's  *)
(* incremented count (index.ts:67-69) before it inserts the reply          *)
(* (index.ts:78), so a failed insert leaves the count ahead of the stored  *)
(* replies, never behind, and the next reply's id is still above every     *)
(* stored one.                                                             *)
ReplyCountCovers ==
  \A i \in DOMAIN Posts :
    Cardinality({k \in DOMAIN Replies : Replies[k].parent_post_id = Posts[i].id})
      <= Posts[i].replies_length

(* A post's replies_length is the number of stored replies whose           *)
(* parent_post_id is the post: create_post_reply increments it exactly     *)
(* when it stores a reply.                                                 *)
ReplyCountMatches ==
  \A i \in DOMAIN Posts :
    Posts[i].replies_length =
      Cardinality({k \in DOMAIN Replies : Replies[k].parent_post_id = Posts[i].id})

(* A registered route holds exactly the entities, as stored now, that it  *)
(* should show: the catalogue every post, post/<id> the post and its      *)
(* replies, repliesjson every reply.  Each handler must re-render every   *)
(* route whose data it changed.                                            *)
Shows(s, all) == RangeOf(s) = RangeOf(all) /\ Len(s) = Len(all)

PagesFresh ==
  /\ pages.postcatalogue # Undefined => Shows(pages.postcatalogue, Posts)
  /\ pages.repliesjson # Undefined => Shows(pages.repliesjson, Replies)
  /\ \A p \in PostIds : postPages[p] # Undefined =>
       /\ \E i \in DOMAIN Posts : Posts[i].id = p /\ postPages[p].post = Posts[i]
       /\ Shows(postPages[p].replies,
                SelectSeq(Replies, LAMBDA r : r.parent_post_id = p))

(* The post dump "postsjson" holds every post as stored now.               *)
PostsJsonFresh ==
  pages.postsjson # Undefined => Shows(pages.postsjson, Posts)

(* The catalogue lists the posts with the latest activity first.           *)
CatalogueByActivity ==
  pages.postcatalogue # Undefined =>
    \A i, j \in DOMAIN pages.postcatalogue :
      i < j => pages.postcatalogue[i].last_activity_time >=
               pages.postcatalogue[j].last_activity_time

(* Column 0 is the primary key of every table: no two replies share it.    *)
ReplyKeysUnique ==
  \A i, j \in DOMAIN Replies : i # j => Replies[i].id # Replies[j].id

-----------------------------------------------------------------------------
(***************************************************************************)
(* The forum implements AbstractForum: the board is read off the Post      *)
(* table in row order, each post with the contents of the replies whose    *)
(* parent_post_id is its id, in row order.  Deploy and NewBlock leave the  *)
(* board as it is.                                                         *)
(***************************************************************************)
ContentsOf(s) == [k \in DOMAIN s |-> s[k].content]

AbsBoard ==
  [i \in DOMAIN Posts |->
     [id |-> Posts[i].id, title |-> Posts[i].title, content |-> Posts[i].content,
      replies |-> ContentsOf(SelectSeq(Replies, LAMBDA r : r.parent_post_id = Posts[i].id))]]

AF == INSTANCE AbstractForum WITH board <- AbsBoard

(* Every step of the handlers is a step of the abstract board or leaves it *)
(* unchanged: create_post adds one post with a fresh id, and               *)
(* create_post_reply adds one reply, last, to exactly one post.            *)
ForumRefinesAbstract == AF!Spec

=============================================================================
