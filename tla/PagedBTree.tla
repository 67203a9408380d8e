----------------------------- MODULE PagedBTree -----------------------------
(***************************************************************************)
(* The DB of app/simpleDB: the B-tree of BTree with its nodes in pages of  *)
(* a BufferPool, written to a file by Flush and by the destructor, and     *)
(* read back when a DB is opened on the file.                              *)
(*                                                                         *)
(* The node operations are those of app/simpleBtree with page ids for      *)
(* pointers, so they are taken from BTree; what differs is spelled out     *)
(* here.  The file is the pages on it and what its last eight bytes hold:  *)
(* root and next page id where the last write was that of Flush's trailer, *)
(* zeros where it was a page that covered or outgrew the trailer.  A page  *)
(* is read when it is first used; until it is changed it is the page on    *)
(* the file, so the model reads them all at once.                          *)
(***************************************************************************)
EXTENDS Integers, Sequences, FiniteSets, TLC

CONSTANTS
  M, Keys, NULL,
  PageIds,    \* bound on the pages a database has
  Orders,     \* orders in which the caller inserts
  MaxOpens    \* bound on how often the database is opened

VARIABLES
  pages_inmem_,     \* the pages in memory, {} -> ... when no DB is open
  roots, cursor, btree_node_num,
  next_page_id_,
  file,             \* [pages, trailer]
  flushing,         \* Flush has written the pages and not yet the trailer
  inserts, opens,   \* what the caller still inserts; how often it has opened
  known,            \* ghost: how often a key was inserted and not deleted
  promise           \* ghost: what was found at the last Flush, if nothing
                    \* has been written to the file since

tree == <<pages_inmem_, roots, cursor, btree_node_num, known>>
vars == <<tree, next_page_id_, file, flushing, inserts, opens, promise>>

T == INSTANCE BTree WITH node <- pages_inmem_, inTree <- known, todo <- inserts,
       Nodes <- PageIds, Workloads <- Orders, Late <- 0, AbsentDeletes <- FALSE

None == [is |-> FALSE, keys |-> {}]
Open == DOMAIN pages_inmem_ # {}
Idle == Open /\ cursor = T!NoCall /\ ~flushing

Find(t) == T!find(t)
Found == {t \in Keys : Find(t)}

Init ==
  /\ roots = 0 /\ pages_inmem_ = (0 :> T!btree_node_new) /\ next_page_id_ = 1
  /\ cursor = T!NoCall /\ btree_node_num = 0 /\ known = [t \in Keys |-> 0]
  /\ file = [pages |-> <<>>, trailer |-> <<>>]
  /\ flushing = FALSE /\ inserts \in Orders /\ opens = 1 /\ promise = None

NewPages(n) == next_page_id_' = next_page_id_ + n
Splits == Cardinality(DOMAIN pages_inmem_' \ DOMAIN pages_inmem_)

Insert ==
  /\ Idle /\ inserts # <<>> /\ {next_page_id_, next_page_id_ + 1} \subseteq PageIds
  /\ T!btree_insert(Head(inserts), next_page_id_, next_page_id_ + 1)
  /\ NewPages(Splits)
  /\ inserts' = Tail(inserts)
  /\ UNCHANGED <<file, flushing, opens, promise>>

\* The descent is into childnode, the left half, whatever pos has become.
btree_insert_nonfull ==
  /\ Open /\ next_page_id_ \in PageIds
  /\ T!btree_insert_nonfull(next_page_id_, FALSE)
  /\ NewPages(Splits)
  /\ UNCHANGED <<file, flushing, inserts, opens, promise>>

\* The caller deletes what it finds.
Delete(t) ==
  /\ Idle /\ Find(t) /\ T!btree_delete(t)
  /\ UNCHANGED <<next_page_id_, file, flushing, inserts, opens, promise>>

btree_delete_nonone ==
  /\ Open /\ T!btree_delete_nonone
  /\ UNCHANGED <<next_page_id_, file, flushing, inserts, opens, promise>>

\* FlushAll: a page at or past the trailer takes its place at the end.
Extends == \E p \in DOMAIN pages_inmem_ : \A q \in DOMAIN file.pages : p > q
Written == [pages |-> pages_inmem_ @@ file.pages,
            trailer |-> IF Extends THEN <<0, 0>> ELSE file.trailer]

FlushAll ==
  /\ Idle
  /\ file' = Written
  /\ flushing' = TRUE /\ promise' = None
  /\ UNCHANGED <<tree, next_page_id_, inserts, opens>>

AppendTrailer ==
  /\ flushing
  /\ file' = [file EXCEPT !.trailer = <<roots, next_page_id_>>]
  /\ flushing' = FALSE /\ promise' = [is |-> TRUE, keys |-> Found]
  /\ UNCHANGED <<tree, next_page_id_, inserts, opens>>

Shut == pages_inmem_' = <<>> /\ roots' = NULL /\ cursor' = T!NoCall /\ flushing' = FALSE

\* ~DB writes the pages once more, and no trailer.
Destroy ==
  /\ Idle /\ Shut
  /\ file' = Written
  /\ promise' = IF Written = file THEN promise ELSE None
  /\ UNCHANGED <<btree_node_num, known, next_page_id_, inserts, opens>>

\* The process ends without the destructor, in a call or in a Flush.
Crash ==
  /\ Open /\ Shut
  /\ UNCHANGED <<btree_node_num, known, next_page_id_, file, inserts, opens, promise>>

\* BTree(BufferPool *): a new tree for an empty file, else the tree whose root
\* the last eight bytes name.
Reopen ==
  /\ ~Open /\ opens < MaxOpens
  /\ opens' = opens + 1
  /\ btree_node_num' = 0
  /\ IF file.pages = <<>>
     THEN roots' = 0 /\ pages_inmem_' = (0 :> T!btree_node_new) /\ next_page_id_' = 1
     ELSE /\ roots' = file.trailer[1] /\ next_page_id_' = file.trailer[2]
          /\ pages_inmem_' = file.pages
  /\ known' = [t \in Keys |-> IF t \in promise.keys THEN 1 ELSE 0]
  /\ UNCHANGED <<cursor, file, flushing, inserts, promise>>

\* Bound: a database that came back from a file without a trailer of its own
\* is not used further.
Sane == next_page_id_ > 0

Next ==
  \/ Sane /\ \/ Insert \/ btree_insert_nonfull \/ (\E t \in Keys : Delete(t))
             \/ btree_delete_nonone \/ FlushAll \/ AppendTrailer
  \/ Destroy \/ Crash \/ Reopen

Spec == Init /\ [][Next]_vars

-----------------------------------------------------------------------------

\* A DB opened on a file to which nothing has been written since a Flush
\* finds what was found at that Flush, whatever the process did in memory, and
\* wherever it ended, between the two.
FindsTheFlushed == opens' > opens /\ promise.is => Found' = promise.keys

\* A key that was inserted and not deleted is found (db_test.cc:19).
FindsWhatWasInserted ==
  Idle /\ opens = 1 => \A t \in Keys : known[t] > 0 => Find(t)
=============================================================================
