------------------------------ MODULE SkipList ------------------------------
(***************************************************************************)
(* SkipList of cpp-util/skiplist.h: one writer inserts (writes need        *)
(* external synchronisation) while readers search and iterate without a    *)
(* lock.  A reader step is one load of a next pointer; a writer step is    *)
(* one release store that readers can see.                                 *)
(*                                                                         *)
(* A key is inserted once, so a node is its key; head_ is 0.  JUNK is what *)
(* malloc leaves in next_.                                                 *)
(***************************************************************************)
EXTENDS Integers, FiniteSetsExt

CONSTANTS Keys, SkipReaders, kMaxHeight_, NULL, JUNK

VARIABLES
  next_,        \* by node and level
  max_height_, prev_, prev_height_,
  ins,          \* the insertion under way: [key, height, level]
  inserted,     \* ghost: the keys whose insertion has returned
  reader        \* by reader: what it runs and where it is

vars == <<next_, max_height_, prev_, prev_height_, ins, inserted, reader>>

head_ == 0
Levels == 0 .. kMaxHeight_ - 1
Nodes == {head_} \cup Keys
NoInsert == [key |-> NULL, height |-> 0, level |-> 0]
\* at is Iterator::node_; from the keys sure to be there when the call began.
Resting(at) == [op |-> "rest", key |-> 0, x |-> head_, level |-> 0, last |-> NULL,
                at |-> at, sure |-> {}]

Init ==
  /\ next_ = [n \in Nodes |-> [l \in Levels |-> IF n = head_ THEN NULL ELSE JUNK]]
  /\ max_height_ = 1 /\ prev_height_ = 1
  /\ prev_ = [l \in Levels |-> head_]
  /\ ins = NoInsert /\ inserted = {}
  /\ reader = [r \in SkipReaders |-> Resting(NULL)]

KeyIsAfterNode(key, n) == n # NULL /\ n < key

-----------------------------------------------------------------------------
(* The writer *)

\* The nodes of a level, and what FindLessThan leaves in prev[level]: no one
\* else writes, so its walk ends at the last node before key on every level.
OnLevel(l) == {n \in Keys : next_[n][l] # JUNK}
FindLessThan(key, l) == Max({head_} \cup {n \in OnLevel(l) : n < key})

\* Without the look at what follows the last insertion.
BugFastPath(key) == prev_[0] = head_ \/ KeyIsAfterNode(key, prev_[0])

FastPath(key) ==
  /\ ~KeyIsAfterNode(key, next_[prev_[0]][0])
  /\ prev_[0] = head_ \/ KeyIsAfterNode(key, prev_[0])

PrevFor(key) ==
  [l \in Levels |->
     IF FastPath(key) THEN IF l \in 1 .. prev_height_ - 1 THEN prev_[0] ELSE prev_[l]
     ELSE IF l < max_height_ THEN FindLessThan(key, l) ELSE prev_[l]]

\* Up to the store of max_height_; RandomHeight is any height.
Insert(key, height) ==
  /\ ins = NoInsert /\ key \notin inserted
  /\ prev_' = [l \in Levels |-> IF l \in max_height_ .. height - 1 THEN head_
                                ELSE PrevFor(key)[l]]
  /\ max_height_' = Max({max_height_, height})
  /\ ins' = [key |-> key, height |-> height, level |-> 0]
  /\ UNCHANGED <<next_, prev_height_, inserted, reader>>

\* One round of the loop: the node's own pointer, then the one to it.
LinkLevel ==
  LET l == ins.level
      x == ins.key
  IN  /\ ins # NoInsert /\ l < ins.height
      /\ next_' = [next_ EXCEPT ![x][l] = next_[prev_[l]][l], ![prev_[l]][l] = x]
      /\ ins' = [ins EXCEPT !.level = @ + 1]
      /\ UNCHANGED <<max_height_, prev_, prev_height_, inserted, reader>>

InsertReturns ==
  /\ ins # NoInsert /\ ins.level = ins.height
  /\ prev_' = [prev_ EXCEPT ![0] = ins.key]
  /\ prev_height_' = ins.height
  /\ inserted' = inserted \cup {ins.key}
  /\ ins' = NoInsert
  /\ UNCHANGED <<next_, max_height_, reader>>

-----------------------------------------------------------------------------
(* The readers *)

Start(r, op, key) ==
  /\ reader[r].op = "rest"
  /\ reader' = [reader EXCEPT ![r] = [@ EXCEPT
       !.op = op, !.key = key, !.x = head_, !.level = max_height_ - 1, !.last = NULL,
       !.sure = inserted]]

\* Contains and Seek are FindGreaterOrEqual, Prev is FindLessThan from the
\* iterator's key, SeekToLast is FindLast; SeekForPrev runs all three.
Seek(r, key) == Start(r, "seek", key)
Prev(r) == reader[r].at # NULL /\ Start(r, "prev", reader[r].at)
SeekToLast(r) == Start(r, "last", 0)
SeekForPrev(r, key) == Start(r, "forprev", key)

\* Iterator::Next and SeekToFirst are one load.
IteratorNext(r) ==
  /\ reader[r].op = "rest" /\ reader[r].at # NULL
  /\ reader' = [reader EXCEPT ![r].at = next_[@][0]]
SeekToFirst(r) ==
  reader[r].op = "rest" /\ reader' = [reader EXCEPT ![r].at = next_[head_][0]]

Becomes(r, f) == reader' = [reader EXCEPT ![r] = f]
Iterator(n) == IF n = head_ THEN NULL ELSE n

\* The end of a search for SeekForPrev: on to FindLast when nothing is at or
\* after the target, to FindLessThan while the iterator is after it.
Found(r, n) ==
  LET c == reader[r]
      Again(op, key) == [c EXCEPT !.op = op, !.x = head_, !.level = max_height_ - 1,
                                  !.last = NULL, !.at = n]
  IN  CASE c.op = "forprev" /\ n = NULL -> Becomes(r, Again("fplast", 0))
        [] c.op \in {"forprev", "fplast", "fpprev"} /\ n # NULL /\ n > c.key ->
             Becomes(r, Again("fpprev", n))
        [] OTHER -> Becomes(r, Resting(n))

\* What the search looks for: the iterator's key for Prev.
Target(c) == IF c.op \in {"prev", "fpprev"} THEN c.at ELSE c.key

\* One round of the loop of FindGreaterOrEqual.
StepGreaterOrEqual(r) ==
  LET c == reader[r]
      nx == next_[c.x][c.level]
      after == nx = NULL \/ nx = c.last \/ nx > c.key
  IN  /\ c.op \in {"seek", "forprev"}
      /\ CASE nx = c.key \/ (after /\ c.level = 0) -> Found(r, nx)
           [] nx # c.key /\ ~after -> Becomes(r, [c EXCEPT !.x = nx])
           [] OTHER -> Becomes(r, [c EXCEPT !.last = nx, !.level = @ - 1])

\* One round of the loop of FindLessThan.
StepLessThan(r) ==
  LET c == reader[r]
      nx == next_[c.x][c.level]
  IN  /\ c.op \in {"prev", "fpprev"}
      /\ IF nx # c.last /\ KeyIsAfterNode(Target(c), nx)
         THEN Becomes(r, [c EXCEPT !.x = nx])
         ELSE IF c.level = 0 THEN Found(r, Iterator(c.x))
         ELSE Becomes(r, [c EXCEPT !.last = nx, !.level = @ - 1])

\* One round of the loop of FindLast.
StepLast(r) ==
  LET c == reader[r]
      nx == next_[c.x][c.level]
  IN  /\ c.op \in {"last", "fplast"}
      /\ IF nx # NULL THEN Becomes(r, [c EXCEPT !.x = nx])
         ELSE IF c.level = 0 THEN Found(r, Iterator(c.x))
         ELSE Becomes(r, [c EXCEPT !.level = @ - 1])

ReaderStep(r) ==
  /\ \/ \E k \in Keys : Seek(r, k) \/ SeekForPrev(r, k)
     \/ Prev(r) \/ SeekToLast(r) \/ IteratorNext(r) \/ SeekToFirst(r)
     \/ StepGreaterOrEqual(r) \/ StepLessThan(r) \/ StepLast(r)
  /\ UNCHANGED <<next_, max_height_, prev_, prev_height_, ins, inserted>>

Next ==
  \/ \E k \in Keys, h \in 1 .. kMaxHeight_ : Insert(k, h)
  \/ LinkLevel \/ InsertReturns
  \/ \E r \in SkipReaders : ReaderStep(r)

Spec == Init /\ [][Next]_vars

-----------------------------------------------------------------------------

\* A search that runs while keys are inserted misses no key whose insertion
\* had returned when the search began, stops on the right side of its target,
\* and never follows a pointer that has not been written.
MissesNothing ==
  \A r \in SkipReaders :
    LET c == reader[r]
        n == reader'[r].at
        Between(lo, hi) == {k \in c.sure : lo <= k /\ k <= hi}
        lo == IF n = NULL THEN 0 ELSE n
        hi == IF n = NULL THEN Max(Keys) + 1 ELSE n
    IN  c.op # "rest" /\ reader'[r].op = "rest" =>
          /\ n # JUNK
          /\ c.op = "seek" => hi >= c.key /\ Between(c.key, hi - 1) = {}
          /\ c.op = "prev" => lo < c.at /\ Between(lo + 1, c.at - 1) = {}
          /\ c.op = "last" => Between(lo + 1, Max(Keys)) = {}
          /\ c.op \in {"forprev", "fplast", "fpprev"} =>
               lo <= c.key /\ Between(lo + 1, c.key) = {}
SearchesMissNothing == [][MissesNothing]_vars

\* RandomHeight returns less than kMaxHeight_ (assert, skiplist.h:127).
HeightBelowMax == ins.height < kMaxHeight_
=============================================================================
