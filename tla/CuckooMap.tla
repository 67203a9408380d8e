----------------------------- MODULE CuckooMap ------------------------------
(***************************************************************************)
(* cuckoohash_map of cpp-util/cuckoomap: threads read and write a cuckoo   *)
(* hash table under striped spinlocks, move elements along a path they     *)
(* searched without keeping locks, double the table with all locks taken,  *)
(* and migrate the old buckets lazily, when a lock is next taken.          *)
(*                                                                         *)
(* A step is one lock acquired, or what a thread does while it holds the   *)
(* locks it asked for.  hash gives a key its hash value, tag a hash the    *)
(* number alt_index xors in for its partial key.  The path code of the BFS,*)
(* a number in base SLOT_PER_BUCKET, is the sequence of its digits.  One   *)
(* variable, table, holds the members of the map:                          *)
(*   buckets   [hp, slot]: hashpower and, by bucket and slot, [k, v] or    *)
(*             NULL; old the same for old_buckets_                         *)
(*   locks     all_locks_: by container and lock [by, migrated, elems]     *)
(*   remaining num_remaining_lazy_rehash_locks_                            *)
(***************************************************************************)
EXTENDS Integers, Sequences, SequencesExt, FiniteSetsExt, Bitwise

CONSTANTS
  MapThreads, MapKeys, MapValues, NULL,
  hash, tag,
  SLOT_PER_BUCKET, kMaxNumLocks, MAX_BFS_PATH_LEN,
  InitialHashpower, maximum_hashpower_,
  minimum_load_factor_,   \* in percent
  NothrowMove,            \* is_data_nothrow_move_constructible
  OpsOf,                  \* by thread: what it calls
  RehashTo, ReserveFor,   \* the hashpowers and sizes rehash and reserve are called for
  MaxMapCalls             \* by thread: bound on its calls

VARIABLES
  table,
  mtask,   \* by thread: the call under way
  map,     \* ghost: the abstract map, by key its value or NULL
  calls    \* by thread: the calls it has made

vars == <<table, mtask, map, calls>>

Slots == 0 .. SLOT_PER_BUCKET - 1
hashsize(hp) == 2 ^ hp
index_hash(hp, k) == hash[k] % hashsize(hp)
alt_index(hp, k, i) == (i ^^ tag[hash[k]]) % hashsize(hp)
lock_ind(i) == i % kMaxNumLocks
BothOf(hp, k) == {index_hash(hp, k), alt_index(hp, k, index_hash(hp, k))}

Smaller(a, b) == IF a < b THEN a ELSE b
Empty(hp) == [hp |-> hp, slot |-> [b \in 0 .. hashsize(hp) - 1 |-> [s \in Slots |-> NULL]]]
Deallocated(hp) == [hp |-> hp, slot |-> <<>>]
NewLocks(n, by) == [l \in 0 .. n - 1 |-> [by |-> by, migrated |-> TRUE, elems |-> 0]]

NoPos == [found |-> FALSE, b |-> 0, s |-> 0]
Blank == [pc |-> "rest", op |-> "none", key |-> NULL, val |-> NULL, n |-> 0,
          hp |-> 0, i1 |-> 0, i2 |-> 0, cont |-> 0, want |-> <<>>, then |-> "none",
          q |-> <<>>, code |-> <<>>, path |-> <<>>, depth |-> 0, pos |-> NoPos,
          locked |-> FALSE]

Init ==
  /\ table = [buckets |-> Empty(InitialHashpower), old |-> Deallocated(0), remaining |-> 0,
              locks |-> <<NewLocks(Smaller(hashsize(InitialHashpower), kMaxNumLocks), NULL)>>]
  /\ mtask = [t \in MapThreads |-> Blank]
  /\ map = [k \in MapKeys |-> NULL]
  /\ calls = [t \in MapThreads |-> 0]

Becomes(t, k) == mtask' = [mtask EXCEPT ![t] = k]
Current(s) == Len(s.locks)   \* get_current_locks
Mine(s, t) == {<<c, l>> \in UNION {{c} \X DOMAIN s.locks[c] : c \in DOMAIN s.locks} :
                 s.locks[c][l].by = t}

-----------------------------------------------------------------------------
(* Migration and resizing: functions from the table to the table *)

\* move_bucket: an element stays in its slot or goes to the first free slot of
\* the bucket that is hashsize(old_hp) later.
move_bucket(s, i) ==
  LET old == s.old.hp
      new == s.buckets.hp
      to == i + hashsize(old)
      b == s.old.slot[i]
      Moves(k) ==
        \/ i = index_hash(old, k) /\ index_hash(new, k) = to
        \/ /\ i = alt_index(old, k, index_hash(old, k))
           /\ alt_index(new, k, index_hash(new, k)) = to
      moved == SelectSeq([j \in 1 .. SLOT_PER_BUCKET |-> b[j - 1]],
                         LAMBDA x : x # NULL /\ Moves(x.k))
  IN  [s EXCEPT
         !.buckets.slot[i] = [j \in Slots |-> IF b[j] # NULL /\ ~Moves(b[j].k) THEN b[j] ELSE @[j]],
         !.buckets.slot[to] = [j \in Slots |-> IF j < Len(moved) THEN moved[j + 1] ELSE @[j]]]

\* num_remaining_lazy_rehash_locks(n): old_buckets_ goes with the last one.
Remaining(s, n) ==
  [s EXCEPT !.remaining = n, !.old = IF n = 0 THEN Deallocated(@.hp) ELSE @]

rehash_lock(s, l, lazy) ==
  IF s.locks[Current(s)][l].migrated THEN s
  ELSE LET own == {i \in DOMAIN s.old.slot : lock_ind(i) = l}
           m == [FoldSet(LAMBDA i, acc : move_bucket(acc, i), s, own) EXCEPT
                   !.locks[Current(s)][l].migrated = TRUE]
       IN  IF lazy THEN Remaining(m, m.remaining - 1) ELSE m

rehash_with_workers(s) ==
  Remaining(FoldSet(LAMBDA l, acc : rehash_lock(acc, l, FALSE), s, DOMAIN s.locks[Current(s)]), 0)

\* The new locks are taken before they are added; the counters are copied.
maybe_resize_locks(s, t, n) ==
  LET cur == s.locks[Current(s)]
      size == Cardinality(DOMAIN cur)
      new == NewLocks(Smaller(kMaxNumLocks, n), t)
  IN  IF ~(size < kMaxNumLocks /\ size < n) THEN s
      ELSE [s EXCEPT !.locks = Append(@,
              [l \in DOMAIN new |-> IF l \in DOMAIN cur THEN [cur[l] EXCEPT !.by = t]
                                    ELSE new[l]])]

\* cuckoo_fast_double, all locks taken and the resize allowed.
cuckoo_fast_double(s, t, locked) ==
  LET hp == s.buckets.hp
      done == maybe_resize_locks(rehash_with_workers(s), t, hashsize(hp + 1))
      split == [done EXCEPT !.old = done.buckets, !.buckets = Empty(hp + 1)]
      lazily == Remaining([split EXCEPT !.locks[Current(done)] =
                             [l \in DOMAIN @ |-> [@[l] EXCEPT !.migrated = FALSE]]],
                          Cardinality(DOMAIN done.locks[Current(done)]))
  IN  IF hashsize(hp) < kMaxNumLocks
      THEN Remaining(FoldSet(LAMBDA i, acc : move_bucket(acc, i), split, 0 .. hashsize(hp) - 1), 0)
      ELSE IF locked THEN rehash_with_workers(lazily) ELSE lazily

Elements(s) ==
  {s.buckets.slot[b][j] : <<b, j>> \in (DOMAIN s.buckets.slot) \X Slots} \ {NULL}

\* Where the elements can be in a table that was filled one by one: the order
\* of the insertions and their paths are not kept apart.
Placements(hp, xs) ==
  {p \in [xs -> (0 .. hashsize(hp) - 1) \X Slots] :
     /\ \A x \in xs : p[x][1] \in BothOf(hp, x.k)
     /\ \A x, y \in xs : p[x] = p[y] => x = y}

\* cuckoo_expand_simple: every element is inserted in a new map of hashpower
\* n, which grows if it must, and the buckets are swapped.  The result is one
\* of these tables.
cuckoo_expand_simple(s, t, n) ==
  LET done == rehash_with_workers(s)
      xs == Elements(done)
      hp == Min({h \in n .. n + Cardinality(xs) : Placements(h, xs) # {}})
      Filled(p) == [b \in 0 .. hashsize(hp) - 1 |-> [j \in Slots |->
                      IF \E x \in xs : p[x] = <<b, j>>
                      THEN CHOOSE x \in xs : p[x] = <<b, j>> ELSE NULL]]
  IN  {[maybe_resize_locks(done, t, hashsize(hp)) EXCEPT
          !.buckets = [hp |-> hp, slot |-> Filled(p)]] : p \in Placements(hp, xs)}

\* size() and load_factor(): the counters of the current locks.
size(s) == MapThenSumSet(LAMBDA l : s.locks[Current(s)][l].elems, DOMAIN s.locks[Current(s)])
TooEmpty(s) ==
  size(s) * 100 < minimum_load_factor_ * hashsize(s.buckets.hp) * SLOT_PER_BUCKET

-----------------------------------------------------------------------------
(* Locks *)

\* What a thread still holds goes, except keep.
Released(s, t, keep) ==
  [s EXCEPT !.locks = [c \in DOMAIN @ |-> [l \in DOMAIN @[c] |->
     IF @[c][l].by = t /\ <<c, l>> \notin keep THEN [@[c][l] EXCEPT !.by = NULL] ELSE @[c][l]]]]

\* A thread with all locks (locked_table_mode) takes and releases none.
Unlock(s, t) == IF mtask[t].locked THEN s ELSE Released(s, t, {})

\* The request of lock_one, lock_two and lock_three, in the order of the locks;
\* the container is the current one at the request.
Locking(k, indices, then) ==
  IF k.locked THEN [k EXCEPT !.pc = then]
  ELSE [k EXCEPT !.pc = "lock", !.cont = Current(table), !.then = then,
                 !.want = SetToSortSeq({lock_ind(i) : i \in indices}, <)]

\* snapshot_and_lock_two
Snapshot(k) ==
  LET hp == table.buckets.hp
      i1 == index_hash(hp, k.key)
      i2 == alt_index(hp, k.key, i1)
      new == [Blank EXCEPT !.op = k.op, !.key = k.key, !.val = k.val, !.locked = k.locked,
                           !.hp = hp, !.i1 = i1, !.i2 = i2]
  IN  Locking(new, {i1, i2}, "search")

\* The hashpower is checked once, with the first lock; the last one is
\* followed by the migration of what the locks cover.
Acquire(t) ==
  LET k == mtask[t]
      l == Head(k.want)
      got == [table EXCEPT !.locks[k.cont][l].by = t]
      covered == {x[2] : x \in Mine(got, t)}
  IN  /\ k.pc = "lock" /\ table.locks[k.cont][l].by = NULL
      /\ IF Mine(table, t) = {} /\ table.buckets.hp # k.hp
         THEN Becomes(t, Snapshot(k)) /\ UNCHANGED table   \* hashpower_changed
         ELSE IF Len(k.want) > 1
         THEN table' = got /\ Becomes(t, [k EXCEPT !.want = Tail(@)])
         ELSE /\ table' = FoldSet(LAMBDA x, acc : rehash_lock(acc, x, TRUE), got, covered)
              /\ Becomes(t, [k EXCEPT !.want = <<>>, !.pc = k.then])
      /\ UNCHANGED map

InOrder(c) == SetToSortSeq(DOMAIN table.locks[c], <)

LockingAll(k, then) ==
  IF k.locked THEN [k EXCEPT !.pc = then]
  ELSE [k EXCEPT !.pc = "lockall", !.cont = Current(table), !.then = then,
                 !.want = InOrder(Current(table))]

\* lock_all: the current container, and those added while it waited.
AcquireAll(t) ==
  LET k == mtask[t]
  IN  /\ k.pc = "lockall" /\ table.locks[k.cont][Head(k.want)].by = NULL
      /\ table' = [table EXCEPT !.locks[k.cont][Head(k.want)].by = t]
      /\ Becomes(t, IF Len(k.want) > 1 THEN [k EXCEPT !.want = Tail(@)]
                    ELSE IF k.cont < Current(table)
                    THEN [k EXCEPT !.cont = @ + 1, !.want = InOrder(k.cont + 1)]
                    ELSE [k EXCEPT !.pc = k.then, !.want = <<>>])
      /\ UNCHANGED map

Finished(k) == [Blank EXCEPT !.pc = IF k.locked THEN "table" ELSE "rest", !.locked = k.locked]

-----------------------------------------------------------------------------
(* Operations on one key *)

SlotsWith(b, x) == {j \in Slots : table.buckets.slot[b][j] = x}
SlotsOf(b, key) == {j \in Slots : table.buckets.slot[b][j] # NULL /\ table.buckets.slot[b][j].k = key}
At(found, b, j) == [found |-> found, b |-> b, s |-> j]

cuckoo_find(k) ==
  IF SlotsOf(k.i1, k.key) # {} THEN At(TRUE, k.i1, Min(SlotsOf(k.i1, k.key)))
  ELSE IF SlotsOf(k.i2, k.key) # {} THEN At(TRUE, k.i2, Min(SlotsOf(k.i2, k.key)))
  ELSE NoPos

Inserts == {"insert", "insert_or_assign", "uprase"}
Call(t, op, key, val) ==
  /\ mtask[t].pc \in {"rest", "table"}
  /\ Becomes(t, Snapshot([mtask[t] EXCEPT !.op = op, !.key = key, !.val = val]))
  /\ UNCHANGED <<table, map>>

\* run_cuckoo starts, or starts again, its search with the two buckets.
StartBfs(k) ==
  Locking([k EXCEPT !.q = << [b |-> k.i1, from |-> 0, code |-> <<>>],
                             [b |-> k.i2, from |-> 1, code |-> <<>>] >>,
                    !.code = <<>>, !.path = <<>>, !.depth = 0],
          {k.i1}, "bfs")

\* cuckoo_find, or the first part of cuckoo_insert: the key, else the last free
\* slot of the first bucket that has one, else a search for a cuckoo path.
Search(t) ==
  LET k == mtask[t]
      Free(b) == SlotsWith(b, NULL)
      pos == cuckoo_find(k)
  IN  /\ k.pc = "search"
      /\ IF pos.found \/ k.op \notin Inserts
         THEN Becomes(t, [k EXCEPT !.pc = "act", !.pos = pos]) /\ UNCHANGED table
         ELSE IF Free(k.i1) # {}
         THEN Becomes(t, [k EXCEPT !.pc = "act", !.pos = At(FALSE, k.i1, Max(Free(k.i1)))])
              /\ UNCHANGED table
         ELSE IF Free(k.i2) # {}
         THEN Becomes(t, [k EXCEPT !.pc = "act", !.pos = At(FALSE, k.i2, Max(Free(k.i2)))])
              /\ UNCHANGED table
         ELSE /\ table' = Unlock(table, t)
              /\ Becomes(t, StartBfs([k EXCEPT !.hp = table.buckets.hp]))
      /\ UNCHANGED map

\* A call that has its position and its locks, and its return.
Ready(t, ops) == mtask[t].pc = "act" /\ mtask[t].op \in ops
Put(k, x) == [table EXCEPT !.buckets.slot[k.pos.b][k.pos.s] = x]
Counted(s, b, d) == [s EXCEPT !.locks[Current(s)][lock_ind(b)].elems = @ + d]
Returns(t, s, value) ==
  /\ table' = Unlock(s, t)
  /\ map' = [map EXCEPT ![mtask[t].key] = value]
  /\ Becomes(t, Finished(mtask[t]))

\* The element of the call, and how it comes and goes; the counter is that of
\* the bucket's lock.
Element(k) == [k |-> k.key, v |-> k.val]
add_to_bucket(k) == Counted(Put(k, Element(k)), k.pos.b, 1)
del_from_bucket(k) == Counted(Put(k, NULL), k.pos.b, -1)

find_fn(t) == Ready(t, {"find"}) /\ Returns(t, table, map[mtask[t].key])

update_fn(t) ==
  LET k == mtask[t]
  IN  /\ Ready(t, {"update"})
      /\ IF k.pos.found THEN Returns(t, Put(k, Element(k)), k.val)
         ELSE Returns(t, table, map[k.key])

erase_fn(t) ==
  LET k == mtask[t]
  IN  /\ Ready(t, {"erase"})
      /\ IF k.pos.found THEN Returns(t, del_from_bucket(k), NULL)
         ELSE Returns(t, table, map[k.key])

\* insert leaves an element it finds alone, insert_or_assign gives it the
\* value; the function given to uprase may ask for its erasure.
uprase_fn(t) ==
  LET k == mtask[t]
  IN  /\ Ready(t, Inserts)
      /\ CASE ~k.pos.found -> Returns(t, add_to_bucket(k), k.val)
           [] k.pos.found /\ k.op = "insert" -> Returns(t, table, map[k.key])
           [] k.pos.found /\ k.op = "insert_or_assign" -> Returns(t, Put(k, Element(k)), k.val)
           [] k.pos.found /\ k.op = "uprase" -> Returns(t, del_from_bucket(k), NULL)

-----------------------------------------------------------------------------
(* Cuckoo paths *)

\* Nothing was found: cuckoo_fast_double for the hashpower of the attempt.
TableFull(k) == LockingAll([k EXCEPT !.q = <<>>, !.code = <<>>, !.path = <<>>], "double")

\* cuckoopath_search goes over the path from its start.
StartPath(k, x) ==
  LET first == IF x.from = 0 THEN k.i1 ELSE k.i2
  IN  Locking([k EXCEPT !.q = <<>>, !.code = x.code,
                        !.path = << [b |-> first, s |-> Head(x.code), key |-> NULL] >>],
              {first}, "path")

\* One round of slot_search, its bucket locked: a free slot ends the search,
\* else the buckets its elements could go to are queued.
slot_search(t) ==
  LET k == mtask[t]
      x == Head(k.q)
      start == IF x.code = <<>> THEN x.from % SLOT_PER_BUCKET ELSE Last(x.code)
      order == [i \in 1 .. SLOT_PER_BUCKET |-> (start + i - 1) % SLOT_PER_BUCKET]
      free == {i \in DOMAIN order : table.buckets.slot[x.b][order[i]] = NULL}
      Longer(s) == [x EXCEPT !.code = Append(@, s)]
      Kicked(i) ==
        LET key == table.buckets.slot[x.b][order[i]].k
        IN  [Longer(order[i]) EXCEPT !.b = alt_index(k.hp, key, x.b)]
      more == IF Len(x.code) < MAX_BFS_PATH_LEN - 1
              THEN [i \in DOMAIN order |-> Kicked(i)] ELSE <<>>
      q == Tail(k.q) \o more
  IN  /\ k.pc = "bfs"
      /\ table' = Unlock(table, t)
      /\ Becomes(t, IF free # {} THEN StartPath(k, Longer(order[Min(free)]))
                    ELSE IF q = <<>> THEN TableFull(k)
                    ELSE Locking([k EXCEPT !.q = q], {Head(q).b}, "bfs"))
      /\ UNCHANGED map

\* cuckoopath_move for the element that goes from depth - 1 to depth.
StartMove(k, depth) ==
  LET at == [k EXCEPT !.depth = depth]
  IN  CASE depth = 0 -> Locking(at, {k.i1, k.i2}, "move")
        [] depth = 1 -> Locking(at, {k.i1, k.i2, k.path[2].b}, "move")
        [] OTHER -> Locking(at, {k.path[depth].b, k.path[depth + 1].b}, "move")

\* One round of cuckoopath_search: the element that is now at this place of the
\* path gives the next bucket; a free slot ends the path early.
cuckoopath_search(t) ==
  LET k == mtask[t]
      n == Len(k.path)
      r == k.path[n]
      x == table.buckets.slot[r.b][r.s]
      known == [k EXCEPT !.path[n].key = x.k]
      next == alt_index(k.hp, x.k, r.b)
  IN  /\ k.pc = "path"
      /\ table' = Unlock(table, t)
      /\ Becomes(t, IF x = NULL THEN StartMove(k, n - 1)
                    ELSE IF n = Len(k.code) THEN StartMove(known, n - 1)
                    ELSE Locking([known EXCEPT
                                    !.path = Append(@, [b |-> next, s |-> k.code[n + 1],
                                                        key |-> NULL])], {next}, "path"))
      /\ UNCHANGED map

\* After run_cuckoo: the insertion goes to the freed slot without a look at
\* what happened while no lock was held.
BugAfterCuckoo(k) == At(FALSE, k.path[1].b, k.path[1].s)

\* After run_cuckoo: the key may have come meanwhile.
AfterCuckoo(k) ==
  IF cuckoo_find(k).found THEN cuckoo_find(k) ELSE At(FALSE, k.path[1].b, k.path[1].s)

\* One round of cuckoopath_move: if the path is no longer what was found, the
\* search starts again.
cuckoopath_move(t) ==
  LET k == mtask[t]
      d == k.depth
      from == k.path[d]
      to == k.path[d + 1]
      first == k.path[1]
      x == table.buckets.slot[from.b][from.s]
      stale == \/ table.buckets.slot[to.b][to.s] # NULL \/ x = NULL
               \/ hash[x.k] # hash[from.key]
      moved == [table EXCEPT !.buckets.slot = [@ EXCEPT ![to.b][to.s] = x,
                                                        ![from.b][from.s] = NULL]]
      ours == {<<k.cont, lock_ind(k.i1)>>, <<k.cont, lock_ind(k.i2)>>}
  IN  /\ k.pc = "move"
      /\ IF d = 0
         THEN IF table.buckets.slot[first.b][first.s] = NULL
              THEN Becomes(t, [k EXCEPT !.pc = "act", !.pos = AfterCuckoo(k)]) /\ UNCHANGED table
              ELSE table' = Unlock(table, t) /\ Becomes(t, StartBfs(k))
         ELSE IF stale THEN table' = Unlock(table, t) /\ Becomes(t, StartBfs(k))
         ELSE IF d = 1
         THEN /\ table' = IF k.locked THEN moved ELSE Released(moved, t, ours)
              /\ Becomes(t, [k EXCEPT !.depth = 0, !.pc = "moved"])
         ELSE table' = Unlock(moved, t) /\ Becomes(t, StartMove(k, d - 1))
      /\ UNCHANGED map

\* The way back through run_cuckoo to cuckoo_insert, the two buckets locked.
CuckooReturns(t) ==
  LET k == mtask[t]
  IN  /\ k.pc = "moved"
      /\ Becomes(t, [k EXCEPT !.pc = "act", !.pos = AfterCuckoo(k)])
      /\ UNCHANGED <<table, map>>

-----------------------------------------------------------------------------
(* Operations under all locks *)

\* The insertion's expansion.  check_resize_validity throws to the caller, or
\* finds that another thread has expanded the table.
Double(t) ==
  LET k == mtask[t]
      throws == k.hp + 1 > maximum_hashpower_ \/ TooEmpty(table)
  IN  /\ k.pc = "double"
      /\ IF throws THEN table' = Unlock(table, t) /\ Becomes(t, Finished(k))
         ELSE /\ \E s \in IF ~NothrowMove THEN cuckoo_expand_simple(table, t, k.hp + 1)
                          ELSE IF table.buckets.hp # k.hp THEN {table}
                          ELSE {cuckoo_fast_double(table, t, k.locked)} :
                   table' = Unlock(s, t)
              /\ Becomes(t, [k EXCEPT !.pc = "snapshot"])
      /\ UNCHANGED map

\* The insertion loop starts over.
Again(t) ==
  /\ mtask[t].pc = "snapshot"
  /\ Becomes(t, Snapshot(mtask[t]))
  /\ UNCHANGED <<table, map>>

\* rehash: nothing to do for the present hashpower, read without a lock.
cuckoo_rehash(t, n) ==
  /\ mtask[t].pc \in {"rest", "table"} /\ n # table.buckets.hp
  /\ Becomes(t, LockingAll([mtask[t] EXCEPT !.op = "rehash", !.n = n], "expand"))
  /\ UNCHANGED <<table, map>>

\* reserve: the smallest hashpower that holds n elements.
reserve_calc(n) ==
  Min({h \in 0 .. n : (n + SLOT_PER_BUCKET - 1) \div SLOT_PER_BUCKET <= hashsize(h)})
cuckoo_reserve(t, n) == cuckoo_rehash(t, reserve_calc(n))

Expand(t) ==
  LET k == mtask[t]
  IN  /\ k.pc = "expand"
      /\ IF k.n > maximum_hashpower_
         THEN table' = Unlock(table, t)
         ELSE \E s \in cuckoo_expand_simple(table, t, k.n) : table' = Unlock(s, t)
      /\ Becomes(t, Finished(k))
      /\ UNCHANGED map

CallClear(t) ==
  /\ mtask[t].pc \in {"rest", "table"}
  /\ Becomes(t, LockingAll([mtask[t] EXCEPT !.op = "clear"], "clear"))
  /\ UNCHANGED <<table, map>>

\* cuckoo_clear: the buckets, what was not migrated and the counters.
cuckoo_clear(t) ==
  LET k == mtask[t]
      cleared == [Remaining(table, 0) EXCEPT
                    !.buckets = Empty(@.hp),
                    !.locks[Current(table)] =
                      [l \in DOMAIN @ |-> [@[l] EXCEPT !.elems = 0, !.migrated = TRUE]]]
  IN  /\ k.pc = "clear"
      /\ table' = Unlock(cleared, t)
      /\ map' = [x \in MapKeys |-> NULL]
      /\ Becomes(t, Finished(k))

\* lock_table: all locks, and the migration brought to its end.
lock_table(t) ==
  /\ mtask[t].pc = "rest"
  /\ Becomes(t, LockingAll([Blank EXCEPT !.op = "lock_table"], "locking"))
  /\ UNCHANGED <<table, map>>

TableLocked(t) ==
  /\ mtask[t].pc = "locking"
  /\ table' = rehash_with_workers(table)
  /\ Becomes(t, [Blank EXCEPT !.pc = "table", !.locked = TRUE])
  /\ UNCHANGED map

unlock(t) ==
  /\ mtask[t].pc = "table"
  /\ table' = Released(table, t, {})
  /\ Becomes(t, Blank)
  /\ UNCHANGED map

-----------------------------------------------------------------------------
KeyOps == {"find", "update", "erase"} \cup Inserts

Step(t) ==
  \/ Acquire(t) \/ AcquireAll(t)
  \/ Search(t) \/ find_fn(t) \/ update_fn(t) \/ erase_fn(t) \/ uprase_fn(t)
  \/ slot_search(t) \/ cuckoopath_search(t) \/ cuckoopath_move(t) \/ CuckooReturns(t)
  \/ Double(t) \/ Again(t)
  \/ Expand(t) \/ cuckoo_clear(t) \/ TableLocked(t)

Calls(t) ==
  \/ \E op \in OpsOf[t] \cap KeyOps, key \in MapKeys, val \in MapValues : Call(t, op, key, val)
  \/ "rehash" \in OpsOf[t] /\ \E n \in RehashTo : cuckoo_rehash(t, n)
  \/ "reserve" \in OpsOf[t] /\ \E n \in ReserveFor : cuckoo_reserve(t, n)
  \/ "clear" \in OpsOf[t] /\ CallClear(t)
  \/ "lock_table" \in OpsOf[t] /\ lock_table(t)

Next ==
  \E t \in MapThreads :
    \/ Step(t) /\ UNCHANGED calls
    \/ Calls(t) /\ calls[t] < MaxMapCalls[t] /\ calls' = [calls EXCEPT ![t] = @ + 1]
    \/ unlock(t) /\ UNCHANGED calls
Spec == Init /\ [][Next]_vars

-----------------------------------------------------------------------------
\* Every key of the map is in one place: one of its two buckets, of the table
\* or, where the lock of the bucket is not migrated, of the old table.
KeysInPlace ==
  LET cur == table.locks[Current(table)]
      In(tab, k) == {<<b, j>> \in (DOMAIN tab.slot) \X Slots :
                       tab.slot[b][j] # NULL /\ tab.slot[b][j].k = k}
      Old(k) == {p \in In(table.old, k) : ~cur[lock_ind(p[1])].migrated}
      Right(tab, k, p) == tab.slot[p[1]][p[2]].v = map[k] /\ p[1] \in BothOf(tab.hp, k)
  IN  \A k \in MapKeys :
        LET new == In(table.buckets, k)
        IN  IF map[k] = NULL THEN new = {} /\ Old(k) = {}
            ELSE /\ Cardinality(new) + Cardinality(Old(k)) = 1
                 /\ \A p \in new : Right(table.buckets, k, p)
                 /\ \A p \in Old(k) : Right(table.old, k, p)

\* What a call saw of its key when it chose a position still holds when it acts
\* there: the key is in the map exactly if it was found, and a slot chosen for
\* an insertion is free (the comment of snapshot_and_lock_two).
DecisionsHold ==
  \A t \in MapThreads : mtask[t].pc = "act" =>
    LET k == mtask[t]
        x == table.buckets.slot[k.pos.b][k.pos.s]
    IN  IF k.pos.found THEN map[k.key] # NULL /\ x = [k |-> k.key, v |-> map[k.key]]
        ELSE map[k.key] = NULL /\ (k.op \in Inserts => x = NULL)

\* Threads that wait for locks never all wait for each other.
Waits(t) ==
  /\ mtask[t].pc \in {"lock", "lockall"}
  /\ table.locks[mtask[t].cont][Head(mtask[t].want)].by # NULL
LocksDrain ==
  (\E t \in MapThreads : Waits(t)) => \E t \in MapThreads : mtask[t].pc # "rest" /\ ~Waits(t)

\* The concurrent table acts as a map: keys in place, decisions that hold until
\* they are acted on, counters that add up to the size, and no deadlock of the
\* lock order.
CuckooMapIntact ==
  /\ KeysInPlace
  /\ DecisionsHold
  /\ size(table) = Cardinality({k \in MapKeys : map[k] # NULL})
  /\ LocksDrain
=============================================================================
