---------------------------- MODULE ProducerHash ----------------------------
(***************************************************************************)
(* How cpp-util/concurrentqueue.h finds the implicit producer of the       *)
(* calling thread: open addressing in a chain of tables, each linked to    *)
(* the one it replaced.  A thread takes a slot of the newest table it has  *)
(* seen by compare-and-set; a thread that ends leaves reusable slots       *)
(* behind and its producer to be recycled.  Only the thread itself writes  *)
(* its id, so its search of the tables is one step.                        *)
(***************************************************************************)
EXTENDS Naturals, FiniteSets, Sequences

CONSTANTS
  Enqueuers,          \* threads that enqueue without a token
  hash_thread_id,     \* their hashed ids
  InitialCapacity,    \* INITIAL_IMPLICIT_PRODUCER_HASH_SIZE
  MaxLives,           \* bound: how many threads come to have each id
  AllocFails,         \* whether malloc may fail
  EMPTY, REUSABLE,    \* invalid_thread_id and invalid_thread_id2
  NULL

VARIABLES
  hash,               \* the tables, oldest first: the last one is current
  hashCount, resizing,
  producerList,       \* newest first
  inactive,           \* of each producer
  hpc,                \* of each thread: control point and locals
  mine,               \* the producer a thread has got, until it ends
  lives

vars == <<hash, hashCount, resizing, producerList, inactive, hpc, mine, lives>>

Table(cap) == [key |-> [i \in 0 .. cap - 1 |-> EMPTY],
               value |-> [i \in 0 .. cap - 1 |-> NULL]]
Capacity(h) == Cardinality(DOMAIN hash[h].key)
Idle == [at |-> "idle", main |-> 0, count |-> 0, index |-> 0, ptr |-> 1,
         value |-> NULL, again |-> FALSE]
At(t, p) == hpc[t].at = p
Goto(t, rec) == hpc' = [hpc EXCEPT ![t] = rec]

Init ==
  /\ hash = << Table(InitialCapacity) >>
  /\ hashCount = 0 /\ resizing = FALSE
  /\ producerList = <<>> /\ inactive = <<>>
  /\ hpc = [t \in Enqueuers |-> Idle]
  /\ mine = [t \in Enqueuers |-> NULL]
  /\ lives = [t \in Enqueuers |-> 1]

\* Where the search for id t in table h ends: at the id or an empty slot.
Probe(h, t, j) == (hash_thread_id[t] + j) % Capacity(h)
Found(h, t) ==
  \E j \in 0 .. Capacity(h) - 1 :
    /\ hash[h].key[Probe(h, t, j)] = t
    /\ \A k \in 0 .. j - 1 : hash[h].key[Probe(h, t, k)] # EMPTY
ValueIn(h, t) ==
  hash[h].value[CHOOSE i \in DOMAIN hash[h].key : hash[h].key[i] = t]

\* get_or_add_implicit_producer: look into the current table and the ones
\* before it.  An id found in an older one is put into the current too.
get_or_add_implicit_producer(t) ==
  LET main == Len(hash)
      in == {h \in 1 .. main : Found(h, t)}
      newest == CHOOSE h \in in : \A g \in in : g <= h
  IN  /\ At(t, "idle")
      /\ IF in = {}
         THEN /\ Goto(t, [Idle EXCEPT !.at = "resize", !.main = main, !.count = hashCount + 1])
              /\ hashCount' = hashCount + 1 /\ UNCHANGED mine
         ELSE /\ mine' = [mine EXCEPT ![t] = ValueIn(newest, t)]
              /\ Goto(t, IF newest = main THEN Idle
                         ELSE [Idle EXCEPT !.at = "insert", !.main = main,
                                 !.value = ValueIn(newest, t), !.again = TRUE])
              /\ UNCHANGED hashCount
      /\ UNCHANGED <<hash, resizing, producerList, inactive, lives>>

\* The table is half full: one thread gets the flag.
Resize(t) ==
  LET k == hpc[t]
      takes == k.count >= Capacity(k.main) \div 2 /\ ~ resizing
  IN  /\ At(t, "resize")
      /\ resizing' = (resizing \/ takes)
      /\ Goto(t, [k EXCEPT !.at = IF takes THEN "allocate" ELSE "room"])
      /\ UNCHANGED <<hash, hashCount, producerList, inactive, mine, lives>>

\* It looks at the table that is current now and, if that is half full too,
\* publishes one that is not; then it clears the flag.
Allocate(t) ==
  LET k == hpc[t]
      caps == {Capacity(Len(hash)) * 2 ^ e : e \in 1 .. 4}
      newCapacity == CHOOSE c \in caps : /\ k.count < c \div 2
                                         /\ \A d \in caps : k.count < d \div 2 => c <= d
      half == k.count >= Capacity(Len(hash)) \div 2
  IN  /\ At(t, "allocate")
      /\ resizing' = FALSE
      /\ \/ /\ hash' = IF half THEN Append(hash, Table(newCapacity)) ELSE hash
            /\ Goto(t, [k EXCEPT !.at = "room", !.main = Len(hash')])
            /\ UNCHANGED hashCount
         \/ /\ AllocFails /\ half
            /\ hashCount' = hashCount - 1
            /\ Goto(t, Idle) /\ UNCHANGED hash
      /\ UNCHANGED <<producerList, inactive, mine, lives>>


Room(t) ==
  LET k == hpc[t]
      cap == Capacity(k.main)
  IN  /\ At(t, "room")
      /\ Goto(t, IF k.count < cap \div 2 + cap \div 4 THEN [k EXCEPT !.at = "recycle"]
                 ELSE [k EXCEPT !.at = "resize", !.main = Len(hash)])
      /\ UNCHANGED <<hash, hashCount, resizing, producerList, inactive, mine, lives>>

\* recycle_or_create_producer: the first inactive one on the list, ...
Recycle(t) ==
  LET k == hpc[t]
      p == producerList[k.ptr]
  IN  /\ At(t, "recycle") /\ k.ptr <= Len(producerList)
      /\ IF inactive[p]
         THEN /\ inactive' = [inactive EXCEPT ![p] = FALSE]
              /\ Goto(t, [k EXCEPT !.at = "insert", !.value = p])
         ELSE Goto(t, [k EXCEPT !.ptr = @ + 1]) /\ UNCHANGED inactive
      /\ UNCHANGED <<hash, hashCount, resizing, producerList, mine, lives>>

\* ... or a new one at its head (add_producer); or no memory.
add_producer(t) ==
  LET k == hpc[t]
      p == Len(producerList) + 1
  IN  /\ At(t, "recycle") /\ k.ptr > Len(producerList)
      /\ \/ /\ producerList' = <<p>> \o producerList /\ inactive' = Append(inactive, FALSE)
            /\ Goto(t, [k EXCEPT !.at = "insert", !.value = p])
            /\ UNCHANGED hashCount
         \/ /\ AllocFails
            /\ hashCount' = hashCount - 1
            /\ Goto(t, Idle) /\ UNCHANGED <<producerList, inactive>>
      /\ UNCHANGED <<hash, resizing, mine, lives>>

\* Take a slot for the id, reusable or empty.  Only an id that is new, and
\* takes a slot that was counted before, is not counted again.
Insert(t) ==
  LET k == hpc[t]
      i == Probe(k.main, t, k.index)
      key == hash[k.main].key[i]
  IN  /\ At(t, "insert")
      /\ IF key \in {EMPTY, REUSABLE}
         THEN /\ hash' = [hash EXCEPT ![k.main].key[i] = t, ![k.main].value[i] = k.value]
              /\ hashCount' = IF key = REUSABLE /\ ~ k.again THEN hashCount - 1 ELSE hashCount
              /\ mine' = [mine EXCEPT ![t] = k.value]
              /\ Goto(t, Idle)
         ELSE /\ Goto(t, [k EXCEPT !.index = @ + 1])
              /\ UNCHANGED <<hash, hashCount, mine>>
      /\ UNCHANGED <<resizing, producerList, inactive, lives>>

\* implicit_producer_thread_exited: the id leaves every table, the current
\* one first, then the producer may be taken by another thread.
ThreadExits(t) ==
  /\ At(t, "idle") /\ mine[t] # NULL
  /\ Goto(t, [Idle EXCEPT !.at = "exit", !.main = Len(hash), !.value = mine[t]])
  /\ mine' = [mine EXCEPT ![t] = NULL]
  /\ UNCHANGED <<hash, hashCount, resizing, producerList, inactive, lives>>

LeaveTable(t) ==
  LET h == hpc[t].main
  IN  /\ At(t, "exit") /\ h > 0
      /\ hash' = IF Found(h, t)
                 THEN [hash EXCEPT ![h].key =
                         [i \in DOMAIN @ |-> IF @[i] = t THEN REUSABLE ELSE @[i]]]
                 ELSE hash
      /\ Goto(t, [hpc[t] EXCEPT !.main = @ - 1])
      /\ UNCHANGED <<hashCount, resizing, producerList, inactive, mine, lives>>

\* After that a new thread may come to have the same id.
Deactivate(t) ==
  /\ At(t, "exit") /\ hpc[t].main = 0
  /\ inactive' = [inactive EXCEPT ![hpc[t].value] = TRUE]
  /\ Goto(t, [Idle EXCEPT !.at = IF lives[t] < MaxLives[t] THEN "idle" ELSE "ended"])
  /\ lives' = [lives EXCEPT ![t] = IF @ < MaxLives[t] THEN @ + 1 ELSE @]
  /\ UNCHANGED <<hash, hashCount, resizing, producerList, mine>>

Step(t) ==
  \/ get_or_add_implicit_producer(t) \/ Resize(t) \/ Allocate(t) \/ Room(t)
  \/ Recycle(t) \/ add_producer(t) \/ Insert(t)
  \/ ThreadExits(t) \/ LeaveTable(t) \/ Deactivate(t)

Next == \E t \in Enqueuers : Step(t)

Spec == Init /\ [][Next]_vars

-----------------------------------------------------------------------------

\* The producer that a thread may be enqueueing with: it is single-threaded.
Using(t) == IF mine[t] # NULL THEN {mine[t]}
            ELSE IF At(t, "insert") \/ At(t, "exit") THEN {hpc[t].value} ELSE {}

\* No two threads ever enqueue through the same implicit producer, no
\* producer in use is marked for recycling, and every table keeps an empty
\* slot, without which a search for an absent id would never end.
ProducersAreOwn ==
  /\ \A t, u \in Enqueuers : t # u => Using(t) \cap Using(u) = {}
  /\ \A t \in Enqueuers : \A p \in Using(t) : ~ inactive[p]
  /\ \A h \in DOMAIN hash : \E i \in DOMAIN hash[h].key : hash[h].key[i] = EMPTY
=============================================================================
