------------------------------- MODULE RteRing ------------------------------
(***************************************************************************)
(* rte_ring of cpp-util/rte_ring.h and rte_ring.c: a bounded queue of      *)
(* pointers with a head and a tail on each side.  A thread claims a batch  *)
(* by moving the head of its side, copies, and moves the tail once every   *)
(* earlier claim has been given back.  Indices are integers modulo Width   *)
(* (2^32 in the code).  The two sides run the same steps, so a step takes  *)
(* the side from the thread.                                               *)
(***************************************************************************)
EXTENDS Integers, Sequences, FiniteSets

CONSTANTS
  RteProducers, RteConsumers,
  RteSize,        \* a power of two; one entry less can be used
  RteWidth,       \* indices wrap here; a power of two
  RteStarts,      \* values of the four indices when the model starts
  Batches,        \* how many objects a call asks for
  WaterMarks,     \* the arguments of rte_ring_set_water_mark
  RteMaxObjects   \* bound: no enqueue begins once so many objects went in

VARIABLES
  sp_enqueue, sc_dequeue,  \* the flags given to rte_ring_create
  head, tail,              \* of each side
  watermark, ring,
  rtePc, call,             \* of each thread: control point and locals
  enqueued,                \* ghost: the objects in the order of their claims
  dequeued                 \* ghost: how many of them have been claimed

flags == <<sp_enqueue, sc_dequeue>>
ghosts == <<enqueued, dequeued>>
vars == <<flags, head, tail, watermark, ring, rtePc, call, ghosts>>

RteThreads == RteProducers \cup RteConsumers
RteSides == {"prod", "cons"}
Side(t) == IF t \in RteProducers THEN "prod" ELSE "cons"
Other(s) == IF s = "prod" THEN "cons" ELSE "prod"

mask == RteSize - 1
NoCall == [max |-> 0, n |-> 0, fixed |-> TRUE, head |-> 0, entries |-> 0,
           objs |-> <<>>, quota |-> FALSE, at |-> 0]

\* The table a producer brings: objects it has not enqueued before.
ObjTable(t, n) ==
  LET sent == Cardinality({i \in 1 .. Len(enqueued) : enqueued[i][1] = t})
  IN  IF t \in RteProducers THEN [i \in 1 .. n |-> <<t, sent + i>>] ELSE <<>>

\* free_entries of a producer, entries of a consumer, both unsigned.
Entries(s, own_head, other_tail) ==
  (IF s = "prod" THEN mask + other_tail - own_head ELSE other_tail - own_head)
    % RteWidth

rte_ring_count == (tail["prod"] - tail["cons"]) % RteSize
rte_ring_free_count == (tail["cons"] - tail["prod"] - 1) % RteSize
rte_ring_full == (tail["cons"] - tail["prod"] - 1) % RteSize = 0
rte_ring_empty == tail["cons"] = tail["prod"]

-----------------------------------------------------------------------------

\* rte_ring_create, and earlier calls that brought the indices to a start.
Init ==
  /\ sp_enqueue \in BOOLEAN /\ sc_dequeue \in BOOLEAN
  /\ \E i \in RteStarts : head = [s \in RteSides |-> i] /\ tail = head
  /\ watermark = RteSize
  /\ ring = [i \in 0 .. mask |-> <<>>]
  /\ rtePc = [t \in RteThreads |-> "idle"]
  /\ call = [t \in RteThreads |-> NoCall]
  /\ enqueued = <<>> /\ dequeued = 0

\* rte_ring_set_water_mark: -EINVAL from the size on; 0 switches it off.
set_water_mark(n) ==
  /\ n < RteSize
  /\ watermark' = IF n = 0 THEN RteSize ELSE n
  /\ UNCHANGED <<flags, head, tail, ring, rtePc, call, ghosts>>

Goto(t, pc, locals) ==
  /\ rtePc' = [rtePc EXCEPT ![t] = pc]
  /\ call' = [call EXCEPT ![t] = locals]

\* A call begins.  On a single-producer or single-consumer ring the callers
\* see to it that no other call of that side is under way.
Begin(t, n, fixed) ==
  /\ rtePc[t] = "idle"
  /\ (IF Side(t) = "prod" THEN sp_enqueue ELSE sc_dequeue)
       => \A u \in RteThreads : Side(u) = Side(t) => rtePc[u] = "idle"
  /\ Goto(t, "head", [NoCall EXCEPT !.max = n, !.fixed = fixed, !.objs = ObjTable(t, n)])
  /\ UNCHANGED <<flags, head, tail, watermark, ring, ghosts>>

enqueue_bulk(p, n) == p \in RteProducers /\ Begin(p, n, TRUE)
enqueue_burst(p, n) == p \in RteProducers /\ Begin(p, n, FALSE)
dequeue_bulk(c, n) == c \in RteConsumers /\ Begin(c, n, TRUE)
dequeue_burst(c, n) == c \in RteConsumers /\ Begin(c, n, FALSE)

\* The first load: the head of the thread's own side.
LoadHead(t) ==
  /\ rtePc[t] = "head"
  /\ Goto(t, "tail", [call[t] EXCEPT !.head = head[Side(t)]])
  /\ UNCHANGED <<flags, head, tail, watermark, ring, ghosts>>

\* A call that would take the last entry is refused too.
BugDecide(t, e) ==
  LET c == call[t]
  IN  IF c.max >= e /\ (c.fixed \/ e = 0)
      THEN Goto(t, "idle", NoCall)
      ELSE Goto(t, "claim", [c EXCEPT !.n = IF c.max > e THEN e ELSE c.max,
                                      !.entries = e])

\* A bulk call with too few entries, or a burst call with none, ends here
\* (-ENOBUFS, -ENOENT, 0); another burst call takes what there is.
Decide(t, e) ==
  LET c == call[t]
  IN  IF c.max > e /\ (c.fixed \/ e = 0)
      THEN Goto(t, "idle", NoCall)
      ELSE Goto(t, "claim", [c EXCEPT !.n = IF c.max > e THEN e ELSE c.max,
                                      !.entries = e])

\* The second load: the tail of the other side.
LoadTail(t) ==
  /\ rtePc[t] = "tail"
  /\ Decide(t, Entries(Side(t), call[t].head, tail[Other(Side(t))]))
  /\ UNCHANGED <<flags, head, tail, watermark, ring, ghosts>>

\* The head moves over the batch.
MoveHead(t) ==
  LET c == call[t]
      sends == Side(t) = "prod"
  IN  /\ head' = [head EXCEPT ![Side(t)] = (c.head + c.n) % RteWidth]
      /\ enqueued' = IF sends THEN enqueued \o SubSeq(c.objs, 1, c.n) ELSE enqueued
      /\ dequeued' = IF sends THEN dequeued ELSE dequeued + c.n
      /\ Goto(t, "copy", [c EXCEPT !.at = IF sends THEN Len(enqueued) ELSE dequeued])
      /\ UNCHANGED <<flags, tail, watermark, ring>>

\* The plain store of a single producer or consumer.
StoreHead(t) == rtePc[t] = "claim" /\ MoveHead(t)

\* After a failed compare-and-set only the head is loaded again.
BugCasHead(t) ==
  /\ rtePc[t] = "claim"
  /\ \/ head[Side(t)] = call[t].head /\ MoveHead(t)
     \/ /\ head[Side(t)] # call[t].head
        /\ Goto(t, "claim", [call[t] EXCEPT !.head = head[Side(t)]])
        /\ UNCHANGED <<flags, head, tail, watermark, ring, ghosts>>

\* The compare-and-set of the others: all over again when it fails.
CasHead(t) ==
  /\ rtePc[t] = "claim"
  /\ \/ head[Side(t)] = call[t].head /\ MoveHead(t)
     \/ /\ head[Side(t)] # call[t].head
        /\ Goto(t, "head", call[t])
        /\ UNCHANGED <<flags, head, tail, watermark, ring, ghosts>>

\* The entries of a batch, around the end of the ring.
Idx(c, i) == (c.head + i - 1) % RteSize

ENQUEUE_PTRS(c) ==
  [j \in 0 .. mask |->
     IF \E i \in 1 .. c.n : Idx(c, i) = j
     THEN c.objs[CHOOSE i \in 1 .. c.n : Idx(c, i) = j]
     ELSE ring[j]]

DEQUEUE_PTRS(c) == [i \in 1 .. c.n |-> ring[Idx(c, i)]]

\* The copy, and a producer's test that decides between 0 and -EDQUOT.
Copy(t) ==
  LET c == call[t]
  IN  /\ rtePc[t] = "copy"
      /\ IF Side(t) = "prod"
         THEN /\ ring' = ENQUEUE_PTRS(c)
              /\ Goto(t, "wait", [c EXCEPT
                   !.quota = (mask + 1 - c.entries + c.n) % RteWidth > watermark])
         ELSE /\ Goto(t, "wait", [c EXCEPT !.objs = DEQUEUE_PTRS(c)])
              /\ UNCHANGED ring
      /\ UNCHANGED <<flags, head, tail, watermark, ghosts>>

\* The tail moves over one entry of the batch.
BugStoreTail(t) ==
  /\ rtePc[t] = "wait"
  /\ tail' = [tail EXCEPT ![Side(t)] = (call[t].head + 1) % RteWidth]
  /\ Goto(t, "idle", NoCall)
  /\ UNCHANGED <<flags, head, watermark, ring, ghosts>>

\* The tail moves over the batch and the call returns.
StoreTail(t) ==
  /\ rtePc[t] = "wait"
  /\ tail' = [tail EXCEPT ![Side(t)] = (call[t].head + call[t].n) % RteWidth]
  /\ Goto(t, "idle", NoCall)
  /\ UNCHANGED <<flags, head, watermark, ring, ghosts>>

\* With several producers or consumers, the earlier claims come first.
AwaitTail(t) == tail[Side(t)] = call[t].head /\ StoreTail(t)

mp_do_enqueue(p) ==
  /\ p \in RteProducers /\ ~sp_enqueue
  /\ LoadHead(p) \/ LoadTail(p) \/ CasHead(p) \/ Copy(p) \/ AwaitTail(p)

sp_do_enqueue(p) ==
  /\ p \in RteProducers /\ sp_enqueue
  /\ LoadHead(p) \/ LoadTail(p) \/ StoreHead(p) \/ Copy(p) \/ StoreTail(p)

mc_do_dequeue(t) ==
  /\ t \in RteConsumers /\ ~sc_dequeue
  /\ LoadHead(t) \/ LoadTail(t) \/ CasHead(t) \/ Copy(t) \/ AwaitTail(t)

sc_do_dequeue(t) ==
  /\ t \in RteConsumers /\ sc_dequeue
  /\ LoadHead(t) \/ LoadTail(t) \/ StoreHead(t) \/ Copy(t) \/ StoreTail(t)

Step(t) == mp_do_enqueue(t) \/ sp_do_enqueue(t) \/ mc_do_dequeue(t) \/ sc_do_dequeue(t)

Next ==
  \/ \E t \in RteThreads : Step(t)
  \/ \E n \in WaterMarks : set_water_mark(n)
  \/ \E n \in Batches, p \in RteProducers :
       /\ Len(enqueued) < RteMaxObjects
       /\ enqueue_bulk(p, n) \/ enqueue_burst(p, n)
  \/ \E n \in Batches, c \in RteConsumers : dequeue_bulk(c, n) \/ dequeue_burst(c, n)

Spec == Init /\ [][Next]_vars

-----------------------------------------------------------------------------
(* Properties.                                                             *)

TypeOK ==
  /\ head \in [RteSides -> 0 .. RteWidth - 1]
  /\ tail \in [RteSides -> 0 .. RteWidth - 1]
  /\ watermark \in 1 .. RteSize
  /\ DOMAIN ring = 0 .. mask
  /\ rtePc \in [RteThreads -> {"idle", "head", "tail", "claim", "copy", "wait"}]

Claims(t) == IF rtePc[t] \in {"copy", "wait"}
             THEN {Idx(call[t], i) : i \in 1 .. call[t].n} ELSE {}

(* Two calls never hold the same entry, a consumer gets exactly the        *)
(* objects that were enqueued at the places it claimed, in order, although *)
(* the two loads that its batch was computed from are not atomic, and with *)
(* no call under way count, free_count, full and empty tell what is queued.*)
BatchesIntact ==
  /\ TypeOK
  /\ \A t, u \in RteThreads : t # u => Claims(t) \cap Claims(u) = {}
  /\ \A c \in RteConsumers : rtePc[c] = "wait" =>
       call[c].objs = SubSeq(enqueued, call[c].at + 1, call[c].at + call[c].n)
  /\ (\A t \in RteThreads : rtePc[t] = "idle") =>
       /\ rte_ring_count = Len(enqueued) - dequeued
       /\ rte_ring_free_count = mask - rte_ring_count
       /\ rte_ring_full = (rte_ring_count = mask)
       /\ rte_ring_empty = (rte_ring_count = 0)

(* A call is refused only when the ring, at that moment, could not serve   *)
(* it: the head that the decision rests on may be old, but an old head     *)
(* makes the ring look emptier to a producer and fuller to a consumer.     *)
RefusalIsRight ==
  \A t \in RteThreads :
    rtePc[t] = "tail" /\ rtePc'[t] = "idle" =>
      call[t].max > Entries(Side(t), head[Side(t)], tail[Other(Side(t))])
RefusedRightly == [][RefusalIsRight]_vars

(* A claimed batch is always published: the wait for the earlier claims    *)
(* ends, because whoever has claimed needs nobody behind it to go on.      *)
HasClaimed(t) == rtePc[t] \in {"copy", "wait"}
ClaimsArePublished == \A t \in RteThreads : HasClaimed(t) ~> ~ HasClaimed(t)
=============================================================================
