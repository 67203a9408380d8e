--------------------------- MODULE ConcurrentQueue --------------------------
(***************************************************************************)
(* The queue of cpp-util/concurrentqueue.h.  Every producer has a          *)
(* sub-queue of its own, made of blocks: an explicit producer (a token)    *)
(* keeps its blocks in a ring and reuses the next one once it is empty, an *)
(* implicit producer gives an empty block back to the pool.  Consumers     *)
(* reserve elements by counting first and asking afterwards, then find the *)
(* block through an index that the producer may replace meanwhile.         *)
(* The element at index i of producer p is <<p, i>>.  The free list of     *)
(* blocks is a set here; module FreeList has its steps.                    *)
(***************************************************************************)
EXTENDS Integers, FiniteSets, Sequences, SequencesExt

CONSTANTS
  Explicit, Implicit,       \* producers
  ProducerLists,            \* the producers a queue has, newest first
  QueueConsumers,
  BLOCK_SIZE, IndexWidth,   \* indices are integers modulo IndexWidth
  QueueBlocks, PoolSize,    \* block numbers; the first PoolSize are the pool
  INITIAL_INDEX_SIZE,       \* of the block index of either kind
  MAX_SUBQUEUE_SIZE,
  Modes, BulkModes,         \* of each producer: "CanAlloc", "CannotAlloc" or both
  Counts,                   \* sizes of bulk calls
  MaxWaiting,               \* bound: elements of a sub-queue at a time
  CallsOf,                  \* which calls each consumer makes
  MaxCounted,               \* bound: of dequeueOptimisticCount
  MaxEnqueued,              \* bound: elements in all, by the number of producers
  QUOTA,                    \* items a token consumes before all rotate
  Throwing,                 \* producers of elements whose constructor may throw
  NULL

VARIABLES
  producerList,  \* from producerListTail on
  prod,          \* of each producer: the ProducerBase fields
  block,         \* of each block: its slots, emptiness and next
  initialBlockPoolIndex, freeList, heap,   \* the pool; heap: blocks of create<Block>
  headers,       \* explicit: the block indexes made so far; the last is current
  pr,            \* explicit: pr_blockIndexSlotsUsed and pr_blockIndexFront
  entry,         \* implicit: the index entries that headers point to
  ptask, ctask,  \* the call under way of each producer and consumer
  token, globalExplicitConsumerOffset

pool == <<initialBlockPoolIndex, freeList, heap>>
indexes == <<headers, pr, entry>>
rotation == <<producerList, token, globalExplicitConsumerOffset>>
vars == <<prod, block, pool, indexes, ptask, ctask, rotation>>

QueueProducers == Explicit \cup Implicit
Listed == Range(producerList)
Add(a, b) == (a + b) % IndexWidth
Sub(a, b) == (a - b) % IndexWidth
circular_less_than(a, b) == Sub(a, b) > IndexWidth \div 2
Base(i) == i - (i % BLOCK_SIZE)
Off(i) == i % BLOCK_SIZE
Offs == 0 .. BLOCK_SIZE - 1
\* Whole blocks from base b to base a, negative when a is behind b.
BlocksBetween(a, b) ==
  IF circular_less_than(a, b) THEN 0 - (Sub(b, a) \div BLOCK_SIZE)
                              ELSE Sub(a, b) \div BLOCK_SIZE
Header(p) == Last(headers[p])

NoTask == [at |-> "idle", n |-> 0, mode |-> "CanAlloc", start |-> NULL, first |-> NULL,
           front |-> 0, used |-> 0, cur |-> 0, need |-> 0]
NoCall == [at |-> "idle", todo |-> <<>>, bulk |-> FALSE, max |-> 0, over |-> 0,
           want |-> 0, my |-> 0, have |-> 0, index |-> 0, hdr |-> 0, slot |-> 0,
           best |-> NULL, size |-> 0, tok |-> FALSE]
NoToken == [desired |-> NULL, current |-> NULL, consumed |-> 0, known |-> 0]

Init ==
  /\ producerList \in ProducerLists
  /\ prod = [p \in QueueProducers |-> [tailIndex |-> 0, headIndex |-> 0,
               dequeueOptimisticCount |-> 0, dequeueOvercommit |-> 0, tailBlock |-> NULL]]
  /\ block = [b \in QueueBlocks |-> [slots |-> [o \in Offs |-> NULL], empty |-> {},
                                     dequeued |-> 0, next |-> NULL]]
  /\ initialBlockPoolIndex = 0 /\ freeList = {} /\ heap = {}
  /\ headers = [p \in QueueProducers |-> IF p \in Explicit
       THEN << [size |-> INITIAL_INDEX_SIZE, front |-> INITIAL_INDEX_SIZE - 1, entries |->
                 [i \in 0 .. INITIAL_INDEX_SIZE - 1 |-> [base |-> 0, block |-> NULL]]] >>
       ELSE << [capacity |-> INITIAL_INDEX_SIZE, tail |-> INITIAL_INDEX_SIZE - 1,
                index |-> [i \in 0 .. INITIAL_INDEX_SIZE - 1 |-> i]] >>]
  /\ pr = [p \in Explicit |-> [used |-> 0, front |-> 0]]
  /\ entry = [p \in Implicit |->
                [i \in 0 .. INITIAL_INDEX_SIZE - 1 |-> [key |-> 1, value |-> NULL]]]
  /\ ptask = [p \in QueueProducers |-> NoTask]
  /\ ctask = [c \in QueueConsumers |-> NoCall]
  /\ token = [c \in QueueConsumers |-> NoToken] /\ globalExplicitConsumerOffset = 0

-----------------------------------------------------------------------------
(* Blocks and their pool. *)

is_empty(b) == block[b].empty = Offs
reset_empty(bs, b) == [bs EXCEPT ![b].empty = {}, ![b].dequeued = 0]
set_all_empty(bs, b) == [bs EXCEPT ![b].empty = Offs]

\* set_many_empty: flags for an explicit producer, a count for an implicit
\* one, which tells the caller that emptied the block.
set_many_empty(p, bs, b, offs) ==
  IF p \in Explicit THEN [bs EXCEPT ![b].empty = @ \cup offs]
  ELSE [bs EXCEPT ![b].dequeued = @ + Cardinality(offs)]

\* requisition_block: the initial pool, then the free list, then the heap;
\* {} for nullptr.  malloc fails when no block number is left.
requisition_block(mode) ==
  LET unused == {b \in QueueBlocks : b > PoolSize} \ heap
  IN  IF initialBlockPoolIndex < PoolSize THEN {initialBlockPoolIndex + 1}
      ELSE IF freeList # {} THEN freeList
      ELSE IF mode = "CanAlloc" /\ unused # {}
           THEN {CHOOSE b \in unused : \A x \in unused : b <= x} ELSE {}
TakeBlock(b) ==
  /\ initialBlockPoolIndex' = IF initialBlockPoolIndex < PoolSize
                              THEN initialBlockPoolIndex + 1 ELSE initialBlockPoolIndex
  /\ freeList' = freeList \ {b}
  /\ heap' = IF b > PoolSize THEN heap \cup {b} ELSE heap

\* add_block(s)_to_free_list: what came from the heap goes back there.
GiveBack(bs) ==
  /\ freeList' = freeList \cup {b \in bs : b <= PoolSize}
  /\ heap' = heap \ bs
  /\ UNCHANGED initialBlockPoolIndex

\* Whether a block starting at index i would surpass the head or the limit.
Full(p, i) ==
  \/ ~ circular_less_than(prod[p].headIndex, Add(i, BLOCK_SIZE))
  \/ MAX_SUBQUEUE_SIZE - BLOCK_SIZE < Sub(i, prod[p].headIndex)

-----------------------------------------------------------------------------
(* Producers.  A call is made of n elements; one is enqueue, more is bulk. *)

Work(p, rec) == ptask' = [ptask EXCEPT ![p] = rec]
Fail(p) == Work(p, NoTask)

Enqueued == FoldSet(LAMBDA p, n : prod[p].tailIndex + n, 0, QueueProducers)

\* enqueue, try_enqueue and the bulk forms: how many blocks will be needed?
BeginEnqueue(p, n, bulk, mode) ==
  LET t == prod[p].tailIndex
      need == Sub(Base(Sub(Add(t, n), 1)), Base(Sub(t, 1))) \div BLOCK_SIZE
  IN  /\ ptask[p].at = "idle"
      /\ Sub(Add(t, n), prod[p].headIndex) <= MaxWaiting /\ Enqueued + n <= MaxEnqueued[Len(producerList)]
      /\ Work(p, [NoTask EXCEPT !.at = IF need = 0 THEN "fill"
                                       ELSE IF ~ bulk THEN "block"
                                       ELSE IF p \in Explicit THEN "ahead" ELSE "blocks",
                                !.n = n, !.mode = mode, !.need = need,
                                !.start = prod[p].tailBlock,
                                !.front = IF p \in Explicit THEN pr[p].front ELSE 0,
                                !.used = IF p \in Explicit THEN pr[p].used ELSE 0,
                                !.cur = Base(Sub(t, 1))])
      /\ UNCHANGED <<prod, block, pool, indexes, ctask, rotation>>

enqueue(p) == BeginEnqueue(p, 1, FALSE, "CanAlloc")
try_enqueue(p) == BeginEnqueue(p, 1, FALSE, "CannotAlloc")
enqueue_bulk(p, n) == BeginEnqueue(p, n, TRUE, "CanAlloc")
try_enqueue_bulk(p, n) == BeginEnqueue(p, n, TRUE, "CannotAlloc")

\* ExplicitProducer::new_block_index: twice the slots, the used ones first.
new_block_index(p, exposed) ==
  LET h == Header(p)
      from == (pr[p].front - pr[p].used) % h.size
      size == 2 * h.size
  IN  [headers EXCEPT ![p] = Append(@,
         [size |-> size, front |-> (exposed - 1) % size,
          entries |-> [i \in 0 .. size - 1 |->
             IF i < pr[p].used THEN h.entries[(from + i) % h.size]
             ELSE [base |-> 0, block |-> NULL]]])]

\* The new block after the tail block, or alone in the ring.
LinkBlock(bs, tail, b) ==
  IF tail = NULL THEN [bs EXCEPT ![b].next = b]
  ELSE [bs EXCEPT ![b].next = bs[tail].next, ![tail].next = b]

\* ExplicitProducer::enqueue at the end of a block: the next block of the
\* ring when it is empty, ...
ReuseNext(p) ==
  LET b == block[prod[p].tailBlock].next
  IN  /\ p \in Explicit /\ ptask[p].at = "block"
      /\ prod[p].tailBlock # NULL /\ is_empty(b)
      /\ block' = reset_empty(block, b)
      /\ prod' = [prod EXCEPT ![p].tailBlock = b]
      /\ Work(p, [ptask[p] EXCEPT !.at = "publish", !.first = b])
      /\ UNCHANGED <<pool, indexes, ctask, rotation>>

\* ... or else a new one, with a new block index when that is full.
NewBlock(p) ==
  LET t == prod[p].tailBlock
      k == ptask[p]
      noRoom == pr[p].used = Header(p).size
      front == IF noRoom THEN pr[p].used ELSE pr[p].front
  IN  /\ p \in Explicit /\ k.at = "block"
      /\ t # NULL => ~ is_empty(block[t].next)
      /\ IF Full(p, prod[p].tailIndex) \/ (noRoom /\ k.mode = "CannotAlloc")
         THEN Fail(p) /\ UNCHANGED <<prod, block, pool, headers, pr>>
         ELSE /\ headers' = IF noRoom THEN new_block_index(p, pr[p].used) ELSE headers
              /\ \/ /\ requisition_block(k.mode) = {}
                    /\ pr' = [pr EXCEPT ![p].front = front]
                    /\ Fail(p) /\ UNCHANGED <<prod, block, pool>>
                 \/ \E b \in requisition_block(k.mode) :
                      /\ TakeBlock(b)
                      /\ pr' = [pr EXCEPT ![p].front = front, ![p].used = @ + 1]
                      /\ block' = LinkBlock(reset_empty(block, b), t, b)
                      /\ prod' = [prod EXCEPT ![p].tailBlock = b]
                      /\ Work(p, [k EXCEPT !.at = "publish", !.first = b])
      /\ UNCHANGED <<entry, ctask, rotation>>

\* ExplicitProducer::enqueue_bulk, block by block: empty ones ahead first.
\* Each goes into the index at once.
TakeIn(p, b, hs, x, k) ==
  /\ headers' = [hs EXCEPT ![p][Len(hs[p])].entries[x.front] =
                   [base |-> Add(k.cur, BLOCK_SIZE), block |-> b]]
  /\ pr' = [pr EXCEPT ![p] = [x EXCEPT !.front = (@ + 1) % Last(hs[p]).size]]
  /\ prod' = [prod EXCEPT ![p].tailBlock = b]
  /\ Work(p, [k EXCEPT !.cur = Add(@, BLOCK_SIZE), !.need = @ - 1,
                       !.at = IF k.need = 1 THEN "reset" ELSE @,
                       !.first = IF @ = NULL THEN b ELSE @])

Ahead(p) ==
  LET t == prod[p].tailBlock
      b == block[t].next
      k == ptask[p]
  IN  /\ k.at = "ahead"
      /\ IF t # NULL /\ b # k.first /\ is_empty(b)
         THEN TakeIn(p, b, headers, pr[p], k)
         ELSE Work(p, [k EXCEPT !.at = "pool"]) /\ UNCHANGED <<prod, headers, pr>>
      /\ UNCHANGED <<block, pool, entry, ctask, rotation>>

\* Undo: the front and the slots used go back, the blocks stay in the ring.
Undo(p, front) ==
  /\ pr' = [pr EXCEPT ![p] = [used |-> ptask[p].used, front |-> front]]
  /\ prod' = [prod EXCEPT ![p].tailBlock =
                IF ptask[p].start = NULL THEN ptask[p].first ELSE ptask[p].start]
  /\ Fail(p)

\* Then blocks of the pool, kept empty until all of them are there.
Pool(p) ==
  LET t == prod[p].tailBlock
      k == ptask[p]
      noRoom == pr[p].used = Header(p).size
      \* new_block_index moves the front, and the value to go back to.
      front == IF noRoom THEN k.used ELSE k.front
  IN  /\ k.at = "pool"
      /\ IF Full(p, Add(k.cur, BLOCK_SIZE)) \/ (noRoom /\ k.mode = "CannotAlloc")
         THEN Undo(p, k.front) /\ UNCHANGED <<block, pool, headers>>
         ELSE LET hs == IF noRoom THEN new_block_index(p, k.used) ELSE headers
                  x == [used |-> pr[p].used,
                        front |-> IF noRoom THEN pr[p].used ELSE pr[p].front]
              IN  \/ /\ requisition_block(k.mode) = {}
                     /\ Undo(p, front) /\ headers' = hs /\ UNCHANGED <<block, pool>>
                  \/ \E b \in requisition_block(k.mode) :
                       /\ TakeBlock(b)
                       /\ block' = LinkBlock(set_all_empty(block, b), t, b)
                       /\ TakeIn(p, b, hs, [x EXCEPT !.used = @ + 1],
                                 [k EXCEPT !.front = front])
      /\ UNCHANGED <<entry, ctask, rotation>>

\* The blocks from b to the tail block t.
RECURSIVE Chain(_, _)
Chain(b, t) == IF b = t THEN <<b>> ELSE <<b>> \o Chain(block[b].next, t)

\* All are there: none of them is empty from here on.
ResetTaken(p) ==
  /\ p \in Explicit /\ ptask[p].at = "reset"
  /\ block' = LET taken == Range(Chain(ptask[p].first, prod[p].tailBlock))
              IN  [b \in QueueBlocks |-> IF b \in taken THEN [block[b] EXCEPT !.empty = {}]
                                         ELSE block[b]]
  /\ Work(p, [ptask[p] EXCEPT !.at = "front"])
  /\ UNCHANGED <<prod, pool, indexes, ctask, rotation>>

\* Consumers are shown the new front; a single enqueue fills its slot first.
Publish(p) ==
  LET h == Len(headers[p])
      x == pr[p]
      single == ptask[p].at = "publish"
      now == IF single THEN x.front ELSE (x.front - 1) % Header(p).size
  IN  /\ p \in Explicit /\ ptask[p].at \in {"publish", "front"}
      /\ headers' = [headers EXCEPT ![p][h].front = now, ![p][h].entries[now] =
           IF single THEN [base |-> prod[p].tailIndex, block |-> prod[p].tailBlock] ELSE @]
      /\ pr' = [pr EXCEPT ![p].front = IF single THEN (x.front + 1) % Header(p).size ELSE @]
      /\ Work(p, [ptask[p] EXCEPT !.at = "fill"])
      /\ UNCHANGED <<prod, block, pool, entry, ctask, rotation>>

\* An element's constructor throws: as for a failed allocation.
Throw(p) ==
  /\ p \in Throwing \cap Explicit /\ ptask[p].at \in {"publish", "front"}
  /\ Undo(p, IF ptask[p].at = "publish" THEN pr[p].front ELSE ptask[p].front)
  /\ UNCHANGED <<block, pool, headers, entry, ctask, rotation>>

-----------------------------------------------------------------------------
(* Implicit producers. *)

\* ImplicitProducer::new_block_index: the old entries from the oldest on,
\* then as many fresh ones.
new_implicit_index(p) ==
  LET h == Header(p)
      ids == Cardinality(DOMAIN entry[p])
  IN  [capacity |-> 2 * h.capacity, tail |-> h.capacity - 1,
       index |-> [i \in 0 .. 2 * h.capacity - 1 |->
                    IF i < h.capacity THEN h.index[(h.tail + 1 + i) % h.capacity]
                    ELSE ids + i - h.capacity]]

\* insert_block_index_entry: the slot after the tail, when nothing is there.
insert_block_index_entry(p, i) ==
  LET h == Header(p)
      slot == h.index[(h.tail + 1) % h.capacity]
      free == entry[p][slot].key = 1 \/ entry[p][slot].value = NULL
      g == IF free THEN h ELSE new_implicit_index(p)
      at == (g.tail + 1) % g.capacity
      fresh == [key |-> 1, value |-> NULL]
  IN  /\ headers' = [headers EXCEPT ![p] =
                       (IF free THEN Front(@) ELSE @) \o << [g EXCEPT !.tail = at] >>]
      /\ entry' = [entry EXCEPT ![p] =
           [e \in DOMAIN @ \cup {g.index[j] : j \in DOMAIN g.index} |->
              IF e = g.index[at]
              THEN [key |-> i, value |-> IF e \in DOMAIN @ THEN @[e].value ELSE NULL]
              ELSE IF e \in DOMAIN @ THEN @[e] ELSE fresh]]

\* Rewind the index by n entries, the values of the last n set to NULL.
rewind_block_index_tail(p, n) ==
  LET h == Header(p)
      dropped == {h.index[(h.tail - j) % h.capacity] : j \in 0 .. n - 1}
  IN  /\ headers' = [headers EXCEPT ![p][Len(headers[p])].tail = (@ - n) % h.capacity]
      /\ entry' = [entry EXCEPT ![p] =
           [e \in DOMAIN @ |-> IF e \in dropped THEN [@[e] EXCEPT !.value = NULL] ELSE @[e]]]

\* The blocks a call of p has taken so far.
Taken(p) ==
  IF ptask[p].first = NULL THEN {} ELSE Range(Chain(ptask[p].first, prod[p].tailBlock))

\* Give up a call: its blocks go back, and so does the tail block.
Revert(p, extra) ==
  /\ rewind_block_index_tail(p, Cardinality(Taken(p)) + extra)
  /\ GiveBack(Taken(p))
  /\ prod' = [prod EXCEPT ![p].tailBlock = ptask[p].start]
  /\ Fail(p)

\* ImplicitProducer::enqueue and enqueue_bulk: first the index entry, ...
InsertEntry(p) ==
  LET k == ptask[p]
      i == Add(k.cur, BLOCK_SIZE)
      h == Header(p)
      last == entry[p][h.index[(h.tail + 1) % h.capacity]]
  IN  /\ p \in Implicit /\ k.at \in {"block", "blocks"}
      /\ IF Full(p, i) \/ (last.key # 1 /\ last.value # NULL /\ k.mode = "CannotAlloc")
         THEN Revert(p, 0)
         ELSE /\ insert_block_index_entry(p, i)
              /\ Work(p, [k EXCEPT !.at = "request", !.cur = i])
              /\ UNCHANGED <<prod, pool>>
      /\ UNCHANGED <<block, pr, ctask, rotation>>

\* ... then the block.
RequestBlock(p) ==
  LET k == ptask[p]
      t == prod[p].tailBlock
      chained == k.first # NULL \/ Off(prod[p].tailIndex) # 0
      h == Header(p)
  IN  /\ p \in Implicit /\ k.at = "request"
      /\ \/ requisition_block(k.mode) = {} /\ Revert(p, 1) /\ UNCHANGED block
         \/ \E b \in requisition_block(k.mode) :
              /\ TakeBlock(b)
              /\ block' = LET bs == [reset_empty(block, b) EXCEPT ![b].next = NULL]
                          IN  IF chained THEN [bs EXCEPT ![t].next = b] ELSE bs
              /\ entry' = [entry EXCEPT ![p][h.index[h.tail]].value = b]
              /\ prod' = [prod EXCEPT ![p].tailBlock = b]
              /\ Work(p, [k EXCEPT !.need = @ - 1, !.first = IF @ = NULL THEN b ELSE @,
                                   !.at = IF k.need = 1 THEN "fill" ELSE "blocks"])
              /\ UNCHANGED headers
      /\ UNCHANGED <<pr, ctask, rotation>>

ThrowImplicit(p) ==
  /\ p \in Throwing \cap Implicit /\ ptask[p].at = "fill" /\ ptask[p].first # NULL
  /\ Revert(p, 0)
  /\ UNCHANGED <<block, pr, ctask, rotation>>

\* Construct the elements and move the tail over them.
Fill(p) ==
  LET k == ptask[p]
      t == prod[p].tailIndex
      into == Chain(IF Off(t) = 0 THEN k.first ELSE k.start, prod[p].tailBlock)
      at(b, o) == {j \in 0 .. k.n - 1 : into[1 + (Off(t) + j) \div BLOCK_SIZE] = b
                                        /\ Off(t + j) = o}
  IN  /\ k.at = "fill"
      /\ block' = [b \in QueueBlocks |-> [block[b] EXCEPT !.slots = [o \in Offs |->
                     IF at(b, o) = {} THEN @[o]
                     ELSE <<p, Add(t, CHOOSE j \in at(b, o) : TRUE)>>]]]
      /\ prod' = [prod EXCEPT ![p].tailIndex = Add(t, k.n)]
      /\ Work(p, NoTask)
      /\ UNCHANGED <<pool, indexes, ctask, rotation>>

-----------------------------------------------------------------------------
(* Consumers: a call has a list of producers to try. *)

Run(c, rec) == ctask' = [ctask EXCEPT ![c] = rec]
size_approx(p) ==
  IF circular_less_than(prod[p].headIndex, prod[p].tailIndex)
  THEN Sub(prod[p].tailIndex, prod[p].headIndex) ELSE 0

\* The producers from p on, around the list.
From(p) ==
  LET i == CHOOSE j \in DOMAIN producerList : producerList[j] = p
  IN  SubSeq(producerList, i, Len(producerList)) \o SubSeq(producerList, 1, i - 1)

Begin(c, todo, tok, bulk, max) ==
  /\ ctask[c].at = "idle"
  /\ Run(c, [NoCall EXCEPT !.at = "load", !.todo = todo,
                    !.tok = tok, !.bulk = bulk, !.max = max])
  /\ UNCHANGED <<prod, block, pool, indexes, ptask>>

try_dequeue_non_interleaved(c) == Begin(c, producerList, FALSE, FALSE, 1) /\ UNCHANGED rotation
try_dequeue_bulk(c, n) == Begin(c, producerList, FALSE, TRUE, n) /\ UNCHANGED rotation
try_dequeue_from_producer(c, p) == Begin(c, <<p>>, FALSE, FALSE, 1) /\ UNCHANGED rotation
try_dequeue_bulk_from_producer(c, p, n) == Begin(c, <<p>>, FALSE, TRUE, n) /\ UNCHANGED rotation

\* try_dequeue looks at the sizes of the producers, one after another, ...
try_dequeue(c) ==
  /\ ctask[c].at = "idle"
  /\ Run(c, [NoCall EXCEPT !.at = "scan", !.todo = producerList])
  /\ UNCHANGED <<prod, block, pool, indexes, ptask, rotation>>

\* ... and tries the largest first; have counts those that were not empty.
Scan(c) ==
  LET k == ctask[c]
      s == size_approx(Head(k.todo))
  IN  /\ k.at = "scan"
      /\ Run(c, IF k.have < 3 /\ k.todo # <<>>
                THEN [k EXCEPT !.todo = Tail(@), !.have = IF s > 0 THEN @ + 1 ELSE @,
                               !.best = IF s > k.size THEN Head(k.todo) ELSE @,
                               !.size = IF s > @ THEN s ELSE @]
                ELSE IF k.have = 0 THEN NoCall
                ELSE [NoCall EXCEPT !.at = "load", !.max = 1, !.todo =
                        <<k.best>> \o SelectSeq(producerList, LAMBDA p : p # k.best)])
      /\ UNCHANGED <<prod, block, pool, indexes, ptask, rotation>>

\* update_current_producer_after_rotation: where the token should be now.
\* A new token starts at producer initialOffset, counted from the oldest.
update_current_producer_after_rotation(c, initialOffset) ==
  LET count == Len(producerList)
      k == token[c]
      first == k.desired = NULL
      steps(p, n) == From(p)[1 + (n % count)]
      home == IF first THEN steps(producerList[1], count - 1 - (initialOffset % count))
              ELSE k.desired
      \* lastKnownGlobalOffset of a new token is -1
      delta == IF first THEN globalExplicitConsumerOffset + 1
               ELSE (globalExplicitConsumerOffset - k.known) % IndexWidth
  IN  [desired |-> steps(home, delta), current |-> steps(home, delta), consumed |-> 0,
       known |-> globalExplicitConsumerOffset]

TokenNow(c, initialOffset) ==
  IF token[c].desired = NULL \/ token[c].known # globalExplicitConsumerOffset
  THEN update_current_producer_after_rotation(c, initialOffset) ELSE token[c]

\* try_dequeue and try_dequeue_bulk with a token: its producer, then the
\* others around the list.
try_dequeue_token(c, initialOffset, bulk, n) ==
  LET k == TokenNow(c, initialOffset)
  IN  /\ Begin(c, From(k.current), TRUE, bulk, n)
      /\ token' = [token EXCEPT ![c] = k]
      /\ UNCHANGED <<producerList, globalExplicitConsumerOffset>>

\* A token remembers where its items came from; the one that reaches the
\* quota on its own producer makes every token rotate.
Consumed(c, p, n) ==
  IF ~ ctask[c].tok \/ n = 0 THEN UNCHANGED rotation
  ELSE LET k == token[c]
           own == p = k.current
           total == k.consumed + n
       IN  /\ token' = [token EXCEPT ![c].current = p,
                                     ![c].consumed = IF own THEN total ELSE n]
           /\ globalExplicitConsumerOffset' =
                IF own /\ n = ctask[c].max
                   /\ (IF ctask[c].bulk THEN total >= QUOTA ELSE total = QUOTA)
                THEN (globalExplicitConsumerOffset + 1) % IndexWidth
                ELSE globalExplicitConsumerOffset
           /\ UNCHANGED producerList

\* The producer at hand gave n elements; go on while more are wanted.  With
\* a token the round starts anew at the producer that gave something.
Finish(c, n) ==
  LET k == ctask[c]
      rest == Tail(IF k.tok /\ n > 0 THEN From(Head(k.todo)) ELSE k.todo)
  IN  /\ Consumed(c, Head(k.todo), n)
      /\ Run(c, IF n = k.max \/ rest = <<>> THEN NoCall
                ELSE [NoCall EXCEPT !.at = "load", !.todo = rest,
                                    !.tok = k.tok, !.bulk = k.bulk,
                                    !.max = k.max - n])

\* dequeue and dequeue_bulk of a producer.  The loads, and the question
\* whether there might be something.
Load(c) ==
  LET k == ctask[c]
      x == prod[Head(k.todo)]
      want == Sub(x.tailIndex, Sub(x.dequeueOptimisticCount, x.dequeueOvercommit))
  IN  /\ k.at = "load"
      /\ IF circular_less_than(0, want)
         THEN /\ Run(c, [k EXCEPT !.at = "count", !.over = x.dequeueOvercommit,
                                  !.want = IF want < k.max THEN want ELSE k.max])
              /\ UNCHANGED rotation
         ELSE Finish(c, 0)
      /\ UNCHANGED <<prod, block, pool, indexes, ptask>>

\* Count first ...
Count(c) ==
  LET k == ctask[c]
      p == Head(k.todo)
  IN  /\ k.at = "count"
      /\ prod[p].dequeueOptimisticCount + k.want <= MaxCounted
      /\ prod' = [prod EXCEPT ![p].dequeueOptimisticCount = Add(@, k.want)]
      /\ Run(c, [k EXCEPT !.at = "tail", !.my = prod[p].dequeueOptimisticCount])
      /\ UNCHANGED <<block, pool, indexes, ptask, rotation>>

\* ... then ask how much of it there really is.
BugReload(c) ==
  LET k == ctask[c]
      there == Sub(prod[Head(k.todo)].tailIndex, Sub(k.my, k.over))
  IN  /\ k.at = "tail"
      /\ Run(c, [k EXCEPT !.have = IF ~ circular_less_than(0, there) THEN 0 ELSE k.want,
                          !.at = IF circular_less_than(0, there) THEN "head" ELSE "over"])
      /\ UNCHANGED <<prod, block, pool, indexes, ptask, rotation>>

Reload(c) ==
  LET k == ctask[c]
      there == Sub(prod[Head(k.todo)].tailIndex, Sub(k.my, k.over))
      have == IF ~ circular_less_than(0, there) THEN 0
              ELSE IF k.want < there THEN k.want ELSE there
  IN  /\ k.at = "tail"
      /\ Run(c, [k EXCEPT !.have = have, !.at = IF have < k.want THEN "over" ELSE "head"])
      /\ UNCHANGED <<prod, block, pool, indexes, ptask, rotation>>

\* What was counted too much goes to the overcommit.
Overcommit(c) ==
  LET k == ctask[c]
      p == Head(k.todo)
  IN  /\ k.at = "over"
      /\ prod' = [prod EXCEPT ![p].dequeueOvercommit = Add(@, k.want - k.have)]
      /\ IF k.have = 0 THEN Finish(c, 0)
         ELSE Run(c, [k EXCEPT !.at = "head"]) /\ UNCHANGED rotation
      /\ UNCHANGED <<block, pool, indexes, ptask>>

\* The elements are there: which ones they are.
Reserve(c) ==
  LET k == ctask[c]
      p == Head(k.todo)
  IN  /\ k.at = "head"
      /\ prod' = [prod EXCEPT ![p].headIndex = Add(@, k.have)]
      /\ Run(c, [k EXCEPT !.at = "index", !.index = prod[p].headIndex, !.want = k.have])
      /\ UNCHANGED <<block, pool, indexes, ptask, rotation>>

\* The block index that is current now, ...
LoadIndex(c) ==
  LET k == ctask[c]
  IN  /\ k.at = "index"
      /\ Run(c, [k EXCEPT !.at = "front", !.hdr = Len(headers[Head(k.todo)])])
      /\ UNCHANGED <<prod, block, pool, indexes, ptask, rotation>>

\* ... and the slot in it, by its distance from the newest.
SlotIn(p, h, i) ==
  IF p \in Explicit
  THEN (h.front + BlocksBetween(Base(i), h.entries[h.front].base)) % h.size
  ELSE (h.tail + BlocksBetween(Base(i), entry[p][h.index[h.tail]].key)) % h.capacity

LoadFront(c) ==
  LET k == ctask[c]
      p == Head(k.todo)
  IN  /\ k.at = "front"
      /\ Run(c, [k EXCEPT !.at = "take", !.slot = SlotIn(p, headers[p][k.hdr], k.index)])
      /\ UNCHANGED <<prod, block, pool, indexes, ptask, rotation>>

\* The block a consumer finds in its slot, and the elements it takes there.
BlockOf(c) ==
  LET k == ctask[c]
      p == Head(k.todo)
      h == headers[p][k.hdr]
  IN  IF p \in Explicit THEN h.entries[k.slot].block ELSE entry[p][h.index[k.slot]].value
Here(c) ==
  LET k == ctask[c]
      room == BLOCK_SIZE - Off(k.index)
  IN  IF k.have < room THEN k.have ELSE room

\* The next slot of the index, or the end when no element is left to take.
NextSlot(c, k) ==
  LET h == headers[Head(k.todo)][k.hdr]
      size == IF Head(k.todo) \in Explicit THEN h.size ELSE h.capacity
  IN  IF k.have = 0 THEN Finish(c, k.want)
      ELSE Run(c, [k EXCEPT !.at = "take", !.slot = (@ + 1) % size]) /\ UNCHANGED rotation

\* Move the elements of one block out and mark their slots empty; who
\* empties a block of an implicit producer has to release it.
Take(c) ==
  LET k == ctask[c]
      p == Head(k.todo)
      b == BlockOf(c)
      offs == {Off(k.index + j) : j \in 0 .. Here(c) - 1}
      bs == [block EXCEPT ![b].slots = [o \in Offs |-> IF o \in offs THEN NULL ELSE @[o]]]
      emptied == p \in Implicit /\ block[b].dequeued + Here(c) = BLOCK_SIZE
      rest == [k EXCEPT !.index = Add(@, Here(c)), !.have = @ - Here(c)]
  IN  /\ k.at = "take"
      /\ block' = set_many_empty(p, bs, b, offs)
      /\ IF emptied THEN Run(c, [rest EXCEPT !.at = "release"]) /\ UNCHANGED rotation
         ELSE NextSlot(c, rest)
      /\ UNCHANGED <<prod, pool, indexes, ptask>>

\* The entry is free for the producer, the block for everyone.
Release(c) ==
  LET k == ctask[c]
      p == Head(k.todo)
  IN  /\ k.at = "release"
      /\ entry' = [entry EXCEPT ![p][headers[p][k.hdr].index[k.slot]].value = NULL]
      /\ GiveBack({BlockOf(c)})
      /\ NextSlot(c, k)
      /\ UNCHANGED <<prod, block, headers, pr, ptask>>

-----------------------------------------------------------------------------

Offsets == 0 .. Cardinality(QueueConsumers) - 1

Produce(p) ==
  \/ "CanAlloc" \in Modes[p] /\ enqueue(p)
  \/ "CannotAlloc" \in Modes[p] /\ try_enqueue(p)
  \/ \E n \in Counts : \/ "CanAlloc" \in BulkModes[p] /\ enqueue_bulk(p, n)
                       \/ "CannotAlloc" \in BulkModes[p] /\ try_enqueue_bulk(p, n)
  \/ ReuseNext(p) \/ NewBlock(p) \/ Ahead(p) \/ Pool(p) \/ ResetTaken(p) \/ Publish(p)
  \/ Throw(p) \/ InsertEntry(p) \/ RequestBlock(p) \/ ThrowImplicit(p) \/ Fill(p)

\* dequeue and dequeue_bulk of either kind of producer.
Dequeue(c) ==
  \/ Load(c) \/ Count(c) \/ Reload(c) \/ Overcommit(c) \/ Reserve(c)
  \/ LoadIndex(c) \/ LoadFront(c) \/ Take(c) \/ Release(c)

Consume(c) ==
  \/ "scored" \in CallsOf[c] /\ try_dequeue(c)
  \/ "in turn" \in CallsOf[c] /\ try_dequeue_non_interleaved(c)
  \/ "bulk" \in CallsOf[c] /\ \E n \in Counts : try_dequeue_bulk(c, n)
  \/ /\ "from producer" \in CallsOf[c]
     /\ \E p \in Explicit \cap Listed :
          \/ try_dequeue_from_producer(c, p)
          \/ \E n \in Counts : try_dequeue_bulk_from_producer(c, p, n)
  \/ /\ "token" \in CallsOf[c]
     /\ \E o \in Offsets : \/ try_dequeue_token(c, o, FALSE, 1)
                           \/ \E n \in Counts : try_dequeue_token(c, o, TRUE, n)
  \/ Scan(c) \/ Dequeue(c)

Next == (\E p \in Listed : Produce(p)) \/ (\E c \in QueueConsumers : Consume(c))

Spec == Init /\ [][Next]_vars

-----------------------------------------------------------------------------

\* The indices that hold an element: reserved by no consumer, or reserved
\* and not yet taken.
Waiting(p) ==
  LET x == prod[p]
      mine(c) == /\ ctask[c].at \in {"index", "front", "take", "release"}
                 /\ Head(ctask[c].todo) = p
  IN  {Add(x.headIndex, j) : j \in 0 .. Sub(x.tailIndex, x.headIndex) - 1}
        \cup UNION {{Add(ctask[c].index, j) : j \in 0 .. ctask[c].have - 1} :
                      c \in {d \in QueueConsumers : mine(d)}}

\* No element is lost, duplicated or overwritten: the slots of all blocks
\* hold each element that nobody has taken, once, and nothing else, whatever
\* blocks were reused, reverted or given back and whoever counted ahead.
ElementsIntact ==
  LET slots == {<<b, o>> \in QueueBlocks \X Offs : block[b].slots[o] # NULL}
      els == UNION {{<<p, i>> : i \in Waiting(p)} : p \in QueueProducers}
  IN  /\ {block[s[1]].slots[s[2]] : s \in slots} = els
      /\ Cardinality(slots) = Cardinality(els)

\* A consumer that reserved elements finds their block through the index it
\* loaded, though the producer writes into that index, and replaces it.
FindsItsElements ==
  \A c \in QueueConsumers : ctask[c].at = "take" =>
    /\ BlockOf(c) # NULL
    /\ \A j \in 0 .. Here(c) - 1 :
         LET i == Add(ctask[c].index, j)
         IN  block[BlockOf(c)].slots[Off(i)] = <<Head(ctask[c].todo), i>>
=============================================================================
