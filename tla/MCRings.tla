------------------------------- MODULE MCRings ------------------------------
(***************************************************************************)
(* The lock-free queues, and what is built on or inside them, side by      *)
(* side, for TLC: at the start one part is picked, and only that one       *)
(* moves.  The parts are                                                   *)
(*   "mpmc"       MPMCRing, called by two producers and two consumers, and *)
(*                shown to implement HandoffQueue                          *)
(*   "pool"       LockfreePool, whose owner is a third producer            *)
(*   "rte"        RteRing                                                  *)
(*   "queue"      ConcurrentQueue with one producer and two consumers      *)
(*   "tokens"     ConcurrentQueue with a producer of either kind and a     *)
(*                consumer that has a token                                *)
(*   "limit"      ConcurrentQueue with a producer whose sub-queue is full  *)
(*                after one block                                          *)
(*   "short"      ConcurrentQueue when malloc fails after two blocks       *)
(*   "freelist"   FreeList of the blocks of ConcurrentQueue                *)
(*   "producers"  ProducerHash, its table of implicit producers: two       *)
(*                threads whose ids are used twice, and malloc may fail    *)
(*   "crowd"      ProducerHash with three threads                          *)
(* The parts from "rte" on keep their state in the variables x1 .. x13.    *)
(***************************************************************************)
EXTENDS LockfreePool, Sequences, TLC

CONSTANTS
  Parts,      \* the parts to check
  RteProducers, RteConsumers, RteMaxObjects, \* of rte_ring
  RefusableBulk,  \* whether the explicit producer also calls try_enqueue_bulk
  QueueLimit,     \* bound: elements the one producer of "queue" enqueues
  NULL,
  w1, w2, p1, p2

VARIABLES
  part,
  x1, x2, x3, x4, x5, x6, x7, x8, x9, x10, x11, x12, x13

x7on == <<x7, x8, x9, x10, x11, x12, x13>>
x9on == <<x9, x10, x11, x12, x13>>
x11on == <<x11, x12, x13>>
registers == <<x1, x2, x3, x4, x5, x6, x7on>>
ringsVars == <<allVars, registers, part>>

\* Indices that wrap after two objects, batches of two in four entries.
Rte == INSTANCE RteRing
  WITH RteSize <- 4, RteWidth <- 16, RteStarts <- {14}, Batches <- {2}, WaterMarks <- {2},
       sp_enqueue <- x1, sc_dequeue <- x2, head <- x3, tail <- x4, watermark <- x5,
       ring <- x6, rtePc <- x7, call <- x8, enqueued <- x9, dequeued <- x10

\* Blocks of two elements; the first two are the initial pool.
Queue == INSTANCE ConcurrentQueue
  WITH Explicit <- {"e"}, Implicit <- {"i"}, ProducerLists <- {<<"e">>, <<"i">>},
       QueueConsumers <- {1, 2}, BLOCK_SIZE <- 2, IndexWidth <- 16, QueueBlocks <- 1 .. 5,
       PoolSize <- 2, INITIAL_INDEX_SIZE <- 2, MAX_SUBQUEUE_SIZE <- 100,
       Modes <- [e |-> {"CanAlloc"}, i |-> {"CannotAlloc"}],
       BulkModes <- [e |-> {"CanAlloc"} \cup (IF RefusableBulk THEN {"CannotAlloc"} ELSE {}),
                     i |-> {"CannotAlloc"}],
       Counts <- {3}, MaxWaiting <- 4, MaxCounted <- 4, MaxEnqueued <- <<QueueLimit, 2>>,
       CallsOf <- <<{"scored"}, {"bulk", "from producer"}>>, QUOTA <- 2, Throwing <- {"i"},
       producerList <- x1, prod <- x2, block <- x3, initialBlockPoolIndex <- x4,
       freeList <- x5, heap <- x6, headers <- x7, pr <- x8, entry <- x9, ptask <- x10,
       ctask <- x11, token <- x12, globalExplicitConsumerOffset <- x13
Tokens == INSTANCE ConcurrentQueue
  WITH Explicit <- {"e"}, Implicit <- {"i"}, ProducerLists <- {<<"e", "i">>},
       QueueConsumers <- {1}, BLOCK_SIZE <- 2, IndexWidth <- 16, QueueBlocks <- 1 .. 4,
       PoolSize <- 2, INITIAL_INDEX_SIZE <- 2, MAX_SUBQUEUE_SIZE <- 100,
       Modes <- [e |-> {"CannotAlloc"}, i |-> {"CanAlloc"}],
       BulkModes <- [e |-> {}, i |-> {}],
       Counts <- {2}, MaxWaiting <- 4, MaxCounted <- 3, MaxEnqueued <- <<5, 3>>,
       CallsOf <- <<{"scored", "token", "in turn"}>>, QUOTA <- 2, Throwing <- {"e"},
       producerList <- x1, prod <- x2, block <- x3, initialBlockPoolIndex <- x4,
       freeList <- x5, heap <- x6, headers <- x7, pr <- x8, entry <- x9, ptask <- x10,
       ctask <- x11, token <- x12, globalExplicitConsumerOffset <- x13
\* One consumer; the sub-queue at its limit, or no more blocks to be had.
Scarce(limit, blocks) == INSTANCE ConcurrentQueue
  WITH Explicit <- {"e"}, Implicit <- {"i"}, ProducerLists <- {<<"e">>, <<"i">>},
       QueueConsumers <- {1}, BLOCK_SIZE <- 2, IndexWidth <- 16, QueueBlocks <- 1 .. blocks,
       PoolSize <- 1, INITIAL_INDEX_SIZE <- 2, MAX_SUBQUEUE_SIZE <- limit,
       Modes <- [p \in {"e", "i"} |-> {"CanAlloc", "CannotAlloc"}],
       BulkModes <- [p \in {"e", "i"} |-> {"CanAlloc", "CannotAlloc"}],
       Counts <- {3}, MaxWaiting <- 4, MaxCounted <- 4, MaxEnqueued <- <<QueueLimit, 2>>,
       CallsOf <- <<{"scored"}>>, QUOTA <- 2, Throwing <- {},
       producerList <- x1, prod <- x2, block <- x3, initialBlockPoolIndex <- x4,
       freeList <- x5, heap <- x6, headers <- x7, pr <- x8, entry <- x9, ptask <- x10,
       ctask <- x11, token <- x12, globalExplicitConsumerOffset <- x13
Limited == 2
Plenty == 100
Blocks == INSTANCE FreeList
  WITH ListThreads <- Values, ListNodes <- {1, 2, 3},
       freeListHead <- x1, freeListNext <- x2, refs <- x3, should <- x4, listPc <- x5,
       held <- x6

\* Two threads with one hash, each followed by another of the same id, and
\* room for two at first.
Hashed(threads, lifetimes, fails) == INSTANCE ProducerHash
  WITH Enqueuers <- threads, hash_thread_id <- [t \in threads |-> IF t = Owner THEN 1 ELSE 0],
       InitialCapacity <- 2, MaxLives <- [t \in threads |-> lifetimes], AllocFails <- fails,
       EMPTY <- "empty", REUSABLE <- "reusable",
       hash <- x1, hashCount <- x2, resizing <- x3, producerList <- x4, inactive <- x5,
       hpc <- x6, mine <- x7, lives <- x8
Few == Values
Crowd == Values \cup {Owner}

MCSide == w1 :> p1 @@ w2 :> p2

\* The elements are interchangeable; where the producers of RteRing and the
\* threads of FreeList are given the same names, so are they.
Symmetry == Permutations(Values)

Mpmc(A) == part = "mpmc" /\ A /\ UNCHANGED <<poolVars, registers, part>>
Pool(A) == part = "pool" /\ A /\ UNCHANGED <<registers, part>>
\* A part that leaves the variables `rest' alone.
Of(name, A, rest) == part = name /\ A /\ UNCHANGED <<allVars, rest, part>>

MpmcNext ==
  \/ \E p \in Producers \ {Owner} : Emplace(p) \/ ProducerStep(p)
  \/ \E c \in Consumers : Pop(c) \/ ConsumerStep(c)

\* The variables a part does not use.
Unused11 == x11 = NULL /\ x12 = NULL /\ x13 = NULL
Unused9 == x9 = NULL /\ x10 = NULL /\ Unused11
Unused7 == x7 = NULL /\ x8 = NULL /\ Unused9
Unused1 == x1 = NULL /\ x2 = NULL /\ x3 = NULL /\ x4 = NULL /\ x5 = NULL /\ x6 = NULL /\ Unused7

RingsInit ==
  /\ part \in Parts /\ PoolInit
  /\ \/ part \in {"mpmc", "pool"} /\ Unused1
     \/ part = "rte" /\ Rte!Init /\ Unused11
     \/ part = "queue" /\ Queue!Init
     \/ part = "tokens" /\ Tokens!Init
     \/ part = "limit" /\ Scarce(Limited, 4)!Init
     \/ part = "short" /\ Scarce(Plenty, 2)!Init
     \/ part = "freelist" /\ Blocks!Init /\ Unused7
     \/ part = "producers" /\ Hashed(Few, 2, TRUE)!Init /\ Unused9
     \/ part = "crowd" /\ Hashed(Crowd, 1, FALSE)!Init /\ Unused9
RingsNext ==
  \/ Mpmc(MpmcNext) \/ Pool(PoolNext)
  \/ Of("rte", Rte!Next, x11on)
  \/ Of("queue", Queue!Next, <<>>)
  \/ Of("tokens", Tokens!Next, <<>>)
  \/ Of("limit", Scarce(Limited, 4)!Next, <<>>)
  \/ Of("short", Scarce(Plenty, 2)!Next, <<>>)
  \/ Of("freelist", Blocks!Next, x7on)
  \/ Of("producers", Hashed(Few, 2, TRUE)!Next, x9on)
  \/ Of("crowd", Hashed(Crowd, 1, FALSE)!Next, x9on)
RingsSpec == RingsInit /\ [][RingsNext]_ringsVars

(* The fairness of MPMCRing!FairSpec and PoolFairSpec, and every thread    *)
(* inside a call of RteRing goes on.                                       *)
RingsFairSpec ==
  /\ RingsSpec
  /\ \A p \in Producers \ {Owner} : WF_ringsVars(Mpmc(ProducerStep(p)))
  /\ \A c \in Consumers : WF_ringsVars(Mpmc(Pop(c) \/ ConsumerStep(c)))
  /\ WF_ringsVars(Pool(OwnerStep))
  /\ \A w \in Workers : WF_ringsVars(Pool(WorkerStep(w)))
  /\ \A t \in RteProducers \cup RteConsumers : WF_ringsVars(Of("rte", Rte!Step(t), x11on))

-----------------------------------------------------------------------------
(* Properties.                                                             *)

(* rte_ring: no two calls hold one entry, a batch that comes out is the    *)
(* one that went in at its place, and the counts agree when all is quiet,  *)
(* although head and tail are loaded one after the other and wrap.         *)
RteBatchesIntact == part = "rte" => Rte!BatchesIntact

(* rte_ring: an enqueue or dequeue is refused only when the ring could not *)
(* serve it at that moment.                                                *)
RteRefusedRightly == [][part = "rte" => Rte!RefusalIsRight]_ringsVars


(* moodycamel::ConcurrentQueue: whoever has reserved elements finds their  *)
(* block, also when a bulk enqueue that may not allocate has failed: its   *)
(* comment is "Failed to allocate, undo changes (but keep injected         *)
(* blocks)".                                                               *)
QueueFindsItsElements == part = "queue" => Queue!FindsItsElements

(* lockfree::ThreadPool: every enqueued task runs and the destructor       *)
(* returns, unless all the workers wait inside enqueue of a full ring.     *)
PoolEveryTaskRuns == part = "pool" => PoolDrains

(* MPMCQueue: every element whose push has claimed a ticket is delivered,  *)
(* if the consumers keep calling pop or try_pop.  rte_ring: whoever has    *)
(* claimed entries publishes them, though it waits for those before it.    *)
RingsDeliver ==
  /\ part = "mpmc" => EveryPushDelivered
  /\ \A t \in RteProducers \cup RteConsumers :
       (part = "rte" /\ Rte!HasClaimed(t)) ~> (part = "rte" /\ ~ Rte!HasClaimed(t))
=============================================================================
