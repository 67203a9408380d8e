---------------------------- MODULE LockfreePool ----------------------------
(***************************************************************************)
(* lockfree::ThreadPool of cpp-util/threadpool_lockfree.h, composed with   *)
(* the MPMCRing it keeps its tasks in.  A worker polls the ring with       *)
(* try_pop, runs what it gets, and leaves when stop is set and the ring    *)
(* looks empty.  enqueue is a blocking emplace and never throws; it is     *)
(* called by the owner and by running tasks.                               *)
(*                                                                         *)
(* A worker is a consumer of the ring, and side[w] is the producer it is   *)
(* while its task enqueues.  A task is known by the ticket of its push.    *)
(* The proof at the end rests on what is proved about the ring.            *)
(***************************************************************************)
EXTENDS MPMCRefinement

CONSTANTS
  Owner,  \* the producer that constructs, uses and destroys the pool
  side

ASSUME SideAssumption ==
  /\ side \in [Consumers -> Producers \ {Owner}]
  /\ \A v, w \in Consumers : v # w => side[v] # side[w]
  /\ Owner \in Producers

Workers == Consumers

VARIABLES
  stop,
  at,     \* control point of a worker or of the owner, outside the ring's calls
  seen,   \* the counter size() has loaded first
  task,   \* ticket of the task a worker runs
  ran     \* history: tickets of the tasks that have run to their end

poolVars == <<stop, at, seen, task, ran>>
allVars == <<vars, poolVars>>

Move(t, l) == at' = [at EXCEPT ![t] = l]

-----------------------------------------------------------------------------

PoolInit ==
  /\ Init
  /\ stop = FALSE
  /\ at = [t \in Workers \cup {Owner} |-> IF t = Owner THEN "user" ELSE "top"]
  /\ seen = [w \in Workers |-> 0]
  /\ task = [w \in Workers |-> 0]
  /\ ran = {}

\* The ring is not looked at.
BugTestStop(w) ==
  /\ at[w] = "top"
  /\ Move(w, IF stop THEN "exited" ELSE "pop")
  /\ UNCHANGED <<vars, stop, seen, task, ran>>

\* The load of stop in `stop && tasks.empty()`.
TestStop(w) ==
  /\ at[w] = "top"
  /\ Move(w, IF stop THEN "empty" ELSE "pop")
  /\ UNCHANGED <<vars, stop, seen, task, ran>>

\* tasks.empty() compares size() with zero.  The operands of the subtraction
\* in size() are unsequenced: either counter may be loaded first.
LoadFirst(w) ==
  /\ at[w] = "empty"
  /\ \/ seen' = [seen EXCEPT ![w] = head_] /\ Move(w, "emptyTail")
     \/ seen' = [seen EXCEPT ![w] = tail_] /\ Move(w, "emptyHead")
  /\ UNCHANGED <<vars, stop, task, ran>>

LoadSecond(w) ==
  /\ at[w] \in {"emptyTail", "emptyHead"}
  /\ LET size == IF at[w] = "emptyTail" THEN seen[w] - tail_ ELSE head_ - seen[w]
     IN  Move(w, IF size <= 0 THEN "exited" ELSE "pop")
  /\ UNCHANGED <<vars, stop, seen, task, ran>>

StartPop(w) ==
  /\ at[w] = "pop"
  /\ TryPopLoad(w)
  /\ UNCHANGED poolVars

\* A worker that finds nothing leaves the loop.
BugTryPop(w) ==
  /\ at[w] = "pop"
  /\ ConsumerStep(w)
  /\ task' = [task EXCEPT ![w] = ticket[w]]
  /\ Move(w, IF pc'[w] # "idle" THEN "pop"
             ELSE IF pc[w] = "release" THEN "run" ELSE "exited")
  /\ UNCHANGED <<stop, seen, ran>>

\* A step of try_pop.  Once it returns, the worker runs the task it got or
\* goes round again.
TryPop(w) ==
  /\ at[w] = "pop"
  /\ ConsumerStep(w)
  /\ task' = [task EXCEPT ![w] = ticket[w]]
  /\ Move(w, IF pc'[w] # "idle" THEN "pop"
             ELSE IF pc[w] = "release" THEN "run" ELSE "top")
  /\ UNCHANGED <<stop, seen, ran>>

\* task() returns; it is not inside enqueue.
Finish(w) ==
  /\ at[w] = "run"
  /\ pc[side[w]] = "idle"
  /\ ran' = ran \cup {task[w]}
  /\ Move(w, "top")
  /\ UNCHANGED <<vars, stop, seen, task>>

\* enqueue: tasks.emplace, by the owner or by a running task.
Enqueue(p) ==
  /\ \E v \in Values : EmplaceClaim(p, v)
  /\ UNCHANGED poolVars

EnqueueStep(p) == ProducerStep(p) /\ UNCHANGED poolVars

OwnerEnqueues == at[Owner] = "user" /\ Enqueue(Owner)
TaskEnqueues(w) == at[w] = "run" /\ Enqueue(side[w])

\* The destructor.
Stop ==
  /\ at[Owner] = "user"
  /\ pc[Owner] = "idle"
  /\ stop' = TRUE
  /\ Move(Owner, "join")
  /\ UNCHANGED <<vars, seen, task, ran>>

Join ==
  /\ at[Owner] = "join"
  /\ \A w \in Workers : at[w] = "exited"
  /\ Move(Owner, "destroyed")
  /\ UNCHANGED <<vars, stop, seen, task, ran>>

WorkerStep(w) ==
  \/ TestStop(w)
  \/ LoadFirst(w)
  \/ LoadSecond(w)
  \/ StartPop(w)
  \/ TryPop(w)
  \/ Finish(w)
  \/ EnqueueStep(side[w])

OwnerStep == EnqueueStep(Owner) \/ Join

PoolNext ==
  \/ \E w \in Workers : WorkerStep(w) \/ TaskEnqueues(w)
  \/ OwnerStep
  \/ OwnerEnqueues
  \/ Stop

PoolSpec == PoolInit /\ [][PoolNext]_allVars

(* Threads keep running and tasks end, unless they wait inside enqueue.    *)
PoolFairSpec ==
  /\ PoolSpec
  /\ WF_allVars(OwnerStep)
  /\ \A w \in Workers : WF_allVars(WorkerStep(w))

-----------------------------------------------------------------------------
(* Properties.                                                             *)

PoolTypeOK ==
  /\ TypeOK
  /\ stop \in BOOLEAN
  /\ at \in [Workers \cup {Owner} ->
               {"user", "join", "destroyed", "top", "empty", "emptyTail",
                "emptyHead", "pop", "run", "exited"}]
  /\ seen \in [Workers -> 0 .. MaxTickets]
  /\ task \in [Workers -> 0 .. MaxTickets]
  /\ ran \subseteq Tickets

(* A task is run by one worker, once, and the destructor returns only when *)
(* every task whose enqueue has claimed a ticket has run, although a       *)
(* worker may find the ring empty by loads of head_ and tail_ that are not *)
(* of one moment, and then leaves for good.  All variables keep their      *)
(* types.                                                                  *)
TasksRunOnce ==
  /\ PoolTypeOK
  /\ at[Owner] = "destroyed" => ran = 0 .. head_ - 1
  /\ \A w \in Workers : at[w] = "run" =>
       /\ task[w] \notin ran
       /\ \A v \in Workers \ {w} : at[v] = "run" => task[v] # task[w]

(* The workers that are left cannot go on: their tasks are inside enqueue, *)
(* and the ring has no room.                                               *)
Jammed ==
  LET left == {w \in Workers : at[w] # "exited"}
  IN  /\ left # {}
      /\ \A w \in left :
           at[w] = "run" /\ pc[side[w]] = "spin" /\ ~ SlotReady(side[w])

(* Every enqueued task runs, and a destructor that has begun returns,      *)
(* unless the workers jam: emplace blocks on a full ring and a worker      *)
(* inside it does not pop.                                                 *)
PoolDrains ==
  /\ \A n \in Tickets : head_ > n ~> (n \in ran \/ Jammed)
  /\ stop ~> (at[Owner] = "destroyed" \/ Jammed)

-----------------------------------------------------------------------------
(***************************************************************************)
(* lockfree::ThreadPool runs every task once.  The inductive invariant has *)
(* the ring's, and                                                         *)
(*   - the workers are where the loop of threadpool_lockfree.h can be, and *)
(*     none leaves it before stop;                                         *)
(*   - the tickets delivered by the ring are those of the tasks that have  *)
(*     run or are running, each once;                                      *)
(*   - while the ring holds an unclaimed task some worker is awake: it     *)
(*     will look at the ring again, or its loads will not find it empty.   *)
(***************************************************************************)
WorkersInLoop ==
  /\ at[Owner] \in {"user", "join", "destroyed"}
  /\ stop <=> at[Owner] # "user"
  /\ \A w \in Workers :
       /\ at[w] \in {"top", "empty", "emptyTail", "emptyHead", "pop", "run", "exited"}
       /\ stop \/ at[w] \in {"top", "pop", "run"}
       /\ at[w] # "pop" => pc[w] = "idle"
       /\ pc[w] # "spin"
  /\ at[Owner] = "destroyed" => \A w \in Workers : at[w] = "exited"
  /\ \A p \in Producers : pc[p] \notin Trying
  /\ tail_ <= head_

TasksDelivered ==
  /\ ran \subseteq DOMAIN popped
  /\ \A w \in Workers : at[w] = "run" => task[w] \in DOMAIN popped \ ran
  /\ \A v, w \in Workers : v # w /\ at[v] = "run" /\ at[w] = "run" => task[v] # task[w]
  /\ \A n \in DOMAIN popped : n \in ran \/ \E w \in Workers : at[w] = "run" /\ task[w] = n

Awake(w) ==
  \/ at[w] \in {"top", "empty", "pop", "run", "emptyHead"}
  \/ at[w] = "emptyTail" /\ seen[w] > tail_

SomeAwake ==
  /\ \A w \in Workers : at[w] = "emptyHead" => seen[w] <= tail_
  /\ tail_ < head_ => \E w \in Workers : Awake(w)

\* What the pool adds to the invariant of its ring.
LoopInv ==
  /\ PoolTypeOK
  /\ WorkersInLoop
  /\ TasksDelivered
  /\ SomeAwake

LockfreeInv ==
  /\ IInv
  /\ ClaimsHeld
  /\ LoopInv

(* The parts of the invariant.                                             *)
LEMMA LockfreeParts ==
  ASSUME LockfreeInv
  PROVE  IInv /\ TypeOK /\ PoolTypeOK /\ WorkersInLoop /\ TasksDelivered /\ SomeAwake
  BY DEF LockfreeInv, LoopInv, PoolTypeOK

\* LoopInv from its parts, after a step.
LEMMA LoopInvNext ==
  ASSUME PoolTypeOK', WorkersInLoop', TasksDelivered', SomeAwake'
  PROVE  LoopInv'
  BY DEF LoopInv

\* The type of the ring, after a step that keeps its invariant.
LEMMA RingTypeNext ==
  ASSUME IInv'
  PROVE  TypeOK'
  BY DEF IInv

(* A worker is not the owner, nor a producer.                              *)
LEMMA WorkersApart ==
  /\ Owner \in Producers /\ Owner \in Threads /\ Owner \notin Workers
  /\ \A w \in Workers : /\ w \in Threads /\ w \notin Producers
                        /\ side[w] \in Producers /\ side[w] \in Threads
  BY RingAssumption, SideAssumption DEF Workers, Threads

(* A step of the pool is a step of the ring or none of its business.       *)
LEMMA PoolStepsRing ==
  ASSUME PoolNext
  PROVE  [Next]_vars
  <1>1. ASSUME NEW p \in Producers, ProducerStep(p) \/ \E v \in Values : EmplaceClaim(p, v)
        PROVE  Next
    BY <1>1 DEF Next, Emplace
  <1>2. ASSUME NEW w \in Workers, ConsumerStep(w) \/ TryPopLoad(w)
        PROVE  Next
    BY <1>2 DEF Next, Pop, Workers
  <1>3. ASSUME NEW w \in Workers, WorkerStep(w) \/ TaskEnqueues(w)
        PROVE  [Next]_vars
    <2>1. CASE TestStop(w) \/ LoadFirst(w) \/ LoadSecond(w) \/ Finish(w)
      BY <2>1 DEF TestStop, LoadFirst, LoadSecond, Finish
    <2>2. CASE StartPop(w) \/ TryPop(w)
      BY <2>2, <1>2 DEF StartPop, TryPop
    <2>3. CASE EnqueueStep(side[w]) \/ TaskEnqueues(w)
      BY <2>3, <1>1, WorkersApart DEF EnqueueStep, TaskEnqueues, Enqueue
    <2> QED
      BY <1>3, <2>1, <2>2, <2>3 DEF WorkerStep
  <1>4. CASE OwnerStep \/ OwnerEnqueues \/ Stop
    BY <1>1, <1>4, WorkersApart DEF OwnerStep, OwnerEnqueues, Stop, EnqueueStep, Join, Enqueue
  <1> QED
    BY <1>3, <1>4 DEF PoolNext

(* A producer inside emplace claims nothing more.                          *)
LEMMA ProducerMoves ==
  ASSUME IInv, NEW p \in Producers, pc[p] \notin Trying, ProducerStep(p)
  PROVE  /\ head_' = head_ /\ tail_' = tail_ /\ popped' = popped
         /\ pc'[p] \notin Trying
         /\ \A t \in Threads \ {p} : pc'[t] = pc[t]
  <1>1. p \in Threads /\ pc \in [Threads -> {"idle"} \cup Claimed \cup Trying]
    BY DEF Threads, IInv, TypeOK
  <1>2. CASE Spin(p)
    BY <1>1, <1>2 DEF Spin, Use, Goto, Trying
  <1>3. CASE Construct(p)
    BY <1>1, <1>3 DEF Construct, Goto, Trying
  <1>4. CASE Publish(p)
    BY <1>1, <1>4 DEF Publish, Return, Goto, Trying
  <1>5. ~TryCheck(p) /\ ~TryEmplaceCas(p) /\ ~TryEmplaceReload(p)
    BY DEF TryCheck, TryEmplaceCas, TryEmplaceReload, Reload, Trying
  <1> QED
    BY <1>2, <1>3, <1>4, <1>5 DEF ProducerStep

(* A worker inside try_pop claims a ticket only if it was pushed, and      *)
(* delivers a ticket when it returns with a task.                          *)
LEMMA WorkerMoves ==
  ASSUME IInv, IInv', NEW w \in Workers, pc[w] # "spin", ConsumerStep(w)
  PROVE  /\ head_' = head_
         /\ \A t \in Threads \ {w} : pc'[t] = pc[t]
         /\ pc'[w] # "spin"
         /\ \/ tail_' = tail_
            \/ tail_' = tail_ + 1 /\ tail_ < head_ /\ pc'[w] # "idle"
         /\ \/ /\ pc[w] = "release" /\ pc'[w] = "idle"
               /\ DOMAIN popped' = DOMAIN popped \cup {ticket[w]}
               /\ ticket[w] \notin DOMAIN popped
            \/ pc[w] # "release" /\ popped' = popped
  <1>1. /\ w \in Threads /\ w \in Consumers /\ w \notin Producers
        /\ pc \in [Threads -> {"idle"} \cup Claimed \cup Trying]
        /\ ticket \in [Threads -> 0 .. MaxTickets]
    BY WorkersApart DEF Workers, IInv, TypeOK
  <1>2. ~Spin(w)
    BY DEF Spin
  <1>3. CASE TryCheck(w)
    BY <1>1, <1>3 DEF TryCheck, Goto
  <1>4. CASE TryPopCas(w)
    <2>1. CASE tail_ = ticket[w]
      <3>1. pc'[w] = "take" /\ ticket'[w] = tail_ /\ tail_' = tail_ + 1 /\ head_' = head_
        BY <1>1, <1>4, <2>1 DEF TryPopCas, ClaimTail, Goto
      <3>2. (\A c \in Consumers : pc[c] \in Claimed /\ ticket[c] >= head_ => pc[c] = "spin")'
        <4>1. IInv' => (\A c \in Consumers :
                          pc[c] \in Claimed /\ ticket[c] >= head_ => pc[c] = "spin")'
          BY AheadWaits, PTL
        <4> QED
          BY <4>1
      <3>3. ~(tail_ >= head_)
        BY <1>1, <3>1, <3>2 DEF Claimed, Inside
      <3>4. tail_ < head_
        BY <3>3 DEF IInv, TypeOK
      <3> QED
        BY <1>1, <1>4, <2>1, <3>1, <3>4 DEF TryPopCas, Goto
    <2>2. CASE tail_ # ticket[w]
      BY <1>1, <1>4, <2>2 DEF TryPopCas, Goto
    <2> QED
      BY <2>1, <2>2
  <1>5. CASE TryPopReload(w)
    BY <1>1, <1>5 DEF TryPopReload, Reload, Return, Goto
  <1>6. CASE Take(w)
    BY <1>1, <1>6 DEF Take, Goto
  <1>7. CASE Release(w)
    <2>1. ticket[w] \notin DOMAIN popped
      <3>1. pc[w] \in Claimed
        BY <1>7 DEF Release, Claimed, Inside
      <3>2. ticket[w] \in Tickets
        BY <1>1, <3>1, RingAssumption DEF IInv, TypeOK, ClaimedTurns, Tickets
      <3>3. slotTurn[idx(ticket[w])] <= publishedTurn(ticket[w])
        BY <1>1, <3>1 DEF IInv, ClaimedTurns, ThisTurn
      <3>4. turn(ticket[w]) \in Nat /\ idx(ticket[w]) \in Slots
        BY <1>1, LapAndSlot
      <3>5. slotTurn[idx(ticket[w])] \in Nat
        BY <3>4 DEF IInv, TypeOK
      <3>6. ~(slotTurn[idx(ticket[w])] >= releasedTurn(ticket[w]))
        BY <3>3, <3>4, <3>5 DEF publishedTurn, releasedTurn
      <3> QED
        BY <3>2, <3>6 DEF IInv, Delivered
    <2> QED
      BY <1>1, <1>7, <2>1 DEF Release, Return, Goto
  <1> QED
    BY <1>2, <1>3, <1>4, <1>5, <1>6, <1>7 DEF ConsumerStep

(* Steps of a producer inside enqueue keep the pool's invariant.           *)
LEMMA EnqueueStepInv ==
  ASSUME LockfreeInv, IInv', NEW p \in Producers, EnqueueStep(p)
  PROVE  LoopInv'
  <1> IInv /\ TypeOK /\ PoolTypeOK /\ WorkersInLoop /\ TasksDelivered /\ SomeAwake
    BY LockfreeParts
  <1> TypeOK'
    BY RingTypeNext
  <1>1. pc[p] \notin Trying /\ IInv /\ ProducerStep(p)
    BY DEF WorkersInLoop, EnqueueStep
  <1>2. /\ head_' = head_ /\ tail_' = tail_ /\ popped' = popped
        /\ pc'[p] \notin Trying
        /\ \A t \in Threads \ {p} : pc'[t] = pc[t]
    BY <1>1, ProducerMoves
  <1>3. stop' = stop /\ at' = at /\ seen' = seen /\ task' = task /\ ran' = ran
    BY DEF EnqueueStep, poolVars
  <1>4. \A w \in Workers : pc'[w] = pc[w]
    BY <1>2, WorkersApart
  <1>5. \A q \in Producers : pc'[q] \notin Trying
    BY <1>2 DEF WorkersInLoop, Threads
  <1>6. PoolTypeOK'
    BY <1>3 DEF PoolTypeOK, Tickets
  <1>7. WorkersInLoop'
    BY <1>2, <1>3, <1>4, <1>5 DEF WorkersInLoop
  <1>8. TasksDelivered' /\ SomeAwake'
    BY <1>2, <1>3 DEF TasksDelivered, SomeAwake, Awake
  <1> QED
    BY <1>6, <1>7, <1>8, LoopInvNext, Zenon

(* A claim of enqueue, by somebody who knows of an awake worker.           *)
LEMMA EnqueueInv ==
  ASSUME LockfreeInv, IInv', NEW p \in Producers, Enqueue(p),
         NEW u \in Workers, at[u] \in {"top", "pop", "run"}
  PROVE  LoopInv'
  <1> IInv /\ TypeOK /\ PoolTypeOK /\ WorkersInLoop /\ TasksDelivered /\ SomeAwake
    BY LockfreeParts
  <1> TypeOK'
    BY RingTypeNext
  <1>0. PICK v \in Values : EmplaceClaim(p, v)
    BY DEF Enqueue
  <1>1. p \in Threads /\ pc \in [Threads -> {"idle"} \cup Claimed \cup Trying]
    BY DEF Threads, TypeOK
  <1>2. /\ head_' = head_ + 1 /\ tail_' = tail_ /\ popped' = popped
        /\ pc'[p] \notin Trying
        /\ \A t \in Threads \ {p} : pc'[t] = pc[t]
    BY <1>0, <1>1 DEF EmplaceClaim, ClaimHead, Goto, Trying
  <1>3. stop' = stop /\ at' = at /\ seen' = seen /\ task' = task /\ ran' = ran
    BY DEF Enqueue, poolVars
  <1>4. \A w \in Workers : pc'[w] = pc[w]
    BY <1>2, WorkersApart
  <1>5. \A q \in Producers : pc'[q] \notin Trying
    BY <1>2 DEF WorkersInLoop, Threads
  <1>6. PoolTypeOK'
    BY <1>3 DEF PoolTypeOK, Tickets
  <1>7. tail_' <= head_'
    BY <1>2 DEF WorkersInLoop, TypeOK
  <1>8. WorkersInLoop'
    BY <1>2, <1>3, <1>4, <1>5, <1>7 DEF WorkersInLoop
  <1>9. TasksDelivered'
    BY <1>2, <1>3 DEF TasksDelivered
  <1>10. SomeAwake'
    BY <1>2, <1>3 DEF SomeAwake, Awake
  <1> QED
    BY <1>6, <1>8, <1>9, <1>10, LoopInvNext, Zenon

(* A worker moves on in the loop, outside try_pop and outside a task: it   *)
(* stays awake while there is a task, or leaves without having been awake. *)
LEMMA LoopStepInv ==
  ASSUME LockfreeInv, UNCHANGED <<vars, stop, task, ran>>,
         NEW w \in Workers, NEW m, at' = [at EXCEPT ![w] = m],
         \A v \in Workers \ {w} : seen'[v] = seen[v],
         seen' \in [Workers -> 0 .. MaxTickets],
         at[w] \in {"top", "empty", "emptyTail", "emptyHead"},
         \/ m \in {"pop", "empty", "emptyTail", "emptyHead"}
         \/ m = "exited" /\ (tail_ < head_ => ~Awake(w)),
         stop \/ m = "pop",
         m = "emptyHead" => seen'[w] <= tail_,
         m = "emptyTail" => seen'[w] >= head_
  PROVE  LoopInv'
  <1> IInv /\ TypeOK /\ PoolTypeOK /\ WorkersInLoop /\ TasksDelivered /\ SomeAwake
    BY LockfreeParts
  <1>1. /\ head_' = head_ /\ tail_' = tail_ /\ popped' = popped /\ pc' = pc
        /\ slotTurn' = slotTurn /\ storage' = storage /\ ticket' = ticket /\ val' = val
        /\ pushed' = pushed /\ stop' = stop /\ task' = task /\ ran' = ran
    BY DEF vars
  <1>2. /\ head_ \in Nat /\ tail_ \in Nat /\ tail_ <= head_
        /\ w \in Workers \cup {Owner} /\ w # Owner
        /\ at \in [Workers \cup {Owner} ->
                     {"user", "join", "destroyed", "top", "empty", "emptyTail",
                      "emptyHead", "pop", "run", "exited"}]
        /\ seen \in [Workers -> 0 .. MaxTickets]
    BY WorkersApart DEF TypeOK, PoolTypeOK, WorkersInLoop
  <1>3. /\ at'[w] = m /\ at'[Owner] = at[Owner]
        /\ \A v \in Workers \ {w} : at'[v] = at[v]
    BY <1>2
  <1>4. PoolTypeOK'
    BY <1>1, <1>2 DEF PoolTypeOK, TypeOK, Slots, Threads, Tickets
  <1>5. at[Owner] # "destroyed"
    BY DEF WorkersInLoop
  <1>6. pc[w] = "idle"
    BY Zenon DEF WorkersInLoop
  <1>7. WorkersInLoop'
    <2>1. (/\ at[Owner] \in {"user", "join", "destroyed"}
           /\ stop <=> at[Owner] # "user"
           /\ at[Owner] = "destroyed" => \A v \in Workers : at[v] = "exited"
           /\ \A p \in Producers : pc[p] \notin Trying
           /\ tail_ <= head_)'
      <3>1. /\ at[Owner] \in {"user", "join", "destroyed"}
            /\ stop <=> at[Owner] # "user"
            /\ \A p \in Producers : pc[p] \notin Trying
            /\ tail_ <= head_
        BY Zenon DEF WorkersInLoop
      <3> QED
        BY <1>1, <1>3, <1>5, <3>1
    <2>2. ASSUME NEW v \in Workers
          PROVE  (/\ at[v] \in {"top", "empty", "emptyTail", "emptyHead", "pop", "run", "exited"}
                  /\ stop \/ at[v] \in {"top", "pop", "run"}
                  /\ at[v] # "pop" => pc[v] = "idle"
                  /\ pc[v] # "spin")'
      <3>1. CASE v = w
        BY <1>1, <1>3, <1>6, <3>1
      <3>2. CASE v # w
        BY <1>1, <1>3, <3>2 DEF WorkersInLoop
      <3> QED
        BY <3>1, <3>2
    <2> QED
      BY <2>1, <2>2, Zenon DEF WorkersInLoop
  <1>8. TasksDelivered'
    BY <1>1, <1>3, SMTT(30) DEF TasksDelivered
  <1>9. SomeAwake'
    <2>1. \A v \in Workers : at'[v] = "emptyHead" => seen'[v] <= tail_
      BY <1>3 DEF SomeAwake
    <2>2. ASSUME tail_ < head_ PROVE \E v \in Workers : Awake(v)'
      <3>1. seen'[w] \in Nat
        BY DEF Tickets
      <3>2. CASE m # "exited"
        <4>1. Awake(w)'
          BY <1>1, <1>2, <1>3, <2>2, <3>1, <3>2 DEF Awake
        <4> QED
          BY <4>1
      <3>3. CASE m = "exited"
        <4>1. PICK v \in Workers : Awake(v)
          BY <2>2 DEF SomeAwake
        <4>2. v # w
          BY <2>2, <3>3, <4>1
        <4>3. Awake(v)'
          BY <1>1, <1>3, <4>1, <4>2 DEF Awake
        <4> QED
          BY <4>3
      <3> QED
        BY <3>2, <3>3
    <2> QED
      BY <1>1, <2>1, <2>2 DEF SomeAwake
  <1> QED
    BY <1>4, <1>7, <1>8, <1>9, LoopInvNext, Zenon

(* A worker tests stop.                                                    *)
LEMMA TestStopInv ==
  ASSUME LockfreeInv, NEW w \in Workers, TestStop(w)
  PROVE  LoopInv'
  <1>1. seen' = seen /\ seen \in [Workers -> 0 .. MaxTickets] /\ stop \in BOOLEAN
    BY LockfreeParts DEF PoolTypeOK, TestStop
  <1>2. CASE stop
    BY <1>1, <1>2, LoopStepInv, Zenon DEF TestStop, Move
  <1>3. CASE ~stop
    BY <1>1, <1>3, LoopStepInv, Zenon DEF TestStop, Move
  <1> QED
    BY <1>2, <1>3

(* size() loads the first counter.                                         *)
LEMMA LoadFirstInv ==
  ASSUME LockfreeInv, NEW w \in Workers, LoadFirst(w)
  PROVE  LoopInv'
  <1> IInv /\ TypeOK /\ PoolTypeOK /\ WorkersInLoop /\ TasksDelivered /\ SomeAwake
    BY LockfreeParts
  <1>1. /\ seen \in [Workers -> 0 .. MaxTickets]
        /\ head_ \in 0 .. MaxTickets /\ tail_ \in 0 .. MaxTickets
    BY DEF PoolTypeOK, TypeOK
  <1>2. stop /\ UNCHANGED <<vars, stop, task, ran>> /\ at[w] = "empty"
    BY DEF WorkersInLoop, LoadFirst
  <1>3. CASE seen' = [seen EXCEPT ![w] = head_] /\ Move(w, "emptyTail")
    <2>1. seen'[w] >= head_ /\ seen' \in [Workers -> 0 .. MaxTickets]
      BY <1>1, <1>3
    <2>2. \A v \in Workers \ {w} : seen'[v] = seen[v]
      BY <1>1, <1>3
    <2> QED
      BY <1>2, <1>3, <2>1, <2>2, LoopStepInv, Zenon DEF Move
  <1>4. CASE seen' = [seen EXCEPT ![w] = tail_] /\ Move(w, "emptyHead")
    <2>1. seen'[w] <= tail_ /\ seen' \in [Workers -> 0 .. MaxTickets]
      BY <1>1, <1>4
    <2>2. \A v \in Workers \ {w} : seen'[v] = seen[v]
      BY <1>1, <1>4
    <2> QED
      BY <1>2, <1>4, <2>1, <2>2, LoopStepInv, Zenon DEF Move
  <1> QED
    BY <1>3, <1>4 DEF LoadFirst

(* size() loads the second counter: an awake worker does not find the ring *)
(* empty while it holds a task.                                            *)
LEMMA LoadSecondInv ==
  ASSUME LockfreeInv, NEW w \in Workers, LoadSecond(w)
  PROVE  LoopInv'
  <1> IInv /\ TypeOK /\ PoolTypeOK /\ WorkersInLoop /\ TasksDelivered /\ SomeAwake
    BY LockfreeParts
  <1> DEFINE size == IF at[w] = "emptyTail" THEN seen[w] - tail_ ELSE head_ - seen[w]
             m == IF size <= 0 THEN "exited" ELSE "pop"
  <1>1. /\ seen \in [Workers -> 0 .. MaxTickets] /\ seen[w] \in Nat
        /\ head_ \in Nat /\ tail_ \in Nat
    BY DEF PoolTypeOK, TypeOK
  <1>2. /\ stop /\ UNCHANGED <<vars, stop, task, ran>> /\ seen' = seen
        /\ at[w] \in {"emptyTail", "emptyHead"}
        /\ at' = [at EXCEPT ![w] = m]
    BY DEF WorkersInLoop, LoadSecond, Move
  <1>3. at[w] = "emptyHead" => seen[w] <= tail_
    BY DEF SomeAwake
  <1>4. \/ m = "pop"
        \/ m = "exited" /\ (tail_ < head_ => ~Awake(w))
    BY <1>1, <1>2, <1>3 DEF Awake
  <1>5. m # "emptyHead" /\ m # "emptyTail"
    OBVIOUS
  <1> HIDE DEF m
  <1> QED
    BY <1>1, <1>2, <1>4, <1>5, LoopStepInv, Zenon

(* A task ends.                                                            *)
LEMMA FinishInv ==
  ASSUME LockfreeInv, NEW w \in Workers, Finish(w)
  PROVE  LoopInv'
  <1> IInv /\ TypeOK /\ PoolTypeOK /\ WorkersInLoop /\ TasksDelivered /\ SomeAwake
    BY LockfreeParts
  <1>1. /\ head_' = head_ /\ tail_' = tail_ /\ popped' = popped /\ pc' = pc
        /\ slotTurn' = slotTurn /\ storage' = storage /\ ticket' = ticket /\ val' = val
        /\ pushed' = pushed /\ stop' = stop /\ task' = task /\ seen' = seen
        /\ ran' = ran \cup {task[w]} /\ at[w] = "run"
    BY DEF Finish, vars
  <1>2. /\ w \in Workers \cup {Owner} /\ w # Owner
        /\ at \in [Workers \cup {Owner} ->
                     {"user", "join", "destroyed", "top", "empty", "emptyTail",
                      "emptyHead", "pop", "run", "exited"}]
        /\ at' = [at EXCEPT ![w] = "top"]
    BY WorkersApart DEF PoolTypeOK, Finish, Move
  <1>3. /\ at'[w] = "top" /\ at'[Owner] = at[Owner]
        /\ \A v \in Workers \ {w} : at'[v] = at[v]
    BY <1>2
  <1>4. task[w] \in DOMAIN popped /\ DOMAIN popped \subseteq Tickets
    BY <1>1 DEF TasksDelivered, TypeOK
  <1>5. PoolTypeOK'
    BY <1>1, <1>2, <1>4, ZenonT(30) DEF PoolTypeOK, TypeOK, Slots, Threads, Tickets
  <1>6. WorkersInLoop'
    BY <1>1, <1>3, Zenon DEF WorkersInLoop
  <1>7. TasksDelivered'
    BY <1>1, <1>3, <1>4, SMTT(30) DEF TasksDelivered
  <1>8. SomeAwake'
    BY <1>1, <1>3 DEF SomeAwake, Awake
  <1> QED
    BY <1>5, <1>6, <1>7, <1>8, LoopInvNext, Zenon

(* try_pop begins.                                                         *)
LEMMA StartPopInv ==
  ASSUME LockfreeInv, IInv', NEW w \in Workers, StartPop(w)
  PROVE  LoopInv'
  <1> IInv /\ TypeOK /\ PoolTypeOK /\ WorkersInLoop /\ TasksDelivered /\ SomeAwake
    BY LockfreeParts
  <1> TypeOK'
    BY RingTypeNext
  <1>1. /\ head_' = head_ /\ tail_' = tail_ /\ popped' = popped
        /\ stop' = stop /\ at' = at /\ seen' = seen /\ task' = task /\ ran' = ran
        /\ at[w] = "pop" /\ pc' = [pc EXCEPT ![w] = "tryCheck"]
    BY Zenon DEF StartPop, TryPopLoad, Goto, poolVars
  <1>2. w \in Threads /\ pc \in [Threads -> {"idle"} \cup Claimed \cup Trying]
    BY WorkersApart DEF TypeOK
  <1>3. pc'[w] = "tryCheck" /\ \A t \in Threads \ {w} : pc'[t] = pc[t]
    BY <1>1, <1>2
  <1>4. \A q \in Producers : q # w /\ q \in Threads
    BY WorkersApart DEF Threads
  <1>5. PoolTypeOK'
    BY <1>1, Zenon DEF PoolTypeOK, Tickets
  <1>6. WorkersInLoop'
    BY <1>1, <1>3, <1>4, WorkersApart, Zenon DEF WorkersInLoop
  <1>7. TasksDelivered' /\ SomeAwake'
    BY <1>1 DEF TasksDelivered, SomeAwake, Awake
  <1> QED
    BY <1>5, <1>6, <1>7, LoopInvNext, Zenon

(* try_pop goes on, and may return with a task.                            *)
LEMMA TryPopInv ==
  ASSUME LockfreeInv, IInv', NEW w \in Workers, TryPop(w)
  PROVE  LoopInv'
  <1> IInv /\ TypeOK /\ PoolTypeOK /\ WorkersInLoop /\ TasksDelivered /\ SomeAwake
    BY LockfreeParts
  <1> TypeOK'
    BY RingTypeNext
  <1> DEFINE m == IF pc'[w] # "idle" THEN "pop"
                  ELSE IF pc[w] = "release" THEN "run" ELSE "top"
  <1>1. /\ stop' = stop /\ seen' = seen /\ ran' = ran /\ at[w] = "pop"
        /\ at' = [at EXCEPT ![w] = m] /\ task' = [task EXCEPT ![w] = ticket[w]]
    BY Zenon DEF TryPop, Move
  <1>2. /\ head_' = head_
        /\ \A t \in Threads \ {w} : pc'[t] = pc[t]
        /\ pc'[w] # "spin"
        /\ \/ tail_' = tail_
           \/ tail_' = tail_ + 1 /\ tail_ < head_ /\ pc'[w] # "idle"
        /\ \/ /\ pc[w] = "release" /\ pc'[w] = "idle"
              /\ DOMAIN popped' = DOMAIN popped \cup {ticket[w]}
              /\ ticket[w] \notin DOMAIN popped
           \/ pc[w] # "release" /\ popped' = popped
    BY WorkerMoves DEF WorkersInLoop, TryPop
  <1>3. /\ w \in Workers \cup {Owner} /\ w # Owner /\ w \in Threads
        /\ at \in [Workers \cup {Owner} ->
                     {"user", "join", "destroyed", "top", "empty", "emptyTail",
                      "emptyHead", "pop", "run", "exited"}]
        /\ seen \in [Workers -> 0 .. MaxTickets]
        /\ task \in [Workers -> 0 .. MaxTickets]
        /\ ticket[w] \in 0 .. MaxTickets
        /\ head_ \in Nat /\ tail_ \in Nat /\ tail_ <= head_
    <2>1. w \in Workers \cup {Owner} /\ w # Owner /\ w \in Threads
      BY WorkersApart
    <2>2. PoolTypeOK /\ TypeOK /\ tail_ <= head_
      BY DEF WorkersInLoop
    <2>3. ticket[w] \in 0 .. MaxTickets /\ head_ \in Nat /\ tail_ \in Nat
      BY <2>1, <2>2 DEF TypeOK
    <2> QED
      BY <2>1, <2>2, <2>3 DEF PoolTypeOK
  <1>4. m \in {"pop", "run", "top"}
    OBVIOUS
  <1>5. m # "pop" => pc'[w] = "idle"
    OBVIOUS
  <1>6. \/ m = "run" /\ DOMAIN popped' = DOMAIN popped \cup {ticket[w]} /\ ticket[w] \notin DOMAIN popped
        \/ m # "run" /\ popped' = popped
    BY <1>2
  <1> HIDE DEF m
  <1>7. /\ at'[w] = m /\ at'[Owner] = at[Owner]
        /\ \A v \in Workers \ {w} : at'[v] = at[v]
        /\ task'[w] = ticket[w]
        /\ \A v \in Workers \ {w} : task'[v] = task[v]
    BY <1>1, <1>3
  <1>8. PoolTypeOK'
    BY <1>1, <1>3, <1>4 DEF PoolTypeOK, Tickets
  <1>9. tail_' <= head_'
    BY <1>2, <1>3
  <1>10. \A q \in Producers : q # w /\ q \in Threads
    BY WorkersApart DEF Threads
  <1>11. WorkersInLoop'
    BY <1>1, <1>2, <1>4, <1>5, <1>7, <1>9, <1>10, WorkersApart DEF WorkersInLoop
  <1>12. TasksDelivered'
    <2>1. CASE m = "run"
      BY <1>1, <1>6, <1>7, <2>1, SMTT(30) DEF TasksDelivered
    <2>2. CASE m # "run"
      BY <1>1, <1>6, <1>7, <2>2 DEF TasksDelivered
    <2> QED
      BY <2>1, <2>2, Zenon
  <1>13. SomeAwake'
    <2>1. Awake(w)'
      BY <1>4, <1>7 DEF Awake
    <2>2. \A v \in Workers : at'[v] = "emptyHead" => seen'[v] <= tail_'
      <3> SUFFICES ASSUME NEW v \in Workers, at'[v] = "emptyHead" PROVE seen'[v] <= tail_'
        OBVIOUS
      <3>1. at[v] = "emptyHead"
        BY <1>4, <1>7
      <3>2. seen[v] <= tail_
        BY <3>1 DEF SomeAwake
      <3> QED
        BY <1>1, <1>2, <1>3, <3>2
    <2> QED
      BY <2>1, <2>2 DEF SomeAwake
  <1> QED
    BY <1>8, <1>11, <1>12, <1>13, LoopInvNext, Zenon

(* Every step of the pool keeps the invariant.                             *)
LEMMA LockfreeStep ==
  ASSUME Workers # {}, LockfreeInv, [PoolNext]_allVars
  PROVE  LockfreeInv'
  <1> IInv /\ TypeOK /\ PoolTypeOK /\ WorkersInLoop /\ TasksDelivered /\ SomeAwake
    BY LockfreeParts
  <1>0. IInv /\ ClaimsHeld
    BY DEF LockfreeInv
  <1>1. CASE UNCHANGED allVars
    <2>1. /\ UNCHANGED vars
          /\ stop' = stop /\ at' = at /\ seen' = seen /\ task' = task /\ ran' = ran
      BY <1>1 DEF allVars, poolVars
    <2>2. /\ head_' = head_ /\ tail_' = tail_ /\ popped' = popped /\ pc' = pc /\ ticket' = ticket
          /\ slotTurn' = slotTurn /\ storage' = storage /\ val' = val /\ pushed' = pushed
      BY <2>1 DEF vars
    <2>3. IInv' /\ ClaimsHeld'
      BY <1>0, <2>1, StepInv, ClaimsStayHeld
    <2>4. PoolTypeOK'
      BY <2>1, <2>2, Zenon DEF PoolTypeOK, TypeOK
    <2>5. WorkersInLoop'
      BY <2>1, <2>2, Zenon DEF WorkersInLoop
    <2>6. TasksDelivered' /\ SomeAwake'
      BY <2>1, <2>2 DEF TasksDelivered, SomeAwake, Awake
    <2> QED
      BY <2>3, <2>4, <2>5, <2>6, LoopInvNext DEF LockfreeInv
  <1>2. CASE PoolNext
    <2>1. IInv' /\ ClaimsHeld'
      BY <1>0, <1>2, PoolStepsRing, StepInv, ClaimsStayHeld
    <2> TypeOK'
      BY <2>1, RingTypeNext
    <2>2. ASSUME NEW w \in Workers, WorkerStep(w)
          PROVE  LoopInv'
      BY <2>1, <2>2, TestStopInv, LoadFirstInv, LoadSecondInv, StartPopInv, TryPopInv,
         FinishInv, EnqueueStepInv, WorkersApart, ZenonT(30) DEF WorkerStep
    <2>3. ASSUME NEW w \in Workers, TaskEnqueues(w)
          PROVE  LoopInv'
      BY <2>1, <2>3, EnqueueInv, WorkersApart DEF TaskEnqueues
    <2>4. ASSUME OwnerEnqueues
          PROVE  LoopInv'
      <3>1. PICK u \in Workers : TRUE
        OBVIOUS
      <3>2. at[u] \in {"top", "pop", "run"}
        BY <2>4, <3>1 DEF OwnerEnqueues, WorkersInLoop
      <3> QED
        BY <2>1, <2>4, <3>1, <3>2, EnqueueInv, WorkersApart DEF OwnerEnqueues
    <2>5. ASSUME EnqueueStep(Owner)
          PROVE  LoopInv'
      BY <2>1, <2>5, EnqueueStepInv, WorkersApart
    <2>6. ASSUME Stop \/ Join
          PROVE  LoopInv'
      <3>1. /\ UNCHANGED vars
            /\ seen' = seen /\ task' = task /\ ran' = ran
            /\ stop' = TRUE
            /\ \/ at' = [at EXCEPT ![Owner] = "join"]
               \/ /\ at' = [at EXCEPT ![Owner] = "destroyed"]
                  /\ \A w \in Workers : at[w] = "exited"
        BY <2>6 DEF Stop, Join, Move, WorkersInLoop, PoolTypeOK
      <3>2. /\ head_' = head_ /\ tail_' = tail_ /\ popped' = popped /\ pc' = pc
        BY <3>1 DEF vars
      <3>3. at \in [Workers \cup {Owner} ->
                      {"user", "join", "destroyed", "top", "empty", "emptyTail",
                       "emptyHead", "pop", "run", "exited"}]
        BY DEF PoolTypeOK
      <3>4. \A w \in Workers : at'[w] = at[w]
        BY <3>1, <3>3, WorkersApart
      <3>5. \/ at'[Owner] = "join"
            \/ at'[Owner] = "destroyed" /\ \A w \in Workers : at'[w] = "exited"
        BY <3>1, <3>3, <3>4
      <3>6. PoolTypeOK'
        BY <3>1, <3>3 DEF PoolTypeOK, Tickets
      <3>7. WorkersInLoop'
        BY <3>1, <3>2, <3>4, <3>5 DEF WorkersInLoop
      <3>8. TasksDelivered' /\ SomeAwake'
        BY <3>1, <3>2, <3>4 DEF TasksDelivered, SomeAwake, Awake
      <3> QED
        BY <3>6, <3>7, <3>8, LoopInvNext
    <2>7. LoopInv'
      BY <1>2, <2>2, <2>3, <2>4, <2>5, <2>6 DEF PoolNext, OwnerStep
    <2> QED
      BY <2>1, <2>7 DEF LockfreeInv
  <1> QED
    BY <1>1, <1>2

(* The pool starts in the invariant.                                       *)
LEMMA LockfreeStart == PoolInit => LockfreeInv
  <1> SUFFICES ASSUME PoolInit PROVE LockfreeInv
    OBVIOUS
  <1>1. IInv
    BY InitInv DEF PoolInit
  <1>2. /\ head_ = 0 /\ tail_ = 0 /\ DOMAIN popped = {}
        /\ \A t \in Threads : pc[t] = "idle"
    BY DEF PoolInit, Init
  <1>3. ClaimsHeld
    BY <1>2 DEF ClaimsHeld, Tickets
  <1>4. /\ stop = FALSE /\ ran = {} /\ at[Owner] = "user"
        /\ \A w \in Workers : at[w] = "top"
        /\ \A w \in Workers : w \in Threads
        /\ \A q \in Producers : q \in Threads
    BY WorkersApart DEF PoolInit, Threads
  <1>5. PoolTypeOK
    <2>1. 0 \in 0 .. MaxTickets
      BY RingAssumption
    <2>2. seen \in [Workers -> 0 .. MaxTickets] /\ task \in [Workers -> 0 .. MaxTickets]
      BY <2>1 DEF PoolInit
    <2>3. at \in [Workers \cup {Owner} ->
                   {"user", "join", "destroyed", "top", "empty", "emptyTail",
                    "emptyHead", "pop", "run", "exited"}]
      BY DEF PoolInit
    <2> QED
      BY <1>1, <1>4, <2>2, <2>3, Zenon DEF PoolTypeOK, IInv
  <1>6. WorkersInLoop
    BY <1>2, <1>4 DEF WorkersInLoop, Trying
  <1>7. TasksDelivered /\ SomeAwake
    BY <1>2, <1>4 DEF TasksDelivered, SomeAwake
  <1> QED
    BY <1>1, <1>3, <1>5, <1>6, <1>7 DEF LockfreeInv, LoopInv

(* The invariant says that the tasks run once.                             *)
LEMMA LockfreeRunsOnce == LockfreeInv => TasksRunOnce
  <1> SUFFICES ASSUME LockfreeInv PROVE TasksRunOnce
    OBVIOUS
  <1> IInv /\ TypeOK /\ PoolTypeOK /\ WorkersInLoop /\ TasksDelivered /\ SomeAwake
    BY LockfreeParts
  <1>1. ASSUME at[Owner] = "destroyed" PROVE ran = 0 .. head_ - 1
    <2>1. \A w \in Workers : at[w] = "exited" /\ pc[w] = "idle"
      BY <1>1 DEF WorkersInLoop
    <2>2. head_ \in 0 .. MaxTickets /\ tail_ \in 0 .. MaxTickets /\ head_ = tail_
      <3>1. \A w \in Workers : ~Awake(w)
        BY <2>1 DEF Awake
      <3>2. ~(tail_ < head_)
        BY <3>1 DEF SomeAwake
      <3>3. head_ \in 0 .. MaxTickets /\ tail_ \in 0 .. MaxTickets /\ tail_ <= head_
        BY DEF TypeOK, WorkersInLoop
      <3> QED
        BY <3>2, <3>3, RingAssumption
    <2>3. DOMAIN popped = ran
      BY <2>1 DEF TasksDelivered
    <2>4. \A n \in 0 .. head_ - 1 : n \in DOMAIN popped
      <3> SUFFICES ASSUME NEW n \in 0 .. head_ - 1, n \notin DOMAIN popped PROVE FALSE
        OBVIOUS
      <3>1. n \in Tickets /\ n < tail_
        BY <2>2, RingAssumption DEF Tickets
      <3>2. PICK c \in Consumers : pc[c] \in Claimed
        BY <3>1 DEF LockfreeInv, ClaimsHeld
      <3> QED
        BY <2>1, <3>2 DEF Workers, Claimed, Inside
    <2>5. \A n \in DOMAIN popped : n \in 0 .. head_ - 1
      BY <2>2, RingAssumption DEF IInv, TypeOK, Delivered, Tickets
    <2> QED
      BY <2>3, <2>4, <2>5, Zenon
  <1>2. \A w \in Workers : at[w] = "run" =>
          /\ task[w] \notin ran
          /\ \A v \in Workers \ {w} : at[v] = "run" => task[v] # task[w]
    BY DEF TasksDelivered
  <1> QED
    BY <1>1, <1>2 DEF TasksRunOnce

(* lockfree::ThreadPool: a task is run by one worker, once, and the        *)
(* destructor returns only when every enqueued task has run, for any       *)
(* number of workers (but at least one, for nobody else runs tasks), any   *)
(* capacity of the ring, and tasks that enqueue tasks.                     *)
THEOREM LockfreePoolRunsOnce ==
  ASSUME Workers # {}
  PROVE  PoolSpec => []TasksRunOnce
  <1>1. LockfreeInv /\ [PoolNext]_allVars => LockfreeInv'
    BY LockfreeStep
  <1> QED
    BY <1>1, LockfreeStart, LockfreeRunsOnce, PTL DEF PoolSpec
=============================================================================
