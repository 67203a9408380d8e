------------------------------ MODULE MPMCRing ------------------------------
(***************************************************************************)
(* mpmc::Ring of cpp-util/lockfreeQueue.h: a bounded multi-producer,       *)
(* multi-consumer queue without locks.  A thread claims a ticket from      *)
(* head_ or tail_, waits for its turn at slot idx(ticket), uses the slot,  *)
(* and hands it over by storing the next turn.                             *)
(*                                                                         *)
(* One action is one access to shared memory.  The atomics are the         *)
(* acquire/release turn of a slot and the sequentially consistent          *)
(* read-modify-writes of head_ and tail_, so interleaving them is enough.  *)
(***************************************************************************)
EXTENDS Integers, Sequences

CONSTANTS
  Producers,   \* threads that call emplace / try_emplace (push / try_push)
  Consumers,   \* threads that call pop / try_pop
  Values,      \* the elements
  Raw,         \* slot storage that holds no object
  capacity_,   \* number of slots
  MaxTickets   \* bound: tickets handed out on each side

ASSUME RingAssumption ==
  /\ capacity_ \in Nat \ {0}
  /\ MaxTickets \in Nat
  /\ Producers \cap Consumers = {}
  /\ Raw \notin Values

VARIABLES
  head_, tail_,       \* next ticket of each side
  slotTurn, storage,  \* the two fields of every Slot
  pc, ticket, val,    \* control point, local head/tail and element of a thread
  pushed, popped      \* history: element by ticket, as claimed and as delivered

vars == <<head_, tail_, slotTurn, storage, pc, ticket, val, pushed, popped>>

Threads == Producers \cup Consumers
Slots == 0 .. capacity_ - 1
Tickets == 0 .. MaxTickets - 1

\* Control points between a claim and the return, in and before the slot.
Inside == {"construct", "publish", "take", "release"}
Claimed == {"spin"} \cup Inside
Trying == {"tryCheck", "tryCas", "tryReload"}

-----------------------------------------------------------------------------
(* Slot arithmetic.  The Bug operators are plausible slips, for mutation.   *)

idx(i) == i % capacity_
turn(i) == i \div capacity_

BugFreeTurn(t) == turn(t) * 2 - 1
freeTurn(t) == turn(t) * 2

publishedTurn(t) == turn(t) * 2 + 1

BugReleasedTurn(t) == turn(t) * 2 + 1
releasedTurn(t) == turn(t) * 2 + 2

\* The turn a thread waits for at its slot.
AwaitedTurn(t) ==
  IF t \in Producers THEN freeTurn(ticket[t]) ELSE publishedTurn(ticket[t])

SlotReady(t) == slotTurn[idx(ticket[t])] = AwaitedTurn(t)

\* The control point at which a thread uses its slot.
Use(t) == IF t \in Producers THEN "construct" ELSE "take"

Goto(t, l) == pc' = [pc EXCEPT ![t] = l]

\* The call is over: its locals are gone.
Return(t) ==
  /\ Goto(t, "idle")
  /\ ticket' = [ticket EXCEPT ![t] = 0]
  /\ val' = [val EXCEPT ![t] = Raw]

-----------------------------------------------------------------------------

Init ==
  /\ head_ = 0
  /\ tail_ = 0
  /\ slotTurn = [i \in Slots |-> 0]
  /\ storage = [i \in Slots |-> Raw]
  /\ pc = [t \in Threads |-> "idle"]
  /\ ticket = [t \in Threads |-> 0]
  /\ val = [t \in Threads |-> Raw]
  /\ pushed = [t \in {} |-> Raw]
  /\ popped = [t \in {} |-> Raw]

\* head_ or tail_ is moved by one for thread t, which becomes the owner of
\* the old value.
ClaimHead(p, v) ==
  /\ head_ < MaxTickets
  /\ head_' = head_ + 1
  /\ ticket' = [ticket EXCEPT ![p] = head_]
  /\ pushed' = [n \in 0 .. head_ |-> IF n = head_ THEN v ELSE pushed[n]]

ClaimTail(c) ==
  /\ tail_ < MaxTickets
  /\ tail_' = tail_ + 1
  /\ ticket' = [ticket EXCEPT ![c] = tail_]

\* emplace: head_.fetch_add(1).
EmplaceClaim(p, v) ==
  /\ pc[p] = "idle"
  /\ ClaimHead(p, v)
  /\ val' = [val EXCEPT ![p] = v]
  /\ Goto(p, "spin")
  /\ UNCHANGED <<tail_, slotTurn, storage, popped>>

\* pop: tail_.fetch_add(1).
PopClaim(c) ==
  /\ pc[c] = "idle"
  /\ ClaimTail(c)
  /\ Goto(c, "spin")
  /\ UNCHANGED <<head_, slotTurn, storage, val, pushed, popped>>

BugSpin(t) ==
  /\ pc[t] = "spin"
  /\ slotTurn[idx(ticket[t])] >= AwaitedTurn(t) - 1
  /\ Goto(t, Use(t))
  /\ UNCHANGED <<head_, tail_, slotTurn, storage, ticket, val, pushed, popped>>

\* The spin loops of emplace and pop, left when the slot's turn has come.
Spin(t) ==
  /\ pc[t] = "spin"
  /\ SlotReady(t)
  /\ Goto(t, Use(t))
  /\ UNCHANGED <<head_, tail_, slotTurn, storage, ticket, val, pushed, popped>>

\* try_emplace and try_pop: the first load of head_ or tail_.
TryEmplaceLoad(p, v) ==
  /\ pc[p] = "idle"
  /\ ticket' = [ticket EXCEPT ![p] = head_]
  /\ val' = [val EXCEPT ![p] = v]
  /\ Goto(p, "tryCheck")
  /\ UNCHANGED <<head_, tail_, slotTurn, storage, pushed, popped>>

TryPopLoad(c) ==
  /\ pc[c] = "idle"
  /\ ticket' = [ticket EXCEPT ![c] = tail_]
  /\ Goto(c, "tryCheck")
  /\ UNCHANGED <<head_, tail_, slotTurn, storage, val, pushed, popped>>

BugTryCheck(t) ==
  /\ pc[t] = "tryCheck"
  /\ Goto(t, "tryCas")
  /\ UNCHANGED <<head_, tail_, slotTurn, storage, ticket, val, pushed, popped>>

\* The load of the slot's turn in the loop of try_emplace and try_pop.
TryCheck(t) ==
  /\ pc[t] = "tryCheck"
  /\ Goto(t, IF SlotReady(t) THEN "tryCas" ELSE "tryReload")
  /\ UNCHANGED <<head_, tail_, slotTurn, storage, ticket, val, pushed, popped>>

\* compare_exchange_strong: claims the ticket, or reloads it and tries again.
TryEmplaceCas(p) ==
  /\ pc[p] = "tryCas"
  /\ \/ /\ head_ = ticket[p]
        /\ ClaimHead(p, val[p])
        /\ Goto(p, "construct")
     \/ /\ head_ # ticket[p]
        /\ ticket' = [ticket EXCEPT ![p] = head_]
        /\ Goto(p, "tryCheck")
        /\ UNCHANGED <<head_, pushed>>
  /\ UNCHANGED <<tail_, slotTurn, storage, val, popped>>

TryPopCas(c) ==
  /\ pc[c] = "tryCas"
  /\ \/ /\ tail_ = ticket[c]
        /\ ClaimTail(c)
        /\ Goto(c, "take")
     \/ /\ tail_ # ticket[c]
        /\ ticket' = [ticket EXCEPT ![c] = tail_]
        /\ Goto(c, "tryCheck")
        /\ UNCHANGED tail_
  /\ UNCHANGED <<head_, slotTurn, storage, val, pushed, popped>>

\* The slot was not ready: give up unless the ticket has moved on.
Reload(t, counter) ==
  /\ pc[t] = "tryReload"
  /\ \/ /\ counter = ticket[t]
        /\ Return(t)
     \/ /\ counter # ticket[t]
        /\ ticket' = [ticket EXCEPT ![t] = counter]
        /\ Goto(t, "tryCheck")
        /\ UNCHANGED val
  /\ UNCHANGED <<head_, tail_, slotTurn, storage, pushed, popped>>

TryEmplaceReload(p) == Reload(p, head_)
TryPopReload(c) == Reload(c, tail_)

\* slot.construct(args).
Construct(p) ==
  /\ pc[p] = "construct"
  /\ storage' = [storage EXCEPT ![idx(ticket[p])] = val[p]]
  /\ Goto(p, "publish")
  /\ UNCHANGED <<head_, tail_, slotTurn, ticket, val, pushed, popped>>

\* slot.turn.store(turn(head) * 2 + 1); emplace or try_emplace returns.
Publish(p) ==
  /\ pc[p] = "publish"
  /\ slotTurn' = [slotTurn EXCEPT ![idx(ticket[p])] = publishedTurn(ticket[p])]
  /\ Return(p)
  /\ UNCHANGED <<head_, tail_, storage, pushed, popped>>

\* v = slot.move(); slot.destroy().
Take(c) ==
  /\ pc[c] = "take"
  /\ val' = [val EXCEPT ![c] = storage[idx(ticket[c])]]
  /\ storage' = [storage EXCEPT ![idx(ticket[c])] = Raw]
  /\ Goto(c, "release")
  /\ UNCHANGED <<head_, tail_, slotTurn, ticket, pushed, popped>>

\* slot.turn.store(turn(tail) * 2 + 2); pop or try_pop returns its element.
Release(c) ==
  /\ pc[c] = "release"
  /\ slotTurn' = [slotTurn EXCEPT ![idx(ticket[c])] = releasedTurn(ticket[c])]
  /\ popped' = [n \in DOMAIN popped \cup {ticket[c]} |->
                  IF n = ticket[c] THEN val[c] ELSE popped[n]]
  /\ Return(c)
  /\ UNCHANGED <<head_, tail_, storage, pushed>>

\* The steps of a call that has begun.
ProducerStep(p) ==
  \/ Spin(p)
  \/ TryCheck(p)
  \/ TryEmplaceCas(p)
  \/ TryEmplaceReload(p)
  \/ Construct(p)
  \/ Publish(p)

ConsumerStep(c) ==
  \/ Spin(c)
  \/ TryCheck(c)
  \/ TryPopCas(c)
  \/ TryPopReload(c)
  \/ Take(c)
  \/ Release(c)

Emplace(p) == \E v \in Values : EmplaceClaim(p, v) \/ TryEmplaceLoad(p, v)
Pop(c) == PopClaim(c) \/ TryPopLoad(c)

Next ==
  \/ \E p \in Producers : Emplace(p) \/ ProducerStep(p)
  \/ \E c \in Consumers : Pop(c) \/ ConsumerStep(c)

Spec == Init /\ [][Next]_vars

(***************************************************************************)
(* Fairness: a thread inside a call keeps running (the operating system    *)
(* schedules every thread), and consumers keep calling pop or try_pop, as  *)
(* the workers of threadpool_lockfree.h do.  Nobody has to push.           *)
(***************************************************************************)
Fairness ==
  /\ \A p \in Producers : WF_vars(ProducerStep(p))
  /\ \A c \in Consumers : WF_vars(Pop(c) \/ ConsumerStep(c))

FairSpec == Spec /\ Fairness

-----------------------------------------------------------------------------
(* Properties.                                                             *)

TypeOK ==
  /\ head_ \in 0 .. MaxTickets
  /\ tail_ \in 0 .. MaxTickets
  /\ slotTurn \in [Slots -> Nat]
  /\ storage \in [Slots -> Values \cup {Raw}]
  /\ pc \in [Threads -> {"idle"} \cup Claimed \cup Trying]
  /\ ticket \in [Threads -> 0 .. MaxTickets]
  /\ val \in [Threads -> Values \cup {Raw}]
  /\ pushed \in [0 .. head_ - 1 -> Values]
  /\ DOMAIN popped \subseteq Tickets
  /\ \A n \in DOMAIN popped : popped[n] \in Values \cup {Raw}

(* Two threads are never in one slot at a time: the check of a slot's turn *)
(* and the later compare_exchange of try_emplace / try_pop are not atomic, *)
(* yet whoever passes both owns the slot until it stores the next turn.    *)
SlotExclusion ==
  \A t, u \in Threads :
    t # u /\ pc[t] \in Inside /\ pc[u] \in Inside => idx(ticket[t]) # idx(ticket[u])

(* An element is constructed only in storage without an object and is      *)
(* moved out only of storage that holds one; what Slot's destructor would  *)
(* destroy (turn odd) is what is alive, wherever no thread is in the slot. *)
ObjectLifetime ==
  /\ \A p \in Producers : pc[p] = "construct" => storage[idx(ticket[p])] = Raw
  /\ \A c \in Consumers : pc[c] = "take" => storage[idx(ticket[c])] # Raw
  /\ \A i \in Slots :
       (\A t \in Threads : pc[t] \in Inside => idx(ticket[t]) # i)
         => (slotTurn[i] % 2 = 1 <=> storage[i] # Raw)

(* FIFO by ticket: the pop that claimed ticket n returns the element of    *)
(* the push that claimed ticket n, whatever finished first, and however    *)
(* often the slot was reused.                                              *)
FifoDelivery ==
  \A n \in DOMAIN popped : n < head_ /\ popped[n] = pushed[n]

(* A producer is in a slot only when the element capacity_ tickets earlier *)
(* has been delivered: the ring never holds more than capacity_ elements.  *)
NoOverrun ==
  \A p \in Producers :
    pc[p] \in Inside /\ ticket[p] >= capacity_ => ticket[p] - capacity_ \in DOMAIN popped

(* try_emplace answers "full" only if it is: when it gives up, the element *)
(* capacity_ tickets before head_ had not been delivered at its last look. *)
FullWasFull ==
  [][\A p \in Producers :
       TryCheck(p) /\ pc'[p] = "tryReload" /\ ticket[p] = head_
         => head_ >= capacity_ /\ head_ - capacity_ \notin DOMAIN popped]_vars

(* Every element whose push has claimed a ticket is delivered in the end.  *)
EveryPushDelivered ==
  \A n \in Tickets : head_ > n ~> n \in DOMAIN popped

-----------------------------------------------------------------------------
(***************************************************************************)
(* The inductive invariant.  The turn of a slot orders all the tickets     *)
(* that map to it: the turn has passed a ticket's phase exactly when that  *)
(* phase is over, and a thread in the slot holds the ticket of that turn.  *)
(***************************************************************************)
ThisTurn(t) == slotTurn[idx(ticket[t])]

Roles ==
  /\ \A p \in Producers : pc[p] \notin {"take", "release"}
  /\ \A c \in Consumers : pc[c] \notin {"construct", "publish"}

ClaimedTurns ==
  /\ \A p \in Producers : pc[p] \in Claimed =>
       /\ ticket[p] < head_
       /\ ThisTurn(p) <= freeTurn(ticket[p])
  /\ \A c \in Consumers : pc[c] \in Claimed =>
       /\ ticket[c] < tail_
       /\ ThisTurn(c) <= publishedTurn(ticket[c])
  /\ \A t \in Threads : pc[t] \in Inside => SlotReady(t)
  /\ \A t \in Threads : pc[t] = "tryCas" => ThisTurn(t) >= AwaitedTurn(t)

TicketsDistinct ==
  /\ \A p, q \in Producers :
       p # q /\ pc[p] \in Claimed /\ pc[q] \in Claimed => ticket[p] # ticket[q]
  /\ \A c, d \in Consumers :
       c # d /\ pc[c] \in Claimed /\ pc[d] \in Claimed => ticket[c] # ticket[d]

UnclaimedTurns ==
  \A n \in 0 .. MaxTickets :
    /\ n >= head_ => slotTurn[idx(n)] <= freeTurn(n)
    /\ n >= tail_ => slotTurn[idx(n)] <= publishedTurn(n)

Delivered ==
  /\ \A n \in Tickets : n \in DOMAIN popped <=> slotTurn[idx(n)] >= releasedTurn(n)
  /\ \A n \in DOMAIN popped : n < head_ /\ popped[n] = pushed[n]

Contents ==
  /\ \A i \in Slots : slotTurn[i] % 2 = 1 =>
       \E n \in Tickets : idx(n) = i /\ slotTurn[i] = publishedTurn(n)
  /\ \A n \in Tickets : slotTurn[idx(n)] = publishedTurn(n) =>
       \/ storage[idx(n)] = pushed[n]
       \/ \E c \in Consumers : pc[c] = "release" /\ ticket[c] = n
  /\ \A i \in Slots : slotTurn[i] % 2 = 0 =>
       \/ storage[i] = Raw
       \/ \E p \in Producers : pc[p] = "publish" /\ idx(ticket[p]) = i

Elements ==
  /\ \A p \in Producers : pc[p] \in Trying => val[p] \in Values
  /\ \A p \in Producers : pc[p] \in Claimed => val[p] = pushed[ticket[p]]
  /\ \A p \in Producers : pc[p] = "publish" => storage[idx(ticket[p])] = val[p]
  /\ \A c \in Consumers : pc[c] = "release" =>
       val[c] = pushed[ticket[c]] /\ storage[idx(ticket[c])] = Raw

(* Conjunction of the parts, preserved by every step of the ring; the      *)
(* safety properties above follow from it.                                 *)
IInv ==
  /\ TypeOK
  /\ Roles
  /\ ClaimedTurns
  /\ TicketsDistinct
  /\ UnclaimedTurns
  /\ Delivered
  /\ Contents
  /\ Elements

-----------------------------------------------------------------------------
(* mpmc::Ring implements HandoffQueue.  A call takes effect when it claims *)
(* its ticket, and what a consumer reads out of its slot later must be the *)
(* element it was promised then.                                           *)

\* f[a], ..., f[b - 1] as a sequence.
Window(f, a, b) == [i \in 1 .. b - a |-> f[a + i - 1]]

\* Elements of the tickets pushed and not yet claimed by a pop.
QueuedItems == Window(pushed, tail_, head_)

\* The pop that has claimed ticket n.
Holder(n) == CHOOSE c \in Consumers : pc[c] \in Claimed /\ ticket[c] = n

\* Consumers whose tickets nobody has pushed for.
WaitingInLine == Window([n \in head_ .. tail_ - 1 |-> Holder(n)], head_, tail_)

\* The element promised to a consumer, then the one it read.
Given ==
  [c \in Consumers |->
    IF pc[c] = "release" THEN val[c]
    ELSE IF pc[c] \in {"spin", "take"} /\ ticket[c] < head_ THEN pushed[ticket[c]]
    ELSE Raw]

HQ == INSTANCE HandoffQueue
        WITH items <- QueuedItems, waiters <- WaitingInLine, got <- Given,
             Nothing <- Raw

(* Every behaviour of the ring is one of the blocking FIFO queue: elements *)
(* leave in the order they entered, blocked pops are served first come     *)
(* first served, and no element is lost, duplicated or replaced.           *)
ImplementsFifo == HQ!Spec
=============================================================================
