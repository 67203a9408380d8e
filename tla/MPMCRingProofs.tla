---------------------------- MODULE MPMCRingProofs ---------------------------
(***************************************************************************)
(* Proofs about MPMCRing for any number of threads, slots and tickets.     *)
(***************************************************************************)
EXTENDS MPMCRing, TLAPS

-----------------------------------------------------------------------------
(* Arithmetic of laps: turn(i) is the lap of ticket i and idx(i) its slot. *)

(* Multiplication by a natural number is monotonic.                        *)
LEMMA TimesMonotonic ==
  ASSUME NEW a \in Int, NEW b \in Int, NEW c \in Nat, a <= b
  PROVE  a * c <= b * c
  OBVIOUS

(* A ticket is capacity_ times its lap plus its slot (idx, turn).          *)
LEMMA LapAndSlot ==
  ASSUME NEW a \in Nat
  PROVE  /\ a = turn(a) * capacity_ + idx(a)
         /\ turn(a) \in Nat
         /\ idx(a) \in Slots
  <1>1. a = turn(a) * capacity_ + idx(a)
    BY RingAssumption DEF turn, idx
  <1>2. turn(a) \in Int /\ idx(a) \in Slots
    BY RingAssumption DEF turn, idx, Slots
  <1>3. turn(a) >= 0
    <2> SUFFICES ASSUME turn(a) <= -1 PROVE FALSE
      BY <1>2
    <2>1. turn(a) * capacity_ <= (-1) * capacity_
      BY <1>2, RingAssumption, TimesMonotonic
    <2> QED
      BY <1>1, <1>2, <2>1, RingAssumption DEF Slots
  <1> QED
    BY <1>1, <1>2, <1>3

(* Of two tickets of one slot, the later one belongs to a later lap.       *)
LEMMA LaterLap ==
  ASSUME NEW a \in Nat, NEW b \in Nat, a < b, idx(a) = idx(b)
  PROVE  turn(a) + 1 <= turn(b)
  <1> SUFFICES ASSUME turn(b) <= turn(a) PROVE FALSE
    BY LapAndSlot
  <1>1. turn(b) * capacity_ <= turn(a) * capacity_
    BY LapAndSlot, RingAssumption, TimesMonotonic
  <1>2. /\ a = turn(a) * capacity_ + idx(a)
        /\ b = turn(b) * capacity_ + idx(b)
        /\ turn(a) \in Nat /\ turn(b) \in Nat /\ idx(b) \in Slots
    BY LapAndSlot
  <1>3. /\ turn(a) * capacity_ \in Int
        /\ turn(b) * capacity_ \in Int
        /\ idx(b) \in Int
    BY <1>2, RingAssumption DEF Slots
  <1> QED
    BY <1>1, <1>2, <1>3

(* capacity_ tickets earlier is the same slot one lap earlier.             *)
LEMMA PreviousLap ==
  ASSUME NEW a \in Nat, a >= capacity_
  PROVE  /\ a - capacity_ \in Nat
         /\ idx(a - capacity_) = idx(a)
         /\ turn(a - capacity_) = turn(a) - 1
  <1> DEFINE b == a - capacity_
  <1>1. b \in Nat
    BY RingAssumption
  <1>2. /\ a = turn(a) * capacity_ + idx(a)
        /\ turn(a) \in Nat /\ idx(a) \in Slots
        /\ b = turn(b) * capacity_ + idx(b)
        /\ turn(b) \in Nat /\ idx(b) \in Slots
    BY <1>1, LapAndSlot
  <1> HIDE DEF b
  <1>3. a = b + capacity_
    BY RingAssumption DEF b
  <1> DEFINE d == turn(a) - turn(b) - 1
  <1>4. d \in Int
    BY <1>2
  <1>5. d * capacity_ = idx(b) - idx(a)
    <2>1. d * capacity_ = turn(a) * capacity_ - turn(b) * capacity_ - capacity_
      BY <1>2, RingAssumption
    <2>2. turn(a) * capacity_ \in Int /\ turn(b) * capacity_ \in Int
      BY <1>2, RingAssumption
    <2> QED
      BY <2>1, <2>2, <1>1, <1>2, <1>3, RingAssumption DEF Slots
  <1> HIDE DEF d
  <1>6. ~ (d <= -1)
    <2> SUFFICES ASSUME d <= -1 PROVE FALSE
      OBVIOUS
    <2>1. d * capacity_ <= (-1) * capacity_
      BY <1>4, RingAssumption, TimesMonotonic
    <2> QED
      BY <2>1, <1>2, <1>5, RingAssumption DEF Slots
  <1>7. ~ (1 <= d)
    <2> SUFFICES ASSUME 1 <= d PROVE FALSE
      OBVIOUS
    <2>1. 1 * capacity_ <= d * capacity_
      BY <1>4, RingAssumption, TimesMonotonic
    <2> QED
      BY <2>1, <1>2, <1>5, RingAssumption DEF Slots
  <1>8. d = 0
    BY <1>4, <1>6, <1>7
  <1>9. idx(b) = idx(a)
    BY <1>2, <1>5, <1>8, RingAssumption DEF Slots
  <1> QED
    BY <1>1, <1>2, <1>8, <1>9 DEF b, d

(* The first capacity_ tickets are lap 0.                                  *)
LEMMA FirstLap ==
  ASSUME NEW a \in Nat, a < capacity_
  PROVE  turn(a) = 0
  <1> SUFFICES ASSUME 1 <= turn(a) PROVE FALSE
    BY LapAndSlot
  <1>1. 1 * capacity_ <= turn(a) * capacity_
    BY LapAndSlot, RingAssumption, TimesMonotonic
  <1> QED
    BY <1>1, LapAndSlot, RingAssumption DEF Slots

(* The two facts about laps that the invariant rests on.                   *)
LEMMA Laps ==
  /\ \A a \in Nat : turn(a) \in Nat /\ idx(a) \in Slots
  /\ \A a, b \in Nat : a < b /\ idx(a) = idx(b) => turn(a) + 1 <= turn(b)
  BY LapAndSlot, LaterLap

-----------------------------------------------------------------------------
(* Preservation of the invariant, one lemma per kind of step.              *)

(* A step that only moves thread t about outside any claim (loads, failed  *)
(* checks, failed compare_exchange, return of a failed try) keeps IInv.    *)
LEMMA LocalStep ==
  ASSUME IInv,
         NEW t \in Threads, pc[t] \notin Claimed,
         NEW l \in {"idle"} \cup Trying,
         NEW k \in 0 .. MaxTickets,
         NEW w \in Values \cup {Raw},
         t \in Producers /\ l \in Trying => w \in Values,
         l = "tryCas" /\ t \in Producers => slotTurn[idx(k)] >= freeTurn(k),
         l = "tryCas" /\ t \in Consumers => slotTurn[idx(k)] >= publishedTurn(k),
         pc' = [pc EXCEPT ![t] = l],
         ticket' = [ticket EXCEPT ![t] = k],
         val' = [val EXCEPT ![t] = w],
         UNCHANGED <<head_, tail_, slotTurn, storage, pushed, popped>>
  PROVE  IInv'
  <1>1. /\ pc'[t] = l /\ ticket'[t] = k /\ val'[t] = w
        /\ \A u \in Threads : u # t =>
             pc'[u] = pc[u] /\ ticket'[u] = ticket[u] /\ val'[u] = val[u]
        /\ \A u \in Threads : pc'[u] \in Claimed => u # t
        /\ \A u \in Threads : pc[u] \in Claimed => u # t
    BY DEF IInv, TypeOK, Claimed, Inside, Trying
  <1>2. TypeOK'
    BY DEF IInv, TypeOK, Claimed, Inside, Trying
  <1>3. Roles'
    BY <1>1 DEF IInv, Roles, Threads, Trying
  <1>4. ClaimedTurns'
    <2>1. ClaimedTurns
      BY DEF IInv
    <2>2. \A u \in Threads : pc'[u] \in Claimed => u # t /\ ticket'[u] = ticket[u] /\ pc'[u] = pc[u]
      BY <1>1
    <2>3. (\A p \in Producers : pc[p] \in Claimed =>
             ticket[p] < head_ /\ ThisTurn(p) <= freeTurn(ticket[p]))'
      BY <2>1, <2>2 DEF ClaimedTurns, Threads, ThisTurn
    <2>4. (\A c \in Consumers : pc[c] \in Claimed =>
             ticket[c] < tail_ /\ ThisTurn(c) <= publishedTurn(ticket[c]))'
      BY <2>1, <2>2 DEF ClaimedTurns, Threads, ThisTurn
    <2>5. (\A u \in Threads : pc[u] \in Inside => SlotReady(u))'
      BY <2>1, <2>2 DEF ClaimedTurns, Claimed, SlotReady, AwaitedTurn
    <2>6. (\A u \in Threads : pc[u] = "tryCas" => ThisTurn(u) >= AwaitedTurn(u))'
      BY <2>1, <1>1 DEF ClaimedTurns, ThisTurn, AwaitedTurn, Threads
    <2> QED
      BY <2>3, <2>4, <2>5, <2>6 DEF ClaimedTurns
  <1>5. TicketsDistinct'
    BY <1>1 DEF IInv, TicketsDistinct, Threads
  <1>6. UnclaimedTurns'
    BY DEF IInv, UnclaimedTurns
  <1>7. Delivered'
    BY DEF IInv, Delivered
  <1>8. Contents'
    <2>1. Contents
      BY DEF IInv
    <2>2. \A u \in Threads : pc[u] \in {"release", "publish"} => pc'[u] = pc[u] /\ ticket'[u] = ticket[u]
      BY <1>1 DEF Claimed, Inside
    <2> QED
      BY <2>1, <2>2 DEF Contents, Threads
  <1>9. Elements'
    <2>1. Elements
      BY DEF IInv
    <2>2. \A u \in Threads : pc'[u] \in Claimed =>
            pc'[u] = pc[u] /\ ticket'[u] = ticket[u] /\ val'[u] = val[u]
      BY <1>1
    <2> QED
      BY <1>1, <2>1, <2>2 DEF Elements, Threads, Claimed, Inside
  <1> QED
    BY <1>2, <1>3, <1>4, <1>5, <1>6, <1>7, <1>8, <1>9 DEF IInv

(* Two threads in slots hold tickets of different slots (SlotExclusion).   *)
LEMMA ExclusionFromInv ==
  ASSUME IInv
  PROVE  SlotExclusion
  <1> SUFFICES ASSUME NEW t \in Threads, NEW u \in Threads, t # u,
                      pc[t] \in Inside, pc[u] \in Inside,
                      idx(ticket[t]) = idx(ticket[u])
               PROVE  FALSE
    BY DEF SlotExclusion
  <1>1. ticket[t] \in Nat /\ ticket[u] \in Nat
    BY DEF IInv, TypeOK
  <1>2. AwaitedTurn(t) = AwaitedTurn(u)
    BY DEF IInv, ClaimedTurns, SlotReady
  <1>3. turn(ticket[t]) \in Nat /\ turn(ticket[u]) \in Nat
    BY <1>1, Laps
  <1>4. turn(ticket[t]) = turn(ticket[u]) /\ (t \in Producers <=> u \in Producers)
    BY <1>2, <1>3 DEF AwaitedTurn, freeTurn, publishedTurn
  <1>5. ticket[t] = ticket[u]
    BY <1>1, <1>3, <1>4, Laps
  <1> QED
    BY <1>4, <1>5 DEF IInv, TicketsDistinct, Threads, Claimed

(* A producer that claims ticket head_ (fetch_add, or compare_exchange     *)
(* after a successful look at the slot) keeps IInv.                        *)
LEMMA ClaimHeadStep ==
  ASSUME IInv,
         NEW p \in Producers, pc[p] \notin Claimed,
         NEW v \in Values,
         NEW l \in {"spin", "construct"},
         l = "construct" => slotTurn[idx(head_)] >= freeTurn(head_),
         ClaimHead(p, v),
         pc' = [pc EXCEPT ![p] = l],
         val' = [val EXCEPT ![p] = v],
         UNCHANGED <<tail_, slotTurn, storage, popped>>
  PROVE  IInv'
  <1>1. /\ head_ \in Nat /\ head_ \in Tickets /\ head_ < MaxTickets
        /\ head_' = head_ + 1
        /\ head_ \in 0 .. MaxTickets
    BY RingAssumption DEF IInv, TypeOK, ClaimHead, Tickets
  <1>2. /\ pc'[p] = l /\ ticket'[p] = head_ /\ val'[p] = v
        /\ \A u \in Threads : u # p =>
             pc'[u] = pc[u] /\ ticket'[u] = ticket[u] /\ val'[u] = val[u]
        /\ \A u \in Threads : pc[u] \in Claimed => u # p
        /\ p \in Threads
        /\ p \notin Consumers
    BY RingAssumption DEF IInv, TypeOK, ClaimHead, Threads
  <1>3. pushed'[head_] = v /\ \A n \in 0 .. head_ - 1 : pushed'[n] = pushed[n]
    BY <1>1 DEF ClaimHead
  <1>4. /\ slotTurn[idx(head_)] <= freeTurn(head_)
        /\ \A n \in 0 .. MaxTickets : slotTurn[idx(n)] > freeTurn(n) => n < head_
    <2>1. \A n \in 0 .. MaxTickets :
            /\ n \in Nat /\ turn(n) \in Nat
            /\ slotTurn[idx(n)] \in Nat
      BY Laps DEF IInv, TypeOK
    <2> QED
      BY <1>1, <2>1 DEF IInv, UnclaimedTurns, freeTurn
  <1>5. TypeOK'
    <2>1. pushed' \in [0 .. head_' - 1 -> Values]
      BY <1>1 DEF IInv, TypeOK, ClaimHead
    <2>2. ticket' \in [Threads -> 0 .. MaxTickets]
      BY <1>1, Zenon DEF IInv, TypeOK, ClaimHead
    <2>3. pc' \in [Threads -> {"idle"} \cup Claimed \cup Trying]
      BY Zenon DEF IInv, TypeOK, Claimed, Inside
    <2>4. val' \in [Threads -> Values \cup {Raw}]
      BY Zenon DEF IInv, TypeOK
    <2>5. head_' \in 0 .. MaxTickets
      BY <1>1, RingAssumption
    <2> QED
      BY <2>1, <2>2, <2>3, <2>4, <2>5, Zenon DEF IInv, TypeOK
  <1>6. Roles'
    BY <1>2 DEF IInv, Roles, Threads
  <1>7. ClaimedTurns'
    <2>1. ClaimedTurns
      BY DEF IInv
    <2>2. (\A q \in Producers : pc[q] \in Claimed =>
             ticket[q] < head_ /\ ThisTurn(q) <= freeTurn(ticket[q]))'
      <3> SUFFICES ASSUME NEW q \in Producers, pc'[q] \in Claimed
                   PROVE  ticket'[q] < head_' /\ ThisTurn(q)' <= freeTurn(ticket'[q])
        OBVIOUS
      <3>1. CASE q = p
        BY <3>1, <1>1, <1>2, <1>4 DEF ThisTurn
      <3>2. CASE q # p
        <4>1. ticket[q] \in Nat
          BY DEF IInv, TypeOK, Threads
        <4> QED
          BY <3>2, <4>1, <1>1, <1>2, <2>1 DEF ThisTurn, ClaimedTurns, Threads
      <3> QED
        BY <3>1, <3>2
    <2>3. (\A c \in Consumers : pc[c] \in Claimed =>
             ticket[c] < tail_ /\ ThisTurn(c) <= publishedTurn(ticket[c]))'
      BY <1>2, <2>1 DEF ClaimedTurns, Threads, ThisTurn
    <2>4. (\A u \in Threads : pc[u] \in Inside => SlotReady(u))'
      <3> SUFFICES ASSUME NEW u \in Threads, pc'[u] \in Inside
                   PROVE  SlotReady(u)'
        OBVIOUS
      <3>1. CASE u = p
        <4>1. slotTurn[idx(head_)] \in Nat /\ freeTurn(head_) \in Nat
          <5>1. idx(head_) \in Slots /\ turn(head_) \in Nat
            BY <1>1, Laps
          <5> QED
            BY <5>1 DEF IInv, TypeOK, freeTurn
        <4>2. l = "construct"
          BY <3>1, <1>2 DEF Inside
        <4> QED
          BY <3>1, <4>1, <4>2, <1>2, <1>4 DEF SlotReady, AwaitedTurn
      <3>2. CASE u # p
        BY <3>2, <1>2, <2>1 DEF ClaimedTurns, SlotReady, AwaitedTurn
      <3> QED
        BY <3>1, <3>2
    <2>5. (\A u \in Threads : pc[u] = "tryCas" => ThisTurn(u) >= AwaitedTurn(u))'
      BY <1>2, <2>1 DEF ClaimedTurns, ThisTurn, AwaitedTurn, Threads
    <2> QED
      BY <2>2, <2>3, <2>4, <2>5 DEF ClaimedTurns
  <1>8. TicketsDistinct'
    <2>1. \A q \in Producers : pc[q] \in Claimed => ticket[q] # head_
      <3>1. \A q \in Producers : ticket[q] \in Nat
        BY DEF IInv, TypeOK, Threads
      <3> QED
        BY <1>1, <3>1 DEF IInv, ClaimedTurns
    <2> QED
      BY <1>2, <2>1 DEF IInv, TicketsDistinct, Threads
  <1>9. UnclaimedTurns'
    BY <1>1 DEF IInv, UnclaimedTurns
  <1>10. Delivered'
    BY <1>1, <1>3 DEF IInv, Delivered, TypeOK, Tickets
  <1>11. Contents'
    <2>1. Contents
      BY DEF IInv
    <2>2. \A n \in Tickets : slotTurn[idx(n)] = publishedTurn(n) => n \in 0 .. head_ - 1
      <3> SUFFICES ASSUME NEW n \in Tickets, slotTurn[idx(n)] = publishedTurn(n)
                   PROVE  n \in 0 .. head_ - 1
        OBVIOUS
      <3>1. n \in Nat /\ n \in 0 .. MaxTickets /\ turn(n) \in Nat
        BY RingAssumption, Laps DEF Tickets
      <3> QED
        BY <3>1, <1>1, <1>4 DEF publishedTurn, freeTurn
    <2>3. \A u \in Threads : pc[u] \in {"release", "publish"} => pc'[u] = pc[u] /\ ticket'[u] = ticket[u]
      BY <1>2 DEF Claimed, Inside
    <2> QED
      BY <1>3, <2>1, <2>2, <2>3 DEF Contents, Threads
  <1>12. Elements'
    <2>1. Elements
      BY DEF IInv
    <2>2. \A q \in Producers : pc[q] \in Claimed => ticket[q] \in 0 .. head_ - 1
      BY <1>1 DEF IInv, ClaimedTurns, TypeOK, Threads
    <2>3. \A c \in Consumers : pc[c] = "release" => ticket[c] \in 0 .. head_ - 1
      <3> SUFFICES ASSUME NEW c \in Consumers, pc[c] = "release"
                   PROVE  ticket[c] \in 0 .. head_ - 1
        OBVIOUS
      <3>1. ticket[c] \in Nat /\ ticket[c] \in 0 .. MaxTickets /\ turn(ticket[c]) \in Nat
        BY Laps DEF IInv, TypeOK, Threads
      <3>2. slotTurn[idx(ticket[c])] = publishedTurn(ticket[c])
        BY RingAssumption DEF IInv, ClaimedTurns, Inside, SlotReady, AwaitedTurn, Threads
      <3> QED
        BY <3>1, <3>2, <1>1, <1>4 DEF publishedTurn, freeTurn
    <2>4. (\A q \in Producers : pc[q] \in Claimed => val[q] = pushed[ticket[q]])'
      BY <1>2, <1>3, <2>1, <2>2 DEF Elements, Threads
    <2>5. (\A c \in Consumers : pc[c] = "release" =>
             val[c] = pushed[ticket[c]] /\ storage[idx(ticket[c])] = Raw)'
      BY <1>2, <1>3, <2>1, <2>3 DEF Elements, Threads
    <2>6. (\A q \in Producers : pc[q] = "publish" => storage[idx(ticket[q])] = val[q])'
      BY <1>2, <2>1 DEF Elements, Threads
    <2>7. (\A q \in Producers : pc[q] \in Trying => val[q] \in Values)'
      BY <1>2, <2>1 DEF Elements, Threads, Trying
    <2> QED
      BY <2>4, <2>5, <2>6, <2>7 DEF Elements
  <1> QED
    BY <1>5, <1>6, <1>7, <1>8, <1>9, <1>10, <1>11, <1>12 DEF IInv

(* A consumer that claims ticket tail_ keeps IInv.                         *)
LEMMA ClaimTailStep ==
  ASSUME IInv,
         NEW c \in Consumers, pc[c] \notin Claimed,
         NEW l \in {"spin", "take"},
         l = "take" => slotTurn[idx(tail_)] >= publishedTurn(tail_),
         ClaimTail(c),
         pc' = [pc EXCEPT ![c] = l],
         UNCHANGED <<head_, slotTurn, storage, val, pushed, popped>>
  PROVE  IInv'
  <1>1. /\ tail_ \in Nat /\ tail_ < MaxTickets
        /\ tail_' = tail_ + 1
        /\ tail_ \in 0 .. MaxTickets
    BY RingAssumption DEF IInv, TypeOK, ClaimTail
  <1>2. /\ pc'[c] = l /\ ticket'[c] = tail_
        /\ \A u \in Threads : u # c => pc'[u] = pc[u] /\ ticket'[u] = ticket[u]
        /\ \A u \in Threads : pc[u] \in Claimed => u # c
        /\ c \in Threads
        /\ c \notin Producers
    BY RingAssumption DEF IInv, TypeOK, ClaimTail, Threads
  <1>3. slotTurn[idx(tail_)] <= publishedTurn(tail_)
    BY <1>1 DEF IInv, UnclaimedTurns
  <1>4. TypeOK'
    <2>1. tail_' \in 0 .. MaxTickets
      BY <1>1, RingAssumption
    <2>2. ticket' \in [Threads -> 0 .. MaxTickets]
      BY <1>1, Zenon DEF IInv, TypeOK, ClaimTail
    <2>3. pc' \in [Threads -> {"idle"} \cup Claimed \cup Trying]
      BY Zenon DEF IInv, TypeOK, Claimed, Inside
    <2> QED
      BY <2>1, <2>2, <2>3 DEF IInv, TypeOK
  <1>5. Roles'
    BY <1>2 DEF IInv, Roles, Threads
  <1>6. ClaimedTurns'
    <2>1. ClaimedTurns
      BY DEF IInv
    <2>2. (\A p \in Producers : pc[p] \in Claimed =>
             ticket[p] < head_ /\ ThisTurn(p) <= freeTurn(ticket[p]))'
      BY <1>2, <2>1 DEF ClaimedTurns, Threads, ThisTurn
    <2>3. (\A d \in Consumers : pc[d] \in Claimed =>
             ticket[d] < tail_ /\ ThisTurn(d) <= publishedTurn(ticket[d]))'
      <3> SUFFICES ASSUME NEW d \in Consumers, pc'[d] \in Claimed
                   PROVE  ticket'[d] < tail_' /\ ThisTurn(d)' <= publishedTurn(ticket'[d])
        OBVIOUS
      <3>1. CASE d = c
        BY <3>1, <1>1, <1>2, <1>3 DEF ThisTurn
      <3>2. CASE d # c
        <4>1. ticket[d] \in Nat
          BY DEF IInv, TypeOK, Threads
        <4> QED
          BY <3>2, <4>1, <1>1, <1>2, <2>1 DEF ThisTurn, ClaimedTurns, Threads
      <3> QED
        BY <3>1, <3>2
    <2>4. (\A u \in Threads : pc[u] \in Inside => SlotReady(u))'
      <3> SUFFICES ASSUME NEW u \in Threads, pc'[u] \in Inside
                   PROVE  SlotReady(u)'
        OBVIOUS
      <3>1. CASE u = c
        <4>1. idx(tail_) \in Slots /\ turn(tail_) \in Nat
          BY <1>1, Laps
        <4>2. slotTurn[idx(tail_)] \in Nat /\ publishedTurn(tail_) \in Nat
          BY <4>1 DEF IInv, TypeOK, publishedTurn
        <4>3. l = "take"
          BY <3>1, <1>2 DEF Inside
        <4> QED
          BY <3>1, <4>2, <4>3, <1>2, <1>3 DEF SlotReady, AwaitedTurn
      <3>2. CASE u # c
        BY <3>2, <1>2, <2>1 DEF ClaimedTurns, SlotReady, AwaitedTurn
      <3> QED
        BY <3>1, <3>2
    <2>5. (\A u \in Threads : pc[u] = "tryCas" => ThisTurn(u) >= AwaitedTurn(u))'
      BY <1>2, <2>1 DEF ClaimedTurns, ThisTurn, AwaitedTurn, Threads
    <2> QED
      BY <2>2, <2>3, <2>4, <2>5 DEF ClaimedTurns
  <1>7. TicketsDistinct'
    <2>1. \A d \in Consumers : pc[d] \in Claimed => ticket[d] # tail_
      <3>1. \A d \in Consumers : ticket[d] \in Nat
        BY DEF IInv, TypeOK, Threads
      <3> QED
        BY <1>1, <3>1, SMTT(30) DEF IInv, ClaimedTurns
    <2> QED
      BY <1>2, <2>1 DEF IInv, TicketsDistinct, Threads
  <1>8. UnclaimedTurns'
    BY <1>1 DEF IInv, UnclaimedTurns
  <1>9. Delivered'
    BY DEF IInv, Delivered
  <1>10. Contents'
    <2>1. Contents
      BY DEF IInv
    <2>2. \A u \in Threads : pc[u] \in {"release", "publish"} => pc'[u] = pc[u] /\ ticket'[u] = ticket[u]
      BY <1>2 DEF Claimed, Inside
    <2> QED
      BY <2>1, <2>2 DEF Contents, Threads
  <1>11. Elements'
    <2>1. Elements
      BY DEF IInv
    <2>2. \A u \in Threads : pc'[u] = "release" => pc[u] = "release" /\ ticket'[u] = ticket[u]
      BY <1>2
    <2>3. \A p \in Producers : pc'[p] = pc[p] /\ ticket'[p] = ticket[p]
      BY <1>2 DEF Threads
    <2> QED
      BY <2>1, <2>2, <2>3 DEF Elements, Threads
  <1> QED
    BY <1>4, <1>5, <1>6, <1>7, <1>8, <1>9, <1>10, <1>11 DEF IInv

(* Leaving a spin loop keeps IInv.                                         *)
LEMMA SpinStep ==
  ASSUME IInv, NEW t \in Threads, Spin(t)
  PROVE  IInv'
  <1>1. /\ pc[t] = "spin" /\ SlotReady(t)
        /\ pc'[t] = Use(t)
        /\ \A u \in Threads : u # t => pc'[u] = pc[u]
        /\ UNCHANGED <<head_, tail_, slotTurn, storage, ticket, val, pushed, popped>>
    BY DEF IInv, TypeOK, Spin, Goto
  <1>2. Use(t) \in {"construct", "take"}
    BY DEF Use
  <1>3. \A u \in Threads : pc'[u] \in Claimed <=> pc[u] \in Claimed
    BY <1>1, <1>2 DEF Claimed, Inside
  <1>4. TypeOK'
    <2>1. pc' \in [Threads -> {"idle"} \cup Claimed \cup Trying]
      BY <1>2 DEF IInv, TypeOK, Spin, Goto, Claimed, Inside
    <2> QED
      BY <1>1, <2>1 DEF IInv, TypeOK
  <1>5. Roles'
    BY <1>1, RingAssumption DEF IInv, Roles, Use, Threads
  <1>6. ClaimedTurns'
    BY <1>1, <1>2, <1>3 DEF IInv, ClaimedTurns, ThisTurn, SlotReady, AwaitedTurn, Threads
  <1>7. TicketsDistinct'
    BY <1>1, <1>3 DEF IInv, TicketsDistinct, Threads
  <1>8. UnclaimedTurns' /\ Delivered'
    BY <1>1 DEF IInv, UnclaimedTurns, Delivered
  <1>9. Contents'
    BY <1>1 DEF IInv, Contents, Threads
  <1>10. Elements'
    <2>1. \A u \in Threads :
            /\ pc'[u] \in Trying => pc[u] \in Trying
            /\ pc'[u] \in {"publish", "release"} => pc'[u] = pc[u]
      BY <1>1, <1>2 DEF Trying
    <2> QED
      BY <1>1, <1>3, <2>1 DEF IInv, Elements, Threads
  <1> QED
    BY <1>4, <1>5, <1>6, <1>7, <1>8, <1>9, <1>10 DEF IInv

(* Constructing the element in the claimed slot keeps IInv.                *)
LEMMA ConstructStep ==
  ASSUME IInv, NEW p \in Producers, Construct(p)
  PROVE  IInv'
  <1> DEFINE i == idx(ticket[p])
  <1>1. /\ pc[p] = "construct" /\ pc'[p] = "publish"
        /\ p \in Threads /\ p \notin Consumers
        /\ \A u \in Threads : u # p => pc'[u] = pc[u]
        /\ UNCHANGED <<head_, tail_, slotTurn, ticket, val, pushed, popped>>
    BY RingAssumption DEF IInv, TypeOK, Construct, Goto, Threads
  <1>2. /\ i \in Slots /\ turn(ticket[p]) \in Nat
        /\ slotTurn[i] = turn(ticket[p]) * 2
    <2>1. ticket[p] \in Nat
      BY <1>1 DEF IInv, TypeOK
    <2> QED
      BY <1>1, <2>1, Laps DEF IInv, ClaimedTurns, Inside, SlotReady, AwaitedTurn, freeTurn
  <1>3. storage'[i] = val[p] /\ \A j \in Slots : j # i => storage'[j] = storage[j]
    BY <1>2 DEF IInv, TypeOK, Construct
  <1>4. \A u \in Threads : u # p /\ pc[u] \in Inside => idx(ticket[u]) # i
    BY <1>1, ExclusionFromInv DEF SlotExclusion, Inside
  <1>5. \A u \in Threads : idx(ticket[u]) \in Slots
    BY Laps DEF IInv, TypeOK
  <1>6. \A u \in Threads : pc'[u] \in Claimed <=> pc[u] \in Claimed
    BY <1>1 DEF Claimed, Inside
  <1> HIDE DEF i
  <1>7. TypeOK'
    <2>1. pc' \in [Threads -> {"idle"} \cup Claimed \cup Trying]
      BY Zenon DEF IInv, TypeOK, Construct, Goto, Claimed, Inside
    <2>2. storage' \in [Slots -> Values \cup {Raw}]
      BY <1>1, Zenon DEF IInv, TypeOK, Construct
    <2> QED
      BY <1>1, <2>1, <2>2 DEF IInv, TypeOK
  <1>8. Roles'
    BY <1>1 DEF IInv, Roles, Threads
  <1>9. ClaimedTurns'
    BY <1>1, <1>6 DEF IInv, ClaimedTurns, ThisTurn, SlotReady, AwaitedTurn, Threads, Inside
  <1>10. TicketsDistinct'
    BY <1>1, <1>6 DEF IInv, TicketsDistinct, Threads
  <1>11. UnclaimedTurns' /\ Delivered'
    BY <1>1 DEF IInv, UnclaimedTurns, Delivered
  <1>12. Contents'
    <2>1. Contents
      BY DEF IInv
    <2>2. \A n \in Tickets : idx(n) \in Slots /\ turn(n) \in Nat
      BY Laps DEF Tickets
    <2>3. \A n \in Tickets : slotTurn[idx(n)] = publishedTurn(n) => idx(n) # i
      BY <1>2, <2>2 DEF publishedTurn
    <2>4. (\A n \in Tickets : slotTurn[idx(n)] = publishedTurn(n) =>
             \/ storage[idx(n)] = pushed[n]
             \/ \E c \in Consumers : pc[c] = "release" /\ ticket[c] = n)'
      BY <1>1, <1>3, <2>1, <2>2, <2>3 DEF Contents, Threads
    <2>5. (\A j \in Slots : slotTurn[j] % 2 = 0 =>
             \/ storage[j] = Raw
             \/ \E q \in Producers : pc[q] = "publish" /\ idx(ticket[q]) = j)'
      <3> SUFFICES ASSUME NEW j \in Slots, slotTurn[j] % 2 = 0, j # i
                   PROVE  \/ storage'[j] = Raw
                          \/ \E q \in Producers : pc'[q] = "publish" /\ idx(ticket[q]) = j
        BY <1>1 DEF i
      <3>1. CASE storage[j] = Raw
        BY <3>1, <1>3
      <3>2. CASE \E q \in Producers : pc[q] = "publish" /\ idx(ticket[q]) = j
        <4>1. PICK q \in Producers : pc[q] = "publish" /\ idx(ticket[q]) = j
          BY <3>2
        <4>2. q \in Threads /\ q # p
          BY <4>1, <1>1 DEF Threads
        <4>3. pc'[q] = "publish"
          BY <4>1, <4>2, <1>1
        <4> QED
          BY <4>1, <4>3
      <3> QED
        BY <3>1, <3>2, <2>1 DEF Contents
    <2> QED
      BY <1>1, <2>1, <2>4, <2>5 DEF Contents
  <1>13. Elements'
    <2>1. Elements
      BY DEF IInv
    <2>2. (\A q \in Producers : pc[q] \in Trying => val[q] \in Values)'
      BY <1>1, <2>1 DEF Elements, Threads, Trying
    <2>3. (\A q \in Producers : pc[q] \in Claimed => val[q] = pushed[ticket[q]])'
      BY <1>1, <1>6, <2>1 DEF Elements, Threads
    <2>4. (\A q \in Producers : pc[q] = "publish" => storage[idx(ticket[q])] = val[q])'
      BY <1>1, <1>3, <1>4, <1>5, <2>1 DEF Elements, Threads, Inside, i
    <2>5. (\A c \in Consumers : pc[c] = "release" =>
             val[c] = pushed[ticket[c]] /\ storage[idx(ticket[c])] = Raw)'
      BY <1>1, <1>3, <1>4, <1>5, <2>1 DEF Elements, Threads, Inside
    <2> QED
      BY <2>2, <2>3, <2>4, <2>5 DEF Elements
  <1> QED
    BY <1>7, <1>8, <1>9, <1>10, <1>11, <1>12, <1>13 DEF IInv

(* Moving the element out of the slot and destroying it keeps IInv: the    *)
(* slot held the element pushed with the consumer's ticket.                *)
LEMMA TakeStep ==
  ASSUME IInv, NEW c \in Consumers, Take(c)
  PROVE  IInv'
  <1> DEFINE i == idx(ticket[c])
  <1>1. /\ pc[c] = "take" /\ pc'[c] = "release"
        /\ c \in Threads /\ c \notin Producers
        /\ \A u \in Threads : u # c => pc'[u] = pc[u] /\ val'[u] = val[u]
        /\ val'[c] = storage[i]
        /\ UNCHANGED <<head_, tail_, slotTurn, ticket, pushed, popped>>
    BY RingAssumption DEF IInv, TypeOK, Take, Goto, Threads
  <1>2. /\ ticket[c] \in Tickets
        /\ i \in Slots /\ turn(ticket[c]) \in Nat
        /\ slotTurn[i] = publishedTurn(ticket[c])
    <2>1. ticket[c] \in Nat
      BY <1>1 DEF IInv, TypeOK
    <2>2. ticket[c] < tail_ /\ tail_ \in 0 .. MaxTickets
      BY <1>1 DEF IInv, TypeOK, ClaimedTurns, Claimed, Inside
    <2> QED
      BY <1>1, <2>1, <2>2, RingAssumption, Laps
         DEF IInv, ClaimedTurns, Inside, SlotReady, AwaitedTurn, Tickets
  <1>3. storage'[i] = Raw /\ \A j \in Slots : j # i => storage'[j] = storage[j]
    BY <1>2 DEF IInv, TypeOK, Take
  <1>4. \A u \in Threads : u # c /\ pc[u] \in Inside => idx(ticket[u]) # i
    BY <1>1, ExclusionFromInv DEF SlotExclusion, Inside
  <1>5. \A u \in Threads : idx(ticket[u]) \in Slots
    BY Laps DEF IInv, TypeOK
  <1>6. \A u \in Threads : pc'[u] \in Claimed <=> pc[u] \in Claimed
    BY <1>1 DEF Claimed, Inside
  <1>7. storage[i] = pushed[ticket[c]]
    BY <1>1, <1>2, <1>4 DEF IInv, Contents, Threads, Inside
  <1> HIDE DEF i
  <1>8. TypeOK'
    <2>1. pc' \in [Threads -> {"idle"} \cup Claimed \cup Trying]
      BY Zenon DEF IInv, TypeOK, Take, Goto, Claimed, Inside
    <2>2. storage' \in [Slots -> Values \cup {Raw}]
      BY Zenon DEF IInv, TypeOK, Take
    <2>3. val' \in [Threads -> Values \cup {Raw}]
      BY <1>2, Zenon DEF IInv, TypeOK, Take, i
    <2> QED
      BY <1>1, <2>1, <2>2, <2>3 DEF IInv, TypeOK
  <1>9. Roles'
    BY <1>1 DEF IInv, Roles, Threads
  <1>10. ClaimedTurns'
    BY <1>1, <1>6 DEF IInv, ClaimedTurns, ThisTurn, SlotReady, AwaitedTurn, Threads, Inside
  <1>11. TicketsDistinct'
    BY <1>1, <1>6 DEF IInv, TicketsDistinct, Threads
  <1>12. UnclaimedTurns' /\ Delivered'
    BY <1>1 DEF IInv, UnclaimedTurns, Delivered
  <1>13. Contents'
    <2>1. Contents
      BY DEF IInv
    <2>2. \A n \in Tickets : n \in Nat /\ idx(n) \in Slots /\ turn(n) \in Nat
      BY Laps DEF Tickets
    <2>3. \A n \in Tickets : slotTurn[idx(n)] = publishedTurn(n) /\ idx(n) = i => n = ticket[c]
      <3> SUFFICES ASSUME NEW n \in Tickets, slotTurn[idx(n)] = publishedTurn(n), idx(n) = i
                   PROVE  n = ticket[c]
        OBVIOUS
      <3>1. turn(n) = turn(ticket[c])
        BY <1>2, <2>2 DEF publishedTurn
      <3>2. idx(n) = idx(ticket[c]) /\ ticket[c] \in Nat /\ n \in Nat
        BY <1>2, <2>2, Zenon DEF i
      <3> QED
        BY <1>2, <3>1, <3>2, Laps
    <2>4. (\A n \in Tickets : slotTurn[idx(n)] = publishedTurn(n) =>
             \/ storage[idx(n)] = pushed[n]
             \/ \E d \in Consumers : pc[d] = "release" /\ ticket[d] = n)'
      <3> SUFFICES ASSUME NEW n \in Tickets, slotTurn[idx(n)] = publishedTurn(n)
                   PROVE  \/ storage'[idx(n)] = pushed[n]
                          \/ \E d \in Consumers : pc'[d] = "release" /\ ticket'[d] = n
        BY <1>1, Zenon
      <3>1. CASE idx(n) = i
        <4>1. n = ticket[c] /\ c \in Consumers /\ pc'[c] = "release" /\ ticket'[c] = ticket[c]
          BY <1>1, <2>3, <3>1
        <4> QED
          BY <4>1, Zenon
      <3>2. CASE idx(n) # i /\ storage[idx(n)] = pushed[n]
        BY <1>3, <2>2, <3>2
      <3>3. CASE \E d \in Consumers : pc[d] = "release" /\ ticket[d] = n
        <4>1. PICK d \in Consumers : pc[d] = "release" /\ ticket[d] = n
          BY <3>3
        <4>2. d \in Threads /\ d # c
          BY <1>1, <4>1, Zenon DEF Threads
        <4> QED
          BY <1>1, <4>1, <4>2, Zenon
      <3> QED
        BY <2>1, <3>1, <3>2, <3>3, Zenon DEF Contents
    <2>5. (\A j \in Slots : slotTurn[j] % 2 = 0 =>
             \/ storage[j] = Raw
             \/ \E q \in Producers : pc[q] = "publish" /\ idx(ticket[q]) = j)'
      <3>1. \A j \in Slots : storage[j] = Raw => storage'[j] = Raw
        BY <1>3
      <3>2. \A q \in Producers : pc[q] = "publish" => pc'[q] = "publish"
        BY <1>1 DEF Threads
      <3> QED
        BY <1>1, <3>1, <3>2, <2>1 DEF Contents
    <2> QED
      BY <1>1, <2>1, <2>4, <2>5 DEF Contents
  <1>14. Elements'
    <2>1. Elements
      BY DEF IInv
    <2>2. (\A q \in Producers : pc[q] \in Trying => val[q] \in Values)'
      BY <1>1, <2>1 DEF Elements, Threads
    <2>3. (\A q \in Producers : pc[q] \in Claimed => val[q] = pushed[ticket[q]])'
      BY <1>1, <2>1 DEF Elements, Threads
    <2>4. (\A q \in Producers : pc[q] = "publish" => storage[idx(ticket[q])] = val[q])'
      <3> SUFFICES ASSUME NEW q \in Producers, pc'[q] = "publish"
                   PROVE  storage'[idx(ticket[q])] = val'[q]
        BY <1>1, Zenon
      <3>1. q \in Threads /\ q # c
        BY <1>1, Zenon DEF Threads
      <3>2. pc[q] = "publish" /\ val'[q] = val[q]
        BY <1>1, <3>1, Zenon
      <3>3. idx(ticket[q]) # i /\ idx(ticket[q]) \in Slots
        BY <1>4, <1>5, <3>1, <3>2, Zenon DEF Inside
      <3>4. storage[idx(ticket[q])] = val[q]
        BY <2>1, <3>2, Zenon DEF Elements
      <3> QED
        BY <1>3, <3>2, <3>3, <3>4, Zenon
    <2>5. (\A d \in Consumers : pc[d] = "release" =>
             val[d] = pushed[ticket[d]] /\ storage[idx(ticket[d])] = Raw)'
      <3> SUFFICES ASSUME NEW d \in Consumers, pc'[d] = "release"
                   PROVE  val'[d] = pushed[ticket[d]] /\ storage'[idx(ticket[d])] = Raw
        BY <1>1, Zenon
      <3>1. CASE d = c
        BY <1>1, <1>3, <1>7, <3>1, Zenon DEF i
      <3>2. CASE d # c
        <4>1. d \in Threads /\ pc[d] = "release" /\ val'[d] = val[d]
          BY <1>1, <3>2, Zenon DEF Threads
        <4>2. idx(ticket[d]) # i /\ idx(ticket[d]) \in Slots
          BY <1>4, <1>5, <3>2, <4>1, Zenon DEF Inside
        <4>3. val[d] = pushed[ticket[d]] /\ storage[idx(ticket[d])] = Raw
          BY <2>1, <4>1, Zenon DEF Elements
        <4> QED
          BY <1>3, <4>1, <4>2, <4>3, Zenon
      <3> QED
        BY <3>1, <3>2, Zenon
    <2> QED
      BY <2>2, <2>3, <2>4, <2>5 DEF Elements
  <1> QED
    BY <1>8, <1>9, <1>10, <1>11, <1>12, <1>13, <1>14 DEF IInv

(* Storing the published turn, which returns from emplace, keeps IInv.     *)
LEMMA PublishStep ==
  ASSUME IInv, NEW p \in Producers, Publish(p)
  PROVE  IInv'
  <1> DEFINE T == ticket[p]
             i == idx(ticket[p])
  <1>1. /\ pc[p] = "publish" /\ pc'[p] = "idle"
        /\ p \in Threads /\ p \notin Consumers
        /\ \A u \in Threads : u # p =>
             pc'[u] = pc[u] /\ ticket'[u] = ticket[u] /\ val'[u] = val[u]
        /\ UNCHANGED <<head_, tail_, storage, pushed, popped>>
    BY RingAssumption DEF IInv, TypeOK, Publish, Return, Goto, Threads
  <1>2. /\ T \in Nat /\ T \in Tickets /\ T < head_
        /\ i \in Slots /\ turn(T) \in Nat
        /\ slotTurn[i] = turn(T) * 2
    <2>1. T \in Nat
      BY <1>1 DEF IInv, TypeOK
    <2>2. T < head_ /\ head_ \in 0 .. MaxTickets
      BY <1>1 DEF IInv, TypeOK, ClaimedTurns, Claimed, Inside
    <2>3. T \in Tickets
      BY <2>1, <2>2, RingAssumption DEF Tickets
    <2>4. pc[p] \in Inside
      BY <1>1, Zenon DEF Inside
    <2>5. SlotReady(p)
      BY <1>1, <2>4, Zenon DEF IInv, ClaimedTurns
    <2>6. slotTurn[i] = turn(T) * 2
      BY <2>5, Zenon DEF SlotReady, AwaitedTurn, freeTurn
    <2> QED
      BY <2>1, <2>2, <2>3, <2>6, Laps, Zenon
  <1>3. slotTurn'[i] = turn(T) * 2 + 1 /\ \A j \in Slots : j # i => slotTurn'[j] = slotTurn[j]
    BY <1>2, Zenon DEF IInv, TypeOK, Publish, publishedTurn
  <1>4. \A u \in Threads : u # p /\ pc[u] \in Inside => idx(ticket[u]) # i
    BY <1>1, ExclusionFromInv DEF SlotExclusion, Inside
  <1>5. \A u \in Threads : /\ ticket[u] \in Nat /\ ticket[u] \in 0 .. MaxTickets
                           /\ idx(ticket[u]) \in Slots
                           /\ turn(ticket[u]) \in Nat
    <2>1. \A u \in Threads : ticket[u] \in 0 .. MaxTickets
      BY Zenon DEF IInv, TypeOK
    <2>2. \A n \in 0 .. MaxTickets : n \in Nat
      OBVIOUS
    <2> QED
      BY <2>1, <2>2, Laps, Zenon
  <1>6. \A u \in Threads : pc'[u] \in Claimed => u # p /\ pc[u] \in Claimed
    BY <1>1, Zenon DEF Claimed, Inside
  <1>7. storage[i] = pushed[T]
    BY <1>1 DEF IInv, Elements, Claimed, Inside
  <1>8. \A n \in 0 .. MaxTickets : n \in Nat /\ idx(n) \in Slots /\ turn(n) \in Nat
    BY Laps
  <1>9. \A n \in Nat : n # T /\ idx(n) = i =>
          \/ T < n /\ turn(T) + 1 <= turn(n)
          \/ n < T /\ turn(n) + 1 <= turn(T)
    BY <1>2, Laps
  <1>10. slotTurn \in [Slots -> Nat]
    BY DEF IInv, TypeOK
  <1> HIDE DEF i, T
  <1>11. TypeOK'
    <2>1. pc' \in [Threads -> {"idle"} \cup Claimed \cup Trying]
      BY Zenon DEF IInv, TypeOK, Publish, Return, Goto
    <2>2. slotTurn' \in [Slots -> Nat]
      BY <1>2, <1>10 DEF Publish, publishedTurn, i, T
    <2>3. ticket' \in [Threads -> 0 .. MaxTickets]
      <3>1. 0 \in 0 .. MaxTickets
        BY RingAssumption
      <3> QED
        BY <3>1, Zenon DEF IInv, TypeOK, Publish, Return
    <2>4. val' \in [Threads -> Values \cup {Raw}]
      BY Zenon DEF IInv, TypeOK, Publish, Return
    <2> QED
      BY <1>1, <2>1, <2>2, <2>3, <2>4 DEF IInv, TypeOK
  <1>12. Roles'
    BY <1>1 DEF IInv, Roles, Threads
  <1>13. ClaimedTurns'
    <2>1. ClaimedTurns
      BY DEF IInv
    <2>2. ASSUME NEW q \in Producers, pc'[q] \in Claimed
          PROVE  ticket'[q] < head_' /\ ThisTurn(q)' <= freeTurn(ticket'[q])
      <3>1. /\ q \in Threads /\ q # p /\ pc[q] \in Claimed
            /\ ticket'[q] = ticket[q]
            /\ ticket[q] < head_ /\ slotTurn[idx(ticket[q])] <= turn(ticket[q]) * 2
        BY <2>1, <2>2, <1>1, <1>6, Zenon DEF ClaimedTurns, ThisTurn, Threads, freeTurn
      <3>2. ticket[q] # T
        BY <3>1, <1>1 DEF IInv, TicketsDistinct, Claimed, Inside, T
      <3>3. CASE idx(ticket[q]) = i
        <4>1. ThisTurn(q)' = turn(T) * 2 + 1
          BY <3>1, <3>3, <1>3, Zenon DEF ThisTurn
        <4>2. /\ ticket[q] \in Nat /\ turn(ticket[q]) \in Nat
              /\ slotTurn[i] <= turn(ticket[q]) * 2
          BY <3>1, <3>3, <1>5, Zenon
        <4>3. turn(T) + 1 <= turn(ticket[q])
          <5>1. turn(T) <= turn(ticket[q])
            BY <4>2, <1>2
          <5>2. \/ T < ticket[q] /\ turn(T) + 1 <= turn(ticket[q])
                \/ ticket[q] < T /\ turn(ticket[q]) + 1 <= turn(T)
            BY <3>2, <3>3, <4>2, <1>9, Zenon
          <5> QED
            BY <5>1, <5>2, <4>2, <1>2
        <4>4. turn(T) * 2 + 1 <= turn(ticket[q]) * 2
          BY <4>2, <4>3, <1>2
        <4> QED
          BY <4>1, <4>4, <3>1, <1>1, Zenon DEF freeTurn
      <3>4. CASE idx(ticket[q]) # i
        <4>1. slotTurn'[idx(ticket[q])] = slotTurn[idx(ticket[q])]
          BY <3>1, <3>4, <1>3, <1>5
        <4> QED
          BY <3>1, <4>1, <1>1 DEF ThisTurn, freeTurn
      <3> QED
        BY <3>3, <3>4
    <2>3. ASSUME NEW c \in Consumers, pc'[c] \in Claimed
          PROVE  ticket'[c] < tail_' /\ ThisTurn(c)' <= publishedTurn(ticket'[c])
      <3>1. /\ c \in Threads /\ c # p /\ pc[c] \in Claimed
            /\ ticket'[c] = ticket[c]
            /\ ticket[c] < tail_ /\ slotTurn[idx(ticket[c])] <= turn(ticket[c]) * 2 + 1
        BY <2>1, <2>3, <1>1, <1>6, Zenon DEF ClaimedTurns, ThisTurn, Threads, publishedTurn
      <3>2. CASE idx(ticket[c]) = i
        <4>1. ThisTurn(c)' = turn(T) * 2 + 1
          BY <3>1, <3>2, <1>3 DEF ThisTurn
        <4>2. turn(T) <= turn(ticket[c])
          BY <3>1, <3>2, <1>2, <1>5
        <4> QED
          BY <3>1, <4>1, <4>2, <1>1, <1>2, <1>5, SMTT(30) DEF publishedTurn
      <3>3. CASE idx(ticket[c]) # i
        <4>1. slotTurn'[idx(ticket[c])] = slotTurn[idx(ticket[c])]
          BY <3>1, <3>3, <1>3, <1>5, Zenon
        <4> QED
          BY <3>1, <4>1, <1>1 DEF ThisTurn, publishedTurn
      <3> QED
        BY <3>2, <3>3, Zenon
    <2>4. ASSUME NEW u \in Threads, pc'[u] \in Inside
          PROVE  SlotReady(u)'
      <3>1. u # p /\ pc[u] \in Inside
        BY <2>4, <1>1 DEF Inside
      <3> QED
        BY <3>1, <2>1, <1>1, <1>3, <1>4, <1>5 DEF ClaimedTurns, SlotReady, AwaitedTurn
    <2>5. ASSUME NEW u \in Threads, pc'[u] = "tryCas"
          PROVE  ThisTurn(u)' >= AwaitedTurn(u)'
      <3>1. /\ u # p /\ ticket'[u] = ticket[u]
            /\ slotTurn[idx(ticket[u])] >= AwaitedTurn(u)
            /\ AwaitedTurn(u)' = AwaitedTurn(u)
            /\ AwaitedTurn(u) \in Nat
        BY <2>1, <2>5, <1>1, <1>5, SMTT(30)
        DEF ClaimedTurns, ThisTurn, AwaitedTurn, freeTurn, publishedTurn
      <3>2. slotTurn'[idx(ticket[u])] >= slotTurn[idx(ticket[u])]
        BY <1>2, <1>3, <1>5, <1>10
      <3>3. slotTurn[idx(ticket[u])] \in Nat /\ slotTurn'[idx(ticket[u])] \in Nat
        BY <1>2, <1>3, <1>5, <1>10
      <3> QED
        BY <3>1, <3>2, <3>3, SMTT(30) DEF ThisTurn
    <2> QED
      BY <2>2, <2>3, <2>4, <2>5 DEF ClaimedTurns
  <1>14. TicketsDistinct'
    BY <1>1, <1>6 DEF IInv, TicketsDistinct, Threads
  <1>15. UnclaimedTurns'
    <2> SUFFICES ASSUME NEW n \in 0 .. MaxTickets
                 PROVE  /\ n >= head_ => slotTurn'[idx(n)] <= freeTurn(n)
                        /\ n >= tail_ => slotTurn'[idx(n)] <= publishedTurn(n)
      BY <1>1 DEF UnclaimedTurns
    <2>1. /\ n >= head_ => slotTurn[idx(n)] <= turn(n) * 2
          /\ n >= tail_ => slotTurn[idx(n)] <= turn(n) * 2 + 1
      BY DEF IInv, UnclaimedTurns, freeTurn, publishedTurn
    <2>2. head_ \in Nat /\ tail_ \in Nat
      BY DEF IInv, TypeOK
    <2>3. CASE idx(n) = i
      BY <2>1, <2>2, <2>3, <1>2, <1>3, <1>8, <1>9 DEF freeTurn, publishedTurn
    <2>4. CASE idx(n) # i
      BY <2>1, <2>4, <1>3, <1>8 DEF freeTurn, publishedTurn
    <2> QED
      BY <2>3, <2>4
  <1>16. Delivered'
    <2>1. ASSUME NEW n \in Tickets
          PROVE  slotTurn'[idx(n)] >= releasedTurn(n) <=> slotTurn[idx(n)] >= releasedTurn(n)
      <3>1. n \in 0 .. MaxTickets
        BY RingAssumption, SMTT(30) DEF Tickets
      <3> QED
        BY <3>1, <1>2, <1>3, <1>8 DEF releasedTurn
    <2> QED
      BY <2>1, <1>1 DEF IInv, Delivered
  <1>17. Contents'
    <2>1. Contents
      BY DEF IInv
    <2>2. \A n \in Tickets : n \in 0 .. MaxTickets
      BY RingAssumption DEF Tickets
    <2>3. (\A j \in Slots : slotTurn[j] % 2 = 1 =>
             \E n \in Tickets : idx(n) = j /\ slotTurn[j] = publishedTurn(n))'
      <3> SUFFICES ASSUME NEW j \in Slots, slotTurn'[j] % 2 = 1
                   PROVE  \E n \in Tickets : idx(n) = j /\ slotTurn'[j] = publishedTurn(n)
        OBVIOUS
      <3>1. CASE j = i
        <4>1. idx(T) = j /\ slotTurn'[j] = publishedTurn(T)
          BY <3>1, <1>3 DEF publishedTurn, i, T
        <4> QED
          BY <4>1, <1>2
      <3>2. CASE j # i
        BY <3>2, <2>1, <1>3 DEF Contents
      <3> QED
        BY <3>1, <3>2
    <2>4. ASSUME NEW n \in Tickets, slotTurn'[idx(n)] = publishedTurn(n)
          PROVE  \/ storage'[idx(n)] = pushed'[n]
                 \/ \E c \in Consumers : pc'[c] = "release" /\ ticket'[c] = n
      <3>1. CASE idx(n) = i
        <4>1. turn(n) = turn(T) /\ n \in Nat
          BY <3>1, <2>2, <2>4, <1>2, <1>3, <1>8 DEF publishedTurn
        <4>2. n = T
          BY <4>1, <3>1, <1>2, <1>9
        <4> QED
          BY <4>2, <3>1, <1>1, <1>7
      <3>2. CASE idx(n) # i
        <4>1. slotTurn[idx(n)] = publishedTurn(n)
          BY <3>2, <2>2, <2>4, <1>3, <1>8
        <4> QED
          BY <4>1, <2>1, <1>1 DEF Contents, Threads
      <3> QED
        BY <3>1, <3>2
    <2>5. ASSUME NEW j \in Slots, slotTurn'[j] % 2 = 0
          PROVE  \/ storage'[j] = Raw
                 \/ \E q \in Producers : pc'[q] = "publish" /\ idx(ticket'[q]) = j
      <3>1. j # i
        BY <2>5, <1>2, <1>3
      <3>2. slotTurn[j] % 2 = 0
        BY <3>1, <2>5, <1>3
      <3>3. CASE storage[j] = Raw
        BY <3>3, <1>1, Zenon
      <3>4. CASE \E q \in Producers : pc[q] = "publish" /\ idx(ticket[q]) = j
        <4>1. PICK q \in Producers : pc[q] = "publish" /\ idx(ticket[q]) = j
          BY <3>4
        <4>2. q # p
          BY <4>1, <3>1 DEF i
        <4> QED
          BY <4>1, <4>2, <1>1 DEF Threads
      <3> QED
        BY <3>2, <3>3, <3>4, <2>1 DEF Contents
    <2> QED
      BY <2>3, <2>4, <2>5 DEF Contents
  <1>18. Elements'
    <2>1. Elements
      BY DEF IInv
    <2>2. \A u \in Threads : pc'[u] # "idle" =>
            pc'[u] = pc[u] /\ ticket'[u] = ticket[u] /\ val'[u] = val[u]
      BY <1>1
    <2> QED
      BY <2>1, <2>2, <1>1 DEF Elements, Threads, Claimed, Inside, Trying
  <1> QED
    BY <1>11, <1>12, <1>13, <1>14, <1>15, <1>16, <1>17, <1>18 DEF IInv

(* Storing the released turn, which returns the element, keeps IInv.       *)
LEMMA ReleaseStep ==
  ASSUME IInv, NEW c \in Consumers, Release(c)
  PROVE  IInv'
  <1> DEFINE T == ticket[c]
             i == idx(ticket[c])
  <1>1. /\ pc[c] = "release" /\ pc'[c] = "idle"
        /\ c \in Threads /\ c \notin Producers
        /\ \A u \in Threads : u # c =>
             pc'[u] = pc[u] /\ ticket'[u] = ticket[u] /\ val'[u] = val[u]
        /\ UNCHANGED <<head_, tail_, storage, pushed>>
    BY RingAssumption DEF IInv, TypeOK, Release, Return, Goto, Threads
  <1>2. /\ T \in Nat /\ T \in Tickets /\ T < tail_
        /\ i \in Slots /\ turn(T) \in Nat
        /\ slotTurn[i] = turn(T) * 2 + 1
    <2>1. T \in Nat
      BY <1>1, SMTT(30) DEF IInv, TypeOK
    <2>2. T < tail_ /\ tail_ \in 0 .. MaxTickets
      BY <1>1 DEF IInv, TypeOK, ClaimedTurns, Claimed, Inside
    <2>3. i \in Slots /\ turn(T) \in Nat
      BY <2>1, Laps
    <2>4. slotTurn[i] = publishedTurn(T)
      BY <1>1 DEF IInv, ClaimedTurns, Inside, SlotReady, AwaitedTurn
    <2> QED
      BY <2>1, <2>2, <2>3, <2>4, RingAssumption DEF publishedTurn, Tickets
  <1>3. slotTurn'[i] = turn(T) * 2 + 2 /\ \A j \in Slots : j # i => slotTurn'[j] = slotTurn[j]
    BY <1>2, Zenon DEF IInv, TypeOK, Release, releasedTurn
  <1>4. \A u \in Threads : u # c /\ pc[u] \in Inside => idx(ticket[u]) # i
    BY <1>1, ExclusionFromInv DEF SlotExclusion, Inside
  <1>5. \A u \in Threads : /\ ticket[u] \in Nat /\ ticket[u] \in 0 .. MaxTickets
                           /\ idx(ticket[u]) \in Slots
                           /\ turn(ticket[u]) \in Nat
    BY Laps DEF IInv, TypeOK
  <1>6. \A u \in Threads : pc'[u] \in Claimed => u # c /\ pc[u] \in Claimed
    BY <1>1 DEF Claimed, Inside
  <1>7. storage[i] = Raw /\ val[c] = pushed[T]
    BY <1>1 DEF IInv, Elements
  <1>8. \A n \in 0 .. MaxTickets : n \in Nat /\ idx(n) \in Slots /\ turn(n) \in Nat
    BY Laps
  <1>9. \A n \in Nat : n # T /\ idx(n) = i =>
          \/ T < n /\ turn(T) + 1 <= turn(n)
          \/ n < T /\ turn(n) + 1 <= turn(T)
    BY <1>2, Laps
  <1>10. slotTurn \in [Slots -> Nat] /\ head_ \in Nat /\ tail_ \in Nat
    BY DEF IInv, TypeOK
  <1>11. T < head_
    <2>1. T \in 0 .. MaxTickets
      BY <1>1, <1>5
    <2> QED
      BY <2>1, <1>2, <1>10 DEF IInv, UnclaimedTurns, freeTurn
  <1>12. /\ DOMAIN popped' = DOMAIN popped \cup {T}
         /\ \A n \in DOMAIN popped' : popped'[n] = IF n = T THEN pushed[T] ELSE popped[n]
    BY <1>7 DEF Release
  <1>13. TypeOK'
    <2>1. pc' \in [Threads -> {"idle"} \cup Claimed \cup Trying]
      BY Zenon DEF IInv, TypeOK, Release, Return, Goto
    <2>2. slotTurn' \in [Slots -> Nat]
      BY <1>2, <1>10, SMTT(30) DEF Release, releasedTurn
    <2>3. ticket' \in [Threads -> 0 .. MaxTickets]
      <3>1. 0 \in 0 .. MaxTickets
        BY RingAssumption
      <3> QED
        BY <3>1, Zenon DEF IInv, TypeOK, Release, Return
    <2>4. val' \in [Threads -> Values \cup {Raw}]
      BY Zenon DEF IInv, TypeOK, Release, Return
    <2>5. DOMAIN popped' \subseteq Tickets
      BY <1>2, <1>12 DEF IInv, TypeOK
    <2>6. \A n \in DOMAIN popped' : popped'[n] \in Values \cup {Raw}
      <3>1. pushed[T] \in Values
        BY <1>2, <1>11, <1>10 DEF IInv, TypeOK
      <3> QED
        BY <3>1, <1>12 DEF IInv, TypeOK
    <2> QED
      BY <1>1, <2>1, <2>2, <2>3, <2>4, <2>5, <2>6 DEF IInv, TypeOK
  <1> HIDE DEF i, T
  <1>14. Roles'
    BY <1>1, Zenon DEF IInv, Roles, Threads
  <1>15. ClaimedTurns'
    <2>1. ClaimedTurns
      BY DEF IInv
    <2>2. ASSUME NEW p \in Producers, pc'[p] \in Claimed
          PROVE  ticket'[p] < head_' /\ ThisTurn(p)' <= freeTurn(ticket'[p])
      <3>1. /\ p \in Threads /\ p # c /\ pc[p] \in Claimed
            /\ ticket'[p] = ticket[p]
            /\ ticket[p] < head_ /\ slotTurn[idx(ticket[p])] <= turn(ticket[p]) * 2
        BY <2>1, <2>2, <1>1, <1>6, Zenon DEF ClaimedTurns, ThisTurn, Threads, freeTurn
      <3>2. CASE idx(ticket[p]) = i
        BY <3>1, <3>2, <1>1, <1>2, <1>3, <1>5, SMTT(30) DEF ThisTurn, freeTurn
      <3>3. CASE idx(ticket[p]) # i
        <4>1. ThisTurn(p)' = slotTurn[idx(ticket[p])]
          <5>1. slotTurn'[idx(ticket[p])] = slotTurn[idx(ticket[p])]
            BY <3>1, <3>3, <1>3, <1>5, Zenon
          <5> QED
            BY <5>1, <3>1 DEF ThisTurn
        <4>2. ThisTurn(p)' <= freeTurn(ticket'[p])
          BY <4>1, <3>1 DEF freeTurn
        <4>3. ticket'[p] < head_'
          BY <3>1, <1>1
        <4> QED
          BY <4>2, <4>3
      <3> QED
        BY <3>2, <3>3
    <2>3. ASSUME NEW d \in Consumers, pc'[d] \in Claimed
          PROVE  ticket'[d] < tail_' /\ ThisTurn(d)' <= publishedTurn(ticket'[d])
      <3>1. /\ d \in Threads /\ d # c /\ pc[d] \in Claimed
            /\ ticket'[d] = ticket[d]
            /\ ticket[d] < tail_ /\ slotTurn[idx(ticket[d])] <= turn(ticket[d]) * 2 + 1
        BY <2>1, <2>3, <1>1, <1>6, Zenon DEF ClaimedTurns, ThisTurn, Threads, publishedTurn
      <3>2. ticket[d] # T
        BY <3>1, <1>1, Zenon DEF IInv, TicketsDistinct, Claimed, Inside, T
      <3>3. CASE idx(ticket[d]) = i
        <4>1. T \in Nat /\ ticket[d] \in Nat /\ turn(ticket[d]) \in Nat /\ turn(T) \in Nat
          BY <3>1, <1>2, <1>5
        <4>2. turn(T) <= turn(ticket[d])
          BY <3>1, <3>3, <4>1, <1>2
        <4>3. turn(T) + 1 <= turn(ticket[d])
          BY <3>2, <3>3, <4>1, <4>2, <1>9
        <4>4. ThisTurn(d)' = turn(T) * 2 + 2
          BY <3>1, <3>3, <1>3 DEF ThisTurn
        <4> QED
          BY <3>1, <4>1, <4>3, <4>4, <1>1, SMTT(30) DEF publishedTurn
      <3>4. CASE idx(ticket[d]) # i
        <4>1. slotTurn'[idx(ticket[d])] = slotTurn[idx(ticket[d])]
          BY <3>1, <3>4, <1>3, <1>5
        <4> QED
          BY <3>1, <4>1, <1>1, Zenon DEF ThisTurn, publishedTurn
      <3> QED
        BY <3>3, <3>4
    <2>4. ASSUME NEW u \in Threads, pc'[u] \in Inside
          PROVE  SlotReady(u)'
      <3>1. u # c /\ pc[u] \in Inside
        BY <2>4, <1>1, Zenon DEF Inside
      <3> QED
        BY <3>1, <2>1, <1>1, <1>3, <1>4, <1>5 DEF ClaimedTurns, SlotReady, AwaitedTurn
    <2>5. ASSUME NEW u \in Threads, pc'[u] = "tryCas"
          PROVE  ThisTurn(u)' >= AwaitedTurn(u)'
      <3>1. /\ u # c /\ ticket'[u] = ticket[u]
            /\ slotTurn[idx(ticket[u])] >= AwaitedTurn(u)
            /\ AwaitedTurn(u)' = AwaitedTurn(u)
            /\ AwaitedTurn(u) \in Nat
        BY <2>1, <2>5, <1>1, <1>5, SMTT(30)
        DEF ClaimedTurns, ThisTurn, AwaitedTurn, freeTurn, publishedTurn
      <3>2. slotTurn'[idx(ticket[u])] >= slotTurn[idx(ticket[u])]
        BY <1>2, <1>3, <1>5, <1>10
      <3>3. slotTurn[idx(ticket[u])] \in Nat /\ slotTurn'[idx(ticket[u])] \in Nat
        BY <1>2, <1>3, <1>5, <1>10
      <3> QED
        BY <3>1, <3>2, <3>3 DEF ThisTurn
    <2> QED
      BY <2>2, <2>3, <2>4, <2>5, Zenon DEF ClaimedTurns
  <1>16. TicketsDistinct'
    BY <1>1, <1>6 DEF IInv, TicketsDistinct, Threads
  <1>17. UnclaimedTurns'
    <2> SUFFICES ASSUME NEW n \in 0 .. MaxTickets
                 PROVE  /\ n >= head_ => slotTurn'[idx(n)] <= freeTurn(n)
                        /\ n >= tail_ => slotTurn'[idx(n)] <= publishedTurn(n)
      BY <1>1 DEF UnclaimedTurns
    <2>1. /\ n >= head_ => slotTurn[idx(n)] <= turn(n) * 2
          /\ n >= tail_ => slotTurn[idx(n)] <= turn(n) * 2 + 1
      BY DEF IInv, UnclaimedTurns, freeTurn, publishedTurn
    <2>2. CASE idx(n) = i
      BY <2>1, <2>2, <1>2, <1>3, <1>8, <1>9, <1>10 DEF freeTurn, publishedTurn
    <2>3. CASE idx(n) # i
      BY <2>1, <2>3, <1>3, <1>8 DEF freeTurn, publishedTurn
    <2> QED
      BY <2>2, <2>3
  <1>18. Delivered'
    <2>1. ASSUME NEW n \in Tickets
          PROVE  n \in DOMAIN popped' <=> slotTurn'[idx(n)] >= releasedTurn(n)
      <3>1. n \in Nat /\ idx(n) \in Slots /\ turn(n) \in Nat
        BY RingAssumption, <1>8 DEF Tickets
      <3>2. n \in DOMAIN popped <=> slotTurn[idx(n)] >= releasedTurn(n)
        BY DEF IInv, Delivered
      <3>3. CASE n = T
        BY <3>1, <3>3, <1>2, <1>3, <1>12 DEF releasedTurn, i, T
      <3>4. CASE n # T /\ idx(n) = i
        BY <3>1, <3>2, <3>4, <1>2, <1>3, <1>9, <1>12 DEF releasedTurn
      <3>5. CASE n # T /\ idx(n) # i
        BY <3>1, <3>2, <3>5, <1>3, <1>12
      <3> QED
        BY <3>3, <3>4, <3>5
    <2>2. \A n \in DOMAIN popped' : n < head_' /\ popped'[n] = pushed'[n]
      BY <1>1, <1>11, <1>12 DEF IInv, Delivered
    <2> QED
      BY <2>1, <2>2 DEF Delivered
  <1>19. Contents'
    <2>1. Contents
      BY DEF IInv
    <2>2. \A n \in Tickets : n \in 0 .. MaxTickets
      BY RingAssumption, SMTT(30) DEF Tickets
    <2>3. ASSUME NEW j \in Slots, slotTurn'[j] % 2 = 1
          PROVE  \E n \in Tickets : idx(n) = j /\ slotTurn'[j] = publishedTurn(n)
      <3>1. (turn(T) * 2 + 2) % 2 = 0
        BY <1>2
      <3>2. j # i
        BY <3>1, <2>3, <1>3
      <3>3. slotTurn'[j] = slotTurn[j]
        BY <3>2, <1>3
      <3> QED
        BY <3>3, <2>1, <2>3, SMTT(30) DEF Contents
    <2>4. ASSUME NEW n \in Tickets, slotTurn'[idx(n)] = publishedTurn(n)
          PROVE  \/ storage'[idx(n)] = pushed'[n]
                 \/ \E d \in Consumers : pc'[d] = "release" /\ ticket'[d] = n
      <3>1. idx(n) # i
        <4>1. turn(n) \in Nat
          BY <2>2, <1>8
        <4> SUFFICES ASSUME idx(n) = i PROVE FALSE
          OBVIOUS
        <4>2. turn(T) * 2 + 2 = turn(n) * 2 + 1
          BY <2>4, <1>3 DEF publishedTurn
        <4> QED
          BY <4>1, <4>2, <1>2
      <3>2. slotTurn[idx(n)] = publishedTurn(n)
        BY <3>1, <2>2, <2>4, <1>3, <1>8
      <3>3. CASE storage[idx(n)] = pushed[n]
        BY <3>3, <1>1, Zenon
      <3>4. CASE \E d \in Consumers : pc[d] = "release" /\ ticket[d] = n
        <4>1. PICK d \in Consumers : pc[d] = "release" /\ ticket[d] = n
          BY <3>4
        <4>2. d # c
          BY <4>1, <3>1 DEF i
        <4> QED
          BY <4>1, <4>2, <1>1 DEF Threads
      <3> QED
        BY <3>2, <3>3, <3>4, <2>1 DEF Contents
    <2>5. ASSUME NEW j \in Slots, slotTurn'[j] % 2 = 0
          PROVE  \/ storage'[j] = Raw
                 \/ \E q \in Producers : pc'[q] = "publish" /\ idx(ticket'[q]) = j
      <3>1. CASE j = i
        BY <3>1, <1>1, <1>7
      <3>2. CASE j # i
        <4>1. slotTurn[j] % 2 = 0
          BY <3>2, <2>5, <1>3
        <4>2. CASE storage[j] = Raw
          BY <4>2, <1>1, Zenon
        <4>3. CASE \E q \in Producers : pc[q] = "publish" /\ idx(ticket[q]) = j
          <5>1. PICK q \in Producers : pc[q] = "publish" /\ idx(ticket[q]) = j
            BY <4>3
          <5>2. q \in Threads /\ q # c
            BY <1>1, Zenon DEF Threads
          <5>3. pc'[q] = "publish" /\ idx(ticket'[q]) = j
            BY <5>1, <5>2, <1>1, Zenon
          <5> QED
            BY <5>3, Zenon
        <4> QED
          BY <4>1, <4>2, <4>3, <2>1, Zenon DEF Contents
      <3> QED
        BY <3>1, <3>2, Zenon
    <2> QED
      BY <2>3, <2>4, <2>5 DEF Contents
  <1>20. Elements'
    <2>1. Elements
      BY DEF IInv
    <2>2. \A u \in Threads : pc'[u] # "idle" =>
            pc'[u] = pc[u] /\ ticket'[u] = ticket[u] /\ val'[u] = val[u]
      BY <1>1
    <2>3. \A u \in Producers \cup Consumers : u \in Threads
      BY Zenon DEF Threads
    <2>4. "idle" \notin Trying /\ "idle" \notin Claimed
      BY Zenon DEF Trying, Claimed, Inside
    <2>5. (\A q \in Producers : pc[q] \in Trying => val[q] \in Values)'
      BY <2>1, <2>2, <2>3, <2>4, Zenon DEF Elements
    <2>6. (\A q \in Producers : pc[q] \in Claimed => val[q] = pushed[ticket[q]])'
      BY <2>1, <2>2, <2>3, <2>4, <1>1, Zenon DEF Elements
    <2>7. (\A q \in Producers : pc[q] = "publish" => storage[idx(ticket[q])] = val[q])'
      BY <2>1, <2>2, <2>3, <1>1, Zenon DEF Elements
    <2>8. (\A d \in Consumers : pc[d] = "release" =>
             val[d] = pushed[ticket[d]] /\ storage[idx(ticket[d])] = Raw)'
      <3> SUFFICES ASSUME NEW d \in Consumers, pc'[d] = "release"
                   PROVE  /\ val'[d] = pushed'[ticket'[d]]
                          /\ storage'[idx(ticket'[d])] = Raw
        BY Zenon
      <3>1. pc[d] = "release" /\ ticket'[d] = ticket[d] /\ val'[d] = val[d]
        BY <2>2, <2>3, Zenon
      <3>2. val[d] = pushed[ticket[d]] /\ storage[idx(ticket[d])] = Raw
        BY <3>1, <2>1, Zenon DEF Elements
      <3> QED
        BY <3>1, <3>2, <1>1, Zenon
    <2> QED
      BY <2>5, <2>6, <2>7, <2>8 DEF Elements
  <1> QED
    BY <1>13, <1>14, <1>15, <1>16, <1>17, <1>18, <1>19, <1>20 DEF IInv

-----------------------------------------------------------------------------
(* The invariant and what follows from it.                                 *)

(* The empty ring satisfies IInv.                                          *)
LEMMA InitInv == Init => IInv
  <1> SUFFICES ASSUME Init PROVE IInv
    OBVIOUS
  <1> USE DEF Init
  <1>1. \A n \in 0 .. MaxTickets : n \in Nat /\ idx(n) \in Slots /\ turn(n) \in Nat
    BY Laps
  <1>2. \A n \in Tickets : n \in 0 .. MaxTickets
    BY RingAssumption DEF Tickets
  <1>3. \A t \in Threads : pc[t] = "idle"
    OBVIOUS
  <1>4. TypeOK
    <2>1. 0 \in 0 .. MaxTickets
      BY RingAssumption
    <2>2. pushed \in [0 .. head_ - 1 -> Values]
      BY SMT
    <2> QED
      BY <2>1, <2>2 DEF TypeOK, Claimed, Trying
  <1>5. Roles /\ ClaimedTurns /\ TicketsDistinct /\ Elements
    BY <1>3 DEF Roles, ClaimedTurns, TicketsDistinct, Elements, Threads, Claimed, Inside, Trying
  <1>6. UnclaimedTurns
    BY <1>1 DEF UnclaimedTurns, freeTurn, publishedTurn
  <1>7. Delivered
    BY <1>1, <1>2 DEF Delivered, releasedTurn
  <1>8. Contents
    BY <1>1, <1>2 DEF Contents, publishedTurn
  <1> QED
    BY <1>4, <1>5, <1>6, <1>7, <1>8 DEF IInv

(* Every step of the ring keeps IInv.                                      *)
LEMMA StepInv == IInv /\ [Next]_vars => IInv'
  <1> SUFFICES ASSUME IInv, [Next]_vars PROVE IInv'
    BY Zenon
  <1>1. /\ \A t \in Threads : val[t] \in Values \cup {Raw} /\ ticket[t] \in 0 .. MaxTickets
        /\ val = [t \in Threads |-> val[t]] /\ ticket = [t \in Threads |-> ticket[t]]
        /\ head_ \in 0 .. MaxTickets /\ tail_ \in 0 .. MaxTickets
        /\ 0 \in 0 .. MaxTickets
    BY RingAssumption, SMTT(30) DEF IInv, TypeOK
  <1>2. \A t \in Threads : /\ val = [val EXCEPT ![t] = val[t]]
                           /\ ticket = [ticket EXCEPT ![t] = ticket[t]]
    BY <1>1, Zenon
  <1>3. \A p \in Producers : p \in Threads /\ p \notin Consumers
    BY RingAssumption DEF Threads
  <1>4. \A c \in Consumers : c \in Threads /\ c \notin Producers
    BY RingAssumption DEF Threads
  <1>5. \A p \in Producers : pc[p] \in Trying => val[p] \in Values
    BY DEF IInv, Elements
  <1>6. ASSUME NEW p \in Producers, NEW v \in Values, EmplaceClaim(p, v)
        PROVE  IInv'
    BY <1>6, ClaimHeadStep, Zenon DEF EmplaceClaim, Goto, Claimed, Inside
  <1>7. ASSUME NEW p \in Producers, NEW v \in Values, TryEmplaceLoad(p, v)
        PROVE  IInv'
    BY <1>1, <1>3, <1>7, LocalStep, Zenon DEF TryEmplaceLoad, Goto, Claimed, Inside, Trying
  <1>8. ASSUME NEW t \in Threads, TryCheck(t)
        PROVE  IInv'
    <2>1. /\ pc[t] = "tryCheck"
          /\ pc' = [pc EXCEPT ![t] = IF SlotReady(t) THEN "tryCas" ELSE "tryReload"]
          /\ UNCHANGED <<head_, tail_, slotTurn, storage, ticket, val, pushed, popped>>
      BY <1>8 DEF TryCheck, Goto
    <2>2. pc[t] \notin Claimed /\ (t \in Producers => val[t] \in Values)
      BY <2>1, <1>5 DEF Claimed, Inside, Trying
    <2>3. ticket' = [ticket EXCEPT ![t] = ticket[t]] /\ val' = [val EXCEPT ![t] = val[t]]
      BY <2>1, <1>2
    <2>4. ticket[t] \in 0 .. MaxTickets /\ val[t] \in Values \cup {Raw}
      BY <1>1
    <2>5. UNCHANGED <<head_, tail_, slotTurn, storage, pushed, popped>>
      BY <2>1
    <2>6. CASE SlotReady(t)
      <3>1. /\ t \in Producers => slotTurn[idx(ticket[t])] >= freeTurn(ticket[t])
            /\ t \in Consumers => slotTurn[idx(ticket[t])] >= publishedTurn(ticket[t])
        <4>1. ticket[t] \in Nat
          BY <1>1
        <4>2. turn(ticket[t]) \in Nat
          BY <4>1, Laps
        <4> QED
          BY <2>6, <4>2, <1>3, <1>4 DEF SlotReady, AwaitedTurn, freeTurn, publishedTurn
      <3>2. pc' = [pc EXCEPT ![t] = "tryCas"]
        BY <2>1, <2>6
      <3> QED
        BY <2>2, <2>3, <2>4, <2>5, <3>1, <3>2, LocalStep, Zenon DEF Trying
    <2>7. CASE ~ SlotReady(t)
      <3>1. pc' = [pc EXCEPT ![t] = "tryReload"]
        BY <2>1, <2>7
      <3> QED
        BY <2>2, <2>3, <2>4, <2>5, <3>1, LocalStep, Zenon DEF Trying
    <2> QED
      BY <2>6, <2>7
  <1>9. ASSUME NEW p \in Producers, TryEmplaceCas(p)
        PROVE  IInv'
    <2>1. /\ pc[p] = "tryCas" /\ pc[p] \notin Claimed /\ val[p] \in Values
          /\ UNCHANGED <<tail_, slotTurn, storage, val, popped>>
      BY <1>5, <1>9 DEF TryEmplaceCas, Claimed, Inside, Trying
    <2>2. CASE head_ = ticket[p] /\ ClaimHead(p, val[p]) /\ Goto(p, "construct")
      <3>1. slotTurn[idx(head_)] >= freeTurn(head_)
        BY <2>1, <2>2, <1>3 DEF IInv, ClaimedTurns, ThisTurn, AwaitedTurn
      <3> QED
        BY <2>1, <2>2, <3>1, <1>2, <1>3, ClaimHeadStep, Zenon DEF Goto
    <2>3. CASE /\ ticket' = [ticket EXCEPT ![p] = head_]
               /\ Goto(p, "tryCheck")
               /\ UNCHANGED <<head_, pushed>>
      BY <2>1, <2>3, <1>1, <1>2, <1>3, LocalStep, Zenon DEF Goto, Trying
    <2> QED
      BY <1>9, <2>2, <2>3 DEF TryEmplaceCas
  <1>10. ASSUME NEW p \in Producers, TryEmplaceReload(p)
         PROVE  IInv'
    <2>1. /\ pc[p] \notin Claimed /\ val[p] \in Values /\ p \in Threads
          /\ UNCHANGED <<head_, tail_, slotTurn, storage, pushed, popped>>
      BY <1>3, <1>5, <1>10, Zenon DEF TryEmplaceReload, Reload, Claimed, Inside, Trying
    <2>2. CASE Return(p)
      BY <2>1, <2>2, <1>1, LocalStep, ZenonT(30) DEF Return, Goto, Trying
    <2>3. CASE ticket' = [ticket EXCEPT ![p] = head_] /\ Goto(p, "tryCheck") /\ UNCHANGED val
      BY <2>1, <2>3, <1>1, <1>2, LocalStep, Zenon DEF Goto, Trying
    <2> QED
      BY <1>10, <2>2, <2>3 DEF TryEmplaceReload, Reload
  <1>11. ASSUME NEW c \in Consumers, PopClaim(c)
         PROVE  IInv'
    BY <1>11, ClaimTailStep, Zenon DEF PopClaim, Goto, Claimed, Inside
  <1>12. ASSUME NEW c \in Consumers, TryPopLoad(c)
         PROVE  IInv'
    BY <1>1, <1>2, <1>4, <1>12, LocalStep, Zenon DEF TryPopLoad, Goto, Claimed, Inside, Trying
  <1>13. ASSUME NEW c \in Consumers, TryPopCas(c)
         PROVE  IInv'
    <2>1. /\ pc[c] = "tryCas" /\ pc[c] \notin Claimed
          /\ UNCHANGED <<head_, slotTurn, storage, val, pushed, popped>>
      BY <1>13 DEF TryPopCas, Claimed, Inside
    <2>2. CASE tail_ = ticket[c] /\ ClaimTail(c) /\ Goto(c, "take")
      <3>1. slotTurn[idx(tail_)] >= publishedTurn(tail_)
        BY <2>1, <2>2, <1>4 DEF IInv, ClaimedTurns, ThisTurn, AwaitedTurn
      <3> QED
        BY <2>1, <2>2, <3>1, ClaimTailStep, ZenonT(30) DEF Goto
    <2>3. CASE /\ ticket' = [ticket EXCEPT ![c] = tail_]
               /\ Goto(c, "tryCheck")
               /\ UNCHANGED tail_
      BY <2>1, <2>3, <1>1, <1>2, <1>4, LocalStep, Zenon DEF Goto, Trying
    <2> QED
      BY <1>13, <2>2, <2>3 DEF TryPopCas
  <1>14. ASSUME NEW c \in Consumers, TryPopReload(c)
         PROVE  IInv'
    <2>1. /\ pc[c] \notin Claimed /\ c \in Threads /\ c \notin Producers
          /\ UNCHANGED <<head_, tail_, slotTurn, storage, pushed, popped>>
      BY <1>4, <1>14, Zenon DEF TryPopReload, Reload, Claimed, Inside
    <2>2. CASE Return(c)
      BY <2>1, <2>2, <1>1, LocalStep, Zenon DEF Return, Goto, Trying
    <2>3. CASE ticket' = [ticket EXCEPT ![c] = tail_] /\ Goto(c, "tryCheck") /\ UNCHANGED val
      <3>1. val' = [val EXCEPT ![c] = val[c]] /\ val[c] \in Values \cup {Raw}
        BY <2>1, <2>3, <1>1, <1>2
      <3>2. pc' = [pc EXCEPT ![c] = "tryCheck"] /\ ticket' = [ticket EXCEPT ![c] = tail_]
        BY <2>3 DEF Goto
      <3>3. tail_ \in 0 .. MaxTickets
        BY <1>1
      <3> QED
        BY <2>1, <3>1, <3>2, <3>3, LocalStep, ZenonT(30) DEF Trying
    <2> QED
      BY <1>14, <2>2, <2>3 DEF TryPopReload, Reload
  <1>15. CASE UNCHANGED vars
    <2>1. TypeOK'
      BY <1>15 DEF IInv, vars, TypeOK
    <2>2. Roles' /\ TicketsDistinct' /\ Elements'
      BY <1>15, Zenon DEF IInv, vars, Roles, TicketsDistinct, Elements
    <2>3. ClaimedTurns'
      BY <1>15 DEF IInv, vars, ClaimedTurns, ThisTurn, SlotReady, AwaitedTurn
    <2>4. UnclaimedTurns'
      BY <1>15 DEF IInv, vars, UnclaimedTurns
    <2>5. Delivered'
      BY <1>15, Zenon DEF IInv, vars, Delivered
    <2>6. Contents'
      BY <1>15 DEF IInv, vars, Contents
    <2> QED
      BY <2>1, <2>2, <2>3, <2>4, <2>5, <2>6 DEF IInv
  <1>16. ASSUME NEW p \in Producers, Emplace(p) \/ ProducerStep(p)
         PROVE  IInv'
    BY <1>3, <1>6, <1>7, <1>8, <1>9, <1>10, <1>16, SpinStep, ConstructStep, PublishStep
       DEF Emplace, ProducerStep
  <1>17. ASSUME NEW c \in Consumers, Pop(c) \/ ConsumerStep(c)
         PROVE  IInv'
    BY <1>4, <1>8, <1>11, <1>12, <1>13, <1>14, <1>17, SpinStep, TakeStep, ReleaseStep
       DEF Pop, ConsumerStep
  <1> QED
    BY <1>15, <1>16, <1>17 DEF Next

(* IInv holds in every reachable state of the ring.                        *)
THEOREM InvariantHolds == Spec => []IInv
  BY InitInv, StepInv, PTL DEF Spec

(* Every variable of the ring keeps its type.                              *)
THEOREM TypeCorrect == Spec => []TypeOK
  <1>1. IInv => TypeOK
    BY DEF IInv
  <1> QED
    BY <1>1, InvariantHolds, PTL

(* Two threads are never inside one slot, whatever the interleaving of     *)
(* emplace, try_emplace, pop and try_pop.                                  *)
THEOREM SlotsAreExclusive == Spec => []SlotExclusion
  <1>1. IInv => SlotExclusion
    BY ExclusionFromInv
  <1> QED
    BY <1>1, InvariantHolds, PTL

(* A pop returns the element that was pushed with the same ticket.         *)
THEOREM DeliveryIsFifo == Spec => []FifoDelivery
  <1>1. IInv => FifoDelivery
    BY DEF IInv, Delivered, FifoDelivery
  <1> QED
    BY <1>1, InvariantHolds, PTL

(* construct never overwrites an object, move never reads storage without  *)
(* one, and the parity of a slot's turn tells its destructor the truth.    *)
THEOREM LifetimesAreRight == Spec => []ObjectLifetime
  <1>1. ASSUME IInv PROVE ObjectLifetime
    <2>1. ASSUME NEW p \in Producers, pc[p] = "construct"
          PROVE  storage[idx(ticket[p])] = Raw
      <3>1. p \in Threads /\ ticket[p] \in Nat
        BY <1>1 DEF IInv, TypeOK, Threads
      <3>2. idx(ticket[p]) \in Slots /\ turn(ticket[p]) \in Nat
        BY <3>1, Laps
      <3>3. slotTurn[idx(ticket[p])] = turn(ticket[p]) * 2
        BY <1>1, <2>1, <3>1 DEF IInv, ClaimedTurns, Inside, SlotReady, AwaitedTurn, freeTurn
      <3>4. (turn(ticket[p]) * 2) % 2 = 0
        BY <3>2
      <3>5. ~ \E q \in Producers : pc[q] = "publish" /\ idx(ticket[q]) = idx(ticket[p])
        BY <1>1, <2>1, <3>1, ExclusionFromInv, Zenon DEF SlotExclusion, Inside, Threads
      <3> QED
        BY <1>1, <3>2, <3>3, <3>4, <3>5 DEF IInv, Contents
    <2>2. ASSUME NEW i \in Slots, slotTurn[i] % 2 = 1,
                 ~ \E c \in Consumers : pc[c] = "release" /\ idx(ticket[c]) = i
          PROVE  storage[i] # Raw
      <3>1. PICK n \in Tickets : idx(n) = i /\ slotTurn[i] = publishedTurn(n)
        BY <1>1, <2>2 DEF IInv, Contents
      <3>2. storage[i] = pushed[n]
        BY <1>1, <2>2, <3>1 DEF IInv, Contents
      <3>3. n \in 0 .. MaxTickets /\ n \in Nat /\ turn(n) \in Nat
        BY RingAssumption, Laps DEF Tickets
      <3>4. head_ \in Nat
        BY <1>1 DEF IInv, TypeOK
      <3>5. n < head_
        BY <1>1, <3>1, <3>3, <3>4 DEF IInv, UnclaimedTurns, freeTurn, publishedTurn
      <3>6. pushed[n] \in Values
        BY <1>1, <3>3, <3>4, <3>5, SMTT(30) DEF IInv, TypeOK
      <3> QED
        BY <3>2, <3>6, RingAssumption
    <2>3. ASSUME NEW c \in Consumers, pc[c] = "take"
          PROVE  storage[idx(ticket[c])] # Raw
      <3>1. c \in Threads /\ c \notin Producers /\ ticket[c] \in Nat
        BY <1>1, RingAssumption DEF IInv, TypeOK, Threads
      <3>2. idx(ticket[c]) \in Slots /\ turn(ticket[c]) \in Nat
        BY <3>1, Laps
      <3>3. slotTurn[idx(ticket[c])] = turn(ticket[c]) * 2 + 1
        BY <1>1, <2>3, <3>1 DEF IInv, ClaimedTurns, Inside, SlotReady, AwaitedTurn, publishedTurn
      <3>4. (turn(ticket[c]) * 2 + 1) % 2 = 1
        BY <3>2
      <3>5. ~ \E d \in Consumers : pc[d] = "release" /\ idx(ticket[d]) = idx(ticket[c])
        BY <1>1, <2>3, <3>1, ExclusionFromInv, Zenon DEF SlotExclusion, Inside, Threads
      <3> QED
        BY <2>2, <3>2, <3>3, <3>4, <3>5
    <2>4. ASSUME NEW i \in Slots,
                 \A t \in Threads : pc[t] \in Inside => idx(ticket[t]) # i
          PROVE  slotTurn[i] % 2 = 1 <=> storage[i] # Raw
      <3>1. ~ \E c \in Consumers : pc[c] = "release" /\ idx(ticket[c]) = i
        BY <2>4, Zenon DEF Inside, Threads
      <3>2. ~ \E p \in Producers : pc[p] = "publish" /\ idx(ticket[p]) = i
        BY <2>4 DEF Inside, Threads
      <3>3. slotTurn[i] % 2 \in {0, 1}
        BY <1>1 DEF IInv, TypeOK
      <3>4. CASE slotTurn[i] % 2 = 1
        BY <2>2, <3>1, <3>4
      <3>5. CASE slotTurn[i] % 2 = 0
        BY <1>1, <3>2, <3>5, SMTT(30) DEF IInv, Contents
      <3> QED
        BY <3>3, <3>4, <3>5, Zenon
    <2> QED
      BY <2>1, <2>3, <2>4 DEF ObjectLifetime
  <1> QED
    BY <1>1, InvariantHolds, PTL

(* A producer enters a slot only when the element one lap earlier has been *)
(* delivered.                                                              *)
THEOREM NeverOverruns == Spec => []NoOverrun
  <1>1. ASSUME IInv PROVE NoOverrun
    <2> SUFFICES ASSUME NEW p \in Producers, pc[p] \in Inside, ticket[p] >= capacity_
                 PROVE  ticket[p] - capacity_ \in DOMAIN popped
      BY DEF NoOverrun
    <2> DEFINE n == ticket[p] - capacity_
    <2>1. p \in Threads /\ ticket[p] \in Nat /\ ticket[p] < head_ /\ head_ \in 0 .. MaxTickets
      BY <1>1, SMTT(30) DEF IInv, TypeOK, ClaimedTurns, Claimed, Threads
    <2>2. n \in Nat /\ idx(n) = idx(ticket[p]) /\ turn(n) = turn(ticket[p]) - 1
      BY <2>1, PreviousLap, Zenon
    <2>3. slotTurn[idx(ticket[p])] = turn(ticket[p]) * 2 /\ turn(ticket[p]) \in Nat
      BY <1>1, <2>1, Laps DEF IInv, ClaimedTurns, SlotReady, AwaitedTurn, freeTurn
    <2>4. n \in Tickets
      BY <2>1, <2>2, RingAssumption DEF Tickets
    <2>5. slotTurn[idx(n)] >= releasedTurn(n)
      BY <2>2, <2>3 DEF releasedTurn
    <2> QED
      BY <1>1, <2>4, <2>5 DEF IInv, Delivered
  <1> QED
    BY <1>1, InvariantHolds, PTL

(* try_emplace gives up only on a ring that it has just seen full.         *)
THEOREM FullIsFull == Spec => FullWasFull
  <1>1. ASSUME IInv, NEW p \in Producers, TryCheck(p), pc'[p] = "tryReload", ticket[p] = head_
        PROVE  head_ >= capacity_ /\ head_ - capacity_ \notin DOMAIN popped
    <2>1. p \in Threads /\ head_ \in Nat /\ head_ \in 0 .. MaxTickets
      BY <1>1 DEF IInv, TypeOK, Threads
    <2>2. idx(head_) \in Slots /\ turn(head_) \in Nat
      BY <2>1, Laps
    <2>3. ~ SlotReady(p)
      BY <1>1, <2>1 DEF TryCheck, Goto, IInv, TypeOK
    <2>4. slotTurn[idx(head_)] \in Nat /\ slotTurn[idx(head_)] < turn(head_) * 2
      <3>1. slotTurn[idx(head_)] \in Nat
        BY <1>1, <2>2, Zenon DEF IInv, TypeOK
      <3>2. slotTurn[idx(head_)] # turn(head_) * 2
        BY <1>1, <2>3 DEF SlotReady, AwaitedTurn, freeTurn
      <3>3. slotTurn[idx(head_)] <= turn(head_) * 2
        BY <1>1, <2>1 DEF IInv, UnclaimedTurns, freeTurn
      <3> QED
        BY <2>2, <3>1, <3>2, <3>3
    <2>5. head_ >= capacity_
      <3> SUFFICES ASSUME head_ < capacity_ PROVE FALSE
        BY <2>1, RingAssumption
      <3>1. turn(head_) = 0
        BY <2>1, FirstLap
      <3> QED
        BY <2>4, <3>1
    <2>6. head_ - capacity_ \notin DOMAIN popped
      <3> SUFFICES ASSUME head_ - capacity_ \in DOMAIN popped PROVE FALSE
        OBVIOUS
      <3> DEFINE n == head_ - capacity_
      <3>1. n \in Nat /\ idx(n) = idx(head_) /\ turn(n) = turn(head_) - 1
        BY <2>1, <2>5, PreviousLap
      <3>2. n \in Tickets
        BY <1>1 DEF IInv, TypeOK
      <3>3. slotTurn[idx(n)] >= turn(n) * 2 + 2
        BY <1>1, <3>2 DEF IInv, Delivered, releasedTurn
      <3> QED
        BY <2>2, <2>4, <3>1, <3>3
    <2> QED
      BY <2>5, <2>6
  <1>2. IInv /\ [Next]_vars =>
          [\A p \in Producers :
             TryCheck(p) /\ pc'[p] = "tryReload" /\ ticket[p] = head_
               => head_ >= capacity_ /\ head_ - capacity_ \notin DOMAIN popped]_vars
    BY <1>1
  <1> QED
    BY <1>2, InvariantHolds, PTL DEF Spec, FullWasFull

=============================================================================
