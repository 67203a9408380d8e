--------------------------- MODULE MPMCRefinement ---------------------------
(***************************************************************************)
(* mpmc::Ring implements HandoffQueue, for any number of threads, slots    *)
(* and tickets.  A step of the ring is one of four things to its callers;  *)
(* the queue of the refinement mapping is made of windows of the history   *)
(* of pushes and of the line of waiting consumers.                         *)
(***************************************************************************)
EXTENDS MPMCRingProofs, Sequences

\* f takes its values in S between a and b.
Valued(f, a, b, S) ==
  /\ a \in Nat /\ b \in Nat /\ a <= b
  /\ \A n \in a .. b - 1 : f[n] \in S

\* f and g agree there.
Agree(f, g, a, b) == \A n \in a .. b - 1 : g[n] = f[n]

\* s lists f[a], ..., f[b - 1].
Lists(s, f, a, b, S) ==
  /\ s \in Seq(S)
  /\ Len(s) = b - a
  /\ \A i \in 1 .. b - a : s[i] = f[a + i - 1]

(* A window of a function is a sequence of its values.                     *)
LEMMA WindowIsSeq ==
  ASSUME NEW S, NEW f, NEW a, NEW b, Valued(f, a, b, S)
  PROVE  Lists(Window(f, a, b), f, a, b, S)
  <1> DEFINE k == b - a
             s == [i \in 1 .. k |-> f[a + i - 1]]
  <1>1. k \in Nat
    BY DEF Valued
  <1>2. \A i \in 1 .. k : a + i - 1 \in a .. b - 1
    BY DEF Valued
  <1>3. Window(f, a, b) = s
    BY DEF Window
  <1>4. \A i \in 1 .. k : f[a + i - 1] \in S
    BY <1>2 DEF Valued
  <1> HIDE DEF k
  <1>5. s \in [1 .. k -> S]
    BY <1>4
  <1>6. s \in Seq(S) 
    BY <1>1, <1>4
  <1>7. DOMAIN s = 1 .. k
    OBVIOUS
  <1>8. \A i \in 1 .. k : s[i] = f[a + i - 1]
    OBVIOUS
  <1> HIDE DEF s
  <1>9. Len(s) \in Nat /\ 1 .. Len(s) = 1 .. k
    BY <1>6, <1>7
  <1>10. Len(s) = k
    BY <1>1, <1>9
  <1> QED
    BY <1>3, <1>6, <1>8, <1>10 DEF Lists, k

(* Windows of functions that agree are the same.                           *)
LEMMA WindowsAgree ==
  ASSUME NEW f, NEW g, NEW a \in Nat, NEW b \in Nat, \A n \in a .. b - 1 : f[n] = g[n]
  PROVE  Window(f, a, b) = Window(g, a, b)
  <1>1. \A i \in 1 .. b - a : a + i - 1 \in a .. b - 1
    OBVIOUS
  <1> QED
    BY <1>1 DEF Window

(* An empty window.                                                        *)
LEMMA WindowEmpty ==
  ASSUME NEW f, NEW a \in Nat, NEW b \in Nat
  PROVE  Window(f, a, b) = <<>> <=> b <= a
  <1>1. DOMAIN Window(f, a, b) = 1 .. b - a
    BY DEF Window
  <1>2. CASE b <= a
    <2>1. 1 .. b - a = {}
      BY <1>2
    <2> QED
      BY <1>2, <2>1 DEF Window
  <1>3. CASE b > a
    <2>1. 1 \in 1 .. b - a
      BY <1>3
    <2>2. 1 \notin DOMAIN << >>
      OBVIOUS
    <2> QED
      BY <1>1, <1>3, <2>1, <2>2
  <1> QED
    BY <1>2, <1>3

(* A window grows at its end ...                                           *)
LEMMA WindowGrows ==
  ASSUME NEW S, NEW f, NEW g, NEW a, NEW b,
         Valued(f, a, b, S), Agree(f, g, a, b), g[b] \in S
  PROVE  Window(g, a, b + 1) = Append(Window(f, a, b), g[b])
  <1> DEFINE s == Window(f, a, b)
             t == Window(g, a, b + 1)
             e == g[b]
  <1> USE DEF Valued, Agree
  <1>0. a \in Nat /\ b \in Nat /\ a <= b
    OBVIOUS
  <1> HIDE DEF s, t, e
  <1>1. s \in Seq(S) /\ Len(s) = b - a /\ \A i \in 1 .. b - a : s[i] = f[a + i - 1]
    <2> HIDE DEF Valued
    <2>2. Lists(s, f, a, b, S)
      BY WindowIsSeq DEF s
    <2> QED
      BY <2>2 DEF Lists
  <1>2. Valued(g, a, b + 1, S)
    BY DEF Valued
  <1>3. /\ t \in Seq(S) /\ Len(t) = b + 1 - a
        /\ \A i \in 1 .. b + 1 - a : t[i] = g[a + i - 1]
    <2> HIDE DEF Valued
    <2>1. Lists(t, g, a, b + 1, S)
      BY <1>2, WindowIsSeq DEF t
    <2>2. /\ t \in Seq(S) /\ Len(t) = (b + 1) - a
          /\ \A i \in 1 .. (b + 1) - a : t[i] = g[a + i - 1]
      BY <2>1, Zenon DEF Lists
    <2> QED
      BY <2>2, <1>0
  <1>4. \A i \in 1 .. b - a : a + i - 1 \in a .. b - 1 /\ i \in 1 .. b + 1 - a
    OBVIOUS
  <1>5. \A i \in 1 .. b - a : t[i] = s[i]
    BY <1>1, <1>3, <1>4
  <1>6. t[b + 1 - a] = e
    <2>1. b + 1 - a \in 1 .. b + 1 - a /\ a + (b + 1 - a) - 1 = b
      OBVIOUS
    <2> QED
      BY <1>3, <2>1 DEF e
  <1>7. e \in S
    BY DEF e
  <1>8. /\ Append(s, e) \in Seq(S) /\ Len(Append(s, e)) = Len(s) + 1
        /\ \A i \in 1 .. Len(s) : Append(s, e)[i] = s[i]
        /\ Append(s, e)[Len(s) + 1] = e
    BY <1>1, <1>7
  <1>9. Len(s) + 1 = b + 1 - a /\ Len(t) = Len(Append(s, e))
    BY <1>1, <1>3, <1>8
  <1>10. \A i \in 1 .. Len(t) : t[i] = Append(s, e)[i]
    <2> SUFFICES ASSUME NEW i \in 1 .. Len(t) PROVE t[i] = Append(s, e)[i]
      BY Zenon
    <2>1. CASE i = b + 1 - a
      BY <2>1, <1>6, <1>8, <1>9
    <2>2. CASE i \in 1 .. b - a
      <3>1. i \in 1 .. Len(s)
        BY <2>2, <1>1
      <3>2. Append(s, e)[i] = s[i]
        BY <3>1, <1>8
      <3> QED
        BY <2>2, <3>2, <1>5
    <2>3. i = b + 1 - a \/ i \in 1 .. b - a
      BY <1>3
    <2> QED
      BY <2>1, <2>2, <2>3, Zenon
  <1>11. t = Append(s, e)
    BY <1>3, <1>8, <1>9, <1>10
  <1> QED
    BY <1>11 DEF s, t, e

(* ... and shrinks at its beginning.                                       *)
LEMMA WindowShrinks ==
  ASSUME NEW S, NEW f, NEW g, NEW a, NEW b,
         Valued(f, a, b, S), a < b, Agree(f, g, a + 1, b)
  PROVE  /\ Head(Window(f, a, b)) = f[a]
         /\ Window(g, a + 1, b) = Tail(Window(f, a, b))
  <1> DEFINE s == Window(f, a, b)
             t == Window(g, a + 1, b)
  <1> USE DEF Valued, Agree
  <1> HIDE DEF s, t
  <1>1. s \in Seq(S) /\ Len(s) = b - a /\ \A i \in 1 .. b - a : s[i] = f[a + i - 1]
    <2> HIDE DEF Valued
    <2>2. Lists(s, f, a, b, S)
      BY WindowIsSeq DEF s
    <2> QED
      BY <2>2 DEF Lists
  <1>2. /\ a + 1 \in Nat /\ a + 1 <= b
        /\ \A n \in a + 1 .. b - 1 : n \in a .. b - 1
    OBVIOUS
  <1>3. \A n \in a + 1 .. b - 1 : g[n] \in S
    BY <1>2
  <1>4. /\ t \in Seq(S) /\ Len(t) = b - (a + 1)
        /\ \A i \in 1 .. b - (a + 1) : t[i] = g[a + 1 + i - 1]
    <2>1. Valued(g, a + 1, b, S)
      BY <1>2, <1>3
    <2> HIDE DEF Valued
    <2>2. Lists(t, g, a + 1, b, S)
      BY <2>1, WindowIsSeq DEF t
    <2> QED
      BY <2>2 DEF Lists
  <1>5. s # <<>>
    BY <1>1
  <1>6. /\ Head(s) = s[1] /\ Tail(s) \in Seq(S) /\ Len(Tail(s)) = Len(s) - 1
        /\ \A i \in 1 .. Len(Tail(s)) : Tail(s)[i] = s[i + 1]
    BY <1>1, <1>5
  <1>7. s[1] = f[a]
    <2>1. 1 \in 1 .. b - a /\ a + 1 - 1 = a
      OBVIOUS
    <2> QED
      BY <1>1, <2>1
  <1>8. Len(t) = Len(Tail(s))
    BY <1>1, <1>4, <1>6
  <1>9. \A i \in 1 .. Len(t) : t[i] = Tail(s)[i]
    <2> SUFFICES ASSUME NEW i \in 1 .. Len(t) PROVE t[i] = Tail(s)[i]
      BY Zenon
    <2>1. /\ i \in 1 .. b - (a + 1) /\ i + 1 \in 1 .. b - a
          /\ a + 1 + i - 1 \in a + 1 .. b - 1 /\ a + (i + 1) - 1 = a + 1 + i - 1
      BY <1>4
    <2>2. t[i] = g[a + 1 + i - 1] /\ s[i + 1] = f[a + 1 + i - 1]
      BY <1>1, <1>4, <2>1
    <2>3. g[a + 1 + i - 1] = f[a + 1 + i - 1]
      BY <2>1
    <2> QED
      BY <1>6, <1>8, <2>2, <2>3
  <1>10. t = Tail(s)
    BY <1>4, <1>6, <1>8, <1>9
  <1> QED
    BY <1>6, <1>7, <1>10 DEF s, t

(***************************************************************************)
(* The refinement needs one more invariant: every ticket popped so far is  *)
(* delivered or in the hands of a consumer.                                *)
(***************************************************************************)
ClaimsHeld ==
  \A n \in Tickets :
    n < tail_ /\ n \notin DOMAIN popped =>
      \E c \in Consumers : pc[c] \in Claimed /\ ticket[c] = n

\* Consumer c keeps its ticket, and if it reads its slot it reads what was pushed.
Steady(c) ==
  /\ pc[c] \in Claimed <=> pc'[c] \in Claimed
  /\ pc[c] \in Claimed =>
       /\ ticket'[c] = ticket[c]
       /\ \/ pc'[c] = pc[c] /\ val'[c] = val[c]
          \/ pc[c] = "spin" /\ pc'[c] = "take"
          \/ pc[c] = "take" /\ pc'[c] = "release" /\ val'[c] = pushed[ticket[c]]

\* What a step of the ring is to its callers.
PushTakesEffect(v) ==
  /\ head_' = head_ + 1
  /\ tail_' = tail_
  /\ pushed' = [n \in 0 .. head_ |-> IF n = head_ THEN v ELSE pushed[n]]
  /\ popped' = popped
  /\ \A d \in Consumers : Steady(d)

PopTakesEffect(c) ==
  /\ pc[c] \notin Claimed
  /\ pc'[c] \in {"spin", "take"}
  /\ ticket'[c] = tail_
  /\ tail_' = tail_ + 1
  /\ head_' = head_ /\ pushed' = pushed /\ popped' = popped
  /\ \A d \in Consumers \ {c} : Steady(d)

PopReturns(c) ==
  /\ pc[c] = "release"
  /\ pc'[c] = "idle"
  /\ DOMAIN popped' = DOMAIN popped \cup {ticket[c]}
  /\ head_' = head_ /\ tail_' = tail_ /\ pushed' = pushed
  /\ \A d \in Consumers \ {c} : Steady(d)

NothingHappens ==
  /\ head_' = head_ /\ tail_' = tail_ /\ pushed' = pushed /\ popped' = popped
  /\ \A d \in Consumers : Steady(d)

(* A consumer ahead of every push waits: its slot's turn has not come.     *)
LEMMA AheadWaits ==
  IInv => \A c \in Consumers : pc[c] \in Claimed /\ ticket[c] >= head_ => pc[c] = "spin"
  <1> SUFFICES ASSUME IInv, NEW c \in Consumers, pc[c] \in Inside, ticket[c] >= head_
               PROVE  FALSE
    BY DEF Claimed
  <1>1. c \in Threads /\ c \notin Producers /\ ticket[c] \in 0 .. MaxTickets
    BY RingAssumption DEF IInv, TypeOK, Threads
  <1>2. slotTurn[idx(ticket[c])] = publishedTurn(ticket[c])
    BY <1>1 DEF IInv, ClaimedTurns, SlotReady, AwaitedTurn
  <1>3. slotTurn[idx(ticket[c])] <= freeTurn(ticket[c])
    BY <1>1 DEF IInv, UnclaimedTurns
  <1>4. turn(ticket[c]) \in Nat
    BY <1>1, LapAndSlot
  <1> QED
    BY <1>2, <1>3, <1>4 DEF publishedTurn, freeTurn

(* A consumer about to read its slot will find what was pushed for it.     *)
LEMMA TakesWhatWasPushed ==
  IInv => \A c \in Consumers : pc[c] = "take" => storage[idx(ticket[c])] = pushed[ticket[c]]
  <1> SUFFICES ASSUME IInv, NEW c \in Consumers, pc[c] = "take"
               PROVE  storage[idx(ticket[c])] = pushed[ticket[c]]
    OBVIOUS
  <1>1. c \in Threads /\ c \notin Producers /\ pc[c] \in Inside /\ pc[c] \in Claimed
    BY RingAssumption DEF Threads, Inside, Claimed
  <1>2. ticket[c] \in Tickets
    BY <1>1, RingAssumption DEF IInv, TypeOK, ClaimedTurns, Tickets
  <1>3. slotTurn[idx(ticket[c])] = publishedTurn(ticket[c])
    BY <1>1 DEF IInv, ClaimedTurns, SlotReady, AwaitedTurn
  <1>4. \A d \in Consumers : pc[d] = "release" => ticket[d] # ticket[c]
    BY <1>1 DEF IInv, TicketsDistinct, Claimed, Inside
  <1> QED
    BY <1>2, <1>3, <1>4 DEF IInv, Contents

(* A thread that only moves its own locals leaves the others steady.       *)
LEMMA OthersSteady ==
  ASSUME IInv, NEW t \in Threads, NEW d \in Consumers, d # t,
         NEW l, pc' = [pc EXCEPT ![t] = l],
         \/ ticket' = ticket
         \/ \E n : ticket' = [ticket EXCEPT ![t] = n],
         \/ val' = val
         \/ \E v : val' = [val EXCEPT ![t] = v]
  PROVE  Steady(d)
  <1>1. d \in Threads
    BY DEF Threads
  <1>2. pc'[d] = pc[d] /\ ticket'[d] = ticket[d] /\ val'[d] = val[d]
    BY <1>1 DEF IInv, TypeOK
  <1> QED
    BY <1>2 DEF Steady

(* Every step of the ring is one of the four to its callers.               *)
LEMMA StepsToCallers ==
  ASSUME IInv, Next
  PROVE  \/ \E v \in Values : PushTakesEffect(v)
         \/ \E c \in Consumers : PopTakesEffect(c) \/ PopReturns(c)
         \/ NothingHappens
  <1>1. ASSUME NEW p \in Producers, Emplace(p) \/ ProducerStep(p)
        PROVE  NothingHappens \/ \E v \in Values : PushTakesEffect(v)
    <2>1. p \in Threads /\ \A d \in Consumers : d # p
      BY RingAssumption DEF Threads
    <2>2. ASSUME NEW v \in Values, EmplaceClaim(p, v)
          PROVE  PushTakesEffect(v)
      <3>1. \A d \in Consumers : Steady(d)
        BY <2>1, <2>2, OthersSteady, Zenon DEF EmplaceClaim, ClaimHead, Goto
      <3> QED
        BY <2>2, <3>1 DEF EmplaceClaim, ClaimHead, PushTakesEffect
    <2>3. ASSUME NEW v \in Values, TryEmplaceLoad(p, v)
          PROVE  NothingHappens
      <3>1. \A d \in Consumers : Steady(d)
        BY <2>1, <2>3, OthersSteady, Zenon DEF TryEmplaceLoad, Goto
      <3> QED
        BY <2>3, <3>1 DEF TryEmplaceLoad, NothingHappens
    <2>4. CASE Spin(p)
      <3>1. \A d \in Consumers : Steady(d)
        BY <2>1, <2>4, OthersSteady, Zenon DEF Spin, Goto
      <3> QED
        BY <2>4, <3>1 DEF Spin, NothingHappens
    <2>5. CASE TryCheck(p)
      <3>1. \A d \in Consumers : Steady(d)
        BY <2>1, <2>5, OthersSteady, Zenon DEF TryCheck, Goto
      <3> QED
        BY <2>5, <3>1 DEF TryCheck, NothingHappens
    <2>6. CASE TryEmplaceCas(p)
      <3>1. pc[p] \in Trying /\ val[p] \in Values
        BY <2>1, <2>6 DEF TryEmplaceCas, Trying, IInv, Elements
      <3>2. \A d \in Consumers : Steady(d)
        BY <2>1, <2>6, OthersSteady DEF TryEmplaceCas, ClaimHead, Goto
      <3>3. CASE head_ = ticket[p]
        <4>1. PushTakesEffect(val[p])
          BY <2>6, <3>2, <3>3 DEF TryEmplaceCas, ClaimHead, PushTakesEffect
        <4> QED
          BY <3>1, <4>1
      <3>4. CASE head_ # ticket[p]
        BY <2>6, <3>2, <3>4 DEF TryEmplaceCas, NothingHappens
      <3> QED
        BY <3>3, <3>4
    <2>7. CASE TryEmplaceReload(p)
      <3>1. \A d \in Consumers : Steady(d)
        BY <2>1, <2>7, OthersSteady DEF TryEmplaceReload, Reload, Return, Goto
      <3> QED
        BY <2>7, <3>1 DEF TryEmplaceReload, Reload, NothingHappens
    <2>8. CASE Construct(p)
      <3>1. \A d \in Consumers : Steady(d)
        BY <2>1, <2>8, OthersSteady, Zenon DEF Construct, Goto
      <3> QED
        BY <2>8, <3>1 DEF Construct, NothingHappens
    <2>9. CASE Publish(p)
      <3>1. \A d \in Consumers : Steady(d)
        BY <2>1, <2>9, OthersSteady, Zenon DEF Publish, Return, Goto
      <3> QED
        BY <2>9, <3>1 DEF Publish, NothingHappens
    <2> QED
      BY <1>1, <2>2, <2>3, <2>4, <2>5, <2>6, <2>7, <2>8, <2>9 DEF Emplace, ProducerStep
  <1>2. ASSUME NEW c \in Consumers, Pop(c) \/ ConsumerStep(c)
        PROVE  NothingHappens \/ PopTakesEffect(c) \/ PopReturns(c)
    <2>1. /\ c \in Threads /\ c \notin Producers
          /\ pc \in [Threads -> {"idle"} \cup Claimed \cup Trying]
          /\ ticket \in [Threads -> 0 .. MaxTickets]
          /\ val \in [Threads -> Values \cup {Raw}]
      BY RingAssumption DEF Threads, IInv, TypeOK
    <2>2. CASE PopClaim(c)
      <3>1. \A d \in Consumers \ {c} : Steady(d)
        BY <2>1, <2>2, OthersSteady, Zenon DEF PopClaim, ClaimTail, Goto
      <3>2. pc[c] \notin Claimed /\ pc'[c] = "spin" /\ ticket'[c] = tail_
        BY <2>1, <2>2 DEF PopClaim, ClaimTail, Goto, Claimed, Inside
      <3> QED
        BY <2>2, <3>1, <3>2 DEF PopClaim, ClaimTail, PopTakesEffect
    <2>3. CASE TryPopLoad(c)
      <3>1. \A d \in Consumers \ {c} : Steady(d)
        BY <2>1, <2>3, OthersSteady, Zenon DEF TryPopLoad, Goto
      <3>2. Steady(c)
        BY <2>1, <2>3 DEF TryPopLoad, Goto, Steady, Claimed, Inside
      <3> QED
        BY <2>3, <3>1, <3>2 DEF TryPopLoad, NothingHappens
    <2>4. CASE Spin(c)
      <3>1. \A d \in Consumers \ {c} : Steady(d)
        BY <2>1, <2>4, OthersSteady, Zenon DEF Spin, Goto
      <3>2. Steady(c)
        BY <2>1, <2>4 DEF Spin, Use, Goto, Steady, Claimed, Inside
      <3> QED
        BY <2>4, <3>1, <3>2 DEF Spin, NothingHappens
    <2>5. CASE TryCheck(c)
      <3>1. \A d \in Consumers \ {c} : Steady(d)
        BY <2>1, <2>5, OthersSteady, Zenon DEF TryCheck, Goto
      <3>2. Steady(c)
        BY <2>1, <2>5 DEF TryCheck, Goto, Steady, Claimed, Inside
      <3> QED
        BY <2>5, <3>1, <3>2 DEF TryCheck, NothingHappens
    <2>6. CASE TryPopCas(c)
      <3>1. \A d \in Consumers \ {c} : Steady(d)
        BY <2>1, <2>6, OthersSteady DEF TryPopCas, ClaimTail, Goto
      <3>2. pc[c] \notin Claimed
        BY <2>6 DEF TryPopCas, Claimed, Inside
      <3>3. CASE tail_ = ticket[c]
        <4>1. pc'[c] = "take" /\ ticket'[c] = tail_
          BY <2>1, <2>6, <3>3 DEF TryPopCas, ClaimTail, Goto
        <4> QED
          BY <2>6, <3>1, <3>2, <3>3, <4>1 DEF TryPopCas, ClaimTail, PopTakesEffect
      <3>4. CASE tail_ # ticket[c]
        <4>1. Steady(c)
          BY <2>1, <2>6, <3>2, <3>4 DEF TryPopCas, Goto, Steady, Claimed, Inside
        <4> QED
          BY <2>6, <3>1, <3>4, <4>1 DEF TryPopCas, NothingHappens
      <3> QED
        BY <3>3, <3>4
    <2>7. CASE TryPopReload(c)
      <3>1. \A d \in Consumers \ {c} : Steady(d)
        BY <2>1, <2>7, OthersSteady DEF TryPopReload, Reload, Return, Goto
      <3>2. Steady(c)
        BY <2>1, <2>7 DEF TryPopReload, Reload, Return, Goto, Steady, Claimed, Inside
      <3> QED
        BY <2>7, <3>1, <3>2 DEF TryPopReload, Reload, NothingHappens
    <2>8. CASE Take(c)
      <3>1. \A d \in Consumers \ {c} : Steady(d)
        BY <2>1, <2>8, OthersSteady, Zenon DEF Take, Goto
      <3>2. storage[idx(ticket[c])] = pushed[ticket[c]]
        BY <2>8, TakesWhatWasPushed DEF Take
      <3>3. Steady(c)
        BY <2>1, <2>8, <3>2 DEF Take, Goto, Steady, Claimed, Inside
      <3> QED
        BY <2>8, <3>1, <3>3 DEF Take, NothingHappens
    <2>9. CASE Release(c)
      <3>1. \A d \in Consumers \ {c} : Steady(d)
        BY <2>1, <2>9, OthersSteady, Zenon DEF Release, Return, Goto
      <3>2. pc'[c] = "idle"
        BY <2>1, <2>9 DEF Release, Return, Goto
      <3> QED
        BY <2>9, <3>1, <3>2 DEF Release, PopReturns
    <2> QED
      BY <1>2, <2>2, <2>3, <2>4, <2>5, <2>6, <2>7, <2>8, <2>9 DEF Pop, ConsumerStep
  <1> QED
    BY <1>1, <1>2 DEF Next

(* Every ticket popped so far stays delivered or held.                     *)
LEMMA ClaimsStayHeld ==
  ASSUME IInv, ClaimsHeld, [Next]_vars
  PROVE  ClaimsHeld'
  <1> SUFFICES ASSUME NEW n \in Tickets, n < tail_', n \notin DOMAIN popped'
               PROVE  \E c \in Consumers : pc'[c] \in Claimed /\ ticket'[c] = n
    BY DEF ClaimsHeld, Tickets, Claimed, Inside
  <1>1. ASSUME NEW c \in Consumers, pc[c] \in Claimed, ticket[c] = n, Steady(c)
        PROVE  \E d \in Consumers : pc'[d] \in Claimed /\ ticket'[d] = n
    BY <1>1 DEF Steady
  <1>2. CASE UNCHANGED vars
    BY <1>2 DEF vars, ClaimsHeld
  <1>3. ASSUME NEW v \in Values, PushTakesEffect(v)
        PROVE  \E c \in Consumers : pc'[c] \in Claimed /\ ticket'[c] = n
    <2>1. n < tail_ /\ n \notin DOMAIN popped /\ \A d \in Consumers : Steady(d)
      BY <1>3 DEF PushTakesEffect
    <2>2. PICK d \in Consumers : pc[d] \in Claimed /\ ticket[d] = n
      BY <2>1 DEF ClaimsHeld
    <2> QED
      BY <1>1, <2>1, <2>2
  <1>4. CASE NothingHappens
    <2>1. n < tail_ /\ n \notin DOMAIN popped /\ \A d \in Consumers : Steady(d)
      BY <1>4 DEF NothingHappens
    <2>2. PICK d \in Consumers : pc[d] \in Claimed /\ ticket[d] = n
      BY <2>1 DEF ClaimsHeld
    <2> QED
      BY <1>1, <2>1, <2>2
  <1>5. ASSUME NEW c \in Consumers, PopTakesEffect(c)
        PROVE  \E d \in Consumers : pc'[d] \in Claimed /\ ticket'[d] = n
    <2>1. CASE n = tail_
      BY <1>5, <2>1 DEF PopTakesEffect, Claimed, Inside
    <2>2. CASE n # tail_
      <3>1. n < tail_
        BY <1>5, <2>2 DEF PopTakesEffect, IInv, TypeOK, Tickets
      <3>2. n \notin DOMAIN popped /\ \A d \in Consumers \ {c} : Steady(d)
        BY <1>5 DEF PopTakesEffect
      <3>3. PICK d \in Consumers : pc[d] \in Claimed /\ ticket[d] = n
        BY <3>1, <3>2 DEF ClaimsHeld
      <3>4. d # c
        BY <1>5, <3>3 DEF PopTakesEffect
      <3> QED
        BY <1>1, <3>2, <3>3, <3>4
    <2> QED
      BY <2>1, <2>2
  <1>6. ASSUME NEW c \in Consumers, PopReturns(c)
        PROVE  \E d \in Consumers : pc'[d] \in Claimed /\ ticket'[d] = n
    <2>1. /\ n < tail_ /\ n \notin DOMAIN popped /\ n # ticket[c]
          /\ \A d \in Consumers \ {c} : Steady(d)
      BY <1>6 DEF PopReturns
    <2>2. PICK d \in Consumers : pc[d] \in Claimed /\ ticket[d] = n
      BY <2>1 DEF ClaimsHeld
    <2> QED
      BY <1>1, <2>1, <2>2
  <1> QED
    BY <1>2, <1>3, <1>4, <1>5, <1>6, StepsToCallers

\* Consumer h is the one that waits for ticket n.
WaitsFor(h, n) == h \in Consumers /\ pc[h] = "spin" /\ ticket[h] = n

\* WaitingInLine as a function of the ticket.
Line == [n \in head_ .. tail_ - 1 |-> Holder(n)]

(* The holder of a claimed ticket is the consumer that claimed it.         *)
LEMMA HolderHolds ==
  IInv => \A c \in Consumers : pc[c] \in Claimed => Holder(ticket[c]) = c
  <1> SUFFICES ASSUME IInv, NEW c \in Consumers, pc[c] \in Claimed
               PROVE  Holder(ticket[c]) = c
    OBVIOUS
  <1> DEFINE P(d) == pc[d] \in Claimed /\ ticket[d] = ticket[c]
  <1>1. P(c)
    OBVIOUS
  <1>2. \A d \in Consumers : P(d) => d = c
    BY DEF IInv, TicketsDistinct
  <1> HIDE DEF P
  <1>3. (CHOOSE d \in Consumers : P(d)) = c
    BY <1>1, <1>2
  <1> QED
    BY <1>3 DEF P, Holder

(* The line: one waiting consumer for every ticket that is popped and not  *)
(* yet pushed.                                                             *)
LEMMA LineWaits ==
  IInv /\ ClaimsHeld => \A n \in head_ .. tail_ - 1 : Line[n] = Holder(n) /\ WaitsFor(Line[n], n)
  <1> SUFFICES ASSUME IInv, ClaimsHeld, NEW n \in head_ .. tail_ - 1
               PROVE  Line[n] = Holder(n) /\ WaitsFor(Line[n], n)
    OBVIOUS
  <1>1. n \in Tickets /\ n < tail_ /\ n >= head_
    BY RingAssumption DEF IInv, TypeOK, Tickets
  <1>2. n \notin DOMAIN popped
    BY <1>1 DEF IInv, TypeOK, Delivered, Tickets
  <1>3. PICK c \in Consumers : pc[c] \in Claimed /\ ticket[c] = n
    BY <1>1, <1>2 DEF ClaimsHeld
  <1>4. pc[c] = "spin"
    BY <1>1, <1>3, AheadWaits
  <1>5. Holder(n) = c
    BY <1>3, HolderHolds
  <1> QED
    BY <1>3, <1>4, <1>5 DEF Line, WaitsFor

(* The same, of the next state.                                            *)
LEMMA NextFacts ==
  ASSUME IInv', ClaimsHeld'
  PROVE  /\ \A c \in Consumers : pc'[c] \in Claimed => Holder(ticket[c])' = c
         /\ \A n \in head_' .. tail_' - 1 : Line'[n] = Holder(n)' /\ WaitsFor(Line[n], n)'
         /\ \A c \in Consumers : pc'[c] \in Claimed /\ ticket'[c] >= head_' => pc'[c] = "spin"
  <1>1. (IInv => \A c \in Consumers : pc[c] \in Claimed => Holder(ticket[c]) = c)'
    BY HolderHolds, PTL
  <1>2. (IInv /\ ClaimsHeld
           => \A n \in head_ .. tail_ - 1 : Line[n] = Holder(n) /\ WaitsFor(Line[n], n))'
    BY LineWaits, PTL
  <1>3. (IInv => \A c \in Consumers : pc[c] \in Claimed /\ ticket[c] >= head_ => pc[c] = "spin")'
    BY AheadWaits, PTL
  <1> QED
    BY <1>1, <1>2, <1>3

(* What a consumer has been given does not change while it is steady.      *)
LEMMA GivenSteady ==
  ASSUME IInv, IInv', NEW c \in Consumers, Steady(c), head_' = head_, pushed' = pushed
  PROVE  Given'[c] = Given[c]
  <1>1. CASE pc[c] \notin Claimed
    <2>1. pc'[c] \notin Claimed
      BY <1>1 DEF Steady
    <2> QED
      BY <1>1, <2>1 DEF Given, Claimed, Inside
  <1>2. CASE pc[c] \in Claimed
    <2>1. /\ ticket'[c] = ticket[c]
          /\ \/ pc'[c] = pc[c] /\ val'[c] = val[c]
             \/ pc[c] = "spin" /\ pc'[c] = "take"
             \/ pc[c] = "take" /\ pc'[c] = "release" /\ val'[c] = pushed[ticket[c]]
      BY <1>2 DEF Steady
    <2>2. pc[c] = "take" => ticket[c] < head_
      <3> HAVE pc[c] = "take"
      <3>1. ~(ticket[c] >= head_)
        BY <1>2, AheadWaits
      <3>2. ticket[c] \in Int /\ head_ \in Int
        BY DEF IInv, TypeOK, Threads
      <3> QED
        BY <3>1, <3>2
    <2>3. CASE pc'[c] = pc[c] /\ val'[c] = val[c]
      BY <2>1, <2>3 DEF Given
    <2>4. CASE pc[c] = "spin" /\ pc'[c] = "take"
      BY <2>1, <2>4 DEF Given
    <2>5. CASE pc[c] = "take" /\ pc'[c] = "release" /\ val'[c] = pushed[ticket[c]]
      BY <2>1, <2>2, <2>5 DEF Given
    <2> QED
      BY <2>1, <2>3, <2>4, <2>5
  <1> QED
    BY <1>1, <1>2

(* A consumer in line that is steady keeps its place.                      *)
LEMMA LineSteady ==
  ASSUME IInv, ClaimsHeld, IInv', ClaimsHeld',
         NEW n \in head_ .. tail_ - 1, Steady(Line[n])
  PROVE  Line[n] = Holder(n)'
  <1>1. WaitsFor(Line[n], n)
    BY LineWaits
  <1>2. Line[n] \in Consumers /\ pc'[Line[n]] \in Claimed /\ ticket'[Line[n]] = n
    BY <1>1 DEF WaitsFor, Steady, Claimed
  <1> QED
    BY <1>2, NextFacts

(* A step without effect for the callers changes nothing of the queue.     *)
LEMMA NothingStutters ==
  ASSUME IInv, ClaimsHeld, IInv', ClaimsHeld', NothingHappens
  PROVE  UNCHANGED <<QueuedItems, WaitingInLine, Given>>
  <1>1. /\ head_ \in Nat /\ tail_ \in Nat
        /\ head_' = head_ /\ tail_' = tail_ /\ pushed' = pushed
        /\ \A d \in Consumers : Steady(d)
    BY DEF NothingHappens, IInv, TypeOK
  <1>2. QueuedItems' = QueuedItems
    BY <1>1 DEF QueuedItems, Window
  <1>3. Given' = Given
    <2>1. \A c \in Consumers : Given'[c] = Given[c]
      BY <1>1, GivenSteady
    <2> QED
      BY <2>1 DEF Given
  <1>4. \A n \in head_ .. tail_ - 1 : Line'[n] = Line[n]
    <2> TAKE n \in head_ .. tail_ - 1
    <2>1. Line[n] \in Consumers
      BY LineWaits DEF WaitsFor
    <2>2. Line[n] = Holder(n)'
      BY <1>1, <2>1, LineSteady
    <2> QED
      BY <1>1, <2>2, NextFacts
  <1>5. WaitingInLine' = WaitingInLine
    <2>1. WaitingInLine' = Window(Line', head_, tail_) /\ WaitingInLine = Window(Line, head_, tail_)
      BY <1>1 DEF WaitingInLine, Line, Window
    <2> QED
      BY <1>1, <1>4, <2>1, WindowsAgree
  <1> QED
    BY <1>2, <1>3, <1>5

(* A pop that has its element and returns is HandoffQueue's Return.        *)
LEMMA ReturnIsReturn ==
  ASSUME IInv, ClaimsHeld, IInv', ClaimsHeld', NEW c \in Consumers, PopReturns(c)
  PROVE  HQ!Return(c)
  <1>1. /\ head_ \in Nat /\ tail_ \in Nat /\ c \in Threads
        /\ head_' = head_ /\ tail_' = tail_ /\ pushed' = pushed
        /\ \A d \in Consumers \ {c} : Steady(d)
        /\ pc[c] = "release" /\ pc'[c] = "idle"
    BY DEF PopReturns, IInv, TypeOK, Threads
  <1>2. QueuedItems' = QueuedItems
    BY <1>1 DEF QueuedItems, Window
  <1>3. Given[c] # Raw
    <2>1. pc[c] \in Claimed
      BY <1>1 DEF Claimed, Inside
    <2>2. ~(ticket[c] >= head_)
      BY <1>1, <2>1, AheadWaits
    <2>3. ticket[c] \in 0 .. head_ - 1
      <3>1. ticket[c] \in Nat
        BY <1>1 DEF IInv, TypeOK
      <3> QED
        BY <1>1, <2>2, <3>1
    <2>4. val[c] = pushed[ticket[c]]
      BY <1>1, Zenon DEF IInv, Elements
    <2>5. pushed[ticket[c]] \in Values
      BY <2>3, Zenon DEF IInv, TypeOK
    <2> QED
      BY <1>1, <2>4, <2>5, RingAssumption DEF Given
  <1>4. Given' = [Given EXCEPT ![c] = Raw]
    <2>1. \A d \in Consumers \ {c} : Given'[d] = Given[d]
      BY <1>1, GivenSteady
    <2>2. Given'[c] = Raw
      BY <1>1 DEF Given
    <2> QED
      BY <2>1, <2>2, Zenon DEF Given
  <1>5. \A n \in head_ .. tail_ - 1 : Line'[n] = Line[n]
    <2> TAKE n \in head_ .. tail_ - 1
    <2>1. Line[n] \in Consumers /\ pc[Line[n]] = "spin"
      BY LineWaits DEF WaitsFor
    <2>2. Line[n] = Holder(n)'
      BY <1>1, <2>1, LineSteady
    <2> QED
      BY <1>1, <2>2, NextFacts
  <1>6. WaitingInLine' = WaitingInLine
    <2>1. WaitingInLine' = Window(Line', head_, tail_) /\ WaitingInLine = Window(Line, head_, tail_)
      BY <1>1 DEF WaitingInLine, Line, Window
    <2> QED
      BY <1>1, <1>5, <2>1, WindowsAgree, Zenon
  <1> QED
    BY <1>2, <1>3, <1>4, <1>6 DEF HQ!Return

(* A push that takes effect is HandoffQueue's Push: to the first in line,  *)
(* or to the end of the queue.                                             *)
LEMMA PushIsPush ==
  ASSUME IInv, ClaimsHeld, IInv', ClaimsHeld', NEW v \in Values, PushTakesEffect(v)
  PROVE  HQ!Push(v)
  <1>1. /\ head_ \in Nat /\ tail_ \in Nat
        /\ head_' = head_ + 1 /\ tail_' = tail_
        /\ \A d \in Consumers : Steady(d)
        /\ pushed \in [0 .. head_ - 1 -> Values]
        /\ pushed' = [n \in 0 .. head_ |-> IF n = head_ THEN v ELSE pushed[n]]
    BY DEF PushTakesEffect, IInv, TypeOK
  <1>2. ticket \in [Threads -> Nat] /\ \A c \in Consumers : c \in Threads
    BY DEF IInv, TypeOK, Threads
  <1>3. pushed'[head_] = v /\ \A n \in 0 .. head_ - 1 : pushed'[n] = pushed[n]
    BY <1>1
  <1>4. ASSUME NEW c \in Consumers, ~(pc[c] \in Claimed /\ ticket[c] = head_)
        PROVE  Given'[c] = Given[c]
    <2>1. CASE pc[c] \notin Claimed
      <3>1. pc'[c] \notin Claimed
        BY <1>1, <2>1 DEF Steady
      <3> QED
        BY <2>1, <3>1 DEF Given, Claimed, Inside
    <2>2. CASE pc[c] \in Claimed
      <3>1. /\ ticket'[c] = ticket[c]
            /\ \/ pc'[c] = pc[c] /\ val'[c] = val[c]
               \/ pc[c] = "spin" /\ pc'[c] = "take"
               \/ pc[c] = "take" /\ pc'[c] = "release" /\ val'[c] = pushed[ticket[c]]
        BY <1>1, <2>2 DEF Steady
      <3>2. ticket[c] \in Nat /\ ticket[c] # head_
        BY <1>2, <1>4, <2>2
      <3>3. CASE ticket[c] < head_
        <4>1. pushed'[ticket[c]] = pushed[ticket[c]] /\ ticket[c] < head_'
          BY <1>1, <1>3, <3>2, <3>3
        <4> QED
          BY <3>1, <3>3, <4>1 DEF Given
      <3>4. CASE ticket[c] > head_
        <4>1. ticket[c] >= head_ /\ ticket'[c] >= head_'
          BY <1>1, <3>1, <3>2, <3>4
        <4>2. pc[c] = "spin" /\ pc'[c] \in Claimed
          BY <1>1, <2>2, <4>1, AheadWaits DEF Steady
        <4>3. pc'[c] = "spin"
          BY <4>1, <4>2, NextFacts
        <4>4. ~(ticket[c] < head_) /\ ~(ticket'[c] < head_')
          BY <1>1, <3>1, <3>2, <4>1
        <4> QED
          BY <4>2, <4>3, <4>4 DEF Given
      <3> QED
        BY <1>1, <3>2, <3>3, <3>4
    <2> QED
      BY <2>1, <2>2
  <1>5. CASE tail_ <= head_
    <2>1. WaitingInLine = <<>> /\ WaitingInLine' = <<>>
      BY <1>1, <1>5, WindowEmpty, SMTT(30) DEF WaitingInLine
    <2>2. \A c \in Consumers : ~(pc[c] \in Claimed /\ ticket[c] = head_)
      BY <1>1, <1>5, SMTT(30) DEF IInv, ClaimedTurns
    <2>3. Given' = Given
      <3>1. \A c \in Consumers : Given'[c] = Given[c]
        BY <1>4, <2>2
      <3> QED
        BY <3>1 DEF Given
    <2>4. QueuedItems' = Append(QueuedItems, v)
      <3>1. \A n \in tail_ .. head_ - 1 : n \in 0 .. head_ - 1
        BY <1>1
      <3>2. \A n \in tail_ .. head_ - 1 : pushed[n] \in Values
        BY <1>1, <3>1
      <3>3. \A n \in tail_ .. head_ - 1 : pushed'[n] = pushed[n]
        BY <1>3, <3>1
      <3>4. Window(pushed', tail_, head_ + 1) = Append(Window(pushed, tail_, head_), pushed'[head_])
        <4>1. Valued(pushed, tail_, head_, Values) /\ Agree(pushed, pushed', tail_, head_)
          BY <1>1, <1>5, <3>2, <3>3 DEF Valued, Agree
        <4>2. pushed'[head_] \in Values
          BY <1>3
        <4> QED
          BY <4>1, <4>2, WindowGrows
      <3>5. QueuedItems' = Window(pushed', tail_, head_ + 1)
        BY <1>1 DEF QueuedItems, Window
      <3> QED
        BY <1>3, <3>4, <3>5 DEF QueuedItems
    <2> QED
      BY <2>1, <2>3, <2>4 DEF HQ!Push
  <1>6. CASE head_ < tail_
    <2> DEFINE h == Line[head_]
    <2>1. head_ \in head_ .. tail_ - 1 /\ WaitsFor(h, head_)
      BY <1>1, <1>6, LineWaits
    <2>2. QueuedItems' = <<>> /\ QueuedItems = <<>>
      BY <1>1, <1>6, WindowEmpty DEF QueuedItems
    <2>3. \A n \in head_ + 1 .. tail_ - 1 : Line'[n] = Line[n]
      <3> TAKE n \in head_ + 1 .. tail_ - 1
      <3>1. n \in head_ .. tail_ - 1 /\ n \in head_' .. tail_' - 1
        BY <1>1
      <3>2. Line[n] \in Consumers
        BY <3>1, LineWaits DEF WaitsFor
      <3>3. Line[n] = Holder(n)'
        BY <1>1, <3>1, <3>2, LineSteady
      <3> QED
        BY <3>1, <3>3, NextFacts
    <2>4. \A n \in head_ .. tail_ - 1 : Line[n] \in Consumers
      BY LineWaits DEF WaitsFor
    <2>5. /\ Head(Window(Line, head_, tail_)) = h
          /\ Window(Line', head_ + 1, tail_) = Tail(Window(Line, head_, tail_))
      <3>1. /\ Valued(Line, head_, tail_, Consumers)
            /\ Agree(Line, Line', head_ + 1, tail_)
        BY <1>1, <1>6, <2>3, <2>4 DEF Valued, Agree
      <3> QED
        BY <1>6, <3>1, WindowShrinks
    <2>6. /\ WaitingInLine = Window(Line, head_, tail_)
          /\ WaitingInLine' = Window(Line', head_ + 1, tail_)
      BY <1>1 DEF WaitingInLine, Line, Window
    <2>7. WaitingInLine # <<>>
      BY <1>1, <1>6, <2>6, WindowEmpty
    <2>8. Given' = [Given EXCEPT ![h] = v]
      <3>1. h \in Consumers /\ pc[h] = "spin" /\ ticket[h] = head_
        BY <2>1 DEF WaitsFor
      <3>2. \A c \in Consumers \ {h} : Given'[c] = Given[c]
        <4> TAKE c \in Consumers \ {h}
        <4>1. ~(pc[c] \in Claimed /\ ticket[c] = head_)
          BY <3>1 DEF IInv, TicketsDistinct, Claimed
        <4> QED
          BY <1>4, <4>1
      <3>3. ticket'[h] = head_ /\ pc'[h] \in {"spin", "take"}
        BY <1>1, <3>1 DEF Steady, Claimed
      <3>4. Given'[h] = v
        BY <1>1, <1>3, <3>1, <3>3 DEF Given
      <3> QED
        BY <3>1, <3>2, <3>4, Zenon DEF Given
    <2> HIDE DEF h
    <2> QED
      BY <2>2, <2>5, <2>6, <2>7, <2>8, Zenon DEF HQ!Push
  <1> QED
    BY <1>1, <1>5, <1>6

(* A pop that takes effect is HandoffQueue's Pop: of the oldest element,   *)
(* or to the end of the line.                                              *)
LEMMA PopIsPop ==
  ASSUME IInv, ClaimsHeld, IInv', ClaimsHeld', NEW c \in Consumers, PopTakesEffect(c)
  PROVE  HQ!Pop(c)
  <1>1. /\ head_ \in Nat /\ tail_ \in Nat
        /\ head_' = head_ /\ tail_' = tail_ + 1 /\ pushed' = pushed
        /\ \A d \in Consumers \ {c} : Steady(d)
        /\ pushed \in [0 .. head_ - 1 -> Values]
        /\ pc[c] \notin Claimed /\ pc'[c] \in {"spin", "take"} /\ ticket'[c] = tail_
    BY DEF PopTakesEffect, IInv, TypeOK
  <1>2. pc'[c] \in Claimed
    BY <1>1 DEF Claimed, Inside
  <1>3. Given[c] = Raw
    BY <1>1 DEF Given, Claimed, Inside
  <1>4. \A d \in Consumers \ {c} : Given'[d] = Given[d]
    BY <1>1, GivenSteady
  <1>5. /\ WaitingInLine = Window(Line, head_, tail_)
        /\ WaitingInLine' = Window(Line', head_, tail_ + 1)
        /\ QueuedItems = Window(pushed, tail_, head_)
        /\ QueuedItems' = Window(pushed, tail_ + 1, head_)
    BY <1>1 DEF WaitingInLine, QueuedItems, Line, Window
  <1>6. \A n \in head_ .. tail_ - 1 : Line[n] \in Consumers /\ Line[n] # c
    BY <1>1, LineWaits DEF WaitsFor, Claimed
  <1>7. \A i \in DOMAIN WaitingInLine : WaitingInLine[i] # c
    <2> TAKE i \in DOMAIN WaitingInLine
    <2>1. i \in 1 .. tail_ - head_ /\ WaitingInLine[i] = Line[head_ + i - 1]
      BY <1>5 DEF Window
    <2>2. head_ + i - 1 \in head_ .. tail_ - 1
      BY <1>1, <2>1
    <2> QED
      BY <1>6, <2>1, <2>2
  <1>8. CASE tail_ < head_
    <2>1. WaitingInLine = <<>> /\ WaitingInLine' = <<>>
      BY <1>1, <1>5, <1>8, WindowEmpty
    <2>2. QueuedItems # <<>>
      BY <1>1, <1>5, <1>8, WindowEmpty
    <2>3. Head(QueuedItems) = pushed[tail_] /\ QueuedItems' = Tail(QueuedItems)
      <3>1. \A n \in tail_ .. head_ - 1 : n \in 0 .. head_ - 1
        BY <1>1
      <3>2. Valued(pushed, tail_, head_, Values) /\ Agree(pushed, pushed, tail_ + 1, head_)
        BY <1>1, <1>8, <3>1 DEF Valued, Agree
      <3> QED
        BY <1>5, <1>8, <3>2, WindowShrinks
    <2>4. Given' = [Given EXCEPT ![c] = pushed[tail_]]
      <3>1. Given'[c] = pushed[tail_]
        BY <1>1, <1>8 DEF Given
      <3> QED
        BY <1>4, <3>1, Zenon DEF Given
    <2> QED
      BY <1>3, <1>7, <2>1, <2>2, <2>3, <2>4, Zenon DEF HQ!Pop
  <1>9. CASE head_ <= tail_
    <2>1. QueuedItems = <<>> /\ QueuedItems' = <<>>
      BY <1>1, <1>5, <1>9, WindowEmpty
    <2>2. Given' = Given
      <3>1. ticket'[c] >= head_'
        BY <1>1, <1>9
      <3>2. pc'[c] = "spin"
        BY <1>2, <3>1, NextFacts
      <3>3. Given'[c] = Raw
        BY <1>1, <1>9, <3>2 DEF Given
      <3> QED
        BY <1>3, <1>4, <3>3 DEF Given
    <2>3. WaitingInLine' = Append(WaitingInLine, c)
      <3>1. \A n \in head_ .. tail_ - 1 : Line'[n] = Line[n]
        <4> TAKE n \in head_ .. tail_ - 1
        <4>1. Line[n] \in Consumers /\ Steady(Line[n])
          BY <1>1, <1>6
        <4>2. Line[n] = Holder(n)'
          BY <4>1, LineSteady
        <4>3. n \in head_' .. tail_' - 1
          BY <1>1
        <4> QED
          BY <4>2, <4>3, NextFacts
      <3>2. Line'[tail_] = c
        <4>1. tail_ \in head_' .. tail_' - 1
          BY <1>1, <1>9
        <4>2. Holder(ticket[c])' = c
          BY <1>2, NextFacts
        <4> QED
          BY <4>1, <4>2, <1>1, NextFacts
      <3>3. Valued(Line, head_, tail_, Consumers) /\ Agree(Line, Line', head_, tail_)
        BY <1>1, <1>6, <1>9, <3>1 DEF Valued, Agree
      <3> QED
        BY <1>5, <3>2, <3>3, WindowGrows
    <2> QED
      BY <1>3, <1>7, <2>1, <2>2, <2>3 DEF HQ!Pop
  <1> QED
    BY <1>1, <1>8, <1>9

(* The queue is empty and nobody waits when the ring is constructed.       *)
LEMMA InitImplements == Init => HQ!Init
  <1> SUFFICES ASSUME Init PROVE HQ!Init
    OBVIOUS
  <1>1. QueuedItems = <<>> /\ WaitingInLine = <<>>
    BY WindowEmpty DEF Init, QueuedItems, WaitingInLine
  <1>2. Given = [c \in Consumers |-> Raw]
    BY DEF Init, Given, Threads
  <1> QED
    BY <1>1, <1>2 DEF HQ!Init

(* mpmc::Ring is a blocking FIFO queue to its callers: whatever the        *)
(* interleaving of emplace, try_emplace, pop and try_pop, elements leave   *)
(* in the order of the claims, blocked pops are served first come first    *)
(* served, and each pop returns the element it was promised.               *)
THEOREM RingImplementsFifo == Spec => ImplementsFifo
  <1>1. Init => ClaimsHeld
    BY DEF Init, ClaimsHeld, Tickets
  <1>2. IInv /\ ClaimsHeld /\ [Next]_vars => ClaimsHeld'
    BY ClaimsStayHeld
  <1>3. IInv /\ ClaimsHeld /\ IInv' /\ ClaimsHeld' /\ [Next]_vars => [HQ!Next]_HQ!vars
    <2> SUFFICES ASSUME IInv, ClaimsHeld, IInv', ClaimsHeld', [Next]_vars
                 PROVE  [HQ!Next]_HQ!vars
      OBVIOUS
    <2>1. CASE UNCHANGED vars
      <3>1. UNCHANGED <<QueuedItems, WaitingInLine, Given>>
        BY <2>1 DEF vars, QueuedItems, WaitingInLine, Given, Window, Holder
      <3> QED
        BY <3>1 DEF HQ!vars
    <2>2. CASE NothingHappens
      BY <2>2, NothingStutters DEF HQ!vars
    <2>3. ASSUME NEW v \in Values, PushTakesEffect(v)
          PROVE  HQ!Next
      BY <2>3, PushIsPush DEF HQ!Next
    <2>4. ASSUME NEW c \in Consumers, PopTakesEffect(c) \/ PopReturns(c)
          PROVE  HQ!Next
      BY <2>4, PopIsPop, ReturnIsReturn DEF HQ!Next
    <2> QED
      BY <2>1, <2>2, <2>3, <2>4, StepsToCallers
  <1> QED
    BY <1>1, <1>2, <1>3, InitImplements, InvariantHolds, PTL DEF Spec, ImplementsFifo, HQ!Spec
=============================================================================
