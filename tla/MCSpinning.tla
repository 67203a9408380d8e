----------------------------- MODULE MCSpinning -----------------------------
(***************************************************************************)
(* What spins instead of sleeping, side by side, for TLC: the locks of     *)
(* cpp-util/lock.h and the queue of one producer and one consumer.  At the *)
(* start one part is picked, and only that one moves                       *)
(*   "rwlock"   CASRWLock                                                  *)
(*   "striped"  StripedSpin                                                *)
(*   "spsc"     SPSCRing                                                   *)
(* The proofs at the end are about each by itself, for every value of the  *)
(* constants.                                                              *)
(***************************************************************************)
EXTENDS CASRWLock, SPSCRing, TLC, TLAPS

CONSTANTS
  Parts,                     \* the parts to check
  Keys, hash_func_, stripes_,
  k1, k2, k3

VARIABLES part, lock_, stripedPc, at

stripedVars == <<lock_, stripedPc, at>>
allVars == <<vars, stripedVars, spscVars, part>>

Striped == INSTANCE StripedSpin WITH pc <- stripedPc

\* k1 and k3 share a stripe when there are two.
MCHash == k1 :> 4 @@ k2 :> 7 @@ k3 :> 2

OfLock(A) == part = "rwlock" /\ A /\ UNCHANGED <<stripedVars, spscVars, part>>
OfStriped(A) == part = "striped" /\ A /\ UNCHANGED <<vars, spscVars, part>>
OfQueue(A) == part = "spsc" /\ A /\ UNCHANGED <<vars, stripedVars, part>>

SpinningInit == part \in Parts /\ Init /\ Striped!Init /\ SpscInit
SpinningNext == OfLock(Next) \/ OfStriped(Striped!Next) \/ OfQueue(SpscNext)

(* The fairness of FairSpec, Striped!FairSpec and SpscFairSpec.            *)
SpinningSpec ==
  /\ SpinningInit /\ [][SpinningNext]_allVars
  /\ \A t \in Threads :
       /\ WF_allVars(OfLock(Acquire(t) \/ Unlock(t)))
       /\ WF_allVars(OfLock(pc[t] = "inside" /\ Call(t)))
       /\ WF_allVars(OfStriped(Striped!Load(t) \/ Striped!Cas(t)))
  /\ WF_allVars(OfQueue(ProducerStep))
  /\ WF_allVars(OfQueue(ConsumerStep))
  /\ SF_allVars(OfQueue(Front))

(* Striped<SpinMutex>: at most one thread holds a stripe, so keys of one   *)
(* stripe are never locked together, and the word says whether it is held. *)
StripeExclusion == Striped!StripeExclusion

(* Nobody spins past a free lock for ever.  CASRWLock: when threads try    *)
(* and nobody inside stays, some thread gets in.  Striped<SpinMutex>:      *)
(* whoever waits for a stripe sees it taken, no matter who sits on the     *)
(* other stripes for ever.  SPSCQueue: a published element is popped and a *)
(* blocked emplace finds room, if the consumer keeps polling.              *)
SpinnersGetIn == SomeoneGetsIn /\ Striped!StripesAreIndependent /\ EveryElementPopped

-----------------------------------------------------------------------------
(* Striped<SpinMutex>, for any hash function and number of stripes.        *)

\* The hypothesis of the theorem: there is a stripe, and a hash is a size_t.
StripedAssumption == stripes_ \in Nat \ {0} /\ hash_func_ \in [Keys -> Nat]

\* The array is built of free locks, and nobody has a pointer to one.
LEMMA StripedInitial ==
  ASSUME StripedAssumption, Striped!Init
  PROVE  StripeExclusion
BY DEF StripedAssumption, Striped!Init, StripeExclusion, Striped!StripeExclusion,
       Striped!TypeOK, Striped!Stripes, Striped!Holders

\* Every step keeps the exclusion, which is inductive as it stands.
LEMMA StripedStep ==
  ASSUME StripedAssumption, StripeExclusion, [Striped!Next]_Striped!vars
  PROVE  StripeExclusion'
<1> USE DEF StripeExclusion, Striped!StripeExclusion, Striped!Goto
<1>1. CASE UNCHANGED Striped!vars
  BY <1>1 DEF Striped!vars, Striped!TypeOK, Striped!Holders
<1>2. ASSUME NEW t \in Threads, NEW k \in Keys, NEW call \in {"lock", "tryLock"}, Striped!Get(t, k, call)
      PROVE  StripeExclusion'
  <2>1. Striped!Stripe(k) \in Striped!Stripes
    BY DEF StripedAssumption, Striped!Stripe, Striped!Stripes
  <2>2. Striped!TypeOK'
    BY <1>2, <2>1 DEF Striped!Get, Striped!TypeOK
  <2>3. \A s \in Striped!Stripes : Striped!Holders(s)' = Striped!Holders(s)
    BY <1>2 DEF Striped!Get, Striped!TypeOK, Striped!Holders
  <2> QED
    BY <1>2, <2>2, <2>3 DEF Striped!Get, Striped!Stripes
<1>3. ASSUME NEW t \in Threads, Striped!Load(t)
      PROVE  StripeExclusion'
  <2>1. Striped!TypeOK'
    BY <1>3 DEF Striped!Load, Striped!TypeOK
  <2>2. \A s \in Striped!Stripes : Striped!Holders(s)' = Striped!Holders(s)
    BY <1>3 DEF Striped!Load, Striped!TypeOK, Striped!Holders
  <2> QED
    BY <1>3, <2>1, <2>2 DEF Striped!Load, Striped!Stripes
<1>4. ASSUME NEW t \in Threads, Striped!Cas(t)
      PROVE  StripeExclusion'
  <2>1. Striped!TypeOK'
    BY <1>4 DEF Striped!Cas, Striped!TypeOK
  <2>2. CASE lock_[at[t]] = 0
    <3>1. Striped!Holders(at[t]) = {}
      BY <2>2 DEF Striped!TypeOK
    <3>2. \A s \in Striped!Stripes : Striped!Holders(s)' = IF s = at[t] THEN {t} ELSE Striped!Holders(s)
      BY <1>4, <2>2, <3>1 DEF Striped!Cas, Striped!TypeOK, Striped!Holders
    <3>3. \A s \in Striped!Stripes : lock_'[s] = IF s = at[t] THEN 1 ELSE lock_[s]
      BY <1>4, <2>2 DEF Striped!Cas, Striped!TypeOK
    <3> QED
      BY <2>1, <3>2, <3>3 DEF Striped!Stripes
  <2>3. CASE lock_[at[t]] # 0
    <3>1. \A s \in Striped!Stripes : Striped!Holders(s)' = Striped!Holders(s)
      BY <1>4, <2>3 DEF Striped!Cas, Striped!TypeOK, Striped!Holders
    <3> QED
      BY <1>4, <2>1, <2>3, <3>1 DEF Striped!Cas, Striped!Stripes
  <2> QED
    BY <2>2, <2>3
<1>5. ASSUME NEW t \in Threads, Striped!Unlock(t)
      PROVE  StripeExclusion'
  <2>1. Striped!TypeOK'
    BY <1>5 DEF Striped!Unlock, Striped!TypeOK
  <2>2. at[t] \in Striped!Stripes /\ t \in Striped!Holders(at[t])
    BY <1>5 DEF Striped!Unlock, Striped!TypeOK, Striped!Holders
  <2>3. \A s \in Striped!Stripes : Striped!Holders(s)' = IF s = at[t] THEN {} ELSE Striped!Holders(s)
    <3>1. \A s \in Striped!Stripes : Striped!Holders(s)' = Striped!Holders(s) \ {t}
      BY <1>5 DEF Striped!Unlock, Striped!TypeOK, Striped!Holders
    <3>2. \A s \in Striped!Stripes : s # at[t] => t \notin Striped!Holders(s)
      BY DEF Striped!Holders
    <3>3. \A u \in Striped!Holders(at[t]) : u = t
      BY <2>2
    <3> HIDE DEF StripeExclusion
    <3> QED
      BY <2>2, <3>1, <3>2, <3>3, Zenon
  <2>4. \A s \in Striped!Stripes : lock_'[s] = IF s = at[t] THEN 0 ELSE lock_[s]
    BY <1>5 DEF Striped!Unlock, Striped!TypeOK
  <2> QED
    BY <2>1, <2>3, <2>4 DEF Striped!Stripes
<1> QED
  BY <1>1, <1>2, <1>3, <1>4, <1>5 DEF Striped!Next

\* Whatever the hash function and the number of stripes, at most one thread
\* holds a stripe's SpinMutex, and its word says whether somebody does.
THEOREM StripesAreExclusive ==
  ASSUME StripedAssumption
  PROVE  Striped!Spec => []StripeExclusion
<1>1. Striped!Init => StripeExclusion
  BY StripedInitial
<1>2. StripeExclusion /\ [Striped!Next]_Striped!vars => StripeExclusion'
  BY StripedStep
<1> QED
  BY <1>1, <1>2, PTL DEF Striped!Spec

-----------------------------------------------------------------------------
(* SPSCQueue, for every size.                                              *)

\* Up to twice the divisor, the remainder needs at most one subtraction.
LEMMA Modulo ==
  ASSUME NEW n \in Nat, n > 0, NEW a \in 0 .. 2 * n - 1
  PROVE  a % n = IF a < n THEN a ELSE a - n
OBVIOUS

\* There are at least two slots, and the index after the last is the first.
LEMMA RingSize ==
  ASSUME SpscAssumption
  PROVE  /\ ring_capacity \in Nat /\ ring_capacity >= 2 /\ 0 \in Slots
         /\ Slots \subseteq Nat
         /\ \A i \in Slots : NextIdx(i) \in Slots
BY DEF SpscAssumption, ring_capacity, Slots, NextIdx

\* How the distance of two indices changes when one of them moves on.
LEMMA Distances ==
  ASSUME SpscAssumption, NEW w \in Slots, NEW r \in Slots
  PROVE  /\ Distance(w, r) \in 0 .. ring_capacity - 1
         /\ Distance(w, r) = 0 <=> w = r
         /\ NextIdx(w) = r <=> Distance(w, r) = ring_capacity - 1
         /\ NextIdx(w) # r => Distance(NextIdx(w), r) = Distance(w, r) + 1
         /\ w # r => Distance(w, NextIdx(r)) = Distance(w, r) - 1
BY RingSize DEF Slots, NextIdx, Distance

\* The k-th place is k - 1 slots after readIdx_, and the only slot that is.
LEMMA Places ==
  ASSUME SpscAssumption, readIdx_ \in Slots, NEW k \in 1 .. ring_capacity
  PROVE  /\ Place(k) \in Slots /\ Distance(Place(k), readIdx_) = k - 1
         /\ Place(k) = IF readIdx_ + k - 1 < ring_capacity THEN readIdx_ + k - 1
                       ELSE readIdx_ + k - 1 - ring_capacity
         /\ \A i \in Slots : Distance(i, readIdx_) = k - 1 => i = Place(k)
<1> DEFINE a == readIdx_ + k - 1
           n == ring_capacity
<1>1. a \in 0 .. 2 * n - 1 /\ n \in Nat /\ n > 0
  BY RingSize DEF Slots
<1>2. Place(k) = a % n
  BY DEF Place
<1>3. Place(k) = IF a < n THEN a ELSE a - n
  <2> HIDE DEF a, n
  <2> QED BY <1>1, <1>2, Modulo
<1> QED
  BY <1>1, <1>3 DEF Slots, Distance

\* The places after a pop.
LEMMA PlacesMove ==
  ASSUME SpscAssumption, readIdx_ \in Slots, readIdx_' = NextIdx(readIdx_),
         NEW k \in 1 .. ring_capacity - 1
  PROVE  Place(k)' = Place(k + 1)
<1> DEFINE b == readIdx_' + k - 1
           n == ring_capacity
<1>1. b \in 0 .. 2 * n - 1 /\ n \in Nat /\ n > 0 /\ k + 1 \in 1 .. n
  BY RingSize DEF Slots, NextIdx
<1>2. Place(k)' = b % n
  BY DEF Place, ring_capacity
<1>3. Place(k)' = IF b < n THEN b ELSE b - n
  <2> HIDE DEF b, n
  <2> QED BY <1>1, <1>2, Modulo
<1>4. Place(k + 1) = IF readIdx_ + k < n THEN readIdx_ + k ELSE readIdx_ + k - n
  BY <1>1, Places, RingSize DEF Slots
<1> QED
  BY <1>1, <1>3, <1>4, RingSize DEF Slots, NextIdx

-----------------------------------------------------------------------------

\* What the invariant says of a queue implies the properties of the ring.
LEMMA SpscInvImplies ==
  ASSUME SpscAssumption, SpscInv
  PROVE  SpscQueueIntact
<1> USE DEF SpscInv
<1>1. /\ Len(items) \in Nat /\ Len(items) = Distance(writeIdx_, readIdx_)
      /\ {writeIdx_, readIdx_, readIdxCache_, writeIdxCache_} \subseteq Slots
      /\ ring_capacity \in Nat
  BY RingSize DEF SpscTypeOK, SlotsHoldItems
<1>2. FrontIsOldest
  <2> SUFFICES ASSUME sidePc["consumer"] = "front" PROVE FrontIsOldest
    BY DEF FrontIsOldest
  <2>1. Len(items) >= 1
    BY <1>1, Distances DEF SidesAgree
  <2>2. writeIdx_ # readIdx_
    BY <1>1, <2>1, Distances
  <2>3. items # <<>> /\ Head(items) = items[1]
    BY <2>1 DEF SpscTypeOK
  <2>4. 1 \in 1 .. ring_capacity /\ Place(1) = readIdx_
    BY <1>1, Places, Distances, RingSize DEF Slots
  <2>5. slots_[Place(1)] = items[1]
    BY <1>1, <2>1 DEF SlotsHoldItems, Place
  <2> QED
    BY <2>2, <2>3, <2>4, <2>5 DEF FrontIsOldest
<1>3. NoOverwrite
  <2> SUFFICES ASSUME sidePc["producer"] = "construct" PROVE NoOverwrite
    BY DEF NoOverwrite
  <2>1. Len(items) < ring_capacity - 1
    <3>1. /\ Distance(writeIdx_, readIdxCache_) >= Len(items)
          /\ NextIdx(writeIdx_) # readIdxCache_
      BY <1>1, Zenon DEF SidesAgree
    <3>2. /\ Distance(writeIdx_, readIdxCache_) \in 0 .. ring_capacity - 1
          /\ Distance(writeIdx_, readIdxCache_) # ring_capacity - 1
      BY <1>1, <3>1, Distances, Zenon
    <3> QED
      BY <1>1, <3>1, <3>2
  <2>2. slots_[writeIdx_] = Raw
    BY <1>1 DEF OutsideIsRaw
  <2> QED
    BY <2>1, <2>2 DEF NoOverwrite
<1>4. SizeIsSafe
  <2>1. ASSUME sidePc["consumer"] = "size"
        PROVE  SizeResult("consumer") >= sizing["consumer"][2] /\ SizeResult("consumer") <= Len(items)
    BY <1>1, <2>1 DEF SizesAgree, SizeResult
  <2>2. ASSUME sidePc["producer"] = "size"
        PROVE  SizeResult("producer") <= sizing["producer"][2] /\ SizeResult("producer") >= Len(items)
    BY <1>1, <2>2 DEF SizesAgree, SizeResult
  <2> QED
    BY <2>1, <2>2 DEF SizeIsSafe
<1> QED
  BY <1>2, <1>3, <1>4 DEF SpscQueueIntact

\* The constructor leaves an empty ring.
LEMMA SpscInitial ==
  ASSUME SpscAssumption, SpscInit
  PROVE  SpscInv
<1>1. items \in Seq(Values) /\ Len(items) = 0
  BY DEF SpscInit
<1>2. SpscTypeOK
  BY <1>1, RingSize DEF SpscInit, SpscTypeOK, Sides, SpscAssumption
<1>3. Distance(0, 0) = 0
  BY RingSize, Distances
<1>4. SidesAgree
  BY <1>1, <1>3 DEF SpscInit, SidesAgree, Sides
<1>5. SlotsHoldItems
  BY <1>1, <1>3, RingSize DEF SpscInit, SlotsHoldItems
<1>6. OutsideIsRaw /\ SizesAgree
  BY DEF SpscInit, OutsideIsRaw, SizesAgree, Sides
<1> QED
  BY <1>2, <1>4, <1>5, <1>6 DEF SpscInv

\* What every step starts from.
LEMMA SpscFacts ==
  ASSUME SpscAssumption, SpscInv
  PROVE  /\ Len(items) \in Nat /\ Len(items) = Distance(writeIdx_, readIdx_)
         /\ writeIdx_ \in Slots /\ readIdx_ \in Slots
         /\ readIdxCache_ \in Slots /\ writeIdxCache_ \in Slots
         /\ ring_capacity \in Nat /\ "producer" \in Sides /\ "consumer" \in Sides
         /\ "producer" # "consumer"
BY RingSize DEF SpscTypeOK, SlotsHoldItems, SpscInv, Sides

\* A step that touches neither the queue nor its slots, and leads to "publish"
\* or "advance" nobody who is not there.
LEMMA SpscFrame ==
  ASSUME SpscAssumption, SpscInv, UNCHANGED <<writeIdx_, readIdx_, slots_, items, pushes>>,
         SpscTypeOK', SidesAgree', SizesAgree',
         sidePc'["producer"] = "publish" <=> sidePc["producer"] = "publish",
         sidePc'["producer"] = "publish" => val' = val,
         sidePc'["consumer"] = "advance" <=> sidePc["consumer"] = "advance"
  PROVE  SpscInv'
<1>1. SlotsHoldItems'
  BY DEF SpscInv, SlotsHoldItems, ring_capacity, Distance
<1>2. OutsideIsRaw'
  BY DEF SpscInv, OutsideIsRaw, ring_capacity, Distance, Slots
<1> QED
  BY <1>1, <1>2 DEF SpscInv

\* emplace and try_emplace begin.
LEMMA EmplaceBeginStep ==
  ASSUME SpscAssumption, SpscInv, NEW v \in Values,
         NEW reload \in {"emplaceReload", "tryReload"}, EmplaceBegin(v, reload)
  PROVE  SpscInv'
<1> USE SpscFacts DEF EmplaceBegin, SideGoto
<1>1. SpscTypeOK'
  <2>1. /\ UNCHANGED <<writeIdx_, readIdx_, readIdxCache_, writeIdxCache_, slots_, items, pushes>>
        /\ val' \in Values
    OBVIOUS
  <2>2. /\ sidePc'["producer"] \in {"emplaceReload", "tryReload", "construct"}
        /\ sidePc'["consumer"] = sidePc["consumer"]
    BY DEF SpscInv, SidesAgree
  <2> HIDE DEF EmplaceBegin, SideGoto
  <2> QED
    BY <2>1, <2>2 DEF SpscInv, SpscTypeOK, Slots, ring_capacity
<1>2. SidesAgree'
  <2>1. /\ UNCHANGED <<writeIdx_, readIdx_, readIdxCache_, writeIdxCache_, sizing, items, pushes>>
        /\ val' \in Values /\ pushes < MaxPushes
    OBVIOUS
  <2>2. /\ sidePc' \in [Sides -> {"idle", "emplaceReload", "tryReload", "construct", "publish",
                             "frontReload", "front", "advance", "size"}]
        /\ sidePc'["consumer"] = sidePc["consumer"]
        /\ sidePc'["producer"] \in {"emplaceReload", "tryReload"}
           \/ (sidePc'["producer"] = "construct" /\ NextIdx(writeIdx_) # readIdxCache_)
    BY DEF SpscInv, SidesAgree
  <2> HIDE DEF EmplaceBegin, SideGoto
  <2>3. SidesAgree
    BY DEF SpscInv
  <2> QED
    BY <2>1, <2>2, <2>3 DEF SidesAgree, Slots, ring_capacity, NextIdx, Distance
<1>3. SizesAgree'
  BY DEF SpscInv, SizesAgree, SidesAgree, Slots, ring_capacity, Distance
<1>4. /\ sidePc'["producer"] = "publish" <=> sidePc["producer"] = "publish"
      /\ sidePc'["consumer"] = sidePc["consumer"]
  BY DEF SpscInv, SidesAgree
<1> QED
  BY <1>1, <1>2, <1>3, <1>4, SpscFrame

\* The producer refreshes its copy of readIdx_, which then tells the truth.
LEMMA ReloadReadIdxStep ==
  ASSUME SpscAssumption, SpscInv, ReloadReadIdx
  PROVE  SpscInv'
<1> USE SpscFacts DEF ReloadReadIdx, SideGoto
<1>1. SpscTypeOK'
  BY DEF SpscInv, SpscTypeOK, SidesAgree, Slots, ring_capacity
<1>2. SidesAgree'
  <2>1. sidePc' \in [Sides -> {"idle", "emplaceReload", "tryReload", "construct", "publish",
                          "frontReload", "front", "advance", "size"}]
    BY DEF SpscInv, SidesAgree
  <2>2. sidePc'["consumer"] = sidePc["consumer"] /\ SidesAgree
    BY DEF SpscInv, SidesAgree
  <2>3. /\ sidePc'["producer"] \in {"construct", "publish"} => NextIdx(writeIdx_) # readIdx_
        /\ sidePc'["producer"] \in {"emplaceReload", "tryReload", "construct", "publish"} =>
             val' \in Values /\ pushes < MaxPushes
    BY DEF SpscInv, SidesAgree
  <2>4. /\ writeIdx_' = writeIdx_ /\ readIdx_' = readIdx_ /\ writeIdxCache_' = writeIdxCache_
        /\ readIdxCache_' = readIdx_ /\ sizing' = sizing /\ items' = items /\ pushes' = pushes
        /\ Distance(writeIdx_, readIdx_) >= Len(items)
    OBVIOUS
  <2> HIDE DEF ReloadReadIdx, SideGoto
  <2> QED
    BY <2>1, <2>2, <2>3, <2>4, Zenon DEF SidesAgree, Slots, ring_capacity, NextIdx, Distance
<1>3. SizesAgree'
  BY DEF SpscInv, SizesAgree, SidesAgree, Slots, ring_capacity, Distance
<1>4. /\ sidePc'["producer"] = "publish" <=> sidePc["producer"] = "publish"
      /\ sidePc'["consumer"] = sidePc["consumer"]
  BY DEF SpscInv, SidesAgree
<1>5. sidePc'["producer"] # "publish"
  BY DEF SpscInv, SidesAgree
<1> QED
  BY <1>1, <1>2, <1>3, <1>4, <1>5, SpscFrame

\* front() consults the copy of writeIdx_.
LEMMA FrontStep ==
  ASSUME SpscAssumption, SpscInv, Front
  PROVE  SpscInv'
<1> USE SpscFacts DEF Front, SideGoto
<1>1. SpscTypeOK'
  BY DEF SpscInv, SpscTypeOK, SidesAgree, Slots, ring_capacity
<1>2. SidesAgree'
  BY DEF SpscInv, SidesAgree, Slots, ring_capacity, NextIdx, Distance
<1>3. SizesAgree'
  BY DEF SpscInv, SizesAgree, SidesAgree, Slots, ring_capacity, Distance
<1>4. /\ sidePc'["producer"] = "publish" <=> sidePc["producer"] = "publish"
      /\ sidePc'["consumer"] = "advance" <=> sidePc["consumer"] = "advance"
  BY DEF SpscInv, SidesAgree
<1> QED
  BY <1>1, <1>2, <1>3, <1>4, SpscFrame

\* The consumer refreshes its copy of writeIdx_, which then tells the truth.
LEMMA ReloadWriteIdxStep ==
  ASSUME SpscAssumption, SpscInv, ReloadWriteIdx
  PROVE  SpscInv'
<1> USE SpscFacts DEF ReloadWriteIdx, SideGoto
<1>1. SpscTypeOK'
  BY DEF SpscInv, SpscTypeOK, SidesAgree, Slots, ring_capacity
<1>2. SidesAgree'
  BY DEF SpscInv, SidesAgree, Slots, ring_capacity, NextIdx, Distance
<1>3. SizesAgree'
  BY DEF SpscInv, SizesAgree, SidesAgree, Slots, ring_capacity, Distance
<1>4. /\ sidePc'["producer"] = "publish" <=> sidePc["producer"] = "publish"
      /\ sidePc'["consumer"] = "advance" <=> sidePc["consumer"] = "advance"
  BY DEF SpscInv, SidesAgree
<1> QED
  BY <1>1, <1>2, <1>3, <1>4, SpscFrame

\* Either load of size().
LEMMA SizeStep ==
  ASSUME SpscAssumption, SpscInv, NEW s \in Sides, SizeLoadWriteIdx(s) \/ SizeLoadReadIdx(s)
  PROVE  SpscInv'
<1> USE SpscFacts DEF SizeLoadWriteIdx, SizeLoadReadIdx, SideGoto, Sides
<1>1. SpscTypeOK'
  <2>1. UNCHANGED <<writeIdx_, readIdx_, readIdxCache_, writeIdxCache_, slots_, val, items, pushes>>
    OBVIOUS
  <2>2. /\ sidePc'["producer"] \in {"idle", "size", sidePc["producer"]}
        /\ sidePc'["consumer"] \in {"idle", "size", sidePc["consumer"]}
    BY DEF SpscInv, SidesAgree
  <2> HIDE DEF SizeLoadWriteIdx, SizeLoadReadIdx, SideGoto
  <2> QED
    BY <2>1, <2>2 DEF SpscInv, SpscTypeOK, Slots, ring_capacity
<1>2. SidesAgree'
  <2>1. <<writeIdx_, Len(items)>> \in Slots \X Nat
    OBVIOUS
  <2>2. sizing' \in [Sides -> {<<>>} \cup (Slots \X Nat)]
    BY <2>1 DEF SpscInv, SidesAgree
  <2>3. sidePc' \in [Sides -> {"idle", "emplaceReload", "tryReload", "construct", "publish",
                          "frontReload", "front", "advance", "size"}]
    BY DEF SpscInv, SidesAgree
  <2>4. \A t \in Sides : sidePc'[t] # sidePc[t] => sidePc'[t] \in {"idle", "size"}
    BY DEF SpscInv, SidesAgree
  <2> QED
    BY <2>2, <2>3, <2>4 DEF SpscInv, SidesAgree, Slots, ring_capacity, NextIdx, Distance
<1>3. SizesAgree'
  <2>1. \A u \in Sides : sidePc'[u] = "size" =>
           \/ sidePc[u] = "size" /\ sizing'[u] = sizing[u]
           \/ sizing'[u] = <<writeIdx_, Len(items)>>
    BY DEF SpscInv, SidesAgree
  <2>2. SizesAgree /\ Len(items) = Distance(writeIdx_, readIdx_)
    BY DEF SpscInv
  <2>3. /\ writeIdx_' = writeIdx_ /\ readIdx_' = readIdx_ /\ items' = items
        /\ <<writeIdx_, Len(items)>> \in Slots \X Nat
    OBVIOUS
  <2>4. sidePc'["consumer"] = "size" =>
          /\ sizing'["consumer"] \in Slots \X Nat
          /\ Distance(sizing'["consumer"][1], readIdx_) = sizing'["consumer"][2]
          /\ sizing'["consumer"][2] <= Len(items)
    <3> HIDE DEF SizeLoadWriteIdx, SizeLoadReadIdx, SideGoto
    <3> QED BY <2>1, <2>2, <2>3 DEF SizesAgree
  <2>5. sidePc'["producer"] = "size" =>
          /\ sizing'["producer"] \in Slots \X Nat
          /\ sizing'["producer"][1] = writeIdx_
          /\ sizing'["producer"][2] >= Len(items)
    <3> HIDE DEF SizeLoadWriteIdx, SizeLoadReadIdx, SideGoto
    <3> QED BY <2>1, <2>2, <2>3 DEF SizesAgree
  <2> QED
    BY <2>3, <2>4, <2>5 DEF SizesAgree, Slots, ring_capacity, Distance
<1>4. /\ sidePc'["producer"] = "publish" <=> sidePc["producer"] = "publish"
      /\ sidePc'["consumer"] = "advance" <=> sidePc["consumer"] = "advance"
  BY DEF SpscInv, SidesAgree
<1> QED
  BY <1>1, <1>2, <1>3, <1>4, SpscFrame

\* The element is constructed outside the queue, where nothing was.
LEMMA ConstructStep ==
  ASSUME SpscAssumption, SpscInv, Construct
  PROVE  SpscInv'
<1> USE SpscFacts DEF Construct, SideGoto
<1>1. SpscTypeOK'
  BY DEF SpscInv, SpscTypeOK, SidesAgree, Slots, ring_capacity
<1>2. SidesAgree'
  BY DEF SpscInv, SidesAgree, Slots, ring_capacity, NextIdx, Distance
<1>3. SizesAgree'
  BY DEF SpscInv, SizesAgree, SidesAgree, Slots, ring_capacity, Distance
<1>4. \A i \in Slots : slots_'[i] = IF i = writeIdx_ THEN val ELSE slots_[i]
  BY DEF SpscInv, SpscTypeOK
<1>5. sidePc'["producer"] = "publish" /\ sidePc'["consumer"] = sidePc["consumer"]
  BY DEF SpscInv, SidesAgree
\* The slot is not one of the queue's.
<1>6. SlotsHoldItems'
  <2> SUFFICES ASSUME NEW k \in 1 .. Len(items)
               PROVE  slots_'[Place(k)] = items[k] \/ (k = 1 /\ sidePc'["consumer"] = "advance")
    BY DEF SpscInv, SlotsHoldItems, Place, ring_capacity, Distance
  <2>1. k \in 1 .. ring_capacity
    BY DEF SpscInv, SlotsHoldItems
  <2>2. Place(k) \in Slots /\ Place(k) # writeIdx_
    BY <2>1, Places
  <2> QED
    BY <1>4, <1>5, <2>2 DEF SpscInv, SlotsHoldItems, Place
<1>7. sidePc["consumer"] = "advance" => readIdx_ # writeIdx_
  BY Distances DEF SpscInv, SidesAgree
<1>8. OutsideIsRaw'
  BY <1>4, <1>5, <1>7 DEF SpscInv, OutsideIsRaw, Slots, ring_capacity, Distance
<1> QED
  BY <1>1, <1>2, <1>3, <1>6, <1>8 DEF SpscInv

\* pop destroys the first element and no other.
LEMMA PopDestroyStep ==
  ASSUME SpscAssumption, SpscInv, PopDestroy
  PROVE  SpscInv'
<1> USE SpscFacts DEF PopDestroy, SideGoto
<1>1. SpscTypeOK'
  BY DEF SpscInv, SpscTypeOK, SidesAgree, Slots, ring_capacity
<1>2. SidesAgree'
  BY DEF SpscInv, SidesAgree, Slots, ring_capacity, NextIdx, Distance
<1>3. SizesAgree'
  BY DEF SpscInv, SizesAgree, SidesAgree, Slots, ring_capacity, Distance
<1>4. \A i \in Slots : slots_'[i] = IF i = readIdx_ THEN Raw ELSE slots_[i]
  BY DEF SpscInv, SpscTypeOK
<1>5. sidePc'["consumer"] = "advance" /\ sidePc'["producer"] = sidePc["producer"]
  BY DEF SpscInv, SidesAgree
<1>6. SlotsHoldItems'
  <2> SUFFICES ASSUME NEW k \in 1 .. Len(items), k # 1
               PROVE  slots_'[Place(k)] = items[k]
    BY <1>5 DEF SpscInv, SlotsHoldItems, Place, ring_capacity, Distance
  <2>1. k \in 1 .. ring_capacity
    BY DEF SpscInv, SlotsHoldItems
  <2>2. Place(k) \in Slots /\ Place(k) # readIdx_
    BY <2>1, Places, Distances
  <2> QED
    BY <1>4, <2>2 DEF SpscInv, SlotsHoldItems, Place
<1>7. readIdx_ # writeIdx_
  BY Distances DEF SpscInv, SidesAgree
<1>8. OutsideIsRaw'
  <2>1. OutsideIsRaw /\ UNCHANGED <<writeIdx_, readIdx_, items, val>>
    BY DEF SpscInv
  <2> HIDE DEF PopDestroy, SideGoto
  <2> QED
    BY <2>1, <1>4, <1>5, <1>7 DEF OutsideIsRaw, Slots, ring_capacity, Distance
<1> QED
  BY <1>1, <1>2, <1>3, <1>6, <1>8 DEF SpscInv

\* The constructed element becomes the last of the queue.
LEMMA PublishStep ==
  ASSUME SpscAssumption, SpscInv, Publish
  PROVE  SpscInv'
<1> USE SpscFacts DEF Publish, SideGoto
<1>1. /\ val \in Values /\ pushes < MaxPushes
      /\ NextIdx(writeIdx_) # readIdxCache_ /\ slots_[writeIdx_] = val
  BY DEF SpscInv, SidesAgree, OutsideIsRaw
<1>2. /\ items' \in Seq(Values) /\ Len(items') = Len(items) + 1
      /\ \A k \in 1 .. Len(items) : items'[k] = items[k]
      /\ items'[Len(items) + 1] = val
  BY <1>1 DEF SpscInv, SpscTypeOK
\* By the producer's copy there was room, so there is.
<1>3. NextIdx(writeIdx_) # readIdx_ /\ Len(items) < ring_capacity - 1
  <2>1. /\ Distance(writeIdx_, readIdxCache_) \in 0 .. ring_capacity - 1
        /\ Distance(writeIdx_, readIdxCache_) # ring_capacity - 1
    BY <1>1, Distances
  <2>2. Len(items) < ring_capacity - 1
    <3>1. Len(items) <= Distance(writeIdx_, readIdxCache_) /\ Len(items) \in Nat
      BY DEF SpscInv, SidesAgree
    <3> QED
      BY <2>1, <3>1, RingSize
  <2>3. NextIdx(writeIdx_) = readIdx_ => Distance(writeIdx_, readIdx_) = ring_capacity - 1
    BY Distances
  <2> QED
    BY <2>2, <2>3, RingSize
<1>4. writeIdx_' \in Slots /\ Distance(writeIdx_', readIdx_) = Len(items) + 1
  <2>1. Distance(NextIdx(writeIdx_), readIdx_) = Distance(writeIdx_, readIdx_) + 1
    BY <1>3, Distances
  <2> QED
    BY <2>1, RingSize, Zenon
<1>5. SpscTypeOK'
  <2>1. /\ UNCHANGED <<readIdx_, readIdxCache_, writeIdxCache_, slots_>>
        /\ val' = Raw /\ pushes' = pushes + 1
    OBVIOUS
  <2>2. sidePc'["producer"] = "idle" /\ sidePc'["consumer"] = sidePc["consumer"]
    BY Zenon DEF SpscInv, SidesAgree
  <2>3. pushes' \in 0 .. MaxPushes
    BY <2>1, <1>1 DEF SpscInv, SpscTypeOK, SpscAssumption
  <2> HIDE DEF Publish, SideGoto
  <2> QED
    BY <2>1, <2>2, <2>3, <1>2, <1>4 DEF SpscInv, SpscTypeOK, Slots, ring_capacity
<1>6. SidesAgree'
  <2>1. Distance(writeIdx_', readIdxCache_) = Distance(writeIdx_, readIdxCache_) + 1
    BY <1>1, Distances
  <2>2. /\ Distance(writeIdx_', readIdxCache_) >= Len(items')
        /\ Distance(writeIdxCache_, readIdx_) <= Len(items')
    <3>1. /\ Distance(writeIdx_, readIdxCache_) \in Nat
          /\ Distance(writeIdxCache_, readIdx_) \in Nat
      BY Distances
    <3> QED
      BY <1>2, <2>1, <3>1 DEF SpscInv, SidesAgree
  <2>3. sidePc' \in [Sides -> {"idle", "emplaceReload", "tryReload", "construct", "publish",
                          "frontReload", "front", "advance", "size"}]
    BY DEF SpscInv, SidesAgree
  <2>4. sidePc'["consumer"] = sidePc["consumer"] /\ sidePc'["producer"] = "idle" /\ SidesAgree
    BY DEF SpscInv, SidesAgree
  <2>5. /\ readIdx_' = readIdx_ /\ readIdxCache_' = readIdxCache_
        /\ writeIdxCache_' = writeIdxCache_ /\ sizing' = sizing
    OBVIOUS
  <2> HIDE DEF Publish, SideGoto
  <2> QED
    BY <2>2, <2>3, <2>4, <2>5 DEF SidesAgree, Slots, ring_capacity, NextIdx, Distance
<1>7. sidePc'["producer"] = "idle" /\ sidePc'["consumer"] = sidePc["consumer"]
  BY Zenon DEF SpscInv, SidesAgree
<1>8. SizesAgree'
  <2>1. SizesAgree /\ UNCHANGED <<readIdx_, sizing>>
    BY DEF SpscInv
  <2> HIDE DEF Publish, SideGoto
  <2> QED
    BY <2>1, <1>2, <1>7 DEF SizesAgree, Slots, ring_capacity, Distance
<1>9. SlotsHoldItems'
  <2>1. Len(items') = Distance(writeIdx_', readIdx_') /\ Len(items') < ring_capacity
    BY <1>2, <1>3, <1>4
  <2>2. ASSUME NEW k \in 1 .. Len(items')
        PROVE  slots_[Place(k)] = items'[k] \/ (k = 1 /\ sidePc'["consumer"] = "advance")
    <3>1. CASE k = Len(items) + 1
      <4>1. k \in 1 .. ring_capacity /\ writeIdx_ = Place(k)
        BY <1>2, <1>3, <3>1, Places
      <4> QED
        BY <1>1, <1>2, <3>1, <4>1
    <3>2. CASE k \in 1 .. Len(items)
      BY <1>2, <1>7, <3>2 DEF SpscInv, SlotsHoldItems, Place
    <3> QED
      BY <1>2, <3>1, <3>2
  <2> QED
    BY <2>1, <2>2 DEF SlotsHoldItems, Place, ring_capacity, Distance
<1>10. OutsideIsRaw'
  <2>1. ASSUME NEW i \in Slots, Distance(i, readIdx_) >= Len(items')
        PROVE  slots_[i] = Raw
    <3>1. Distance(i, readIdx_) \in Nat
      BY Distances
    <3>2. Distance(i, readIdx_) >= Len(items) /\ Distance(i, readIdx_) # Len(items)
      BY <1>2, <2>1, <3>1
    <3>3. i # writeIdx_
      BY <3>2
    <3> QED
      BY <3>2, <3>3 DEF SpscInv, OutsideIsRaw
  <2> QED
    BY <1>7, <2>1 DEF SpscInv, OutsideIsRaw, Slots, ring_capacity, Distance
<1> QED
  BY <1>5, <1>6, <1>8, <1>9, <1>10 DEF SpscInv

\* The destroyed element leaves the queue, and the others move up one place.
LEMMA PopAdvanceStep ==
  ASSUME SpscAssumption, SpscInv, PopAdvance
  PROVE  SpscInv'
<1> USE SpscFacts DEF PopAdvance, SideGoto
<1>1. readIdx_ # writeIdxCache_ /\ Len(items) >= 1 /\ readIdx_ # writeIdx_ /\ slots_[readIdx_] = Raw
  <2>1. readIdx_ # writeIdxCache_ /\ slots_[readIdx_] = Raw
    BY DEF SpscInv, SidesAgree, OutsideIsRaw
  <2>2. Distance(writeIdxCache_, readIdx_) \in Nat /\ Distance(writeIdxCache_, readIdx_) # 0
    BY <2>1, Distances
  <2>3. Len(items) >= 1
    BY <2>2 DEF SpscInv, SidesAgree
  <2>4. readIdx_ = writeIdx_ => Distance(writeIdx_, readIdx_) = 0
    BY Distances
  <2> QED
    BY <2>1, <2>3, <2>4
<1>2. /\ items' \in Seq(Values) /\ Len(items') = Len(items) - 1
      /\ \A k \in 1 .. Len(items') : items'[k] = items[k + 1]
  BY <1>1 DEF SpscInv, SpscTypeOK
<1>3. readIdx_' \in Slots /\ Distance(writeIdx_, readIdx_') = Len(items) - 1
  <2>1. Distance(writeIdx_, NextIdx(readIdx_)) = Distance(writeIdx_, readIdx_) - 1
    BY <1>1, Distances
  <2> QED
    BY <2>1, RingSize, Zenon
<1>4. SpscTypeOK'
  <2>1. UNCHANGED <<writeIdx_, readIdxCache_, writeIdxCache_, slots_, val, pushes>>
    OBVIOUS
  <2>2. sidePc'["consumer"] = "idle" /\ sidePc'["producer"] = sidePc["producer"]
    BY Zenon DEF SpscInv, SidesAgree
  <2> HIDE DEF PopAdvance, SideGoto
  <2> QED
    BY <2>1, <2>2, <1>2, <1>3 DEF SpscInv, SpscTypeOK, Slots, ring_capacity
<1>5. SidesAgree'
  <2>1. Distance(writeIdxCache_, readIdx_') = Distance(writeIdxCache_, readIdx_) - 1
    BY <1>1, Distances
  <2>2. /\ Distance(writeIdx_, readIdxCache_) >= Len(items')
        /\ Distance(writeIdxCache_, readIdx_') <= Len(items')
    <3>1. /\ Distance(writeIdx_, readIdxCache_) \in Nat
          /\ Distance(writeIdxCache_, readIdx_) \in Nat
      BY Distances
    <3> QED
      BY <1>2, <2>1, <3>1 DEF SpscInv, SidesAgree
  <2>3. sidePc' \in [Sides -> {"idle", "emplaceReload", "tryReload", "construct", "publish",
                          "frontReload", "front", "advance", "size"}]
    BY DEF SpscInv, SidesAgree
  <2>4. sidePc'["producer"] = sidePc["producer"] /\ sidePc'["consumer"] = "idle" /\ SidesAgree
    BY DEF SpscInv, SidesAgree
  <2>5. UNCHANGED <<writeIdx_, readIdxCache_, writeIdxCache_, val, sizing, pushes>>
    OBVIOUS
  <2> HIDE DEF PopAdvance, SideGoto
  <2> QED
    BY <2>2, <2>3, <2>4, <2>5 DEF SidesAgree, Slots, ring_capacity, NextIdx, Distance
<1>6. sidePc'["consumer"] = "idle" /\ sidePc'["producer"] = sidePc["producer"]
  BY Zenon DEF SpscInv, SidesAgree
<1>7. SizesAgree'
  <2>1. SizesAgree /\ UNCHANGED <<writeIdx_, sizing>>
    BY DEF SpscInv
  <2> HIDE DEF PopAdvance, SideGoto
  <2> QED
    BY <2>1, <1>2, <1>6 DEF SizesAgree, Slots, ring_capacity, Distance
<1>8. SlotsHoldItems'
  <2>1. Len(items') = Distance(writeIdx_', readIdx_') /\ Len(items') < ring_capacity - 1
    BY <1>2, <1>3 DEF SpscInv, SlotsHoldItems
  <2>2. ASSUME NEW k \in 1 .. Len(items')
        PROVE  slots_[Place(k)'] = items'[k]
    <3>1. Place(k)' = Place(k + 1)
      BY <1>2, <2>1, PlacesMove
    <3>2. k + 1 \in 1 .. Len(items) /\ k + 1 # 1
      BY <1>2
    <3>3. slots_[Place(k + 1)] = items[k + 1]
      BY <3>2 DEF SpscInv, SlotsHoldItems, Place
    <3> QED
      BY <1>2, <3>1, <3>3
  <2> QED
    BY <2>1, <2>2 DEF SlotsHoldItems, Place, ring_capacity, Distance
<1>9. OutsideIsRaw'
  <2>1. ASSUME NEW i \in Slots, Distance(i, readIdx_') >= Len(items')
        PROVE  slots_[i] = Raw \/ (i = writeIdx_ /\ sidePc["producer"] = "publish")
    <3>1. CASE i = readIdx_
      BY <1>1, <3>1
    <3>2. CASE i # readIdx_
      <4>1. Distance(i, readIdx_) >= Len(items)
        <5>1. Distance(i, NextIdx(readIdx_)) = Distance(i, readIdx_) - 1
          BY <3>2, Distances
        <5>2. Distance(i, readIdx_) \in Nat
          BY Distances
        <5> QED
          BY <1>2, <2>1, <5>1, <5>2
      <4> QED
        BY <4>1 DEF SpscInv, OutsideIsRaw
    <3> QED
      BY <3>1, <3>2
  <2> QED
    BY <1>6, <2>1 DEF SpscInv, OutsideIsRaw, Slots, ring_capacity, Distance
<1> QED
  BY <1>4, <1>5, <1>7, <1>8, <1>9 DEF SpscInv

\* Every step keeps the invariant.
LEMMA SpscStep ==
  ASSUME SpscAssumption, SpscInv, [SpscNext]_spscVars
  PROVE  SpscInv'
<1>1. CASE UNCHANGED spscVars
  <2>1. SpscTypeOK'
    BY <1>1 DEF spscVars, SpscInv, SpscTypeOK, Slots, ring_capacity
  <2>2. SidesAgree'
    BY <1>1 DEF spscVars, SpscInv, SidesAgree, Slots, ring_capacity, NextIdx, Distance
  <2>3. SizesAgree'
    BY <1>1 DEF spscVars, SpscInv, SizesAgree, Slots, ring_capacity, Distance
  <2> QED
    BY <1>1, <2>1, <2>2, <2>3, SpscFrame DEF spscVars
<1>2. CASE \E v \in Values, reload \in {"emplaceReload", "tryReload"} : EmplaceBegin(v, reload)
  BY <1>2, EmplaceBeginStep
<1>3. CASE Front
  BY <1>3, FrontStep
<1>4. CASE \E s \in Sides : SizeLoadWriteIdx(s)
  BY <1>4, SizeStep
<1>5. CASE ProducerStep
  BY <1>5, ReloadReadIdxStep, ConstructStep, PublishStep, SizeStep DEF ProducerStep, Sides
<1>6. CASE ConsumerStep
  BY <1>6, ReloadWriteIdxStep, PopDestroyStep, PopAdvanceStep, SizeStep DEF ConsumerStep, Sides
<1> QED
  BY <1>1, <1>2, <1>3, <1>4, <1>5, <1>6, Zenon DEF SpscNext

\* The ring is a queue whatever its size: with one producer and one consumer,
\* front() is the oldest element, emplace overwrites nothing and size() can be
\* relied on, although each side decides from a copy of the other's index.
THEOREM SpscRingIsAQueue ==
  ASSUME SpscAssumption
  PROVE  SpscSpec => []SpscQueueIntact
<1>1. SpscInit => SpscInv
  BY SpscInitial
<1>2. SpscInv /\ [SpscNext]_spscVars => SpscInv'
  BY SpscStep
<1>3. SpscInv => SpscQueueIntact
  BY SpscInvImplies
<1> QED
  BY <1>1, <1>2, <1>3, PTL DEF SpscSpec

-----------------------------------------------------------------------------
(* CASRWLock, for any finite set of threads.                               *)

INSTANCE FiniteSetTheorems

(* There are fewer readers than WLOCK (CasAssumption).                     *)
LEMMA ReadersFewer ==
  IsFiniteSet(Readers) /\ Cardinality(Readers) \in Nat /\ Cardinality(Readers) < WLOCK
  <1>1. Readers \in SUBSET Threads
    BY DEF Readers
  <1>2. IsFiniteSet(Readers) /\ Cardinality(Readers) <= Cardinality(Threads)
    BY <1>1, FS_Subset, CasAssumption
  <1>3. Cardinality(Readers) \in Nat /\ Cardinality(Threads) \in Nat
    BY <1>2, FS_CardinalityType, CasAssumption
  <1> QED
    BY <1>2, <1>3, CasAssumption

(* A step that acquires and releases nothing keeps IInv, if it keeps the   *)
(* facts about the control point of its thread.                            *)
LEMMA QuietStep ==
  ASSUME IInv, NEW t \in Threads, NEW l, NEW o \in 0 .. WLOCK,
         l \in {"idle", "rlock", "rlockCas", "wlock", "wlockCas", "inside",
                "unlock", "unlockStore", "unlockReload", "unlockCas"},
         l = "unlockStore" => holds[t] = "write",
         l \in {"unlockReload", "unlockCas"} => holds[t] = "read",
         holds[t] = "nothing" <=> l \in {"idle", "rlock", "rlockCas", "wlock", "wlockCas"},
         l = "rlockCas" => o # WLOCK,
         pc' = [pc EXCEPT ![t] = l],
         old_readers' = [old_readers EXCEPT ![t] = o],
         UNCHANGED <<lock, holds>>
  PROVE  IInv'
  <1>1. /\ pc'[t] = l /\ old_readers'[t] = o
        /\ \A u \in Threads : u # t => pc'[u] = pc[u] /\ old_readers'[u] = old_readers[u]
    BY DEF IInv, TypeOK
  <1>2. TypeOK'
    BY DEF IInv, TypeOK
  <1>3. Readers' = Readers /\ Writers' = Writers
    BY DEF Readers, Writers
  <1>4. Exclusion' /\ WordIsCount'
    BY <1>3 DEF IInv, Exclusion, WordIsCount
  <1>5. UnlockKnowsItsCaller'
    BY <1>1 DEF IInv, UnlockKnowsItsCaller
  <1> QED
    BY <1>1, <1>2, <1>4, <1>5 DEF IInv

(* The free lock satisfies IInv.                                           *)
LEMMA InitInv == Init => IInv
  <1> SUFFICES ASSUME Init PROVE IInv
    OBVIOUS
  <1>1. Readers = {} /\ Writers = {}
    BY DEF Init, Readers, Writers
  <1>2. TypeOK
    BY CasAssumption DEF Init, TypeOK
  <1> QED
    BY <1>1, <1>2, FS_EmptySet
       DEF Init, IInv, Exclusion, WordIsCount, UnlockKnowsItsCaller

(* Every access to the word keeps IInv.                                    *)
LEMMA StepInv == IInv /\ [Next]_vars => IInv'
  <1> SUFFICES ASSUME IInv, [Next]_vars PROVE IInv'
    OBVIOUS
  <1>1. TypeOK /\ lock \in 0 .. WLOCK /\ WLOCK \in Nat
    BY CasAssumption DEF IInv, TypeOK
  <1>2. \A t \in Threads : /\ old_readers[t] \in 0 .. WLOCK
                           /\ old_readers = [old_readers EXCEPT ![t] = old_readers[t]]
    BY <1>1 DEF TypeOK
  <1>3. \A t \in Threads :
          holds[t] = "nothing" <=> pc[t] \in {"idle", "rlock", "rlockCas", "wlock", "wlockCas"}
    BY DEF IInv
  <1>4. Readers # {} => Writers = {} /\ lock # WLOCK
    BY <1>1, ReadersFewer DEF IInv, Exclusion, WordIsCount
  <1>5. ASSUME NEW t \in Threads, Call(t)
        PROVE  IInv'
    <2>1. \A l \in {"rlock", "wlock"} : pc[t] = "idle" /\ Goto(t, l) => IInv'
      BY <1>2, <1>3, <1>5, QuietStep, Zenon DEF Call, Goto
    <2>2. pc[t] = "inside" /\ Goto(t, "unlock") => IInv'
      BY <1>2, <1>3, <1>5, QuietStep, Zenon DEF Call, Goto
    <2> QED
      BY <1>5, <2>1, <2>2 DEF Call
  <1>6. ASSUME NEW t \in Threads, RlockLoad(t)
        PROVE  IInv'
    BY <1>1, <1>3, <1>6, QuietStep, Zenon DEF RlockLoad, Goto, Load
  <1>7. ASSUME NEW t \in Threads, RlockCas(t)
        PROVE  IInv'
    <2>1. CASE lock # old_readers[t]
      BY <1>2, <1>3, <1>7, <2>1, QuietStep, Zenon DEF RlockCas, Goto
    <2>2. CASE lock = old_readers[t]
      <3>1. /\ lock # WLOCK /\ lock' = lock + 1
            /\ pc[t] = "rlockCas" /\ pc' = [pc EXCEPT ![t] = "inside"]
            /\ holds' = [holds EXCEPT ![t] = "read"] /\ UNCHANGED old_readers
        BY <1>7, <2>2 DEF RlockCas, Goto, Become, IInv
      <3>2. Writers = {} /\ lock = Cardinality(Readers)
        BY <3>1 DEF IInv, WordIsCount
      <3>3. TypeOK'
        BY <1>1, <3>1 DEF TypeOK
      <3>4. holds[t] = "nothing"
        BY <1>3, <3>1
      <3>5. Readers' = Readers \cup {t} /\ Writers' = {} /\ t \notin Readers
        BY <1>1, <3>1, <3>2, <3>4 DEF Readers, Writers, TypeOK
      <3>6. Cardinality(Readers') = lock'
        <4>1. Cardinality(Readers \cup {t}) = Cardinality(Readers) + 1
          BY <3>5, ReadersFewer, FS_AddElement, Zenon
        <4> QED
          BY <3>1, <3>2, <3>5, <4>1
      <3>7. Exclusion' /\ WordIsCount'
        BY <3>5, <3>6 DEF Exclusion, WordIsCount
      <3>8. /\ pc'[t] = "inside" /\ holds'[t] = "read"
            /\ \A u \in Threads : u # t =>
                 pc'[u] = pc[u] /\ holds'[u] = holds[u] /\ old_readers'[u] = old_readers[u]
        BY <1>1, <3>1 DEF TypeOK
      <3>9. UnlockKnowsItsCaller'
        BY <3>8 DEF IInv, UnlockKnowsItsCaller
      <3> QED
        BY <3>3, <3>7, <3>8, <3>9 DEF IInv
    <2> QED
      BY <2>1, <2>2
  <1>8. ASSUME NEW t \in Threads, WlockLoad(t)
        PROVE  IInv'
    BY <1>2, <1>3, <1>8, QuietStep, Zenon DEF WlockLoad, Goto
  <1>9. ASSUME NEW t \in Threads, WlockCas(t)
        PROVE  IInv'
    <2>1. CASE lock # 0
      BY <1>2, <1>3, <1>9, <2>1, QuietStep, Zenon DEF WlockCas, Goto
    <2>2. CASE lock = 0
      <3>1. /\ lock' = WLOCK
            /\ pc[t] = "wlockCas" /\ pc' = [pc EXCEPT ![t] = "inside"]
            /\ holds' = [holds EXCEPT ![t] = "write"] /\ UNCHANGED old_readers
        BY <1>9, <2>2 DEF WlockCas, Goto, Become
      <3>2. WLOCK # 0
        BY CasAssumption, FS_CardinalityType
      <3>3. Writers = {} /\ Readers = {}
        BY <2>2, <3>2, ReadersFewer, FS_EmptySet DEF IInv, WordIsCount
      <3>4. TypeOK'
        BY <1>1, <3>1 DEF TypeOK
      <3>5. Readers' = {} /\ Writers' = {t}
        BY <1>1, <3>1, <3>3 DEF Readers, Writers, TypeOK
      <3>6. Exclusion' /\ WordIsCount'
        BY <3>1, <3>5 DEF Exclusion, WordIsCount
      <3>7. /\ pc'[t] = "inside" /\ holds'[t] = "write"
            /\ \A u \in Threads : u # t =>
                 pc'[u] = pc[u] /\ holds'[u] = holds[u] /\ old_readers'[u] = old_readers[u]
        BY <1>1, <3>1 DEF TypeOK
      <3>8. UnlockKnowsItsCaller'
        BY <3>7 DEF IInv, UnlockKnowsItsCaller
      <3> QED
        BY <3>4, <3>6, <3>7, <3>8 DEF IInv
    <2> QED
      BY <2>1, <2>2
  <1>10. ASSUME NEW t \in Threads, UnlockLoad(t)
         PROVE  IInv'
    <2>1. /\ pc[t] = "unlock" /\ holds[t] # "nothing"
          /\ pc' = [pc EXCEPT ![t] = IF lock = WLOCK THEN "unlockStore" ELSE "unlockReload"]
          /\ old_readers' = [old_readers EXCEPT ![t] = lock]
          /\ UNCHANGED <<lock, holds>>
      BY <1>3, <1>10 DEF UnlockLoad, Goto, Load
    <2>2. CASE lock = WLOCK
      <3>1. holds[t] = "write"
        BY <1>1, <1>4, <2>1, <2>2 DEF Readers, TypeOK
      <3> QED
        BY <1>1, <2>1, <2>2, <3>1, QuietStep, Zenon
    <2>3. CASE lock # WLOCK
      <3>1. holds[t] = "read"
        BY <1>1, <2>1, <2>3, Zenon DEF IInv, WordIsCount, Writers, TypeOK
      <3> QED
        BY <1>1, <2>1, <2>3, <3>1, QuietStep, Zenon
    <2> QED
      BY <2>2, <2>3
  <1>11. ASSUME NEW t \in Threads, UnlockStore(t)
         PROVE  IInv'
    <2>1. /\ lock' = 0
          /\ pc[t] = "unlockStore" /\ pc' = [pc EXCEPT ![t] = "idle"]
          /\ holds' = [holds EXCEPT ![t] = "nothing"] /\ UNCHANGED old_readers
      BY <1>11 DEF UnlockStore, Goto, Become
    <2>2. Writers = {t} /\ Readers = {}
      BY <2>1 DEF IInv, UnlockKnowsItsCaller, Exclusion, Writers
    <2>3. Writers' = {} /\ Readers' = {}
      BY <1>1, <2>1, <2>2 DEF Readers, Writers, TypeOK
    <2>4. TypeOK'
      BY <1>1, <2>1 DEF TypeOK
    <2>5. Exclusion' /\ WordIsCount'
      BY <2>1, <2>3, FS_EmptySet DEF Exclusion, WordIsCount
    <2>6. /\ pc'[t] = "idle" /\ holds'[t] = "nothing"
          /\ \A u \in Threads : u # t =>
               pc'[u] = pc[u] /\ holds'[u] = holds[u] /\ old_readers'[u] = old_readers[u]
      BY <1>1, <2>1 DEF TypeOK
    <2>7. UnlockKnowsItsCaller'
      BY <2>6 DEF IInv, UnlockKnowsItsCaller
    <2> QED
      BY <2>4, <2>5, <2>6, <2>7 DEF IInv
  <1>12. ASSUME NEW t \in Threads, UnlockReload(t)
         PROVE  IInv'
    <2>1. /\ pc[t] = "unlockReload" /\ holds[t] = "read"
          /\ pc' = [pc EXCEPT ![t] = "unlockCas"]
          /\ old_readers' = [old_readers EXCEPT ![t] = lock]
          /\ UNCHANGED <<lock, holds>>
      BY <1>12 DEF UnlockReload, Goto, Load, IInv, UnlockKnowsItsCaller
    <2> QED
      BY <1>1, <2>1, QuietStep, Zenon
  <1>13. ASSUME NEW t \in Threads, UnlockCas(t)
         PROVE  IInv'
    <2>1. pc[t] = "unlockCas" /\ holds[t] = "read"
      BY <1>13 DEF UnlockCas, IInv, UnlockKnowsItsCaller
    <2>2. CASE lock # old_readers[t]
      BY <1>2, <1>13, <2>1, <2>2, QuietStep, Zenon DEF UnlockCas, Goto
    <2>3. CASE lock = old_readers[t]
      <3>1. /\ lock' = lock - 1
            /\ pc' = [pc EXCEPT ![t] = "idle"]
            /\ holds' = [holds EXCEPT ![t] = "nothing"] /\ UNCHANGED old_readers
        BY <1>13, <2>3 DEF UnlockCas, Goto, Become
      <3>2. t \in Readers /\ Writers = {} /\ lock = Cardinality(Readers)
        BY <1>4, <2>1 DEF IInv, WordIsCount, Readers
      <3>3. Readers' = Readers \ {t} /\ Writers' = {}
        BY <1>1, <3>1, <3>2 DEF Readers, Writers, TypeOK
      <3>4. Cardinality(Readers') = lock'
        BY <3>1, <3>2, <3>3, ReadersFewer, FS_RemoveElement
      <3>5. lock # 0
        BY <3>2, ReadersFewer, FS_EmptySet
      <3>6. TypeOK'
        BY <1>1, <3>1, <3>5 DEF TypeOK
      <3>7. Exclusion' /\ WordIsCount'
        BY <3>3, <3>4 DEF Exclusion, WordIsCount
      <3>8. /\ pc'[t] = "idle" /\ holds'[t] = "nothing"
            /\ \A u \in Threads : u # t =>
                 pc'[u] = pc[u] /\ holds'[u] = holds[u] /\ old_readers'[u] = old_readers[u]
        BY <1>1, <3>1, Zenon DEF TypeOK
      <3>9. UnlockKnowsItsCaller'
        BY <3>8 DEF IInv, UnlockKnowsItsCaller
      <3> QED
        BY <3>6, <3>7, <3>8, <3>9 DEF IInv
    <2> QED
      BY <2>2, <2>3
  <1>14. CASE UNCHANGED vars
    BY <1>14 DEF vars, IInv, TypeOK, Exclusion, WordIsCount, UnlockKnowsItsCaller, Readers, Writers
  <1> QED
    BY <1>5, <1>6, <1>7, <1>8, <1>9, <1>10, <1>11, <1>12, <1>13, <1>14
       DEF Next, Acquire, Unlock

(* IInv holds in every reachable state of the lock.                        *)
THEOREM InvariantHolds == Spec => []IInv
  BY InitInv, StepInv, PTL DEF Spec

(* A writer is alone in the lock, for any number of threads below WLOCK.   *)
THEOREM MutualExclusion == Spec => []Exclusion
  <1>1. IInv => Exclusion
    BY DEF IInv
  <1> QED
    BY <1>1, InvariantHolds, PTL

(* The word counts the readers or marks the writer.                        *)
THEOREM WordTellsTheTruth == Spec => []WordIsCount
  <1>1. IInv => WordIsCount
    BY DEF IInv
  <1> QED
    BY <1>1, InvariantHolds, PTL

(* Unlock tells readers from writers by the word alone, and never wrongly. *)
THEOREM UnlockIsRight == Spec => []UnlockKnowsItsCaller
  <1>1. IInv => UnlockKnowsItsCaller
    BY DEF IInv
  <1> QED
    BY <1>1, InvariantHolds, PTL
=============================================================================
