------------------------------ MODULE SPSCRing ------------------------------
(***************************************************************************)
(* SPSCRing of cpp-util/lockfreeQueue.h: a bounded queue for one producer  *)
(* and one consumer.  Each side owns one index and keeps a private copy of *)
(* the other's, which it refreshes only when the copy says "full" or       *)
(* "empty".  One slot stays free to tell full from empty.                  *)
(*                                                                         *)
(* One action is one access to the other side's index or to a slot.        *)
(***************************************************************************)
EXTENDS Integers, Sequences

CONSTANTS
  Values,     \* the elements
  Raw,        \* slot storage that holds no object
  requested,  \* the constructor's argument
  MaxPushes   \* bound: elements pushed in a behaviour

Sides == {"producer", "consumer"}

VARIABLES
  writeIdx_, readIdx_,            \* shared indices
  readIdxCache_, writeIdxCache_,  \* the producer's and the consumer's copies
  slots_,
  sidePc, val,                        \* control point of each side, producer's element
  sizing,                         \* size() in progress: the index loaded first
  items,                          \* history: elements published and not popped
  pushes                          \* history: elements published so far

spscVars == <<writeIdx_, readIdx_, readIdxCache_, writeIdxCache_, slots_,
          sidePc, val, sizing, items, pushes>>

-----------------------------------------------------------------------------

\* The constructor rounds a request of 0 up to 1 and adds the free slot.
ring_capacity == (IF requested < 1 THEN 1 ELSE requested) + 1
Slots == 0 .. ring_capacity - 1

NextIdx(i) == IF i + 1 = ring_capacity THEN 0 ELSE i + 1

SideGoto(s, l) == sidePc' = [sidePc EXCEPT ![s] = l]

SpscInit ==
  /\ writeIdx_ = 0 /\ readIdx_ = 0
  /\ readIdxCache_ = 0 /\ writeIdxCache_ = 0
  /\ slots_ = [i \in Slots |-> Raw]
  /\ sidePc = [s \in Sides |-> "idle"]
  /\ val = Raw
  /\ sizing = [s \in Sides |-> <<>>]
  /\ items = <<>>
  /\ pushes = 0

\* emplace or try_emplace begins and consults the cached read index.
EmplaceBegin(v, reload) ==
  /\ sidePc["producer"] = "idle"
  /\ pushes < MaxPushes
  /\ val' = v
  /\ SideGoto("producer", IF NextIdx(writeIdx_) = readIdxCache_ THEN reload ELSE "construct")
  /\ UNCHANGED <<writeIdx_, readIdx_, readIdxCache_, writeIdxCache_, slots_, sizing, items, pushes>>

BugReloadReadIdx ==
  /\ sidePc["producer"] \in {"emplaceReload", "tryReload"}
  /\ readIdxCache_' = readIdx_
  /\ SideGoto("producer", "construct")
  /\ UNCHANGED <<writeIdx_, readIdx_, writeIdxCache_, slots_, val, sizing, items, pushes>>

\* The loop compares the cached copy without loading readIdx_ again.
BugStaleReload ==
  /\ sidePc["producer"] \in {"emplaceReload", "tryReload"}
  /\ NextIdx(writeIdx_) # readIdxCache_
  /\ SideGoto("producer", "construct")
  /\ UNCHANGED <<writeIdx_, readIdx_, readIdxCache_, writeIdxCache_, slots_, val, sizing, items, pushes>>

\* The cached index said "full": load readIdx_; emplace repeats this until
\* there is room, try_emplace gives up.
ReloadReadIdx ==
  /\ sidePc["producer"] \in {"emplaceReload", "tryReload"}
  /\ readIdxCache_' = readIdx_
  /\ \/ /\ NextIdx(writeIdx_) # readIdx_
        /\ SideGoto("producer", "construct")
        /\ UNCHANGED val
     \/ /\ NextIdx(writeIdx_) = readIdx_
        /\ sidePc["producer"] = "tryReload"
        /\ SideGoto("producer", "idle")
        /\ val' = Raw
     \/ /\ NextIdx(writeIdx_) = readIdx_
        /\ sidePc["producer"] = "emplaceReload"
        /\ UNCHANGED <<sidePc, val>>
  /\ UNCHANGED <<writeIdx_, readIdx_, writeIdxCache_, slots_, sizing, items, pushes>>

\* Placement new in the slot at writeIdx.
Construct ==
  /\ sidePc["producer"] = "construct"
  /\ slots_' = [slots_ EXCEPT ![writeIdx_] = val]
  /\ SideGoto("producer", "publish")
  /\ UNCHANGED <<writeIdx_, readIdx_, readIdxCache_, writeIdxCache_, val, sizing, items, pushes>>

\* writeIdx_.store(nextWriteIdx, release).
Publish ==
  /\ sidePc["producer"] = "publish"
  /\ writeIdx_' = NextIdx(writeIdx_)
  /\ items' = Append(items, val)
  /\ pushes' = pushes + 1
  /\ val' = Raw
  /\ SideGoto("producer", "idle")
  /\ UNCHANGED <<readIdx_, readIdxCache_, writeIdxCache_, slots_, sizing>>

\* front: a pointer to the slot at readIdx, unless the cached write index
\* says "empty".
Front ==
  /\ sidePc["consumer"] = "idle"
  /\ SideGoto("consumer", IF readIdx_ = writeIdxCache_ THEN "frontReload" ELSE "front")
  /\ UNCHANGED <<writeIdx_, readIdx_, readIdxCache_, writeIdxCache_, slots_, val, sizing, items, pushes>>

\* The cached index said "empty": load writeIdx_; nullptr if it agrees.
ReloadWriteIdx ==
  /\ sidePc["consumer"] = "frontReload"
  /\ writeIdxCache_' = writeIdx_
  /\ SideGoto("consumer", IF writeIdx_ = readIdx_ THEN "idle" ELSE "front")
  /\ UNCHANGED <<writeIdx_, readIdx_, readIdxCache_, slots_, val, sizing, items, pushes>>

\* pop, called on a front that is not null: destroy the element ...
PopDestroy ==
  /\ sidePc["consumer"] = "front"
  /\ slots_' = [slots_ EXCEPT ![readIdx_] = Raw]
  /\ SideGoto("consumer", "advance")
  /\ UNCHANGED <<writeIdx_, readIdx_, readIdxCache_, writeIdxCache_, val, sizing, items, pushes>>

\* ... and readIdx_.store(nextReadIdx, release).
PopAdvance ==
  /\ sidePc["consumer"] = "advance"
  /\ readIdx_' = NextIdx(readIdx_)
  /\ items' = Tail(items)
  /\ SideGoto("consumer", "idle")
  /\ UNCHANGED <<writeIdx_, readIdxCache_, writeIdxCache_, slots_, val, sizing, pushes>>

-----------------------------------------------------------------------------
(* size() and empty() load the two indices one after the other.            *)

Distance(w, r) == IF w - r < 0 THEN w - r + ring_capacity ELSE w - r

\* The first load, of writeIdx_, by either side between two of its calls.
SizeLoadWriteIdx(s) ==
  /\ sidePc[s] = "idle"
  /\ sizing[s] = <<>>
  /\ sizing' = [sizing EXCEPT ![s] = <<writeIdx_, Len(items)>>]
  /\ SideGoto(s, "size")
  /\ UNCHANGED <<writeIdx_, readIdx_, readIdxCache_, writeIdxCache_, slots_, val, items, pushes>>

\* The second load, of readIdx_: size() returns.
SizeLoadReadIdx(s) ==
  /\ sidePc[s] = "size"
  /\ sizing' = [sizing EXCEPT ![s] = <<>>]
  /\ SideGoto(s, "idle")
  /\ UNCHANGED <<writeIdx_, readIdx_, readIdxCache_, writeIdxCache_, slots_, val, items, pushes>>

SizeResult(s) == Distance(sizing[s][1], readIdx_)

-----------------------------------------------------------------------------

ProducerStep ==
  \/ ReloadReadIdx
  \/ Construct
  \/ Publish
  \/ SizeLoadReadIdx("producer")

ConsumerStep ==
  \/ ReloadWriteIdx
  \/ PopDestroy
  \/ PopAdvance
  \/ SizeLoadReadIdx("consumer")

SpscNext ==
  \/ \E v \in Values, reload \in {"emplaceReload", "tryReload"} : EmplaceBegin(v, reload)
  \/ Front
  \/ \E s \in Sides : SizeLoadWriteIdx(s)
  \/ ProducerStep
  \/ ConsumerStep

SpscSpec == SpscInit /\ [][SpscNext]_spscVars

(* A thread inside a call keeps running, and the consumer comes back to    *)
(* front() again and again whatever else it calls.                         *)
SpscFairSpec ==
  /\ SpscSpec
  /\ WF_spscVars(ProducerStep)
  /\ WF_spscVars(ConsumerStep)
  /\ SF_spscVars(Front)

-----------------------------------------------------------------------------
(* Properties.                                                             *)

SpscTypeOK ==
  /\ {writeIdx_, readIdx_, readIdxCache_, writeIdxCache_} \subseteq Slots
  /\ slots_ \in [Slots -> Values \cup {Raw}]
  /\ sidePc["producer"] \in {"idle", "emplaceReload", "tryReload", "construct", "publish", "size"}
  /\ sidePc["consumer"] \in {"idle", "frontReload", "front", "advance", "size"}
  /\ val \in Values \cup {Raw}
  /\ items \in Seq(Values)
  /\ pushes \in 0 .. MaxPushes

\* What front() points to is the oldest element of the queue; so pop's
\* assertion that the queue is not empty holds as well.
FrontIsOldest ==
  sidePc["consumer"] = "front" =>
    /\ writeIdx_ # readIdx_
    /\ items # <<>>
    /\ slots_[readIdx_] = Head(items)

\* emplace constructs only in a slot without an object and only when there
\* is room for one more.
NoOverwrite ==
  sidePc["producer"] = "construct" => slots_[writeIdx_] = Raw /\ Len(items) < ring_capacity - 1

\* The slots from readIdx_ up to writeIdx_ hold the queue, in order.
SlotsHoldItems ==
  /\ Len(items) = Distance(writeIdx_, readIdx_)
  /\ Len(items) < ring_capacity
  /\ \A k \in 1 .. Len(items) :
       LET i == (readIdx_ + k - 1) % ring_capacity
       IN  slots_[i] = items[k] \/ (k = 1 /\ sidePc["consumer"] = "advance")

\* size() never lies to its caller: what the consumer is told is there, and
\* what the producer is told is free stays free.
SizeIsSafe ==
  /\ sidePc["consumer"] = "size" =>
       SizeResult("consumer") >= sizing["consumer"][2] /\ SizeResult("consumer") <= Len(items)
  /\ sidePc["producer"] = "size" =>
       SizeResult("producer") <= sizing["producer"][2] /\ SizeResult("producer") >= Len(items)

(* The ring is a bounded queue, although both sides decide from copies of  *)
(* the other's index that are behind: front() is the oldest element,       *)
(* emplace overwrites nothing, size() can be relied on, and every index    *)
(* stays in range.                                                         *)
SpscQueueIntact ==
  SpscTypeOK /\ FrontIsOldest /\ NoOverwrite /\ SlotsHoldItems /\ SizeIsSafe

(* An element that has been published is popped, and a blocked emplace     *)
(* finds room, if the consumer keeps polling.                              *)
EveryElementPopped ==
  /\ \A k \in 1 .. MaxPushes : pushes >= k ~> pushes - Len(items) >= k
  /\ sidePc["producer"] = "emplaceReload" ~> sidePc["producer"] = "construct"

-----------------------------------------------------------------------------
(* The inductive invariant.                                                *)

\* The hypothesis of the theorem.
SpscAssumption == requested \in Nat /\ MaxPushes \in Nat

\* The slot of the k-th element of the queue.
Place(k) == (readIdx_ + k - 1) % ring_capacity

\* Where a side is, and what it knows there: the copy of an index is behind the
\* index, so the producer counts at least and the consumer at most the elements
\* there are.
SidesAgree ==
  /\ sidePc \in [Sides -> {"idle", "emplaceReload", "tryReload", "construct", "publish",
                       "frontReload", "front", "advance", "size"}]
  /\ sizing \in [Sides -> {<<>>} \cup (Slots \X Nat)]
  /\ sidePc["producer"] \in {"emplaceReload", "tryReload", "construct", "publish"} =>
       val \in Values /\ pushes < MaxPushes
  /\ sidePc["producer"] \in {"construct", "publish"} => NextIdx(writeIdx_) # readIdxCache_
  /\ Distance(writeIdx_, readIdxCache_) >= Len(items)
  /\ sidePc["consumer"] \in {"front", "advance"} => readIdx_ # writeIdxCache_
  /\ Distance(writeIdxCache_, readIdx_) <= Len(items)

\* A slot outside the queue holds no object, or the one about to be published.
OutsideIsRaw ==
  /\ \A i \in Slots : Distance(i, readIdx_) >= Len(items) =>
       slots_[i] = Raw \/ (i = writeIdx_ /\ sidePc["producer"] = "publish")
  /\ sidePc["producer"] = "publish" => slots_[writeIdx_] = val
  /\ sidePc["consumer"] = "advance" => slots_[readIdx_] = Raw

\* A size() between its two loads: the producer knows where writeIdx_ is, and the
\* consumer where readIdx_ is.
SizesAgree ==
  /\ sidePc["consumer"] = "size" =>
       /\ sizing["consumer"] \in Slots \X Nat
       /\ Distance(sizing["consumer"][1], readIdx_) = sizing["consumer"][2]
       /\ sizing["consumer"][2] <= Len(items)
  /\ sidePc["producer"] = "size" =>
       /\ sizing["producer"] \in Slots \X Nat
       /\ sizing["producer"][1] = writeIdx_
       /\ sizing["producer"][2] >= Len(items)

\* The inductive invariant.
SpscInv == SpscTypeOK /\ SlotsHoldItems /\ SidesAgree /\ OutsideIsRaw /\ SizesAgree
=============================================================================
