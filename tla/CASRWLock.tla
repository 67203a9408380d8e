----------------------------- MODULE CASRWLock ------------------------------
(***************************************************************************)
(* CASRWLock of cpp-util/lock.h: a readers-writer spin lock in one word,   *)
(* which holds the number of readers, or WLOCK while a writer is inside.   *)
(* Unlock serves readers and writers alike and tells them apart by the     *)
(* word.                                                                   *)
(*                                                                         *)
(* One action is one access to the word.  The accesses that are not        *)
(* compare-and-swap are plain loads and stores of an aligned 64-bit field, *)
(* which the compiler emits as such; pauses and sched_yield are left out.  *)
(***************************************************************************)
EXTENDS Integers, FiniteSets

CONSTANTS Threads, WLOCK

\* WLOCK is 2^64 - 1: there are never that many threads.
ASSUME CasAssumption ==
  /\ IsFiniteSet(Threads)
  /\ WLOCK \in Nat
  /\ Cardinality(Threads) < WLOCK

VARIABLES
  lock,
  pc,
  old_readers,  \* the local of Rlock and Unlock
  holds         \* history: what a thread has acquired, until the word is released

vars == <<lock, pc, old_readers, holds>>

Readers == {t \in Threads : holds[t] = "read"}
Writers == {t \in Threads : holds[t] = "write"}

Goto(t, l) == pc' = [pc EXCEPT ![t] = l]
Become(t, h) == holds' = [holds EXCEPT ![t] = h]
Load(t) == old_readers' = [old_readers EXCEPT ![t] = lock]

-----------------------------------------------------------------------------

Init ==
  /\ lock = 0
  /\ pc = [t \in Threads |-> "idle"]
  /\ old_readers = [t \in Threads |-> 0]
  /\ holds = [t \in Threads |-> "nothing"]

Call(t) ==
  /\ \/ pc[t] = "idle" /\ \E l \in {"rlock", "wlock"} : Goto(t, l)
     \/ pc[t] = "inside" /\ Goto(t, "unlock")
  /\ UNCHANGED <<lock, old_readers, holds>>

\* Rlock: the load, and the test for a writer ...
RlockLoad(t) ==
  /\ pc[t] = "rlock"
  /\ Load(t)
  /\ Goto(t, IF lock # WLOCK THEN "rlockCas" ELSE "rlock")
  /\ UNCHANGED <<lock, holds>>

\* ... and the compare-and-swap.
RlockCas(t) ==
  /\ pc[t] = "rlockCas"
  /\ \/ /\ lock = old_readers[t]
        /\ lock' = old_readers[t] + 1
        /\ Goto(t, "inside")
        /\ Become(t, "read")
     \/ /\ lock # old_readers[t]
        /\ Goto(t, "rlock")
        /\ UNCHANGED <<lock, holds>>
  /\ UNCHANGED old_readers

\* Wlock: the test for a free lock, and the compare-and-swap.
WlockLoad(t) ==
  /\ pc[t] = "wlock"
  /\ Goto(t, IF lock = 0 THEN "wlockCas" ELSE "wlock")
  /\ UNCHANGED <<lock, old_readers, holds>>

BugWlockCas(t) ==
  /\ pc[t] = "wlockCas"
  /\ lock' = WLOCK
  /\ Goto(t, "inside")
  /\ Become(t, "write")
  /\ UNCHANGED old_readers

WlockCas(t) ==
  /\ pc[t] = "wlockCas"
  /\ \/ /\ lock = 0
        /\ lock' = WLOCK
        /\ Goto(t, "inside")
        /\ Become(t, "write")
     \/ /\ lock # 0
        /\ Goto(t, "wlock")
        /\ UNCHANGED <<lock, holds>>
  /\ UNCHANGED old_readers

\* Writers are counted down like readers.
BugUnlockLoad(t) ==
  /\ pc[t] = "unlock"
  /\ Load(t)
  /\ Goto(t, "unlockReload")
  /\ UNCHANGED <<lock, holds>>

\* Unlock: WLOCK in the word means that the caller is the writer.
UnlockLoad(t) ==
  /\ pc[t] = "unlock"
  /\ Load(t)
  /\ Goto(t, IF lock = WLOCK THEN "unlockStore" ELSE "unlockReload")
  /\ UNCHANGED <<lock, holds>>

UnlockStore(t) ==
  /\ pc[t] = "unlockStore"
  /\ lock' = 0
  /\ Goto(t, "idle")
  /\ Become(t, "nothing")
  /\ UNCHANGED old_readers

UnlockReload(t) ==
  /\ pc[t] = "unlockReload"
  /\ Load(t)
  /\ Goto(t, "unlockCas")
  /\ UNCHANGED <<lock, holds>>

UnlockCas(t) ==
  /\ pc[t] = "unlockCas"
  /\ \/ /\ lock = old_readers[t]
        /\ lock' = old_readers[t] - 1
        /\ Goto(t, "idle")
        /\ Become(t, "nothing")
     \/ /\ lock # old_readers[t]
        /\ Goto(t, "unlockReload")
        /\ UNCHANGED <<lock, holds>>
  /\ UNCHANGED old_readers

Acquire(t) == RlockLoad(t) \/ RlockCas(t) \/ WlockLoad(t) \/ WlockCas(t)
Unlock(t) == UnlockLoad(t) \/ UnlockStore(t) \/ UnlockReload(t) \/ UnlockCas(t)

Next == \E t \in Threads : Call(t) \/ Acquire(t) \/ Unlock(t)

Spec == Init /\ [][Next]_vars

(* Threads keep running, and whoever is inside calls Unlock.               *)
FairSpec ==
  Spec /\ \A t \in Threads : /\ WF_vars(Acquire(t) \/ Unlock(t))
                             /\ WF_vars(pc[t] = "inside" /\ Call(t))

-----------------------------------------------------------------------------
(* Properties.                                                             *)

TypeOK ==
  /\ lock \in 0 .. WLOCK
  /\ pc \in [Threads -> {"idle", "rlock", "rlockCas", "wlock", "wlockCas", "inside",
                         "unlock", "unlockStore", "unlockReload", "unlockCas"}]
  /\ old_readers \in [Threads -> 0 .. WLOCK]
  /\ holds \in [Threads -> {"nothing", "read", "write"}]

(* A writer is alone, from its compare-and-swap to its store of 0.         *)
Exclusion ==
  \A t \in Writers : Readers = {} /\ Writers = {t}

(* The word is WLOCK exactly while a writer is inside, and otherwise the   *)
(* number of readers, however loads and swaps interleave.                  *)
WordIsCount ==
  IF Writers # {} THEN lock = WLOCK ELSE lock = Cardinality(Readers)

(* Unlock guesses right: it stores 0 only for a writer and counts down     *)
(* only for a reader, although the word may change after it was loaded.    *)
UnlockKnowsItsCaller ==
  \A t \in Threads :
    /\ pc[t] = "unlockStore" => holds[t] = "write"
    /\ pc[t] \in {"unlockReload", "unlockCas"} => holds[t] = "read"

(* When threads want the lock, some thread gets it.                        *)
SomeoneGetsIn ==
  (\E t \in Threads : pc[t] \in {"rlock", "wlock"}) ~> Readers \cup Writers # {}

-----------------------------------------------------------------------------
(* The inductive invariant.                                                *)
IInv ==
  /\ TypeOK
  /\ Exclusion
  /\ WordIsCount
  /\ UnlockKnowsItsCaller
  /\ \A t \in Threads : holds[t] = "nothing" <=>
       pc[t] \in {"idle", "rlock", "rlockCas", "wlock", "wlockCas"}
  /\ \A t \in Threads : pc[t] = "rlockCas" => old_readers[t] # WLOCK
=============================================================================
