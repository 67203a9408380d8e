----------------------------- MODULE StripedSpin ----------------------------
(***************************************************************************)
(* Striped<SpinMutex, P> of cpp-util/lock.h: a fixed array of spin locks,  *)
(* of which a key uses the one that its hash selects.  Locking a key is    *)
(* Striped::get followed by SpinMutex::lock or try_lock.                   *)
(*                                                                         *)
(* One action is one access to a lock word.  The pauses between two        *)
(* attempts of lock() change nothing and are left out.                     *)
(***************************************************************************)
EXTENDS Integers

CONSTANTS
  Threads,
  Keys,
  hash_func_,  \* a function from keys to hash values
  stripes_

Stripes == 0 .. stripes_ - 1

VARIABLES
  lock_,  \* the word of every stripe
  pc,
  at      \* the stripe whose lock a thread has got a pointer to

vars == <<lock_, pc, at>>

Holders(s) == {t \in Threads : pc[t] = "inside" /\ at[t] = s}
Waiters(s) == {t \in Threads : pc[t] \in {"lock", "lockCas"} /\ at[t] = s}

Goto(t, l) == pc' = [pc EXCEPT ![t] = l]

-----------------------------------------------------------------------------

Init ==
  /\ lock_ = [s \in Stripes |-> 0]
  /\ pc = [t \in Threads |-> "idle"]
  /\ at = [t \in Threads |-> 0]

Stripe(k) == hash_func_[k] % stripes_

\* get(key), and the call of lock() or try_lock() on what it returns.
Get(t, k, call) ==
  /\ pc[t] = "idle"
  /\ at' = [at EXCEPT ![t] = Stripe(k)]
  /\ Goto(t, call)
  /\ UNCHANGED lock_

\* The load of the word: lock() tries again, try_lock() gives up.
Load(t) ==
  /\ pc[t] \in {"lock", "tryLock"}
  /\ \/ /\ lock_[at[t]] = 0
        /\ Goto(t, IF pc[t] = "lock" THEN "lockCas" ELSE "tryCas")
     \/ /\ lock_[at[t]] # 0
        /\ Goto(t, IF pc[t] = "lock" THEN "lock" ELSE "idle")
  /\ UNCHANGED <<lock_, at>>

BugCas(t) ==
  /\ pc[t] \in {"lockCas", "tryCas"}
  /\ lock_' = [lock_ EXCEPT ![at[t]] = 1]
  /\ Goto(t, "inside")
  /\ UNCHANGED at

\* __sync_bool_compare_and_swap(&lock_, 0, 1).
Cas(t) ==
  /\ pc[t] \in {"lockCas", "tryCas"}
  /\ \/ /\ lock_[at[t]] = 0
        /\ lock_' = [lock_ EXCEPT ![at[t]] = 1]
        /\ Goto(t, "inside")
     \/ /\ lock_[at[t]] # 0
        /\ Goto(t, IF pc[t] = "lockCas" THEN "lock" ELSE "idle")
        /\ UNCHANGED lock_
  /\ UNCHANGED at

BugUnlock(t) ==
  /\ pc[t] = "inside"
  /\ Goto(t, "idle")
  /\ UNCHANGED <<lock_, at>>

Unlock(t) ==
  /\ pc[t] = "inside"
  /\ lock_' = [lock_ EXCEPT ![at[t]] = 0]
  /\ Goto(t, "idle")
  /\ UNCHANGED at

Next ==
  \E t \in Threads :
    \/ \E k \in Keys, call \in {"lock", "tryLock"} : Get(t, k, call)
    \/ Load(t)
    \/ Cas(t)
    \/ Unlock(t)

Spec == Init /\ [][Next]_vars

(* A thread that tries keeps running; nothing is assumed of a thread that  *)
(* holds a lock.                                                           *)
FairSpec == Spec /\ \A t \in Threads : WF_vars(Load(t) \/ Cas(t))

-----------------------------------------------------------------------------
(* Properties.                                                             *)

TypeOK ==
  /\ lock_ \in [Stripes -> {0, 1}]
  /\ pc \in [Threads -> {"idle", "lock", "lockCas", "tryLock", "tryCas", "inside"}]
  /\ at \in [Threads -> Stripes]

(* At most one thread holds a stripe, so keys of one stripe are never      *)
(* locked together, and the word says whether it is held.  Every key finds *)
(* a stripe that exists.                                                   *)
StripeExclusion ==
  /\ TypeOK
  /\ \A s \in Stripes :
       /\ \A t, u \in Holders(s) : t = u
       /\ lock_[s] = 1 <=> Holders(s) # {}

(* "Allowing independent operations to lock different stripes and proceed  *)
(* concurrently" (the class comment): whoever waits for a stripe sees it   *)
(* taken by somebody, no matter who sits on the other stripes for ever.    *)
StripesAreIndependent ==
  \A s \in Stripes : Waiters(s) # {} ~> Holders(s) # {}
=============================================================================
