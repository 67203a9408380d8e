------------------------------- MODULE RWLock -------------------------------
(***************************************************************************)
(* RWLock of cpp-util/lock.h: a readers-writer lock in which a writer that *)
(* has entered keeps new readers out.  It is a monitor: every piece of     *)
(* code between taking mutex_ and waiting on a condition variable, or      *)
(* releasing mutex_, is one action.                                        *)
(*                                                                         *)
(* std::condition_variable is modelled by the set of threads asleep on it: *)
(* notify_all wakes all of them, notify_one wakes one, and a sleeper may   *)
(* wake up by itself.  A thread that was woken competes for mutex_ again.  *)
(***************************************************************************)
EXTENDS Integers, FiniteSets

CONSTANTS
  Threads,
  MAX_READERS   \* UINT_MAX in the code

ASSUME RWLockAssumption ==
  /\ IsFiniteSet(Threads)
  /\ MAX_READERS \in Nat \ {0}

VARIABLES
  reader_count_,
  writer_entered_,
  pc

vars == <<reader_count_, writer_entered_, pc>>

\* Asleep on the condition variables reader_ and writer_.
OnReader == {t \in Threads : pc[t] \in {"rSleep", "wSleep"}}
OnWriter == {t \in Threads : pc[t] = "drainSleep"}
Reading == {t \in Threads : pc[t] = "reading"}
Writing == {t \in Threads : pc[t] = "writing"}
\* The thread that set writer_entered_ and has not reset it.
Entered == {t \in Threads : pc[t] \in {"drainSleep", "drain", "writing"}}

\* Where a sleeper goes on when it is woken.
Woken(l) ==
  CASE l = "rSleep" -> "rlock"
    [] l = "wSleep" -> "wlock"
    [] l = "drainSleep" -> "drain"

Wake(S) == [t \in Threads |-> IF t \in S THEN Woken(pc[t]) ELSE pc[t]]

-----------------------------------------------------------------------------

Init ==
  /\ reader_count_ = 0
  /\ writer_entered_ = FALSE
  /\ pc = [t \in Threads |-> "idle"]

Goto(t, l) == pc' = [pc EXCEPT ![t] = l]

\* A thread calls WLock or RLock.
CallWLock(t) == pc[t] = "idle" /\ Goto(t, "wlock") /\ UNCHANGED <<reader_count_, writer_entered_>>
CallRLock(t) == pc[t] = "idle" /\ Goto(t, "rlock") /\ UNCHANGED <<reader_count_, writer_entered_>>

\* The first loop of WLock, and the first test of the second.
WLock(t) ==
  /\ pc[t] = "wlock"
  /\ \/ /\ writer_entered_
        /\ Goto(t, "wSleep")
        /\ UNCHANGED writer_entered_
     \/ /\ ~ writer_entered_
        /\ writer_entered_' = TRUE
        /\ Goto(t, IF reader_count_ > 0 THEN "drainSleep" ELSE "writing")
  /\ UNCHANGED reader_count_

BugDrain(t) ==
  /\ pc[t] = "drain"
  /\ Goto(t, "writing")
  /\ UNCHANGED <<reader_count_, writer_entered_>>

\* WLock wakes up in its second loop.
Drain(t) ==
  /\ pc[t] = "drain"
  /\ Goto(t, IF reader_count_ > 0 THEN "drainSleep" ELSE "writing")
  /\ UNCHANGED <<reader_count_, writer_entered_>>

\* notify_one instead of notify_all.
BugWUnlock(t) ==
  /\ pc[t] = "writing"
  /\ writer_entered_' = FALSE
  /\ \E S \in {{u} : u \in OnReader} \cup (IF OnReader = {} THEN {{}} ELSE {}) :
       pc' = [Wake(S) EXCEPT ![t] = "idle"]
  /\ UNCHANGED reader_count_

WUnlock(t) ==
  /\ pc[t] = "writing"
  /\ writer_entered_' = FALSE
  /\ pc' = [Wake(OnReader) EXCEPT ![t] = "idle"]
  /\ UNCHANGED reader_count_

BugRLock(t) ==
  /\ pc[t] = "rlock"
  /\ \/ /\ Writing # {} \/ reader_count_ = MAX_READERS
        /\ Goto(t, "rSleep")
        /\ UNCHANGED reader_count_
     \/ /\ Writing = {} /\ reader_count_ # MAX_READERS
        /\ reader_count_' = reader_count_ + 1
        /\ Goto(t, "reading")
  /\ UNCHANGED writer_entered_

RLock(t) ==
  /\ pc[t] = "rlock"
  /\ \/ /\ writer_entered_ \/ reader_count_ = MAX_READERS
        /\ Goto(t, "rSleep")
        /\ UNCHANGED reader_count_
     \/ /\ ~ writer_entered_ /\ reader_count_ # MAX_READERS
        /\ reader_count_' = reader_count_ + 1
        /\ Goto(t, "reading")
  /\ UNCHANGED writer_entered_

\* notify_one on a condition variable with sleepers S.
NotifyOne(t, S) ==
  \/ S = {} /\ Goto(t, "idle")
  \/ \E u \in S : pc' = [Wake({u}) EXCEPT ![t] = "idle"]

\* The waiting writer is not notified by the last reader.
BugRUnlock(t) ==
  /\ pc[t] = "reading"
  /\ reader_count_' = reader_count_ - 1
  /\ \/ ~ writer_entered_ /\ reader_count_' = MAX_READERS - 1 /\ NotifyOne(t, OnReader)
     \/ (writer_entered_ \/ reader_count_' # MAX_READERS - 1) /\ Goto(t, "idle")
  /\ UNCHANGED writer_entered_

RUnlock(t) ==
  /\ pc[t] = "reading"
  /\ reader_count_' = reader_count_ - 1
  /\ \/ writer_entered_ /\ reader_count_' = 0 /\ NotifyOne(t, OnWriter)
     \/ writer_entered_ /\ reader_count_' # 0 /\ Goto(t, "idle")
     \/ ~ writer_entered_ /\ reader_count_' = MAX_READERS - 1 /\ NotifyOne(t, OnReader)
     \/ ~ writer_entered_ /\ reader_count_' # MAX_READERS - 1 /\ Goto(t, "idle")
  /\ UNCHANGED writer_entered_

\* A condition variable may wake a sleeper without a notification.
SpuriousWakeup(t) ==
  /\ t \in OnReader \cup OnWriter
  /\ pc' = Wake({t})
  /\ UNCHANGED <<reader_count_, writer_entered_>>

Call(t) == CallWLock(t) \/ CallRLock(t)
Step(t) == WLock(t) \/ Drain(t) \/ RLock(t)
Unlock(t) == WUnlock(t) \/ RUnlock(t)

Next == \E t \in Threads : Call(t) \/ Step(t) \/ Unlock(t) \/ SpuriousWakeup(t)

Spec == Init /\ [][Next]_vars

(* A thread that competes for mutex_ gets it, and whoever holds the lock   *)
(* releases it.  Nothing makes a condition variable wake spuriously.       *)
FairSpec == Spec /\ \A t \in Threads : WF_vars(Step(t)) /\ WF_vars(Unlock(t))

-----------------------------------------------------------------------------
(* Properties.                                                             *)

TypeOK ==
  /\ reader_count_ \in 0 .. MAX_READERS
  /\ writer_entered_ \in BOOLEAN
  /\ pc \in [Threads -> {"idle", "wlock", "wSleep", "drain", "drainSleep", "writing",
                         "rlock", "rSleep", "reading"}]

(* A writer is alone in the lock.                                          *)
Exclusion ==
  \A t \in Writing, u \in Reading \cup Writing : t = u

(* reader_count_ counts the readers inside and writer_entered_ says that   *)
(* exactly one writer is draining or writing.                              *)
CountersAgree ==
  /\ reader_count_ = Cardinality(Reading)
  /\ writer_entered_ <=> Entered # {}
  /\ \A t, u \in Entered : t = u

(* "Readers that come after the writer block" (the class comment): once a  *)
(* writer has entered, no reader gets in before it has left.               *)
WriterPreference ==
  [][Entered # {} => Reading' \subseteq Reading]_vars

(* No thread is asleep on reader_ with nobody left to wake it, and the     *)
(* writer is not asleep when the last reader has gone.                     *)
NoLostWakeup ==
  /\ OnReader # {} => writer_entered_ \/ reader_count_ = MAX_READERS
  /\ OnWriter # {} => reader_count_ > 0

(* Whoever sleeps is woken, and a writer that has entered gets the lock:   *)
(* "it waits for the readers that entered before it" (the class comment),  *)
(* and no longer.                                                          *)
SleepersWake ==
  \A t \in Threads :
    /\ t \in OnReader ~> t \notin OnReader
    /\ pc[t] = "drainSleep" ~> pc[t] = "writing"

-----------------------------------------------------------------------------
(* The inductive invariant: the counters tell the truth, and a writer is   *)
(* only writing when no reader is counted.                                 *)
IInv ==
  /\ TypeOK
  /\ CountersAgree
  /\ Writing # {} => reader_count_ = 0
=============================================================================
