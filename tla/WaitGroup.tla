----------------------------- MODULE WaitGroup ------------------------------
(***************************************************************************)
(* WaitGroup of cpp-util/waitgroup.h.  The counter is raised before the    *)
(* workers start; every worker calls Done once; waiters call Wait.         *)
(*                                                                         *)
(* Wait tests the counter and goes to sleep under mutex, but Done takes no *)
(* mutex: the test, the sleep, the decrement and the notification are      *)
(* steps of their own.  A sleeper may wake by itself.                      *)
(***************************************************************************)
EXTENDS Integers, FiniteSets

CONSTANTS
  Workers,  \* threads that call Done
  Waiters   \* threads that call Wait

VARIABLES
  counter,
  done_flag,
  mutex,     \* the waiter that holds it, or Free
  launched,  \* the caller has counted the workers and started everybody
  pc

vars == <<counter, done_flag, mutex, launched, pc>>

Members == Workers \cup Waiters
Free == "free"
Goto(t, l) == pc' = [pc EXCEPT ![t] = l]

-----------------------------------------------------------------------------

\* WaitGroup(init).
Init ==
  /\ counter \in 0 .. Cardinality(Workers)
  /\ done_flag = FALSE
  /\ mutex = Free
  /\ launched = FALSE
  /\ pc = [t \in Members |-> "start"]

\* Add(incr).  The assertion is a guard: a run that fails it ends there.
Add(incr) ==
  /\ ~ launched
  /\ ~ done_flag
  /\ counter + incr <= Cardinality(Workers)
  /\ counter' = counter + incr
  /\ UNCHANGED <<done_flag, mutex, launched, pc>>

\* External: the user of the group starts as many workers as it counted.
Launch ==
  /\ ~ launched
  /\ counter = Cardinality(Workers)
  /\ launched' = TRUE
  /\ UNCHANGED <<counter, done_flag, mutex, pc>>

\* Done: the store to done_flag.
DoneFlag(w) ==
  /\ launched
  /\ pc[w] = "start"
  /\ done_flag' = TRUE
  /\ Goto(w, "decrement")
  /\ UNCHANGED <<counter, mutex, launched>>

\* Done: --counter, and the test of what it returns.
DoneDecrement(w) ==
  /\ pc[w] = "decrement"
  /\ counter' = counter - 1
  /\ Goto(w, IF counter' <= 0 THEN "notify" ELSE "done")
  /\ UNCHANGED <<done_flag, mutex, launched>>

\* Done: cond.notify_all().
DoneNotify(w) ==
  /\ pc[w] = "notify"
  /\ pc' = [t \in Members |-> IF t = w THEN "done"
                              ELSE IF pc[t] = "asleep" THEN "lock" ELSE pc[t]]
  /\ UNCHANGED <<counter, done_flag, mutex, launched>>

\* Wait takes mutex, first or after a wakeup.
WaitLock(t) ==
  /\ launched
  /\ pc[t] \in {"start", "lock"}
  /\ mutex = Free
  /\ mutex' = t
  /\ Goto(t, "test")
  /\ UNCHANGED <<counter, done_flag, launched>>

BugWaitTest(t) ==
  /\ pc[t] = "test"
  /\ \/ counter <= 1 /\ mutex' = Free /\ Goto(t, "returned")
     \/ counter > 1 /\ Goto(t, "block") /\ UNCHANGED mutex
  /\ UNCHANGED <<counter, done_flag, launched>>

\* Wait tests the predicate; if it holds, Wait unlocks and returns.
WaitTest(t) ==
  /\ pc[t] = "test"
  /\ \/ counter <= 0 /\ mutex' = Free /\ Goto(t, "returned")
     \/ counter > 0 /\ Goto(t, "block") /\ UNCHANGED mutex
  /\ UNCHANGED <<counter, done_flag, launched>>

\* cond.wait releases mutex and sleeps.
WaitBlock(t) ==
  /\ pc[t] = "block"
  /\ mutex' = Free
  /\ Goto(t, "asleep")
  /\ UNCHANGED <<counter, done_flag, launched>>

SpuriousWakeup(t) ==
  /\ pc[t] = "asleep"
  /\ Goto(t, "lock")
  /\ UNCHANGED <<counter, done_flag, mutex, launched>>

WorkerStep(w) == DoneFlag(w) \/ DoneDecrement(w) \/ DoneNotify(w)
WaiterStep(t) == WaitLock(t) \/ WaitTest(t) \/ WaitBlock(t)

Next ==
  \/ \E incr \in 1 .. Cardinality(Workers) : Add(incr)
  \/ Launch
  \/ \E w \in Workers : WorkerStep(w)
  \/ \E t \in Waiters : WaiterStep(t) \/ SpuriousWakeup(t)

Spec == Init /\ [][Next]_vars

(* Threads keep running, and a thread that wants mutex gets it in the end. *)
FairSpec ==
  /\ Spec
  /\ \A w \in Workers : WF_vars(WorkerStep(w))
  /\ \A t \in Waiters : SF_vars(WaiterStep(t))

-----------------------------------------------------------------------------
(* Properties.                                                             *)

TypeOK ==
  /\ counter \in 0 .. Cardinality(Workers)
  /\ done_flag \in BOOLEAN
  /\ mutex \in Waiters \cup {Free}
  /\ launched \in BOOLEAN
  /\ pc \in [Members -> {"start", "decrement", "notify", "done", "lock",
                         "test", "block", "asleep", "returned"}]

(* Wait returns only after every worker has got through the decrement of   *)
(* Done, and the counter stays within what was added.                      *)
ReturnsAfterDone ==
  /\ TypeOK
  /\ (\E t \in Waiters : pc[t] = "returned")
       => \A w \in Workers : pc[w] \in {"notify", "done"}

(* Wait returns once every worker has called Done.                         *)
WaitReturns ==
  \A t \in Waiters :
    (\A w \in Workers : pc[w] = "done") ~> pc[t] = "returned"

-----------------------------------------------------------------------------
(* The inductive invariant.                                                *)

\* Workers that have not got through the decrement of Done.
Outstanding == {w \in Workers : pc[w] \in {"start", "decrement"}}

\* The counter is the number of the workers outstanding, once all are launched.
GroupInv ==
  /\ TypeOK
  /\ \A w \in Workers : pc[w] \in {"start", "decrement", "notify", "done"}
  /\ \A t \in Waiters : pc[t] \notin {"decrement", "notify", "done"}
  /\ ~ launched => \A t \in Members : pc[t] = "start"
  /\ launched => counter = Cardinality(Outstanding)
  /\ (\E t \in Waiters : pc[t] = "returned") => launched /\ counter = 0

\* Nobody both works for the group and waits for it.
GroupAssumption == IsFiniteSet(Workers) /\ Workers \cap Waiters = {}
=============================================================================
