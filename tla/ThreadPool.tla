----------------------------- MODULE ThreadPool -----------------------------
(***************************************************************************)
(* ThreadPool of cpp-util/threadpool.h: workers take tasks from a queue    *)
(* guarded by queue_mutex and sleep on one condition variable.  The owner  *)
(* enqueues tasks and destroys the pool in the end; a running task may     *)
(* itself enqueue more tasks, also while the destructor runs.              *)
(*                                                                         *)
(* A section under queue_mutex is one action.  Notifying happens after the *)
(* section, so it is an action of its own.  A sleeper may wake by itself.  *)
(***************************************************************************)
EXTENDS Integers, Sequences

CONSTANTS
  Workers,
  Owner,     \* the thread that constructs, uses and destroys the pool
  MaxTasks   \* bound: tasks enqueued in a behaviour

VARIABLES
  tasks,     \* the queue; tasks are numbered as they are accepted
  stop,
  pc,
  current,   \* the task a worker runs, 0 for none
  accepted,  \* history: number of tasks enqueued
  finished   \* history: tasks that have run to their end

vars == <<tasks, stop, pc, current, accepted, finished>>

Members == Workers \cup {Owner}
Asleep == {w \in Workers : pc[w] = "sleep"}
Running == {w \in Workers : current[w] # 0}

Goto(t, l) == pc' = [pc EXCEPT ![t] = l]

-----------------------------------------------------------------------------

\* The constructor has launched the workers.
Init ==
  /\ tasks = <<>>
  /\ stop = FALSE
  /\ pc = [t \in Members |-> IF t = Owner THEN "user" ELSE "lock"]
  /\ current = [w \in Workers |-> 0]
  /\ accepted = 0
  /\ finished = {}

\* A worker leaves as soon as stop is set.
BugTake(w) ==
  /\ pc[w] = "lock"
  /\ \/ /\ ~ stop /\ tasks = <<>>
        /\ Goto(w, "sleep")
        /\ UNCHANGED <<tasks, current>>
     \/ /\ stop
        /\ Goto(w, "exited")
        /\ UNCHANGED <<tasks, current>>
     \/ /\ ~ stop /\ tasks # <<>>
        /\ current' = [current EXCEPT ![w] = Head(tasks)]
        /\ tasks' = Tail(tasks)
        /\ Goto(w, "run")
  /\ UNCHANGED <<stop, accepted, finished>>

\* The worker's section: sleep, leave, or take the oldest task.
Take(w) ==
  /\ pc[w] = "lock"
  /\ \/ /\ ~ stop /\ tasks = <<>>
        /\ Goto(w, "sleep")
        /\ UNCHANGED <<tasks, current>>
     \/ /\ stop /\ tasks = <<>>
        /\ Goto(w, "exited")
        /\ UNCHANGED <<tasks, current>>
     \/ /\ tasks # <<>>
        /\ current' = [current EXCEPT ![w] = Head(tasks)]
        /\ tasks' = Tail(tasks)
        /\ Goto(w, "run")
  /\ UNCHANGED <<stop, accepted, finished>>

\* task() returns, or throws into its future.
Finish(w) ==
  /\ pc[w] = "run"
  /\ finished' = finished \cup {current[w]}
  /\ current' = [current EXCEPT ![w] = 0]
  /\ Goto(w, "lock")
  /\ UNCHANGED <<tasks, stop, accepted>>

MayEnqueue(t) == pc[t] = IF t = Owner THEN "user" ELSE "run"

\* enqueue, called by the owner or by a running task: its section.  On a
\* stopped pool it throws and leaves no trace.
Enqueue(t) ==
  /\ MayEnqueue(t)
  /\ ~ stop
  /\ accepted < MaxTasks
  /\ tasks' = Append(tasks, accepted + 1)
  /\ accepted' = accepted + 1
  /\ Goto(t, "notify")
  /\ UNCHANGED <<stop, current, finished>>

\* condition.notify_one() at the end of enqueue.
NotifyOne(t) ==
  /\ pc[t] = "notify"
  /\ LET back == IF t = Owner THEN "user" ELSE "run"
     IN  \/ Asleep = {} /\ Goto(t, back)
         \/ \E w \in Asleep : pc' = [pc EXCEPT ![w] = "lock", ![t] = back]
  /\ UNCHANGED <<tasks, stop, current, accepted, finished>>

\* The destructor: stop is set, everyone is woken, every worker is joined.
Stop ==
  /\ pc[Owner] = "user"
  /\ stop' = TRUE
  /\ Goto(Owner, "notifyAll")
  /\ UNCHANGED <<tasks, current, accepted, finished>>

\* One worker is woken to tell the others.
BugNotifyAll ==
  /\ pc[Owner] = "notifyAll"
  /\ \/ Asleep = {} /\ Goto(Owner, "join")
     \/ \E w \in Asleep : pc' = [pc EXCEPT ![w] = "lock", ![Owner] = "join"]
  /\ UNCHANGED <<tasks, stop, current, accepted, finished>>

NotifyAll ==
  /\ pc[Owner] = "notifyAll"
  /\ pc' = [t \in Members |-> IF t = Owner THEN "join"
                              ELSE IF t \in Asleep THEN "lock" ELSE pc[t]]
  /\ UNCHANGED <<tasks, stop, current, accepted, finished>>

Join ==
  /\ pc[Owner] = "join"
  /\ \A w \in Workers : pc[w] = "exited"
  /\ Goto(Owner, "destroyed")
  /\ UNCHANGED <<tasks, stop, current, accepted, finished>>

SpuriousWakeup(w) ==
  /\ w \in Asleep
  /\ Goto(w, "lock")
  /\ UNCHANGED <<tasks, stop, current, accepted, finished>>

WorkerStep(w) == Take(w) \/ Finish(w) \/ NotifyOne(w)
OwnerStep == NotifyOne(Owner) \/ NotifyAll \/ Join

Next ==
  \/ \E w \in Workers : WorkerStep(w) \/ SpuriousWakeup(w)
  \/ \E t \in Members : Enqueue(t)
  \/ Stop
  \/ OwnerStep

Spec == Init /\ [][Next]_vars

(* Threads keep running and tasks end.  The owner need not destroy the     *)
(* pool, but finishes what it has begun.                                   *)
FairSpec ==
  Spec /\ WF_vars(OwnerStep) /\ \A w \in Workers : WF_vars(WorkerStep(w))

-----------------------------------------------------------------------------
(* Properties.                                                             *)

TypeOK ==
  /\ tasks \in Seq(1 .. MaxTasks)
  /\ stop \in BOOLEAN
  /\ pc \in [Members -> {"user", "notify", "notifyAll", "join", "destroyed",
                         "lock", "sleep", "run", "exited"}]
  /\ current \in [Workers -> 0 .. MaxTasks]
  /\ accepted \in 0 .. MaxTasks
  /\ finished \subseteq 1 .. MaxTasks

(* An accepted task is in exactly one place: in the queue, with one        *)
(* worker, or finished.  The queue holds the youngest, oldest first.  A    *)
(* worker that has left leaves nothing behind, and the destructor returns  *)
(* only when every accepted task has run, those included that other tasks  *)
(* enqueued before stop was set.  All variables keep their types.          *)
EveryTaskOnce ==
  /\ TypeOK
  /\ \A i \in 1 .. Len(tasks) : tasks[i] = accepted - Len(tasks) + i
  /\ finished \cup {current[w] : w \in Running} = 1 .. accepted - Len(tasks)
  /\ \A v, w \in Running : v # w => current[v] # current[w]
  /\ \A w \in Running : current[w] \notin finished
  /\ (\E w \in Workers : pc[w] = "exited") => stop /\ tasks = <<>>
  /\ pc[Owner] = "destroyed" => finished = 1 .. accepted

(* Every accepted task runs to its end, in spite of notifications that     *)
(* find nobody asleep and are lost, and a destructor that has begun        *)
(* returns.                                                                *)
PoolDrains ==
  /\ \A n \in 1 .. MaxTasks : accepted >= n ~> n \in finished
  /\ stop ~> pc[Owner] = "destroyed"

-----------------------------------------------------------------------------
(* The inductive invariant.                                                *)

\* Where the threads are: a worker has a task exactly while it runs one, the
\* owner leaves "user" for good only after stop, and once it has joined the
\* workers all of them have left.
ControlAgrees ==
  /\ pc[Owner] \in {"user", "notify", "notifyAll", "join", "destroyed"}
  /\ \A w \in Workers :
       /\ pc[w] \in {"lock", "sleep", "run", "notify", "exited"}
       /\ current[w] # 0 <=> pc[w] \in {"run", "notify"}
  /\ pc[Owner] = "destroyed" => \A w \in Workers : pc[w] = "exited"

PoolInv == EveryTaskOnce /\ ControlAgrees

\* The owner is no worker, and there is a worker.
PoolAssumption == Owner \notin Workers /\ Workers # {} /\ MaxTasks \in Nat
=============================================================================
