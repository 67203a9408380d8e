------------------------------- MODULE MCLoops ------------------------------
(***************************************************************************)
(* The coroutine scheduler of c-util/coroutine.c, the event loop of ae.cc  *)
(* and the programs on top of such loops side by side, for TLC: at the     *)
(* start one part is picked, and only that one moves                       *)
(*   "coroutines"  Coroutine                                               *)
(*   "files"       AeEventLoop without time events                         *)
(*   "timers"      AeEventLoop without file events                         *)
(*   "kv"          SimpleKv, clients and server                            *)
(*   "sockets"     Sockets: the socket classes and the epoll loop          *)
(* The last two keep their state in the variables x1 .. x8.                *)
(***************************************************************************)
EXTENDS Coroutine, Sequences

CONSTANTS
  Parts,                                         \* the parts to check
  setsize, Procs,                                \* of "files"
  Delays, MaxTimers, Ticks, MaxTime, MaxBacks,   \* of "timers"
  StartTime, IntMax,
  KvClients, ClientKinds, DbFails                \* of "kv"

VARIABLES
  part,
  mask, proc, interest, maxfd, fired, rfired, timers, timeEventNextId,
  lastTime, maxId, te, pc, flags, inMain, stop, until, clock, backs,
  armed, mustRun, began,
  x1, x2, x3, x4, x5, x6, x7, x8

loopVars == <<mask, proc, interest, maxfd, fired, rfired, timers, timeEventNextId,
              lastTime, maxId, te, pc, flags, inMain, stop, until, clock, backs,
              armed, mustRun, began>>
registers == <<x1, x2, x3, x4, x5, x6, x7, x8>>
allVars == <<vars, loopVars, registers, part>>

Files == INSTANCE AeEventLoop
           WITH Delays <- {}, MaxTimers <- 0, Ticks <- {}, MaxTime <- StartTime, MaxBacks <- 0
Timers == INSTANCE AeEventLoop WITH setsize <- 0

\* The first client writes and reads back, the other deletes and may close.
KvRequests ==
  [c \in KvClients |-> IF c = 1 THEN <<<<"PUT", 1, 2>>, <<"GET", 1, 0>>>> ELSE <<<<"DEL", 1, 0>>>>]
KvWorkers == {11, 12}
Kv == INSTANCE SimpleKv
  WITH KvKeys <- {1}, Requests <- KvRequests, Closing <- KvClients \ {1},
       kind <- x1, conn <- x2, loop <- x3, queue <- x4, worker <- x5, store <- x6, db <- x7,
       raced <- x8

Tcp == INSTANCE Sockets
  WITH TcpSockets <- {1, 2}, FdObjs <- {1, 2}, MaxFds <- 2, MaxFiles <- 3, event_size_ <- 2,
       MaxLength <- 2,
       files <- x1, flags <- x2, sock <- x3, obj <- x4, epoll <- x5, accepted <- x6, loop <- x7,
       io <- x8

OfCoroutines(A) == part = "coroutines" /\ A /\ UNCHANGED <<loopVars, registers, part>>
OfFiles(A) == part = "files" /\ A /\ UNCHANGED <<vars, registers, part>>
OfTimers(A) == part = "timers" /\ A /\ UNCHANGED <<vars, registers, part>>
Of(name, A) == part = name /\ A /\ UNCHANGED <<vars, loopVars, part>>

\* Of the parts that do not use the registers.
Unused ==
  /\ x1 = NULL /\ x2 = NULL /\ x3 = NULL /\ x4 = NULL
  /\ x5 = NULL /\ x6 = NULL /\ x7 = NULL /\ x8 = NULL

LoopsInit ==
  /\ part \in Parts
  /\ Init
  /\ IF part = "files" THEN Files!Init ELSE Timers!Init
  /\ \/ part = "kv" /\ Kv!Init
     \/ part = "sockets" /\ Tcp!Init
     \/ part \notin {"kv", "sockets"} /\ Unused

LoopsNext ==
  \/ OfCoroutines(Next) \/ OfFiles(Files!Next) \/ OfTimers(Timers!Next)
  \/ Of("kv", Kv!Next) \/ Of("sockets", Tcp!Next)

(* The fairness of AeEventLoop!LiveSpec, for the loop with time events.    *)
LoopsSpec ==
  /\ LoopsInit /\ [][LoopsNext]_allVars
  /\ WF_allVars(OfTimers(Timers!LoopStep))
  /\ WF_allVars(OfTimers(Timers!Returns))

(* The fairness of SimpleKv!FairSpec; x8 is its `raced'.                   *)
KvSpec ==
  /\ LoopsInit /\ [][LoopsNext]_allVars
  /\ WF_allVars(Of("kv", ~ x8 /\ Kv!LoopStep))
  /\ \A w \in KvWorkers : WF_allVars(Of("kv", ~ x8 /\ Kv!WorkerStep(w)))
  /\ \A c \in KvClients : WF_allVars(Of("kv", ~ x8 /\ Kv!Receive(c)))

-----------------------------------------------------------------------------
(* coroutine.c: the scheduler's current coroutine, the statuses and who    *)
(* runs agree, and whoever runs runs on its own stack's contents.          *)
SchedulerIntact == SchedulerAgrees /\ StackIsOwn

(* ae.cc: the loop calls what it should, when it should.  "maybe an        *)
(* already processed event removed an element that fired": a file callback *)
(* is only called for an event that is registered when it is called.  A    *)
(* time callback is not called before the time it was set for, nor in the  *)
(* pass in which its event was created; and a pass leaves none out that    *)
(* was due when it began, whatever the callbacks do to the list.           *)
LoopCallsWhatIsDue ==
  Files!CallsOnlyRegistered /\ Timers!RunsWhenDue /\ Timers!PassRunsAllDue


(* ae.cc: "Without special flags the function sleeps until some file event *)
(* fires, or when the next time event occurs": epoll_wait gives up by the  *)
(* time of the nearest time event.                                         *)
TimersSleepUntilTimer == part = "timers" => Timers!SleepsUntilTimer


(* simplekv_server.cc with ae.cc: "when fd becomes available, execute      *)
(* proc": a request that has been sent is answered, or its connection is   *)
(* closed.                                                                 *)
KvEveryRequestAnswered == part = "kv" => Kv!EveryRequestAnswered
=============================================================================
