----------------------------- MODULE MCMonitors -----------------------------
(***************************************************************************)
(* Monitors and the programs whose threads wait for completions, side by   *)
(* side for TLC: to the parts of Monitors come                             *)
(*   "nvmf"    Nvmf, the target                                            *)
(*   "rdma"    Rdma, client and server                                     *)
(*   "aio"     AsyncIo, the io_uring and AIO programs and nvmf_cli         *)
(* which keep their state in the variables x1 .. x6.                       *)
(***************************************************************************)
EXTENDS Monitors

CONSTANT NULL

VARIABLES x1, x2, x3, x4, x5, x6

x5on == <<x5, x6>>
registers == <<x1, x2, x3, x4, x5on>>
allVars == <<workVars, registers>>

\* Any of the calls that build the target may fail.
Failing == {"target", "discovery", "subsystem"}
Target == INSTANCE Nvmf
  WITH NCores <- 2, NSubsystems <- 2, MaxMigrations <- 1,
       tgt <- x1, lw <- x2, ring <- x3, reactor <- x4

Modes == {"M_WRITE", "M_READ"}
Link == INSTANCE Rdma
  WITH s_mode <- x1, conn <- x2, nic <- x3, events <- x4, poller <- x5, printed <- x6

Programs == {"io_uring_cat", "liburing_cat", "AIOworker", "AIOworker2", "nvmf_cli"}
IoTasks == {1, 2, 3}
Io == INSTANCE AsyncIo
  WITH NFiles <- 3, maxevents_ <- 2, RingRoom <- 2, NSpaces <- 2,
       prog <- x1, cat <- x2, aio <- x3, cli <- x4

\* A step of one of the monitors.
Only(A) == A /\ UNCHANGED registers
\* A part that leaves the variables `rest' alone.
Of(name, A, rest) == part = name /\ A /\ UNCHANGED <<workVars, rest>>

\* The variables a part does not use.
Unused5 == x5 = NULL /\ x6 = NULL
Unused1 == x1 = NULL /\ x2 = NULL /\ x3 = NULL /\ x4 = NULL /\ Unused5

MonitorsInit ==
  /\ WorkInit
  /\ \/ part \in {"rwlock", "pool", "group", "commit"} /\ Unused1
     \/ part = "nvmf" /\ Target!Init /\ Unused5
     \/ part = "rdma" /\ Link!Init
     \/ part = "aio" /\ Io!Init /\ Unused5

MonitorsNext ==
  \/ Only(OfLock(Next)) \/ Only(OfPool(Pool!Next))
  \/ Only(OfGroup(Group!Next)) \/ Only(OfCommit(Commit!Next))
  \/ Of("nvmf", Target!Next, x5on)
  \/ Of("rdma", Link!Next, <<>>)
  \/ Of("aio", Io!Next, x5on)

(* The fairness of the FairSpec of each.                                   *)
MonitorsSpec ==
  /\ MonitorsInit /\ [][MonitorsNext]_allVars
  /\ \A t \in Threads : WF_allVars(Only(OfLock(Step(t)))) /\ WF_allVars(Only(OfLock(Unlock(t))))
  /\ WF_allVars(Only(OfPool(Pool!OwnerStep)))
  /\ \A w \in PoolWorkers : WF_allVars(Only(OfPool(Pool!WorkerStep(w))))
  /\ \A w \in Workers : WF_allVars(Only(OfGroup(Group!WorkerStep(w))))
  /\ \A t \in Waiters : SF_allVars(Only(OfGroup(Group!WaiterStep(t))))
  /\ \A u \in Users : WF_allVars(Only(OfCommit(Commit!Step(u))))
  /\ \A c \in Target!Cores : WF_allVars(Of("nvmf", Target!Step(c), x5on))
  /\ \A s \in Link!Sides : /\ WF_allVars(Of("rdma", Link!EventStep(s), <<>>))
                           /\ WF_allVars(Of("rdma", Link!PollerStep(s), <<>>))
                           /\ WF_allVars(Of("rdma", Link!Deliver(s), <<>>))
  /\ WF_allVars(Of("aio", Io!CatStep, x5on))
  /\ WF_allVars(Of("aio", Io!PollerStep, x5on))
  /\ WF_allVars(Of("aio", Io!Complete_io, x5on))
  /\ WF_allVars(Of("aio", Io!ClientStep, x5on))

-----------------------------------------------------------------------------
(* The programs that wait for completions keep account of them.  nvmf_tgt: *)
(* a lightweight thread is on one reactor, and destroyed with no message   *)
(* unread.  rdma: a side prints the other's message, never its region as   *)
(* it was before.  The io_uring cats, AIOworker and nvmf_cli: no request   *)
(* is answered twice, for another, or after its owner left.                *)
CompletionsAreOwn ==
  /\ part = "nvmf" => Target!ThreadsIntact
  /\ part = "rdma" => Link!MessagesExchanged
  /\ part = "aio" => Io!RequestsAccountedFor


(* WaitGroup: Wait returns once every worker has called Done.              *)
GroupWaitReturns == part = "group" => Group!WaitReturns
=============================================================================
