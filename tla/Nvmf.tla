-------------------------------- MODULE Nvmf --------------------------------
(***************************************************************************)
(* The NVMe-over-Fabrics target of example/nvmf/nvmf_tgt.c.  A reactor per *)
(* core polls the lightweight threads in its ring, taking them out while   *)
(* it does; a poll runs the messages that were queued when it began.  The  *)
(* main thread drives the target through its states, the thread of each    *)
(* poll group creates and destroys its group and may be sent to another    *)
(* core.  A signal asks for shutdown at any time.                          *)
(*                                                                         *)
(* SPDK is external: its asynchronous calls answer with a message to the   *)
(* calling thread; a thread that was told to exit has exited once it was   *)
(* polled with no message left.                                            *)
(***************************************************************************)
EXTENDS Integers, Sequences, FiniteSets, SequencesExt

CONSTANTS NCores, NSubsystems,
          Failing,        \* the external calls that may fail
          MaxMigrations   \* how often the migration poller may run

VARIABLES tgt,            \* the globals of the target
          lw,             \* the lightweight threads
          ring,           \* by core: the threads a reactor is to poll
          reactor         \* by core: what the reactor is doing

vars == <<tgt, lw, ring, reactor>>

Cores == 1 .. NCores
Main == 0                 \* g_init_thread; the thread of a poll group has its core's number
LwThreads == {Main} \union Cores
Subsystems == 1 .. NSubsystems

NVMF_INIT_SUBSYSTEM == 0
NVMF_INIT_TARGET == 1
NVMF_INIT_POLL_GROUPS == 2
NVMF_INIT_START_SUBSYSTEMS == 3
NVMF_RUNNING == 4
NVMF_FINI_STOP_SUBSYSTEMS == 5
NVMF_FINI_POLL_GROUPS == 6
NVMF_FINI_TARGET == 7
NVMF_FINI_SUBSYSTEM == 8

Msg(f, a) == [f |-> f, a |-> a]

\* main: the reactors are created, then the main thread on the first core.
Init ==
  /\ tgt = [state |-> NVMF_INIT_SUBSYSTEM, up |-> FALSE, active |-> {}, groups |-> {}, num |-> 0,
            alive |-> {}, poller |-> FALSE, migrations |-> 0, exit |-> FALSE, intr |-> FALSE, dangling |-> FALSE]
  /\ lw = [t \in LwThreads |-> [st |-> IF t = Main THEN "running" ELSE "none", mask |-> IF t = Main THEN 1 ELSE t,
                              resched |-> FALSE, msgs |-> IF t = Main THEN <<Msg("app_start", 0)>> ELSE <<>>]]
  /\ ring = [c \in Cores |-> IF c = 1 THEN <<Main>> ELSE <<>>]
  /\ reactor = [c \in Cores |-> [pc |-> "loop", th |-> Main, left |-> 0]]

-----------------------------------------------------------------------------
(* The states of the target.  g is the target, the threads and the rings;  *)
(* bad are the calls that fail, refused the subsystems that do not start   *)
(* or stop.                                                                *)

spdk_thread_send_msg(g, t, m) == [g EXCEPT !.lw[t].msgs = Append(@, m)]
Callback(g, f, a) == spdk_thread_send_msg(g, Main, Msg(f, a))
Enter(g, state) == [g EXCEPT !.tgt.state = state]

\* By its mask, a single core: where g_next_reactor stands does not matter then.
nvmf_schedule_spdk_thread(g, t) ==
  [g EXCEPT !.ring[g.lw[t].mask] = Append(@, t), !.lw[t].resched = FALSE]

FiniSubsystem(g) == Callback(Enter(g, NVMF_FINI_SUBSYSTEM), "fini_done", 0)

nvmf_destroy_nvmf_tgt(g) ==
  IF g.tgt.up THEN Callback(Enter(g, NVMF_FINI_TARGET), "tgt_destroy_done", 0) ELSE FiniSubsystem(g)

nvmf_poll_groups_destroy(g) ==
  [Enter(g, NVMF_FINI_POLL_GROUPS) EXCEPT
     !.tgt.groups = {},
     !.lw = [t \in LwThreads |-> IF t \in g.tgt.groups
                               THEN [g.lw[t] EXCEPT !.msgs = Append(@, Msg("destroy_poll_group", t))]
                               ELSE g.lw[t]]]

\* The next subsystem that can be stopped; those that refuse are passed over.
nvmf_tgt_subsystem_stop_next(g, i, refused) ==
  LET next == {j \in Subsystems \ refused : j > i}
  IN  IF next = {} THEN nvmf_poll_groups_destroy(g)
      ELSE Callback(g, "stop_next", CHOOSE j \in next : \A k \in next : j <= k)

nvmf_tgt_stop_subsystems(g, refused) ==
  nvmf_tgt_subsystem_stop_next([Enter(g, NVMF_FINI_STOP_SUBSYSTEMS) EXCEPT !.tgt.poller = FALSE], 0, refused)

Running(g) == [Enter(g, NVMF_RUNNING) EXCEPT !.tgt.poller = MaxMigrations > 0]

\* One that does not start shuts the target down.
nvmf_tgt_subsystem_start_next(g, i, refused) ==
  IF i = NSubsystems THEN Running(g)
  ELSE IF i + 1 \in refused THEN nvmf_tgt_stop_subsystems(g, refused)
  ELSE Callback(g, "start_next", i + 1)

nvmf_tgt_create_poll_groups_done(g, t, refused) ==
  LET h == [g EXCEPT !.tgt.groups = @ \union {t}, !.tgt.num = @ + 1]
  IN  IF h.tgt.num = NCores
      THEN nvmf_tgt_subsystem_start_next(Enter(h, NVMF_INIT_START_SUBSYSTEMS), 0, refused) ELSE h

\* A thread per core, each asked to create its group.
nvmf_poll_groups_create(g) ==
  [Enter(g, NVMF_INIT_POLL_GROUPS) EXCEPT
     !.lw = [t \in LwThreads |-> IF t = Main THEN g.lw[t]
                               ELSE [g.lw[t] EXCEPT !.st = "running", !.msgs = <<Msg("create_poll_group", t)>>]],
     !.ring = [c \in Cores |-> Append(g.ring[c], c)]]

nvmf_create_nvmf_tgt(g, bad) ==
  CASE "target" \in bad -> nvmf_destroy_nvmf_tgt(g)
    [] "discovery" \in bad /\ "target" \notin bad -> nvmf_destroy_nvmf_tgt([g EXCEPT !.tgt.up = TRUE])
    [] bad \intersect {"target", "discovery"} = {} -> nvmf_poll_groups_create([g EXCEPT !.tgt.up = TRUE])

nvmf_subsystem_init_done(g, bad) ==
  IF "rpc" \in bad THEN g ELSE nvmf_create_nvmf_tgt(Enter(g, NVMF_INIT_TARGET), bad)

_nvmf_shutdown_cb(g, refused) ==
  CASE g.tgt.state < NVMF_RUNNING -> Callback(g, "shutdown", 0)
    [] g.tgt.state = NVMF_RUNNING -> nvmf_tgt_stop_subsystems(g, refused)
    [] g.tgt.state > NVMF_RUNNING -> g

\* The group is gone: the main thread is told, and this thread exits.
nvmf_tgt_destroy_poll_groups_done(g, t) ==
  [Callback(g, "groups_done", t) EXCEPT !.tgt.alive = @ \ {t}, !.lw[t].st = "exiting"]

_nvmf_tgt_destroy_poll_groups_done(g) ==
  LET h == [g EXCEPT !.tgt.num = @ - 1]
  IN  IF h.tgt.num = 0 THEN nvmf_destroy_nvmf_tgt(h) ELSE h

\* On core c: to the next core.
migrate_poll_group_by_rr(g, t, c) == [g EXCEPT !.lw[t].mask = (c % NCores) + 1, !.lw[t].resched = TRUE]

migrate_poll_groups_by_rr(g) ==
  [g EXCEPT !.tgt.migrations = @ + 1,
            !.lw = [t \in LwThreads |-> IF t \in g.tgt.groups
                                      THEN [g.lw[t] EXCEPT !.msgs = Append(@, Msg("migrate", t))] ELSE g.lw[t]]]

\* Message m of thread t, run on core c.
Handled(g, t, c, m, bad, refused) ==
  CASE m.f = "app_start" -> Callback(g, "init_done", 0)
    [] m.f = "init_done" -> nvmf_subsystem_init_done(g, bad)
    [] m.f = "create_poll_group" -> Callback([g EXCEPT !.tgt.alive = @ \union {t}], "create_done", t)
    [] m.f = "create_done" -> nvmf_tgt_create_poll_groups_done(g, m.a, refused)
    [] m.f = "start_next" ->
         nvmf_tgt_subsystem_start_next([g EXCEPT !.tgt.active = @ \union {m.a}], m.a, refused)
    [] m.f = "shutdown" -> _nvmf_shutdown_cb(g, refused)
    [] m.f = "stop_next" -> nvmf_tgt_subsystem_stop_next([g EXCEPT !.tgt.active = @ \ {m.a}], m.a, refused)
    [] m.f = "destroy_poll_group" -> spdk_thread_send_msg(g, t, Msg("poll_group_destroyed", t))
    [] m.f = "poll_group_destroyed" -> nvmf_tgt_destroy_poll_groups_done(g, t)
    [] m.f = "groups_done" -> _nvmf_tgt_destroy_poll_groups_done(g)
    [] m.f = "tgt_destroy_done" -> FiniSubsystem([g EXCEPT !.tgt.up = FALSE])
    [] m.f = "fini_done" -> [g EXCEPT !.tgt.exit = TRUE]
    [] m.f = "migrate" -> migrate_poll_group_by_rr(g, t, c)

-----------------------------------------------------------------------------
(* The reactors: nvmf_reactor_run.                                         *)

Globals == [tgt |-> tgt, lw |-> lw, ring |-> ring]
Become(g) == tgt' = g.tgt /\ lw' = g.lw /\ ring' = g.ring
Polling(c, pc, t) == reactor' = [reactor EXCEPT ![c] = [pc |-> pc, th |-> t, left |-> Len(lw[t].msgs)]]
Goes(c, pc) == reactor' = [reactor EXCEPT ![c].pc = pc]
Exited(t) == lw[t].st = "exiting" /\ lw[t].msgs = <<>>

Dequeue(c) ==
  /\ reactor[c].pc = "loop" /\ ring[c] # <<>>
  /\ Polling(c, "poll", Head(ring[c]))
  /\ ring' = [ring EXCEPT ![c] = Tail(@)]
  /\ UNCHANGED <<tgt, lw>>

Handle(c, bad, refused) ==
  LET t == reactor[c].th
  IN  /\ reactor[c].pc \in {"poll", "drain poll"} /\ reactor[c].left > 0
      /\ Become(Handled([Globals EXCEPT !.lw[t].msgs = Tail(@)], t, c, Head(lw[t].msgs), bad, refused))
      /\ reactor' = [reactor EXCEPT ![c].left = @ - 1]

Migrate(c) ==
  /\ reactor[c].pc = "poll" /\ reactor[c].th = Main
  /\ tgt.poller /\ tgt.migrations < MaxMigrations
  /\ Become(migrate_poll_groups_by_rr(Globals))
  /\ UNCHANGED reactor

\* Put back although it was sent to another core.
BugDecide(c) ==
  LET t == reactor[c].th
      g == IF lw[t].resched THEN nvmf_schedule_spdk_thread(Globals, t) ELSE Globals
  IN  /\ reactor[c].pc = "poll" /\ reactor[c].left = 0
      /\ Become(IF Exited(t) THEN [g EXCEPT !.lw[t].st = "destroyed"] ELSE [g EXCEPT !.ring[c] = Append(@, t)])
      /\ Goes(c, IF tgt.exit THEN "drain" ELSE "loop")

\* After the poll: destroyed, sent to its core, or put back.
Decide(c) ==
  LET t == reactor[c].th
  IN  /\ reactor[c].pc = "poll" /\ reactor[c].left = 0
      /\ Become(CASE Exited(t) -> [Globals EXCEPT !.lw[t].st = "destroyed"]
                  [] ~Exited(t) /\ lw[t].resched -> nvmf_schedule_spdk_thread(Globals, t)
                  [] ~Exited(t) /\ ~lw[t].resched -> [Globals EXCEPT !.ring[c] = Append(@, t)])
      /\ Goes(c, IF tgt.exit THEN "drain" ELSE "loop")

Idle(c) ==
  /\ reactor[c].pc = "loop" /\ ring[c] = <<>> /\ tgt.exit
  /\ Goes(c, "drain")
  /\ UNCHANGED <<tgt, lw, ring>>

\* Every thread left is told to exit and polled, until it has.
Drain(c) ==
  /\ reactor[c].pc = "drain"
  /\ \/ /\ ring[c] = <<>>
        /\ Goes(c, "done")
        /\ UNCHANGED <<tgt, lw, ring>>
     \/ /\ ring[c] # <<>> /\ Exited(Head(ring[c]))
        /\ lw' = [lw EXCEPT ![Head(ring[c])].st = "destroyed"]
        /\ ring' = [ring EXCEPT ![c] = Tail(@)]
        /\ UNCHANGED <<tgt, reactor>>
     \/ /\ ring[c] # <<>> /\ ~Exited(Head(ring[c]))
        /\ lw' = [lw EXCEPT ![Head(ring[c])].st = "exiting"]
        /\ Polling(c, "drain poll", Head(ring[c]))
        /\ ring' = [ring EXCEPT ![c] = Tail(@)]
        /\ UNCHANGED tgt

DrainPolled(c) ==
  /\ reactor[c].pc = "drain poll" /\ reactor[c].left = 0
  /\ ring' = [ring EXCEPT ![c] = Append(@, reactor[c].th)]
  /\ Goes(c, "drain")
  /\ UNCHANGED <<tgt, lw>>

AllDone == \A c \in Cores : reactor[c].pc = "done"

\* A signal; the message goes to g_init_thread, whatever became of it.
nvmf_shutdown_cb ==
  /\ ~tgt.intr /\ ~AllDone
  /\ Become(IF lw[Main].st = "destroyed" THEN [Globals EXCEPT !.tgt.intr = TRUE, !.tgt.dangling = TRUE]
            ELSE Callback([Globals EXCEPT !.tgt.intr = TRUE], "shutdown", 0))
  /\ UNCHANGED reactor

Refusals == IF "subsystem" \in Failing THEN SUBSET Subsystems ELSE {{}}
Step(c) ==
  \/ Dequeue(c) \/ Migrate(c) \/ Decide(c) \/ Idle(c) \/ Drain(c) \/ DrainPolled(c)
  \/ \E bad \in SUBSET (Failing \ {"subsystem"}), refused \in Refusals : Handle(c, bad, refused)
Ended == AllDone /\ UNCHANGED vars
Next == nvmf_shutdown_cb \/ (\E c \in Cores : Step(c)) \/ Ended

Spec == Init /\ [][Next]_vars
FairSpec == Spec /\ \A c \in Cores : WF_vars(Step(c))
-----------------------------------------------------------------------------
Places(t) ==
  Cardinality({p \in Cores \X (1 .. NCores + 1) : p[2] <= Len(ring[p[1]]) /\ ring[p[1]][p[2]] = t})
    + Cardinality({c \in Cores : reactor[c].pc \in {"poll", "drain poll"} /\ reactor[c].th = t})

(***************************************************************************)
(* Through migration, failed starts and shutdown, a lightweight thread is  *)
(* polled by one reactor at a time and never lost between the rings; it is *)
(* destroyed with no message left unread, and when the reactors have       *)
(* returned every thread was destroyed.  The target is destroyed after the *)
(* last of its poll groups.                                                *)
(***************************************************************************)
ThreadsIntact ==
  /\ \A t \in LwThreads :
       /\ Places(t) = IF lw[t].st \in {"running", "exiting"} THEN 1 ELSE 0
       /\ lw[t].st = "destroyed" => lw[t].msgs = <<>>
       /\ AllDone => lw[t].st \in {"none", "destroyed"}
  /\ tgt.state >= NVMF_FINI_TARGET => tgt.alive = {}

(***************************************************************************)
(* A signal, in whatever state it finds the target, ends in all reactors   *)
(* returning.                                                              *)
(***************************************************************************)
Interrupted == tgt.intr
ShutdownCompletes == Interrupted ~> AllDone
=============================================================================
