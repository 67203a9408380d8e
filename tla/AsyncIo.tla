------------------------------ MODULE AsyncIo -------------------------------
(***************************************************************************)
(* The clients of asynchronous I/O: io_uring_cat.c and liburing_cat.c read *)
(* the files they are given, one request after the other; AIOworker and    *)
(* AIOworker2 of aioworker.h take requests of many threads and a poller    *)
(* signals the wait group of each; nvmf_cli.c writes and reads back the    *)
(* first block of every namespace through callbacks.  The kernel and SPDK  *)
(* are external: requests complete in any order, and may fail.             *)
(***************************************************************************)
EXTENDS Integers, Sequences, FiniteSets, FiniteSetsExt, SequencesExt

CONSTANTS Programs,    \* those to run
          NFiles,      \* arguments of the cats
          IoTasks,     \* the requests of the workers, each of a thread of its own
          maxevents_,  \* events taken at once
          RingRoom,    \* requests the kernel accepts at a time, at least maxevents_
          NSpaces      \* namespaces of the target

VARIABLES prog, cat, aio, cli

vars == <<prog, cat, aio, cli>>

Cats == {"io_uring_cat", "liburing_cat"}
AioWorkers == {"AIOworker", "AIOworker2"}

Init ==
  /\ prog \in Programs
  /\ cat = [i |-> 1, pc |-> "setup", flight |-> {}, cq |-> <<>>, out |-> <<>>, trouble |-> FALSE]
  /\ aio = [queue |-> <<>>, flight |-> {}, events |-> <<>>, batch |-> <<>>, calls |-> [t \in IoTasks |-> "new"],
            dones |-> [t \in IoTasks |-> 0], stop |-> FALSE, pc |-> "loop"]
  /\ cli = [pc |-> "main", spaces |-> <<>>, attached |-> FALSE, ns |-> 1, qpair |-> FALSE, cmb |-> "no",
            buf |-> "none", flight |-> <<>>, is_completed |-> 0, block |-> [n \in 1 .. NSpaces |-> ""],
            printed |-> <<>>]

-----------------------------------------------------------------------------
(* The cats.  A completion is the file and whether it was read.            *)

Cat(p) == prog = p /\ UNCHANGED <<prog, aio, cli>>

app_setup_uring ==
  /\ Cat(prog) /\ prog \in Cats /\ cat.pc = "setup"
  /\ \/ cat' = [cat EXCEPT !.pc = "submit"]
     \/ prog = "io_uring_cat" /\ cat' = [cat EXCEPT !.pc = "exit", !.trouble = TRUE]

\* The file cannot be opened or sized, or memory or the system call fails.
Give_up ==
  /\ Cat(prog) /\ prog \in Cats /\ cat.pc = "submit" /\ cat.i <= NFiles
  /\ cat' = [cat EXCEPT !.pc = "exit", !.trouble = TRUE]

submit_to_sq ==
  /\ Cat("io_uring_cat") /\ cat.pc = "submit" /\ cat.i <= NFiles
  /\ cat' = [cat EXCEPT !.flight = @ \union {cat.i}, !.pc = "wait"]

submit_read_request ==
  /\ Cat("liburing_cat") /\ cat.pc = "submit" /\ cat.i <= NFiles
  /\ cat' = [cat EXCEPT !.flight = @ \union {cat.i}, !.pc = "wait"]

Complete_read ==
  /\ prog \in Cats /\ Cat(prog)
  /\ \E f \in cat.flight, ok \in BOOLEAN :
       cat' = [cat EXCEPT !.flight = @ \ {f}, !.cq = Append(@, [f |-> f, ok |-> ok]), !.trouble = @ \/ ~ok]

\* The head is left where it was.
BugReadFromCq ==
  /\ Cat("io_uring_cat") /\ cat.pc = "wait" /\ cat.cq # <<>>
  /\ cat' = [cat EXCEPT !.out = @ \o cat.cq, !.i = @ + 1, !.pc = "submit"]
\* io_uring_enter waited for a completion; all there are get printed, those of failed reads too.
read_from_cq ==
  /\ Cat("io_uring_cat") /\ cat.pc = "wait" /\ cat.cq # <<>>
  /\ cat' = [cat EXCEPT !.out = @ \o cat.cq, !.cq = <<>>, !.i = @ + 1, !.pc = "submit"]

\* A wait that fails, and a failed read, leave the completion where it is; main goes on.
get_completion_and_print ==
  /\ Cat("liburing_cat") /\ cat.pc = "wait"
  /\ \/ cat' = [cat EXCEPT !.trouble = TRUE, !.i = @ + 1, !.pc = "submit"]
     \/ cat.cq # <<>> /\ ~Head(cat.cq).ok /\ cat' = [cat EXCEPT !.i = @ + 1, !.pc = "submit"]
     \/ /\ cat.cq # <<>> /\ Head(cat.cq).ok
        /\ cat' = [cat EXCEPT !.out = Append(@, Head(cat.cq)), !.cq = Tail(@), !.i = @ + 1, !.pc = "submit"]

Exit ==
  /\ prog \in Cats /\ Cat(prog) /\ cat.pc = "submit" /\ cat.i > NFiles
  /\ cat' = [cat EXCEPT !.pc = "exit"]

CatStep ==
  app_setup_uring \/ Give_up \/ submit_to_sq \/ submit_read_request \/ Complete_read \/ read_from_cq
    \/ get_completion_and_print \/ Exit

-----------------------------------------------------------------------------
(* The workers.                                                            *)

Worker(p) == prog = p /\ aio.pc # "aborted" /\ UNCHANGED <<prog, cat, cli>>
Outstanding == aio.flight \union Range(aio.events)

\* assert(ret == n): the program ends when the kernel takes fewer.
io_submit(a, tasks) ==
  IF Cardinality(Outstanding) + Cardinality(tasks) > RingRoom THEN [a EXCEPT !.pc = "aborted"]
  ELSE [a EXCEPT !.flight = @ \union tasks]

\* submit_task, between the caller's Add and its Wait.
submit_task(t) ==
  /\ prog \in AioWorkers /\ Worker(prog) /\ aio.calls[t] = "new" /\ ~aio.stop
  /\ LET a == [aio EXCEPT !.calls[t] = "waiting"]
     IN  aio' = IF prog = "AIOworker" THEN io_submit(a, {t}) ELSE [a EXCEPT !.queue = Append(@, t)]

Complete_io ==
  /\ prog \in AioWorkers /\ Worker(prog)
  /\ \E t \in aio.flight : aio' = [aio EXCEPT !.flight = @ \ {t}, !.events = Append(@, t)]

io_getevents ==
  /\ prog \in AioWorkers /\ Worker(prog) /\ aio.pc = "loop" /\ ~aio.stop /\ aio.events # <<>>
  /\ LET n == Min({maxevents_, Len(aio.events)})
     IN  aio' = [aio EXCEPT !.batch = SubSeq(aio.events, 1, n), !.events = SubSeq(@, n + 1, Len(@)), !.pc = "done"]

\* Only when nothing has completed, though requests may be outstanding.
submit ==
  /\ Worker("AIOworker2") /\ aio.pc = "loop" /\ ~aio.stop /\ aio.events = <<>> /\ aio.queue # <<>>
  /\ LET n == Min({maxevents_, Len(aio.queue)})
     IN  aio' = io_submit([aio EXCEPT !.queue = SubSeq(@, n + 1, Len(@))], Range(SubSeq(aio.queue, 1, n)))

\* wg->Done() for each event of the batch, and its caller's Wait returns.
Done ==
  /\ prog \in AioWorkers /\ Worker(prog) /\ aio.pc = "done"
  /\ aio' = IF aio.batch = <<>> THEN [aio EXCEPT !.pc = "loop"]
            ELSE [aio EXCEPT !.dones[Head(aio.batch)] = @ + 1, !.calls[Head(aio.batch)] = "returned",
                             !.batch = Tail(@)]

Destroy ==
  /\ prog \in AioWorkers /\ Worker(prog)
  /\ \/ ~aio.stop /\ aio' = [aio EXCEPT !.stop = TRUE]
     \/ aio.stop /\ aio.pc = "loop" /\ aio' = [aio EXCEPT !.pc = "joined", !.flight = {}, !.events = <<>>]

PollerStep == io_getevents \/ submit \/ Done
WorkerStep == (\E t \in IoTasks : submit_task(t)) \/ Complete_io \/ PollerStep \/ Destroy

-----------------------------------------------------------------------------
(* nvmf_cli: hello_world, for one namespace after the other.  flight is    *)
(* the queue pair's commands and the buffers they use.                     *)

Client(pc) == prog = "nvmf_cli" /\ cli.pc = pc /\ UNCHANGED <<prog, cat, aio>>
Submit(c, cmd) == [c EXCEPT !.flight = Append(@, [cmd |-> cmd, buf |-> c.buf])]

Write(c) == [Submit(c, "write") EXCEPT !.pc = "poll"]
exit(c) == [c EXCEPT !.pc = "exit"]

\* The active namespaces of the controller, in order.
register_ns(active) == SelectSeq([n \in 1 .. NSpaces |-> n], LAMBDA n : n \in active)
attach_cb(c, active) == [c EXCEPT !.attached = TRUE, !.spaces = register_ns(active)]

\* Wrong arguments or no environment; no controller, found or answering; or one.
main ==
  /\ Client("main")
  /\ \/ cli' = exit(cli)
     \/ cli' = [cli EXCEPT !.pc = "cleanup"]
     \/ \E active \in SUBSET (1 .. NSpaces) : cli' = [attach_cb(cli, active) EXCEPT !.pc = "next"]

\* Queue pair and buffer: the controller's own if it has room, or memory of the host;
\* a command that cannot be started ends the program.
hello_world ==
  /\ Client("next")
  /\ IF cli.ns > Len(cli.spaces) THEN cli' = [cli EXCEPT !.pc = "cleanup"]
     ELSE \/ cli' = [cli EXCEPT !.pc = "cleanup"]
          \/ \E cmb \in {"no", "small", "used"}, room, zns \in BOOLEAN :
               LET c == [cli EXCEPT !.qpair = TRUE, !.cmb = cmb, !.is_completed = 0,
                                    !.buf = IF cmb = "used" THEN "cmb" ELSE IF room THEN "host" ELSE "none"]
               IN  cli' = CASE c.buf = "none" -> [c EXCEPT !.pc = "cleanup"]
                            [] c.buf # "none" /\ zns -> [Submit(c, "reset") EXCEPT !.pc = "reset"]
                            [] c.buf # "none" /\ ~zns -> Write(c)
          \/ cli' = [exit(cli) EXCEPT !.qpair = TRUE]

\* Without the reset of is_completed.
BugResetZone ==
  /\ Client("reset") /\ cli.is_completed = 1
  /\ cli' = Write(cli)
reset_zone_and_wait_for_completion ==
  /\ Client("reset") /\ cli.is_completed = 1
  /\ cli' = Write([cli EXCEPT !.is_completed = 0])

reset_zone_complete(c) == [c EXCEPT !.is_completed = 1]

\* What was written lies in the block; its buffer goes, and the read gets a new one.
write_complete(c) ==
  Submit([c EXCEPT !.block[c.spaces[c.ns]] = "hello", !.cmb = IF c.buf = "cmb" THEN "no" ELSE @, !.buf = "read"], "read")
read_complete(c) ==
  [c EXCEPT !.printed = Append(@, c.block[c.spaces[c.ns]]), !.buf = "none", !.is_completed = 1]

\* A failed command, or a read that cannot be started, ends the program.
process_completions ==
  /\ prog = "nvmf_cli" /\ UNCHANGED <<prog, cat, aio>>
  /\ cli.pc \in {"reset", "poll"} /\ cli.is_completed = 0 /\ cli.flight # <<>>
  /\ LET c   == [cli EXCEPT !.flight = Tail(@)]
         cmd == Head(cli.flight).cmd
     IN  \/ cli' = exit(c)
         \/ cmd = "reset" /\ cli' = reset_zone_complete(c)
         \/ cmd = "write" /\ cli' = write_complete(c)
         \/ cmd = "read" /\ cli' = read_complete(c)

free_io_qpair ==
  /\ Client("poll") /\ cli.is_completed = 1
  /\ cli' = [cli EXCEPT !.qpair = FALSE, !.ns = @ + 1, !.pc = "next"]

cleanup ==
  /\ Client("cleanup")
  /\ cli' = [exit(cli) EXCEPT !.spaces = <<>>, !.attached = FALSE]

ClientStep ==
  main \/ hello_world \/ reset_zone_and_wait_for_completion \/ process_completions \/ free_io_qpair \/ cleanup

-----------------------------------------------------------------------------
Next == CatStep \/ WorkerStep \/ ClientStep

Spec == Init /\ [][Next]_vars
FairSpec == Spec /\ WF_vars(CatStep) /\ WF_vars(PollerStep) /\ WF_vars(Complete_io) /\ WF_vars(ClientStep)

(***************************************************************************)
(* No request is answered twice or for another: a cat prints a file at     *)
(* most once, io_uring_cat in the order of its arguments, and both print   *)
(* all of them when nothing went wrong; a worker signals a request's wait  *)
(* group once, after it completed and never after the poller was joined.   *)
(* nvmf_cli frees a queue pair only with nothing in flight and its buffer  *)
(* released, and prints of every namespace what it wrote.                  *)
(***************************************************************************)
RequestsAccountedFor ==
  /\ LET printed == [k \in DOMAIN cat.out |-> cat.out[k].f]
     IN  /\ IsInjective(printed)
         /\ prog = "io_uring_cat" => \A k \in DOMAIN printed : printed[k] = k
         /\ cat.pc = "exit" /\ ~cat.trouble => Len(printed) = NFiles
  /\ \A t \in IoTasks :
       /\ aio.dones[t] = IF aio.calls[t] = "returned" THEN 1 ELSE 0
       /\ aio.calls[t] = "returned" => t \notin Outstanding \union Range(aio.queue) \union Range(aio.batch)
       /\ aio.calls[t] = "waiting" /\ aio.pc \notin {"joined", "aborted"} =>
            t \in Outstanding \union Range(aio.queue) \union Range(aio.batch)
  /\ cli.pc = "next" => cli.flight = <<>> /\ ~cli.qpair /\ cli.buf = "none"
  /\ \A c \in Range(cli.flight) : cli.pc # "exit" => c.buf = cli.buf /\ c.buf # "none"
  /\ \A k \in DOMAIN cli.printed : cli.printed[k] = "hello"

(***************************************************************************)
(* A request given to a worker is answered, unless the worker is being     *)
(* destroyed or its assertion failed; the cats and nvmf_cli come to an     *)
(* end.                                                                    *)
(***************************************************************************)
Waits(t) == aio.calls[t] = "waiting"
Settled(t) == aio.calls[t] = "returned" \/ aio.stop \/ aio.pc = "aborted"
Running == (prog \in Cats /\ cat.pc # "exit") \/ (prog = "nvmf_cli" /\ cli.pc # "exit")
RequestsAnswered ==
  /\ \A t \in IoTasks : Waits(t) ~> Settled(t)
  /\ Running ~> ~ Running

(***************************************************************************)
(* "assert(ret == count)" of AIOworker2::submit (aioworker.h:117).         *)
(***************************************************************************)
AllSubmitted == aio.pc # "aborted"
=============================================================================
