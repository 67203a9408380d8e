------------------------------ MODULE SimpleKv ------------------------------
(***************************************************************************)
(* The key-value server of app/simpleKV with its clients.  One thread runs *)
(* the event loop of ae.cc, edge triggered; a callback hands the ready     *)
(* connection to a worker of the thread pool, and the worker, not the      *)
(* loop, registers the connection for what comes next.  A store in memory  *)
(* lies before the database.                                               *)
(*                                                                         *)
(* Sockets, epoll, the thread pool's queue and the database are external.  *)
(* A library client (simplekv_client.h) waits for a whole line; any other  *)
(* client takes an answer as it comes.                                     *)
(***************************************************************************)
EXTENDS Integers, Sequences, FiniteSets, SequencesExt

CONSTANTS KvClients, KvKeys,
          Requests,      \* by client: what it asks for, one after the other
          Closing,       \* clients that may close their connection
          ClientKinds,   \* subset of {"library", "any"}
          KvWorkers,     \* kBackThreads
          DbFails        \* a write to the database may fail

VARIABLES kind,          \* of the clients
          conn,          \* connections: socket, registration, client_data
          loop,          \* the event loop and its listening socket
          queue,         \* tasks of the pool
          worker, store, db,
          raced          \* the store was written by two threads at once

vars == <<kind, conn, loop, queue, worker, store, db, raced>>

Absent == 0              \* values are positive
None == <<"none", 0, 0>> \* no request; a request is <<operation, key, value>>
NoAnswer == -1
SUCCESS == -2
FAIL == -3
Idle == [pc |-> "idle", c |-> CHOOSE c \in KvClients : TRUE, res |-> NoAnswer]

Init ==
  /\ kind \in ClientKinds
  /\ conn = [c \in KvClients |->
       [st |-> "new", sent |-> 0, got |-> <<>>, in |-> <<>>, out |-> <<>>, eof |-> FALSE,
        mask |-> {}, epoll |-> {}, ready |-> {}, recvbuf |-> None, sendbuf |-> NoAnswer]]
  /\ loop = [fired |-> <<>>, backlog |-> <<>>, ready |-> FALSE, accept |-> FALSE]
  /\ queue = <<>>
  /\ worker = [w \in KvWorkers |-> Idle]
  /\ store = [k \in KvKeys |-> Absent] /\ db \in [KvKeys -> {Absent, 1}]
  /\ raced = FALSE

-----------------------------------------------------------------------------
(* Registration, on connection d.                                          *)

\* An edge: what was not ready before, or what is ready when it is registered.
ReadyOf(d, events) ==
  events \intersect ((IF d.in # <<>> \/ d.eof THEN {"READABLE"} ELSE {}) \union {"WRITABLE"})
aeEpollAddEvent(d, m) == [d EXCEPT !.epoll = d.mask \union {m}, !.ready = ReadyOf(d, d.mask \union {m})]
SetMask(d, m) == [d EXCEPT !.mask = @ \union {m}]
aeDeleteFileEvent(d, m) ==
  IF d.mask = {} THEN d
  ELSE [d EXCEPT !.mask = @ \ {m}, !.epoll = d.mask \ {m},
                 !.ready = IF d.mask \ {m} = {} THEN {} ELSE ReadyOf(d, d.mask \ {m})]
Arrives(d) == IF "READABLE" \in d.epoll THEN [d EXCEPT !.ready = @ \union {"READABLE"}] ELSE d

-----------------------------------------------------------------------------
(* The clients.                                                            *)

Connect(c) ==
  /\ conn[c].st = "new"
  /\ conn' = [conn EXCEPT ![c].st = "connecting"]
  /\ loop' = [loop EXCEPT !.backlog = Append(@, c), !.ready = TRUE]
  /\ UNCHANGED <<kind, queue, worker, store, db, raced>>

\* put, get and del of a client: the request is written, and its answer waited for.
Send(c) ==
  /\ conn[c].st = "open" /\ conn[c].sent < Len(Requests[c]) /\ Len(conn[c].got) = conn[c].sent
  /\ conn' = [conn EXCEPT ![c] = Arrives([@ EXCEPT !.in = Append(@, Requests[c][conn[c].sent + 1]), !.sent = @ + 1])]
  /\ UNCHANGED <<kind, loop, queue, worker, store, db, raced>>

\* readline of the library returns at a newline, and no answer has one.
Receive(c) ==
  /\ kind = "any" /\ conn[c].out # <<>>
  /\ conn' = [conn EXCEPT ![c].got = Append(@, Head(conn[c].out)), ![c].out = Tail(@)]
  /\ UNCHANGED <<kind, loop, queue, worker, store, db, raced>>

\* At any time, also while an answer is due.
Close(c) ==
  /\ c \in Closing /\ conn[c].st = "open" /\ conn[c].sent > 0
  /\ conn' = [conn EXCEPT ![c] = Arrives([@ EXCEPT !.st = "closed", !.eof = TRUE])]
  /\ UNCHANGED <<kind, loop, queue, worker, store, db, raced>>

-----------------------------------------------------------------------------
(* The loop: aeProcessEvents with the callbacks of the server.             *)

\* epoll_wait: every ready connection, each edge once.
Wait ==
  LET now == {c \in KvClients : conn[c].ready # {}}
  IN  /\ loop.fired = <<>> /\ ~loop.accept /\ (now # {} \/ loop.ready)
      /\ \E order \in SetToSeqs(now) :
           loop' = [loop EXCEPT !.fired = [i \in DOMAIN order |-> [c |-> order[i], m |-> conn[order[i]].ready]],
                                !.accept = loop.ready, !.ready = FALSE]
      /\ conn' = [c \in KvClients |-> [conn[c] EXCEPT !.ready = {}]]
      /\ UNCHANGED <<kind, queue, worker, store, db, raced>>

\* One connection of the backlog.
acceptFunc ==
  /\ loop.accept
  /\ loop' = [loop EXCEPT !.accept = FALSE, !.backlog = Tail(@)]
  /\ conn' = [conn EXCEPT ![Head(loop.backlog)] =
                SetMask(aeEpollAddEvent([@ EXCEPT !.st = "open"], "READABLE"), "READABLE")]
  /\ UNCHANGED <<kind, queue, worker, store, db, raced>>

\* readFunc and writeFunc, for what is still registered.
Dispatch ==
  /\ loop.fired # <<>>
  /\ LET f == Head(loop.fired)
         m == conn[f.c].mask \intersect f.m
     IN  queue' = queue \o (IF "READABLE" \in m THEN <<[f |-> "process_read", c |-> f.c]>> ELSE <<>>)
                        \o (IF "WRITABLE" \in m THEN <<[f |-> "process_write", c |-> f.c]>> ELSE <<>>)
  /\ loop' = [loop EXCEPT !.fired = Tail(@)]
  /\ UNCHANGED <<kind, conn, worker, store, db, raced>>

LoopStep == Wait \/ acceptFunc \/ Dispatch

-----------------------------------------------------------------------------
(* The workers.                                                            *)

Goes(w, pc) == worker' = [worker EXCEPT ![w].pc = pc]
With(w, pc, res) == worker' = [worker EXCEPT ![w] = [@ EXCEPT !.pc = pc, !.res = res]]
Ends(w) == worker' = [worker EXCEPT ![w] = Idle]
At(w, pc) == worker[w].pc = pc
Conn(w) == conn[worker[w].c]
Request(w) == Conn(w).recvbuf
Update(w, d) == conn' = [conn EXCEPT ![worker[w].c] = d]

Take(w) ==
  /\ At(w, "idle") /\ queue # <<>>
  /\ worker' = [worker EXCEPT ![w] = [pc |-> Head(queue).f, c |-> Head(queue).c, res |-> NoAnswer]]
  /\ queue' = Tail(queue)
  /\ UNCHANGED <<kind, conn, loop, store, db, raced>>

\* Nothing to read, or the end: the connection is no longer watched.
process_read(w) ==
  /\ At(w, "process_read")
  /\ \/ /\ Conn(w).in = <<>>
        /\ Update(w, aeDeleteFileEvent(Conn(w), "READABLE"))
        /\ Ends(w)
     \/ /\ Conn(w).in # <<>>
        /\ Update(w, [Conn(w) EXCEPT !.recvbuf = Head(Conn(w).in), !.in = Tail(@)])
        /\ Goes(w, "handle")
  /\ UNCHANGED <<kind, loop, queue, store, db, raced>>

Filling == \E w \in KvWorkers : At(w, "fill")

\* handle_req: the store, under its lock.
handle_req(w) ==
  LET op == Request(w)[1]
      k  == Request(w)[2]
  IN  /\ At(w, "handle")
      /\ store' = CASE op = "PUT" -> [store EXCEPT ![k] = Request(w)[3]]
                    [] op = "DEL" -> [store EXCEPT ![k] = Absent]
                    [] op = "GET" -> store
      /\ worker' = [worker EXCEPT ![w] = IF op = "GET" /\ store[k] # Absent
                                         THEN [@ EXCEPT !.pc = "answer", !.res = store[k]]
                                         ELSE [@ EXCEPT !.pc = "db"]]
      /\ raced' = Filling
      /\ UNCHANGED <<kind, conn, loop, queue, db>>

\* The database; what was found there goes to the store, without the lock.
Database(w) ==
  LET op == Request(w)[1]
      k  == Request(w)[2]
  IN  /\ At(w, "db")
      /\ \/ /\ op = "GET" /\ db[k] # Absent
            /\ With(w, "fill", db[k])
            /\ raced' = Filling
            /\ UNCHANGED db
         \/ /\ op = "GET" /\ db[k] = Absent
            /\ With(w, "answer", FAIL)
            /\ UNCHANGED <<db, raced>>
         \/ /\ op # "GET"
            /\ db' = [db EXCEPT ![k] = IF op = "PUT" THEN Request(w)[3] ELSE Absent]
            /\ With(w, "answer", SUCCESS)
            /\ UNCHANGED raced
         \/ /\ op # "GET" /\ DbFails
            /\ With(w, "answer", FAIL)
            /\ UNCHANGED <<db, raced>>
      /\ UNCHANGED <<kind, conn, loop, queue, store>>

Fill(w) ==
  /\ At(w, "fill")
  /\ store' = [store EXCEPT ![Request(w)[2]] = worker[w].res]
  /\ Goes(w, "answer")
  /\ UNCHANGED <<kind, conn, loop, queue, db, raced>>

\* Registered for writing before the answer is in the buffer.
BugAnswer(w) ==
  /\ At(w, "answer")
  /\ Update(w, aeDeleteFileEvent(Conn(w), "READABLE"))
  /\ Goes(w, "add write")
  /\ UNCHANGED <<kind, loop, queue, store, db, raced>>
Answer(w) ==
  /\ At(w, "answer")
  /\ Update(w, aeDeleteFileEvent([Conn(w) EXCEPT !.sendbuf = worker[w].res], "READABLE"))
  /\ Goes(w, "add write")
  /\ UNCHANGED <<kind, loop, queue, store, db, raced>>

\* aeCreateFileEvent: epoll is told first, the mask the loop looks at comes after.
aeCreateFileEvent(w, add, set, m) ==
  /\ \/ /\ At(w, add)
        /\ Update(w, aeEpollAddEvent(Conn(w), m))
        /\ Goes(w, set)
     \/ /\ At(w, set)
        /\ Update(w, SetMask(Conn(w), m))
        /\ Ends(w)
  /\ UNCHANGED <<kind, loop, queue, store, db, raced>>

\* A write that does not take the whole answer gives up; to a closed connection it may do either.
process_write(w) ==
  /\ \/ /\ At(w, "process_write")
        /\ \/ /\ Update(w, [Conn(w) EXCEPT !.out = IF Conn(w).eof THEN @ ELSE Append(@, Conn(w).sendbuf)])
              /\ Goes(w, "del write")
           \/ /\ Conn(w).eof
              /\ Ends(w)
              /\ UNCHANGED conn
     \/ /\ At(w, "del write")
        /\ Update(w, aeDeleteFileEvent(Conn(w), "WRITABLE"))
        /\ Goes(w, "add read")
  /\ UNCHANGED <<kind, loop, queue, store, db, raced>>

WorkerStep(w) ==
  \/ Take(w) \/ process_read(w) \/ handle_req(w) \/ Database(w) \/ Fill(w) \/ Answer(w) \/ process_write(w)
  \/ aeCreateFileEvent(w, "add write", "set write", "WRITABLE")
  \/ aeCreateFileEvent(w, "add read", "set read", "READABLE")

-----------------------------------------------------------------------------
ClientStep(c) == Connect(c) \/ Send(c) \/ Receive(c) \/ Close(c)
\* What follows two unsynchronized accesses to the store is undefined.
Next == ~raced /\ (LoopStep \/ (\E w \in KvWorkers : WorkerStep(w)) \/ (\E c \in KvClients : ClientStep(c)))

Spec == Init /\ [][Next]_vars
FairSpec ==
  /\ Spec /\ WF_vars(~raced /\ LoopStep)
  /\ \A w \in KvWorkers : WF_vars(~raced /\ WorkerStep(w))
  /\ \A c \in KvClients : WF_vars(~raced /\ Receive(c))

Working(c) == {w \in KvWorkers : worker[w].pc # "idle" /\ worker[w].c = c /\ Conn(w).recvbuf # None}
InBuffers(w) == worker[w].pc \in {"handle", "db", "fill", "answer"}
Answers(c) == conn[c].got \o conn[c].out
PutTo(k) == {1} \union {Requests[c][i][3] : <<c, i>> \in {<<c, i>> \in KvClients \X (1 .. 3) :
               i <= Len(Requests[c]) /\ Requests[c][i][1] = "PUT" /\ Requests[c][i][2] = k}}

(***************************************************************************)
(* An open connection is answered once at most for each request, with an   *)
(* answer to that request and never with one left in its buffer: a GET is  *)
(* answered with a value that was put under its key, or not found.  No two *)
(* workers use the buffers of one connection at a time, though the loop    *)
(* may hand the same connection out again.                                 *)
(***************************************************************************)
AnswersAreOwn ==
  \A c \in KvClients :
    /\ conn[c].st = "open" => Len(Answers(c)) <= conn[c].sent
    /\ \A i \in DOMAIN Answers(c) : i <= conn[c].sent =>
         Answers(c)[i] \in IF Requests[c][i][1] = "GET" THEN PutTo(Requests[c][i][2]) \union {FAIL}
                           ELSE {SUCCESS, FAIL}
    /\ Cardinality({w \in Working(c) : InBuffers(w)}) <= 1

(***************************************************************************)
(* aeCreateFileEvent (ae.cc:211-212): "listen for the state of fd; when fd *)
(* becomes available, run proc" (translated).  Here: a request of a        *)
(* connection that was accepted is answered.                               *)
(***************************************************************************)
EveryRequestAnswered ==
  \A c \in KvClients : \A i \in 1 .. 3 :
    conn[c].sent = i ~> Len(conn[c].got) >= i \/ conn[c].out # <<>> \/ conn[c].st = "closed"
=============================================================================
