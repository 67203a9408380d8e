------------------------------ MODULE Sockets -------------------------------
(***************************************************************************)
(* TcpSocket and Poller of cpp-util/epoller.cc: sockets that close their   *)
(* descriptor when destroyed, and an edge-triggered epoll loop that calls  *)
(* the handler of an FdObj.  The kernel is external: it gives the lowest   *)
(* free number to a new file, so that the number of a closed one comes     *)
(* back, and it drops a closed file from epoll.                            *)
(*                                                                         *)
(* Contract of the callers: the assertions of the code; an FdObj of a      *)
(* TcpSocket is removed before the socket is destroyed and is not closed   *)
(* through the poller, which is for the descriptors Accept returned; a     *)
(* handler removes no object but its own, and then returns non-zero.       *)
(***************************************************************************)
EXTENDS Integers, Sequences, FiniteSets, FiniteSetsExt

CONSTANTS TcpSockets, FdObjs,
          MaxFds,        \* descriptors are 0 .. MaxFds - 1
          MaxFiles,      \* files opened in all
          event_size_,   \* events one epoll_wait returns at most
          MaxLength      \* longest buffer of a BlockRead or BlockWrite

VARIABLES files,         \* by descriptor: the file it is of, or NoFile
          flags,         \* by file: O_NONBLOCK
          sock,          \* the TcpSockets
          obj,           \* the FdObjs
          epoll,         \* what is watched: file, object, events not yet reported
          accepted,      \* descriptors Accept returned to the caller
          loop,          \* RunOnce: where it is, and the events left
          io             \* a BlockRead or BlockWrite

vars == <<files, flags, sock, obj, epoll, accepted, loop, io>>

Fds == 0 .. MaxFds - 1
NoFile == 0
Idle == [op |-> "none", s |-> 0, offset |-> 0, len |-> 0, answer |-> FALSE]
NoSocket(st) == [st |-> st, fd |-> -1, file |-> NoFile, listened_ |-> FALSE, connected_ |-> FALSE,
                 non_blocked_ |-> FALSE]
NoObj(st) == [st |-> st, fd |-> -1, file |-> NoFile, owner |-> NoFile]

Init ==
  /\ files = [fd \in Fds |-> NoFile] /\ flags = <<>>
  /\ sock = [s \in TcpSockets |-> NoSocket("none")]
  /\ obj = [o \in FdObjs |-> NoObj("none")]
  /\ epoll = {} /\ accepted = {} /\ loop = [at |-> "out", events |-> <<>>] /\ io = Idle

-----------------------------------------------------------------------------
(* The kernel.                                                             *)

Free == {fd \in Fds : files[fd] = NoFile}
CanOpen == Free # {} /\ Len(flags) < MaxFiles
NewFile == Len(flags) + 1
Opens == /\ files' = [files EXCEPT ![Min(Free)] = NewFile]
         /\ flags' = Append(flags, FALSE)
Closes(fd) == /\ flags' = [flags EXCEPT ![files[fd]] = FALSE]
              /\ files' = [files EXCEPT ![fd] = NoFile]
              /\ epoll' = {e \in epoll : e.file # files[fd]}

Becomes(e, ready) == epoll' = (epoll \ {e}) \union {[e EXCEPT !.pending = @ \union ready]}

\* Data arrives, or room to write, or the peer hangs up.
Ready ==
  /\ \E e \in epoll, ready \in {{"IN"}, {"OUT"}} : ready \cap e.pending = {} /\ Becomes(e, ready)
  /\ UNCHANGED <<files, flags, sock, obj, accepted, loop, io>>

-----------------------------------------------------------------------------
(* TcpSocket.  Callers run outside the loop and in its handlers.           *)

InHandler == loop.at \in {"HandleRead", "HandleWrite"}
Caller == (loop.at = "out" \/ InHandler) /\ io.op = "none"
Alive(s) == sock[s].st = "alive"
Unused(s) == Alive(s) /\ sock[s].fd >= 0 /\ ~sock[s].listened_ /\ ~sock[s].connected_
Watched(file) == \E o \in FdObjs : obj[o].st = "live" /\ obj[o].file = file
SockOnly == UNCHANGED <<files, flags, obj, epoll, accepted, loop, io>>

Construct(s) ==
  /\ Caller /\ sock[s].st = "none"
  /\ sock' = [sock EXCEPT ![s].st = "alive"]
  /\ SockOnly

\* Remembered only when fcntl worked; `known' is what fcntl then finds.
SetNonBlock(s, k, known, non_blocked) ==
  \/ /\ sock' = [sock EXCEPT ![s] = [k EXCEPT !.non_blocked_ = non_blocked]]
     /\ flags' = [known EXCEPT ![k.file] = non_blocked]
  \/ sock' = [sock EXCEPT ![s] = k] /\ flags' = known

\* An option that fails returns before SetNonBlock, whose own failure is not
\* the -1 looked for: 0 is returned all the same.
InitSocket(s) ==
  /\ Caller /\ Alive(s)
  /\ \E non_blocked \in BOOLEAN :
       \/ /\ sock[s].fd = -1 /\ CanOpen
          /\ files' = [files EXCEPT ![Min(Free)] = NewFile]
          /\ LET k == [sock[s] EXCEPT !.fd = Min(Free), !.file = NewFile]
             IN  SetNonBlock(s, k, Append(flags, FALSE), non_blocked)
       \/ sock[s].fd # -1 /\ SetNonBlock(s, sock[s], flags, non_blocked) /\ UNCHANGED files
  /\ UNCHANGED <<obj, epoll, accepted, loop, io>>

Listen(s) ==
  /\ Caller /\ Unused(s)
  /\ sock' = [sock EXCEPT ![s].listened_ = TRUE]
  /\ SockOnly

\* Also when the connection is only in progress.
Connect(s) ==
  /\ Caller /\ Unused(s)
  /\ sock' = [sock EXCEPT ![s].connected_ = TRUE]
  /\ SockOnly

\* The descriptor stays the caller's, or becomes that of a new TcpSocket.
Accept(s) ==
  /\ Caller /\ Alive(s) /\ sock[s].listened_ /\ CanOpen
  /\ Opens
  /\ \/ accepted' = accepted \union {[fd |-> Min(Free), file |-> NewFile]} /\ UNCHANGED sock
     \/ /\ \E t \in TcpSockets :
             /\ sock[t].st = "none"
             /\ sock' = [sock EXCEPT ![t] = [@ EXCEPT !.st = "alive", !.fd = Min(Free), !.file = NewFile,
                                                      !.connected_ = TRUE]]
        /\ UNCHANGED accepted
  /\ UNCHANGED <<obj, epoll, loop, io>>

Destroy(s) ==
  /\ Caller /\ Alive(s) /\ ~Watched(sock[s].file)
  /\ sock' = [sock EXCEPT ![s] = NoSocket("destroyed")]
  /\ IF sock[s].fd # -1 THEN Closes(sock[s].fd) ELSE UNCHANGED <<files, flags, epoll>>
  /\ UNCHANGED <<obj, accepted, loop, io>>

\* BlockRead and BlockWrite refuse a socket that is known not to block.
BlockStart(s) ==
  /\ Caller /\ loop.at = "out" /\ Alive(s) /\ sock[s].connected_ /\ ~sock[s].non_blocked_
  /\ \E op \in {"read", "write"}, len \in 0 .. MaxLength :
       io' = [op |-> op, s |-> s, offset |-> 0, len |-> len, answer |-> FALSE]
  /\ UNCHANGED <<files, flags, sock, obj, epoll, accepted, loop>>

\* One call of read or write: some bytes, an error, or the end of the stream.
BlockMove ==
  /\ io.op \in {"read", "write"} /\ io.offset < io.len
  /\ \/ \E ret \in (IF io.op = "read" THEN 1 ELSE 0) .. io.len - io.offset : io' = [io EXCEPT !.offset = @ + ret]
     \/ io' = [io EXCEPT !.op = "done"]
  /\ UNCHANGED <<files, flags, sock, obj, epoll, accepted, loop>>
BlockEnd ==
  /\ io.op # "none" /\ (io.op = "done" \/ io.offset >= io.len)
  /\ io' = IF io.op = "done" THEN Idle ELSE [io EXCEPT !.op = "done", !.answer = TRUE]
  /\ UNCHANGED <<files, flags, sock, obj, epoll, accepted, loop>>

-----------------------------------------------------------------------------
(* Poller.                                                                 *)

\* The objects the caller may touch: any outside the loop, its own in a handler.
Mine(o) == obj[o].st = "live" /\ (loop.at = "out" \/ (InHandler /\ o = Head(loop.events).o))

\* A new FdObj and its registration: what is ready already is reported once.
Add(o) ==
  /\ Caller /\ obj[o].st = "none"
  /\ \E w \in {[fd |-> a.fd, owner |-> NoFile] : a \in accepted}
              \union {[fd |-> sock[s].fd, owner |-> sock[s].file] : s \in {t \in TcpSockets : Alive(t) /\ sock[t].fd # -1}} :
       /\ ~Watched(files[w.fd])
       /\ obj' = [obj EXCEPT ![o] = [@ EXCEPT !.st = "live", !.fd = w.fd, !.file = files[w.fd], !.owner = w.owner]]
       /\ epoll' = epoll \union {[file |-> files[w.fd], o |-> o, pending |-> {"OUT"}]}
  /\ UNCHANGED <<files, flags, sock, accepted, loop, io>>

\* The same registration again: room to write is reported again.
Modify(o) ==
  /\ Caller /\ Mine(o)
  /\ \E e \in epoll : e.file = files[obj[o].fd] /\ Becomes(e, {"OUT"})
  /\ UNCHANGED <<files, flags, sock, obj, accepted, loop, io>>

\* A result that is not looked at: the write handler is called all the same.
BugObjected == IF loop.at = "HandleRead" THEN loop' = [loop EXCEPT !.at = "write"]
               ELSE loop' = [at |-> "next", events |-> Tail(loop.events)]
\* RunOnce after a handler whose result is not 0.
Objected == loop' = [at |-> "next", events |-> Tail(loop.events)]
Returns == IF InHandler THEN Objected ELSE UNCHANGED loop

\* The caller then drops the object.
Remove(o) ==
  /\ Caller /\ Mine(o) /\ obj[o].owner # NoFile
  /\ epoll' = {e \in epoll : e.file # files[obj[o].fd]}
  /\ obj' = [obj EXCEPT ![o] = NoObj("gone")]
  /\ Returns
  /\ UNCHANGED <<files, flags, sock, accepted, io>>

RemoveAndCloseFd(o) ==
  /\ Caller /\ Mine(o) /\ obj[o].owner = NoFile
  /\ Closes(obj[o].fd)
  /\ obj' = [obj EXCEPT ![o] = NoObj("gone")]
  /\ accepted' = {a \in accepted : a.file # obj[o].file}
  /\ Returns
  /\ UNCHANGED <<sock, io>>

\* epoll_wait: some of the files with something to report, in any order.
RunOnce ==
  /\ Caller /\ loop.at = "out"
  /\ \E n \in 1 .. event_size_ : \E es \in [1 .. n -> {e \in epoll : e.pending # {}}] :
       /\ Cardinality({es[i] : i \in 1 .. n}) = n
       /\ loop' = [at |-> "next", events |-> es]
       /\ epoll' = {IF \E i \in 1 .. n : es[i] = e THEN [e EXCEPT !.pending = {}] ELSE e : e \in epoll}
  /\ UNCHANGED <<files, flags, sock, obj, accepted, io>>

\* The read handler of the next event, else its write handler, else the next one.
Event ==
  /\ loop.at \in {"next", "write"}
  /\ IF loop.events = <<>> THEN loop' = [loop EXCEPT !.at = "out"]
     ELSE LET e == Head(loop.events)
          IN  CASE loop.at = "next" /\ "IN" \in e.pending ->
                     loop' = [loop EXCEPT !.at = "HandleRead"]
                [] ~(loop.at = "next" /\ "IN" \in e.pending) /\ "OUT" \in e.pending ->
                     loop' = [loop EXCEPT !.at = "HandleWrite"]
                [] OTHER -> loop' = [at |-> "next", events |-> Tail(loop.events)]
  /\ UNCHANGED <<files, flags, sock, obj, epoll, accepted, io>>

\* A handler returns 0.
Handled ==
  /\ InHandler
  /\ loop' = IF loop.at = "HandleRead" THEN [loop EXCEPT !.at = "write"]
             ELSE [at |-> "next", events |-> Tail(loop.events)]
  /\ UNCHANGED <<files, flags, sock, obj, epoll, accepted, io>>

Next ==
  \/ \E s \in TcpSockets : \/ Construct(s) \/ InitSocket(s) \/ Listen(s) \/ Connect(s) \/ Accept(s)
                           \/ Destroy(s) \/ BlockStart(s)
  \/ \E o \in FdObjs : Add(o) \/ Modify(o) \/ Remove(o) \/ RemoveAndCloseFd(o)
  \/ BlockMove \/ BlockEnd \/ RunOnce \/ Event \/ Handled \/ Ready

Spec == Init /\ [][Next]_vars

(***************************************************************************)
(* Though the numbers of closed descriptors come back, a live socket, an   *)
(* accepted descriptor and a watched object refer to the file they were    *)
(* made for, and a socket knows whether that file blocks, whatever failed  *)
(* in InitSocket.  RunOnce calls a handler only for an object whose        *)
(* descriptor is open, also when an earlier handler of the batch closed    *)
(* its own.  BlockRead and BlockWrite that return true moved the buffer.   *)
(***************************************************************************)
DescriptorsAreOwn ==
  /\ \A s \in TcpSockets : Alive(s) /\ sock[s].fd # -1 =>
       files[sock[s].fd] = sock[s].file /\ flags[sock[s].file] = sock[s].non_blocked_
  /\ \A a \in accepted : files[a.fd] = a.file /\ \A s \in TcpSockets : Alive(s) => sock[s].file # a.file
  /\ \A o \in FdObjs : obj[o].st = "live" => files[obj[o].fd] = obj[o].file
  /\ InHandler => obj[Head(loop.events).o].st = "live"
  /\ \A e \in epoll : obj[e.o].st = "live" /\ obj[e.o].file = e.file
  /\ io.answer => io.offset = io.len
=============================================================================
