-------------------------------- MODULE Rdma --------------------------------
(***************************************************************************)
(* The RDMA message exchange of example/rdma: rdma_common.c, with the      *)
(* event loops of rdma_cli.c and rdma_server.c.  Each side has the thread  *)
(* that handles connection events and the thread that polls the completion *)
(* queue; they share the connection.  Each side sends the other the region *)
(* it may access, accesses the region it was sent, says so (MSG_DONE), and *)
(* prints the message once it has sent and received that.                  *)
(*                                                                         *)
(* The fabric is external: a reliable connection delivers in order, and    *)
(* only into a posted receive, a send completes no later than the answer   *)
(* to it, a disconnect or a broken link flushes what is still posted, and  *)
(* destroying a queue pair drops its completions.                          *)
(***************************************************************************)
EXTENDS Integers, Sequences

CONSTANT Modes         \* values of s_mode the sides may be started with

VARIABLES s_mode, conn, nic, events, poller, printed

vars == <<s_mode, conn, nic, events, poller, printed>>

Client == 1
Server == 2
Sides == {Client, Server}
Peer(s) == 3 - s

SS_INIT == 0
SS_MR_SENT == 1
SS_DONE_SENT == 3
RS_MR_RECV == 1
RS_DONE_RECV == 2
None == 0              \* no message; the message of side s is s

Init ==
  /\ s_mode \in Modes
  /\ conn = [s \in Sides |-> [st |-> "none", connected |-> FALSE, send_state |-> SS_INIT, recv_state |-> 0,
                              peer_mr |-> FALSE, send_msg |-> "", recv_msg |-> "",
                              local_region |-> None, remote_region |-> None]]
  /\ nic = [s \in Sides |-> [recvs |-> 0, sq |-> <<>>, cq |-> <<>>, down |-> "no"]]
  /\ events = [s \in Sides |-> IF s = Client THEN <<"ADDR_RESOLVED">> ELSE <<>>]
  /\ poller = [s \in Sides |-> [pc |-> "idle", wc |-> ""]]
  /\ printed = [s \in Sides |-> None]

-----------------------------------------------------------------------------
(* What both threads call, on a side's connection c and adapter n.         *)

post_receives(n) == [n EXCEPT !.recvs = @ + 1]
\* Posted to a queue pair that is down, a request fails at once.
Post(n, wr) == IF n.down = "no" THEN [n EXCEPT !.sq = Append(@, wr)] ELSE [n EXCEPT !.cq = Append(@, "error")]
Access == IF s_mode = "M_WRITE" THEN "write" ELSE "read"

\* build_connection and the message the caller puts into its region.
get_local_message_region(c, m) ==
  IF s_mode = "M_WRITE" THEN [c EXCEPT !.local_region = m] ELSE [c EXCEPT !.remote_region = m]
get_peer_message_region(c) == IF s_mode = "M_WRITE" THEN c.remote_region ELSE c.local_region
build_connection(s) ==
  /\ conn' = [conn EXCEPT ![s] = get_local_message_region([@ EXCEPT !.st = "up"], s)]
  /\ nic' = [nic EXCEPT ![s] = post_receives(@)]

\* The queue pair and the buffers go; completions not yet polled go with them.
destroy_connection(s) ==
  /\ conn' = [conn EXCEPT ![s].st = "freed"]
  /\ nic' = [nic EXCEPT ![s] = [@ EXCEPT !.recvs = 0, !.sq = <<>>, !.cq = <<>>]]

-----------------------------------------------------------------------------
(* The event thread of side s: on_event.                                   *)

Event(s, e) == poller[s].pc # "died" /\ events[s] # <<>> /\ Head(events[s]) = e
Handled(s) == [events EXCEPT ![s] = Tail(@)]

on_addr_resolved ==
  /\ Event(Client, "ADDR_RESOLVED")
  /\ build_connection(Client)
  /\ \E e \in {"ROUTE_RESOLVED", "ROUTE_ERROR"} : events' = [events EXCEPT ![Client] = <<e>>]
  /\ UNCHANGED <<s_mode, poller, printed>>

on_route_resolved ==
  /\ Event(Client, "ROUTE_RESOLVED")
  /\ events' = [Handled(Client) EXCEPT ![Server] = Append(@, "CONNECT_REQUEST")]
  /\ UNCHANGED <<s_mode, conn, nic, poller, printed>>

on_connect_request ==
  /\ Event(Server, "CONNECT_REQUEST")
  /\ build_connection(Server)
  /\ events' = [s \in Sides |-> Append(Handled(Server)[s], "ESTABLISHED")]
  /\ UNCHANGED <<s_mode, poller, printed>>

\* on_connect; the client then sends its region.
on_connection(s) ==
  /\ Event(s, "ESTABLISHED")
  /\ conn' = [conn EXCEPT ![s] = [@ EXCEPT !.connected = TRUE,
                                           !.send_msg = IF s = Client THEN "MSG_MR" ELSE @]]
  /\ nic' = [nic EXCEPT ![s] = IF s = Client THEN Post(@, "send") ELSE @]
  /\ events' = Handled(s)
  /\ UNCHANGED <<s_mode, poller, printed>>

on_disconnect(s) ==
  /\ Event(s, "DISCONNECTED")
  /\ destroy_connection(s)
  /\ events' = Handled(s)
  /\ UNCHANGED <<s_mode, poller, printed>>

-----------------------------------------------------------------------------
(* The thread of poll_cq: a completion is taken, then on_completion runs.  *)

ibv_poll_cq(s) ==
  /\ poller[s].pc = "idle" /\ nic[s].cq # <<>>
  /\ poller' = [poller EXCEPT ![s] = [pc |-> "completion", wc |-> Head(nic[s].cq)]]
  /\ nic' = [nic EXCEPT ![s].cq = Tail(@)]
  /\ UNCHANGED <<s_mode, conn, events, printed>>

\* The side the completion is counted for, and what it leads to.
Counted(c, wc) ==
  IF wc = "recv"
  THEN [c EXCEPT !.recv_state = @ + 1, !.peer_mr = @ \/ c.recv_msg = "MSG_MR"]
  ELSE [c EXCEPT !.send_state = @ + 1]
Rearmed(n, c, wc) == IF wc = "recv" /\ c.recv_msg = "MSG_MR" THEN post_receives(n) ELSE n
SendsMr(c, wc) == wc = "recv" /\ c.recv_msg = "MSG_MR" /\ c.send_state = SS_INIT
Exchanges(c) == c.send_state = SS_MR_SENT /\ c.recv_state = RS_MR_RECV
Finished(c) == c.send_state = SS_DONE_SENT /\ c.recv_state = RS_DONE_RECV

\* The connection goes down on both sides.
Flushed(n, why) ==
  [n EXCEPT !.cq = @ \o [i \in 1 .. n.recvs + Len(n.sq) |-> "error"], !.recvs = 0, !.sq = <<>>, !.down = why]
Disconnect(nics, why) ==
  /\ nic' = [t \in Sides |-> Flushed(nics[t], why)]
  /\ events' = [t \in Sides |-> Append(events[t], "DISCONNECTED")]

\* Posted after the message that says it is done.
BugExchange(n) == Post(Post(n, "send"), Access)
Exchange(n) == Post(Post(n, Access), "send")

\* send_mr waits in send_message until the connection is established.
on_completion(s) ==
  LET wc == poller[s].wc
      c  == Counted(conn[s], wc)
      n  == Rearmed(nic[s], conn[s], wc)
  IN  /\ poller[s].pc = "completion" /\ conn[s].st = "up"
      /\ \/ /\ wc = "error"
            /\ poller' = [poller EXCEPT ![s].pc = "died"]
            /\ UNCHANGED <<conn, nic, events, printed>>
         \/ /\ wc # "error" /\ SendsMr(conn[s], wc)
            /\ conn' = [conn EXCEPT ![s] = [c EXCEPT !.send_msg = "MSG_MR"]]
            /\ nic' = [nic EXCEPT ![s] = n]
            /\ poller' = [poller EXCEPT ![s].pc = "send_message"]
            /\ UNCHANGED <<events, printed>>
         \/ /\ wc # "error" /\ ~SendsMr(conn[s], wc) /\ Exchanges(c)
            /\ conn' = [conn EXCEPT ![s] = [c EXCEPT !.send_msg = "MSG_DONE"]]
            /\ nic' = [nic EXCEPT ![s] = Exchange(n)]
            /\ poller' = [poller EXCEPT ![s].pc = "idle"]
            /\ UNCHANGED <<events, printed>>
         \/ /\ wc # "error" /\ ~SendsMr(conn[s], wc) /\ ~Exchanges(c) /\ ~Finished(c)
            /\ conn' = [conn EXCEPT ![s] = c]
            /\ nic' = [nic EXCEPT ![s] = n]
            /\ poller' = [poller EXCEPT ![s].pc = "idle"]
            /\ UNCHANGED <<events, printed>>
         \/ /\ wc # "error" /\ ~SendsMr(conn[s], wc) /\ Finished(c)
            /\ conn' = [conn EXCEPT ![s] = c]
            /\ printed' = [printed EXCEPT ![s] = get_peer_message_region(c)]
            /\ IF n.down = "no" THEN Disconnect([nic EXCEPT ![s] = n], "disconnect")
               ELSE nic' = [nic EXCEPT ![s] = n] /\ UNCHANGED events
            /\ poller' = [poller EXCEPT ![s].pc = "idle"]
      /\ UNCHANGED s_mode

send_message(s) ==
  /\ poller[s].pc = "send_message" /\ conn[s].connected /\ conn[s].st = "up"
  /\ nic' = [nic EXCEPT ![s] = Post(@, "send")]
  /\ poller' = [poller EXCEPT ![s].pc = "idle"]
  /\ UNCHANGED <<s_mode, conn, events, printed>>

\* The event thread freed the connection the poller is at work on.
Dangles(s) ==
  /\ poller[s].pc \in {"completion", "send_message"} /\ conn[s].st = "freed"
  /\ poller' = [poller EXCEPT ![s].pc = "dangling"]
  /\ UNCHANGED <<s_mode, conn, nic, events, printed>>

-----------------------------------------------------------------------------
(* The fabric.                                                             *)

Deliver(s) ==
  LET p  == Peer(s)
      wr == Head(nic[s].sq)
      n  == [nic[s] EXCEPT !.sq = Tail(@), !.cq = Append(@, wr)]
  IN  /\ nic[s].sq # <<>>
      /\ \/ /\ wr = "send" /\ nic[p].recvs > 0
            /\ conn' = [conn EXCEPT ![p].recv_msg = conn[s].send_msg]
            /\ nic' = [nic EXCEPT ![s] = n, ![p] = [@ EXCEPT !.recvs = @ - 1, !.cq = Append(@, "recv")]]
         \/ /\ wr = "write" /\ conn[s].peer_mr
            /\ conn' = [conn EXCEPT ![p].remote_region = conn[s].local_region]
            /\ nic' = [nic EXCEPT ![s] = n]
         \/ /\ wr = "read" /\ conn[s].peer_mr
            /\ conn' = [conn EXCEPT ![s].local_region = conn[p].remote_region]
            /\ nic' = [nic EXCEPT ![s] = n]
      /\ UNCHANGED <<s_mode, events, poller, printed>>

LinkBreaks ==
  /\ \A s \in Sides : conn[s].st = "up" /\ nic[s].down = "no"
  /\ Disconnect(nic, "broken")
  /\ UNCHANGED <<s_mode, conn, poller, printed>>

EventStep(s) ==
  \/ s = Client /\ (on_addr_resolved \/ on_route_resolved)
  \/ s = Server /\ on_connect_request
  \/ on_connection(s) \/ on_disconnect(s)
PollerStep(s) == ibv_poll_cq(s) \/ on_completion(s) \/ send_message(s) \/ Dangles(s)
Next == LinkBreaks \/ \E s \in Sides : EventStep(s) \/ PollerStep(s) \/ Deliver(s)

Spec == Init /\ [][Next]_vars
FairSpec == Spec /\ \A s \in Sides : WF_vars(EventStep(s)) /\ WF_vars(PollerStep(s)) /\ WF_vars(Deliver(s))
-----------------------------------------------------------------------------
(***************************************************************************)
(* Whatever the order in which the two threads of the two sides run, a     *)
(* side prints the other's message and never its region as it was before,  *)
(* a completion fails only after the link broke, a receive is never posted *)
(* twice, and the states of a connection stay within their enumerations.   *)
(***************************************************************************)
MessagesExchanged ==
  \A s \in Sides :
    /\ printed[s] \in {None, Peer(s)}
    /\ poller[s].pc = "died" => nic[s].down = "broken"
    /\ conn[s].send_state <= SS_DONE_SENT /\ conn[s].recv_state <= RS_DONE_RECV
    /\ nic[s].recvs <= 1

(***************************************************************************)
(* Once a connection is built on both sides, no side waits in it for ever: *)
(* it is destroyed after the exchange, or the broken link ends the side.   *)
(***************************************************************************)
Built == \A s \in Sides : conn[s].st = "up"
Over == \A s \in Sides : conn[s].st = "freed" \/ poller[s].pc = "died"
ConnectionEnds == Built ~> Over

(***************************************************************************)
(* "This routine should be called by both the client and server side"      *)
(* (rdma_common.c:252): no side's connection is freed under its poller.    *)
(***************************************************************************)
PollerOutlived == \A s \in Sides : poller[s].pc # "dangling"
=============================================================================
