---------------------------- MODULE GroupCommit -----------------------------
(***************************************************************************)
(* Many writers, one of them writing for a group (example/tmp/mw_to_sw.cc).*)
(* A writer queues its data; the one at the head of the queue copies the   *)
(* data of all that are queued into g_buf, prints it with the mutex        *)
(* released, and then takes these, and no later ones, off the queue.       *)
(*                                                                         *)
(* What runs between two operations on the mutex is one step.  A datum is  *)
(* the pair of its thread and its number.                                  *)
(***************************************************************************)
EXTENDS Integers, Sequences, TLAPS

CONSTANTS Users,          \* threads
          userDataNum     \* data each of them writes

VARIABLES writers,        \* the queue
          g_buf,          \* data of the group being printed
          user,           \* the threads, with the Writer of the write they are in
          printed,        \* what came out, in order
          queued,         \* what went into the queue, in order
          count           \* writes taken off the queue

vars == <<writers, g_buf, user, printed, queued, count>>

Init ==
  /\ writers = <<>> /\ g_buf = <<>> /\ printed = <<>> /\ queued = <<>> /\ count = 0
  /\ user = [u \in Users |-> [pc |-> "user", n |-> 0, done |-> FALSE, last_writer |-> u]]

Datum(u) == <<u, user[u].n>>

\* The head of the queue: the data of the group to g_buf, and the mutex is released.
Lead(u, q, data) ==
  /\ g_buf' = [i \in DOMAIN q |-> data[q[i]]]
  /\ user' = [user EXCEPT ![u] = [pc |-> "print", n |-> data[u][2], done |-> FALSE,
                                  last_writer |-> q[Len(q)]]]

\* write() up to the first wait.
Write(u) ==
  LET q == Append(writers, u)
      data == [v \in Users |-> IF v = u THEN <<u, user[u].n + 1>> ELSE Datum(v)]
  IN  /\ user[u].pc = "user" /\ user[u].n < userDataNum
      /\ writers' = q /\ queued' = Append(queued, data[u])
      /\ \/ Head(q) = u /\ Lead(u, q, data)
         \/ /\ Head(q) # u
            /\ user' = [user EXCEPT ![u] = [pc |-> "wait", n |-> @.n + 1, done |-> FALSE,
                                            last_writer |-> @.last_writer]]
            /\ UNCHANGED g_buf
      /\ UNCHANGED <<printed, count>>

\* A wakeup that nobody sent.
Spurious(u) ==
  /\ user[u].pc = "wait"
  /\ user' = [user EXCEPT ![u].pc = "woken"]
  /\ UNCHANGED <<writers, g_buf, printed, queued, count>>

\* Out of Wait with the mutex: done by another, or at the head, or wait again.
Woken(u) ==
  /\ user[u].pc = "woken"
  /\ \/ /\ user[u].done
        /\ user' = [user EXCEPT ![u].pc = "user"]
        /\ UNCHANGED g_buf
     \/ ~user[u].done /\ Head(writers) = u /\ Lead(u, writers, [v \in Users |-> Datum(v)])
     \/ /\ ~user[u].done /\ Head(writers) # u
        /\ user' = [user EXCEPT ![u].pc = "wait"]
        /\ UNCHANGED g_buf
  /\ UNCHANGED <<writers, printed, queued, count>>

\* Without the mutex.
EmitGroup(u) ==
  /\ user[u].pc = "print"
  /\ printed' = printed \o g_buf
  /\ user' = [user EXCEPT ![u].pc = "finish"]
  /\ UNCHANGED <<writers, g_buf, queued, count>>

Signalled(w, d) == [pc |-> IF w.pc = "wait" THEN "woken" ELSE w.pc, n |-> w.n, done |-> d,
                    last_writer |-> w.last_writer]


\* The mutex again: the group leaves the queue, and the new head is told.
Finish(u) ==
  /\ user[u].pc = "finish"
  /\ LET n     == CHOOSE i \in DOMAIN writers : writers[i] = user[u].last_writer
         group == {writers[i] : i \in 1 .. n} \ {u}
         rest  == SubSeq(writers, n + 1, Len(writers))
     IN  /\ writers' = rest /\ count' = count + n
         /\ user' = [v \in Users |-> CASE v = u -> [user[v] EXCEPT !.pc = "user"]
                                       [] v \in group -> Signalled(user[v], TRUE)
                                       [] rest # <<>> /\ v = Head(rest) ->
                                            Signalled(user[v], user[v].done)
                                       [] OTHER -> user[v]]
  /\ UNCHANGED <<g_buf, printed, queued>>

Step(u) == Write(u) \/ Woken(u) \/ EmitGroup(u) \/ Finish(u)
Next == \E u \in Users : Step(u) \/ Spurious(u)

Spec == Init /\ [][Next]_vars
FairSpec == Spec /\ \A u \in Users : WF_vars(Step(u))

(***************************************************************************)
(* What was queued is printed once each and in the order of the queue,     *)
(* though the leader prints without the mutex, and write() returns only    *)
(* when its datum was printed.  count, asserted at the end of main, counts *)
(* what was printed and left the queue.                                    *)
(***************************************************************************)
GroupsPrintedInOrder ==
  /\ Len(printed) <= Len(queued) /\ printed = SubSeq(queued, 1, Len(printed))
  /\ \A u \in Users : user[u].pc = "user" =>
       \A i \in 1 .. user[u].n : \E k \in 1 .. Len(printed) : printed[k] = <<u, i>>
  /\ count = Len(queued) - Len(writers) /\ count <= Len(printed)

(***************************************************************************)
(* Every write returns: a waiting writer is told when a leader did its     *)
(* work, or when it has become the head of the queue.                      *)
(***************************************************************************)
Returned(u) == user[u].pc = "user"
EveryWriteReturns == \A u \in Users : ~ Returned(u) ~> Returned(u)

-----------------------------------------------------------------------------
(* The inductive invariant.                                                *)

Data == Users \X Nat
Writers == [pc : {"user", "wait", "woken", "print", "finish"}, n : Nat, done : BOOLEAN,
            last_writer : Users]
\* The Writer of a thread r: it prints for its group; it is in the queue.
Leading(r) == r.pc \in {"print", "finish"}
InQueue(r) == Leading(r) \/ (r.pc \in {"wait", "woken"} /\ ~ r.done)

CommitTypeOK ==
  /\ writers \in Seq(Users) /\ g_buf \in Seq(Data) /\ printed \in Seq(Data)
  /\ queued \in Seq(Data) /\ count \in Nat
  /\ user \in [Users -> Writers]

\* The queue holds the writers that are in it once each, with the last of what was
\* queued.
QueueAgrees ==
  /\ \A i, j \in 1 .. Len(writers) : writers[i] = writers[j] => i = j
  /\ \A i \in 1 .. Len(writers) : InQueue(user[writers[i]])
  /\ \A u \in Users : InQueue(user[u]) => \E i \in 1 .. Len(writers) : writers[i] = u
  /\ Len(queued) = count + Len(writers)
  /\ \A i \in 1 .. Len(writers) : queued[count + i] = Datum(writers[i])

\* The one that leads is the head, and g_buf has the data up to last_writer.
LeaderAgrees ==
  \A u \in Users : Leading(user[u]) =>
    /\ writers[1] = u
    /\ Len(g_buf) \in 1 .. Len(writers) /\ writers[Len(g_buf)] = user[u].last_writer
    /\ \A i \in 1 .. Len(g_buf) : g_buf[i] = queued[count + i]

\* What has left the queue was printed, and what the leader has printed but not
\* taken off.
PrintedAgrees ==
  /\ (\A u \in Users : user[u].pc # "finish") => Len(printed) = count
  /\ (\E u \in Users : user[u].pc = "finish") => Len(printed) = count + Len(g_buf)
  /\ \A i \in 1 .. Len(printed) : printed[i] = queued[i]

\* A write that u began has left the queue, unless u is still in it.
WritesLeft ==
  \A u \in Users : \A i \in 1 .. user[u].n :
    i < user[u].n \/ ~ InQueue(user[u]) => \E k \in 1 .. count : queued[k] = <<u, i>>

CommitInv == CommitTypeOK /\ QueueAgrees /\ LeaderAgrees /\ PrintedAgrees /\ WritesLeft

-----------------------------------------------------------------------------
(* Proofs.                                                                 *)

(* Nobody is in the queue of an empty program.                             *)
LEMMA CommitInitial ==
  ASSUME Init
  PROVE  CommitInv
  <1>1. CommitTypeOK
    BY DEF Init, CommitTypeOK, Writers
  <1> QED
    BY <1>1 DEF Init, CommitInv, QueueAgrees, LeaderAgrees, PrintedAgrees, WritesLeft, InQueue,
           Leading

(* The invariant says what it is for.                                      *)
LEMMA CommitPrints ==
  ASSUME CommitInv
  PROVE  GroupsPrintedInOrder
  <1>1. /\ Len(printed) \in Nat /\ Len(queued) \in Nat /\ Len(writers) \in Nat /\ count \in Nat
        /\ Len(g_buf) \in Nat
    BY DEF CommitInv, CommitTypeOK
  <1>2. Len(printed) >= count /\ Len(printed) <= Len(queued)
    BY <1>1 DEF CommitInv, QueueAgrees, LeaderAgrees, PrintedAgrees, Leading
  <1>3. printed = SubSeq(queued, 1, Len(printed))
    <2>1. printed = [i \in 1 .. Len(printed) |-> printed[i]]
      BY DEF CommitInv, CommitTypeOK
    <2>2. SubSeq(queued, 1, Len(printed)) = [i \in 1 .. Len(printed) |-> queued[i]]
      BY <1>1, <1>2 DEF CommitInv, CommitTypeOK
    <2>3. [i \in 1 .. Len(printed) |-> printed[i]] = [i \in 1 .. Len(printed) |-> queued[i]]
      BY DEF CommitInv, PrintedAgrees
    <2> QED
      BY <2>1, <2>2, <2>3
  <1>4. ASSUME NEW u \in Users, user[u].pc = "user", NEW i \in 1 .. user[u].n
        PROVE  \E k \in 1 .. Len(printed) : printed[k] = <<u, i>>
    <2>1. PICK k \in 1 .. count : queued[k] = <<u, i>>
      BY <1>4 DEF CommitInv, WritesLeft, InQueue, Leading
    <2>2. k \in 1 .. Len(printed) /\ printed[k] = <<u, i>>
      BY <1>1, <1>2, <2>1 DEF CommitInv, PrintedAgrees
    <2> QED
      BY <2>2
  <1> QED
    <2>1. count = Len(queued) - Len(writers) /\ count <= Len(printed)
      BY <1>1, <1>2 DEF CommitInv, QueueAgrees
    <2> QED
      BY <1>2, <1>3, <1>4, <2>1, Zenon DEF GroupsPrintedInOrder

(* The lengths are numbers.                                                *)
LEMMA CommitLengths ==
  ASSUME CommitInv
  PROVE  /\ Len(printed) \in Nat /\ Len(queued) \in Nat /\ Len(writers) \in Nat /\ count \in Nat
         /\ Len(g_buf) \in Nat
         /\ \A i \in 1 .. Len(writers) : writers[i] \in Users
  BY DEF CommitInv, CommitTypeOK

(* Waking and waiting again move nobody into or out of the queue.          *)
LEMMA CommitQuiet ==
  ASSUME CommitInv, UNCHANGED <<writers, g_buf, printed, queued, count>>,
         user' \in [Users -> Writers],
         \A v \in Users : /\ user'[v].n = user[v].n
                          /\ user'[v].last_writer = user[v].last_writer
                          /\ Leading(user'[v]) <=> Leading(user[v])
                          /\ user'[v].pc = "finish" <=> user[v].pc = "finish"
                          /\ InQueue(user'[v]) <=> InQueue(user[v])
  PROVE  CommitInv'
  <1> HIDE DEF Leading, InQueue
  <1>1. CommitTypeOK'
    BY DEF CommitInv, CommitTypeOK
  <1>2. QueueAgrees'
    BY CommitLengths, Zenon DEF CommitInv, QueueAgrees, Datum
  <1>3. LeaderAgrees'
    BY DEF CommitInv, LeaderAgrees
  <1>4. PrintedAgrees'
    BY DEF CommitInv, PrintedAgrees
  <1>5. WritesLeft'
    BY Zenon DEF CommitInv, WritesLeft
  <1> QED
    BY <1>1, <1>2, <1>3, <1>4, <1>5 DEF CommitInv

(* What an assignment to one Writer leaves alone.                          *)
LEMMA WriterChanges ==
  ASSUME CommitTypeOK, NEW u \in Users, NEW r \in Writers, user' = [user EXCEPT ![u] = r]
  PROVE  /\ user' \in [Users -> Writers] /\ user'[u] = r
         /\ \A v \in Users : v # u => user'[v] = user[v]
  BY DEF CommitTypeOK

(* Where nobody leads, nobody prints.                                      *)
LEMMA NoLeader ==
  ASSUME CommitInv, \A v \in Users : ~ Leading(user[v])
  PROVE  Len(printed) = count
  BY DEF CommitInv, PrintedAgrees, Leading

(* The head of the queue begins to lead.                                   *)
LEMMA WokenLeads ==
  ASSUME CommitInv, NEW u \in Users, user[u].pc = "woken", ~ user[u].done,
         Head(writers) = u, Lead(u, writers, [v \in Users |-> Datum(v)]),
         UNCHANGED <<writers, printed, queued, count>>
  PROVE  CommitInv'
  <1>1. writers # <<>> /\ writers[1] = u /\ Len(writers) >= 1
    <2>1. PICK i \in 1 .. Len(writers) : writers[i] = u
      BY DEF CommitInv, QueueAgrees, InQueue
    <2> QED
      BY <2>1, CommitLengths DEF CommitInv, CommitTypeOK
  <1>2. \A v \in Users : ~ Leading(user[v])
    BY <1>1 DEF CommitInv, LeaderAgrees, Leading
  <1>3. /\ user[u] \in Writers /\ writers[Len(writers)] \in Users
    BY <1>1, CommitLengths DEF CommitInv, CommitTypeOK
  <1>4. /\ user' \in [Users -> Writers]
        /\ user'[u].pc = "print" /\ user'[u].n = user[u].n /\ ~ user'[u].done
        /\ user'[u].last_writer = writers[Len(writers)]
        /\ \A v \in Users : v # u => user'[v] = user[v]
    <2> DEFINE r == [pc |-> "print", n |-> user[u].n, done |-> FALSE,
                     last_writer |-> writers[Len(writers)]]
    <2>1. user' = [user EXCEPT ![u] = r]
      BY DEF Lead, Datum
    <2>2. /\ r \in Writers /\ r.pc = "print" /\ r.n = user[u].n /\ r.done = FALSE
          /\ r.last_writer = writers[Len(writers)]
      BY <1>3 DEF Writers
    <2> HIDE DEF r
    <2> QED
      BY <2>1, <2>2, WriterChanges, Zenon DEF CommitInv
  <1>5. /\ g_buf' \in Seq(Data) /\ Len(g_buf') = Len(writers)
        /\ \A i \in 1 .. Len(writers) : g_buf'[i] = Datum(writers[i])
    <2>1. DOMAIN writers = 1 .. Len(writers)
      BY DEF CommitInv, CommitTypeOK
    <2>2. g_buf' = [i \in 1 .. Len(writers) |-> Datum(writers[i])]
      BY <2>1, CommitLengths DEF Lead
    <2>3. \A v \in Users : Datum(v) \in Data
      BY DEF CommitInv, CommitTypeOK, Writers, Datum, Data
    <2>4. \A i \in 1 .. Len(writers) : Datum(writers[i]) \in Data
      BY <2>3, CommitLengths
    <2> HIDE DEF Datum, Data
    <2>5. g_buf' \in Seq(Data)
      BY <2>2, <2>4, CommitLengths
    <2> QED
      BY <2>2, <2>5, CommitLengths
  <1>6. \A v \in Users : /\ user'[v].n = user[v].n
                         /\ Leading(user'[v]) <=> v = u
                         /\ user'[v].pc # "finish"
                         /\ InQueue(user'[v]) <=> InQueue(user[v])
    BY <1>2, <1>4 DEF Leading, InQueue
  <1> HIDE DEF Leading, InQueue
  <1>7. CommitTypeOK'
    BY <1>4, <1>5 DEF CommitInv, CommitTypeOK
  <1>8. QueueAgrees'
    BY <1>6, CommitLengths, Zenon DEF CommitInv, QueueAgrees, Datum
  <1>9. LeaderAgrees'
    <2>1. \A i \in 1 .. Len(g_buf') : g_buf'[i] = queued'[count' + i]
      BY <1>5 DEF CommitInv, QueueAgrees
    <2>2. Len(g_buf') \in 1 .. Len(writers')
      BY <1>1, <1>5, CommitLengths
    <2> QED
      BY <1>1, <1>4, <1>5, <1>6, <2>1, <2>2 DEF LeaderAgrees
  <1>10. PrintedAgrees'
    BY <1>2, <1>6, NoLeader DEF CommitInv, PrintedAgrees
  <1>11. WritesLeft'
    BY <1>6, Zenon DEF CommitInv, WritesLeft
  <1> QED
    BY <1>7, <1>8, <1>9, <1>10, <1>11 DEF CommitInv

(* What an assignment to one control point leaves alone.                   *)
LEMMA PcMoves ==
  ASSUME CommitTypeOK, NEW u \in Users, NEW p \in {"user", "wait", "woken", "print", "finish"},
         user' = [user EXCEPT ![u].pc = p]
  PROVE  /\ user' \in [Users -> Writers]
         /\ user'[u].pc = p /\ user'[u].n = user[u].n /\ user'[u].done = user[u].done
         /\ user'[u].last_writer = user[u].last_writer
         /\ \A v \in Users : v # u => user'[v] = user[v]
  <1>1. user[u] \in Writers
    BY DEF CommitTypeOK
  <1>2. [user[u] EXCEPT !.pc = p] = [pc |-> p, n |-> user[u].n, done |-> user[u].done,
                                     last_writer |-> user[u].last_writer]
    BY <1>1 DEF Writers
  <1>3. user' = [user EXCEPT ![u] = [pc |-> p, n |-> user[u].n, done |-> user[u].done,
                                     last_writer |-> user[u].last_writer]]
    BY <1>2, Zenon
  <1> DEFINE r == [pc |-> p, n |-> user[u].n, done |-> user[u].done,
                   last_writer |-> user[u].last_writer]
  <1>4. /\ r \in Writers /\ r.pc = p /\ r.n = user[u].n /\ r.done = user[u].done
        /\ r.last_writer = user[u].last_writer
    BY <1>1 DEF Writers
  <1>5. user' = [user EXCEPT ![u] = r]
    BY <1>3, Zenon
  <1> HIDE DEF r
  <1> QED
    BY <1>4, <1>5, WriterChanges, Zenon

(* Out of Wait: return, lead, or wait again.                               *)
LEMMA WokenKeeps ==
  ASSUME CommitInv, NEW u \in Users, Woken(u)
  PROVE  CommitInv'
  <1>1. ASSUME user[u].done, user' = [user EXCEPT ![u].pc = "user"], UNCHANGED g_buf
        PROVE  CommitInv'
    <2>1. /\ user' \in [Users -> Writers]
          /\ user'[u].pc = "user" /\ user'[u].n = user[u].n /\ user'[u].done = user[u].done
          /\ user'[u].last_writer = user[u].last_writer
          /\ \A v \in Users : v # u => user'[v] = user[v]
      BY <1>1, PcMoves, Zenon DEF CommitInv
    <2> QED
      BY <1>1, <2>1, CommitQuiet DEF Woken, Leading, InQueue
  <1>2. ASSUME ~ user[u].done, user' = [user EXCEPT ![u].pc = "wait"], UNCHANGED g_buf
        PROVE  CommitInv'
    <2>1. /\ user' \in [Users -> Writers]
          /\ user'[u].pc = "wait" /\ user'[u].n = user[u].n /\ user'[u].done = user[u].done
          /\ user'[u].last_writer = user[u].last_writer
          /\ \A v \in Users : v # u => user'[v] = user[v]
      BY <1>2, PcMoves, Zenon DEF CommitInv
    <2> QED
      BY <1>2, <2>1, CommitQuiet DEF Woken, Leading, InQueue
  <1> QED
    BY <1>1, <1>2, WokenLeads DEF Woken

(* A wakeup that nobody sent.                                              *)
LEMMA SpuriousKeeps ==
  ASSUME CommitInv, NEW u \in Users, Spurious(u)
  PROVE  CommitInv'
  <1>1. /\ user' \in [Users -> Writers]
        /\ user'[u].pc = "woken" /\ user'[u].n = user[u].n /\ user'[u].done = user[u].done
        /\ user'[u].last_writer = user[u].last_writer
        /\ \A v \in Users : v # u => user'[v] = user[v]
    BY PcMoves, Zenon DEF CommitInv, Spurious
  <1> QED
    BY <1>1, CommitQuiet DEF Spurious, Leading, InQueue

(* The leader prints, without the mutex.                                   *)
LEMMA EmitKeeps ==
  ASSUME CommitInv, NEW u \in Users, EmitGroup(u)
  PROVE  CommitInv'
  <1>1. /\ user' \in [Users -> Writers]
        /\ user'[u].pc = "finish" /\ user'[u].n = user[u].n /\ user'[u].done = user[u].done
        /\ user'[u].last_writer = user[u].last_writer
        /\ \A v \in Users : v # u => user'[v] = user[v]
    BY PcMoves, Zenon DEF CommitInv, EmitGroup
  <1>2. \A v \in Users : /\ user'[v].n = user[v].n
                         /\ user'[v].last_writer = user[v].last_writer
                         /\ Leading(user'[v]) <=> Leading(user[v])
                         /\ InQueue(user'[v]) <=> InQueue(user[v])
    BY <1>1 DEF Leading, InQueue, EmitGroup
  <1>3. /\ Len(g_buf) \in 1 .. Len(writers)
        /\ \A i \in 1 .. Len(g_buf) : g_buf[i] = queued[count + i]
        /\ \A v \in Users : Leading(user[v]) => v = u
        /\ user[u].pc = "print"
    BY DEF CommitInv, LeaderAgrees, Leading, EmitGroup
  <1>4. Len(printed) = count
    BY <1>3 DEF CommitInv, PrintedAgrees, Leading
  <1>5. /\ printed' \in Seq(Data) /\ Len(printed') = count + Len(g_buf)
        /\ \A i \in 1 .. Len(printed') : printed'[i] = queued[i]
    <2>1. printed' = printed \o g_buf /\ printed \in Seq(Data) /\ g_buf \in Seq(Data)
      BY DEF EmitGroup, CommitInv, CommitTypeOK
    <2> HIDE DEF Data
    <2>2. /\ printed \o g_buf \in Seq(Data) /\ Len(printed \o g_buf) = Len(printed) + Len(g_buf)
          /\ \A i \in 1 .. Len(printed) + Len(g_buf) : (printed \o g_buf)[i] =
               IF i <= Len(printed) THEN printed[i] ELSE g_buf[i - Len(printed)]
      BY <2>1
    <2>3. \A i \in 1 .. Len(printed) : printed[i] = queued[i]
      BY DEF CommitInv, PrintedAgrees
    <2>4. printed' \in Seq(Data) /\ Len(printed') = count + Len(g_buf)
      BY <1>4, <2>1, <2>2
    <2>5. ASSUME NEW i \in 1 .. Len(printed') PROVE printed'[i] = queued[i]
      <3>1. i \in 1 .. Len(printed) + Len(g_buf)
        BY <1>4, <2>4, <2>5
      <3>2. CASE i <= Len(printed)
        BY <2>1, <2>2, <2>3, <3>1, <3>2, CommitLengths
      <3>3. CASE ~ (i <= Len(printed))
        <4>1. i - count \in 1 .. Len(g_buf) /\ count + (i - count) = i
          BY <1>4, <3>1, <3>3, CommitLengths
        <4>2. printed'[i] = g_buf[i - count]
          BY <1>4, <2>1, <2>2, <3>1, <3>3
        <4> QED
          BY <1>3, <4>1, <4>2
      <3> QED
        BY <3>2, <3>3
    <2> QED
      BY <2>4, <2>5
  <1> HIDE DEF Leading, InQueue
  <1>6. CommitTypeOK'
    BY <1>1, <1>5 DEF CommitInv, CommitTypeOK, EmitGroup
  <1>7. QueueAgrees'
    <2>1. writers' = writers /\ queued' = queued /\ count' = count
      BY DEF EmitGroup
    <2>2. /\ \A i, j \in 1 .. Len(writers) : writers[i] = writers[j] => i = j
          /\ Len(queued) = count + Len(writers)
      BY DEF CommitInv, QueueAgrees
    <2>3. \A i \in 1 .. Len(writers) : writers[i] \in Users /\ InQueue(user[writers[i]])
      BY CommitLengths DEF CommitInv, QueueAgrees
    <2>4. \A i \in 1 .. Len(writers) : InQueue(user'[writers[i]])
      BY <1>2, <2>3, Zenon
    <2>5. \A v \in Users : InQueue(user[v]) => \E i \in 1 .. Len(writers) : writers[i] = v
      BY DEF CommitInv, QueueAgrees
    <2>6. \A v \in Users : InQueue(user'[v]) => \E i \in 1 .. Len(writers) : writers[i] = v
      BY <1>2, <2>5, Zenon
    <2>7. \A i \in 1 .. Len(writers) : queued[count + i] = <<writers[i], user[writers[i]].n>>
      BY DEF CommitInv, QueueAgrees, Datum
    <2>8. \A i \in 1 .. Len(writers) : queued[count + i] = <<writers[i], user'[writers[i]].n>>
      BY <1>2, <2>3, <2>7, Zenon
    <2> QED
      BY <2>1, <2>2, <2>4, <2>6, <2>8, Zenon DEF QueueAgrees, Datum
  <1>8. LeaderAgrees'
    BY <1>2 DEF CommitInv, LeaderAgrees, EmitGroup
  <1>9. PrintedAgrees'
    BY <1>1, <1>5 DEF PrintedAgrees, EmitGroup
  <1>10. WritesLeft'
    <2>1. queued' = queued /\ count' = count
      BY DEF EmitGroup
    <2>2. ASSUME NEW v \in Users, NEW i \in 1 .. user'[v].n,
                 i < user'[v].n \/ ~ InQueue(user'[v])
          PROVE  \E k \in 1 .. count' : queued'[k] = <<v, i>>
      <3>1. i \in 1 .. user[v].n /\ (i < user[v].n \/ ~ InQueue(user[v]))
        BY <1>2, <2>2
      <3>2. \E k \in 1 .. count : queued[k] = <<v, i>>
        BY <3>1, Zenon DEF CommitInv, WritesLeft
      <3> QED
        BY <2>1, <3>2, Zenon
    <2> QED
      BY <2>2, Zenon DEF WritesLeft
  <1> QED
    BY <1>6, <1>7, <1>8, <1>9, <1>10 DEF CommitInv

(* A write queues its datum behind the others.                             *)
LEMMA WriteQueues ==
  ASSUME CommitInv, NEW u \in Users, user[u].pc = "user",
         writers' = Append(writers, u), queued' = Append(queued, <<u, user[u].n + 1>>)
  PROVE  /\ writers' \in Seq(Users) /\ Len(writers') = Len(writers) + 1
         /\ \A i \in 1 .. Len(writers) : writers'[i] = writers[i] /\ writers[i] # u
         /\ writers'[Len(writers) + 1] = u
         /\ queued' \in Seq(Data) /\ Len(queued') = Len(queued) + 1
         /\ \A i \in 1 .. Len(queued) : queued'[i] = queued[i]
         /\ queued'[Len(queued) + 1] = <<u, user[u].n + 1>>
         /\ Head(writers') = writers'[1]
  <1>1. writers \in Seq(Users) /\ queued \in Seq(Data)
    BY DEF CommitInv, CommitTypeOK
  <1>2. user[u].n + 1 \in Nat
    BY DEF CommitInv, CommitTypeOK, Writers
  <1>3. <<u, user[u].n + 1>> \in Data
    BY <1>2 DEF Data
  <1>4. /\ queued' \in Seq(Data) /\ Len(queued') = Len(queued) + 1
        /\ \A i \in 1 .. Len(queued) : queued'[i] = queued[i]
        /\ queued'[Len(queued) + 1] = <<u, user[u].n + 1>>
    BY <1>1, <1>3
  <1>5. /\ writers' \in Seq(Users) /\ Len(writers') = Len(writers) + 1
        /\ \A i \in 1 .. Len(writers) : writers'[i] = writers[i]
        /\ writers'[Len(writers) + 1] = u
    BY <1>1
  <1>6. ~ InQueue(user[u])
    BY DEF InQueue, Leading
  <1>7. \A i \in 1 .. Len(writers) : writers[i] # u
    BY <1>6 DEF CommitInv, QueueAgrees
  <1>8. Head(writers') = writers'[1]
    BY <1>5
  <1> QED
    BY <1>4, <1>5, <1>7, <1>8

(* A write that finds others queued waits behind them.                     *)
LEMMA WriteWaits ==
  ASSUME CommitInv, NEW u \in Users, user[u].pc = "user",
         writers' = Append(writers, u), queued' = Append(queued, <<u, user[u].n + 1>>),
         user' = [user EXCEPT ![u] = [pc |-> "wait", n |-> @.n + 1, done |-> FALSE,
                                      last_writer |-> @.last_writer]],
         UNCHANGED <<g_buf, printed, count>>
  PROVE  CommitInv'
  <1>1. /\ user' \in [Users -> Writers]
        /\ user'[u].pc = "wait" /\ user'[u].n = user[u].n + 1 /\ ~ user'[u].done
        /\ user[u].n \in Nat
        /\ \A v \in Users : v # u => user'[v] = user[v]
    <2>1. user[u] \in Writers /\ user[u].n \in Nat
      BY DEF CommitInv, CommitTypeOK, Writers
    <2> DEFINE r == [pc |-> "wait", n |-> user[u].n + 1, done |-> FALSE,
                     last_writer |-> user[u].last_writer]
    <2>2. r \in Writers /\ r.pc = "wait" /\ r.n = user[u].n + 1 /\ r.done = FALSE
      BY <2>1 DEF Writers
    <2>3. user' = [user EXCEPT ![u] = r]
      OBVIOUS
    <2> HIDE DEF r
    <2> QED
      BY <2>1, <2>2, <2>3, WriterChanges, Zenon DEF CommitInv
  <1>2. /\ ~ InQueue(user[u]) /\ ~ Leading(user[u]) /\ ~ Leading(user'[u]) /\ InQueue(user'[u])
        /\ user[u].pc # "finish" /\ user'[u].pc # "finish"
        /\ \A v \in Users : v # u => /\ Leading(user'[v]) <=> Leading(user[v])
                                     /\ InQueue(user'[v]) <=> InQueue(user[v])
    BY <1>1 DEF Leading, InQueue
  <1> HIDE DEF Leading, InQueue
  <1>3. CommitTypeOK'
    BY <1>1, WriteQueues, Zenon DEF CommitInv, CommitTypeOK
  <1>8. /\ Len(writers) \in Nat /\ count \in Nat /\ count' = count
        /\ Len(writers') = Len(writers) + 1 /\ Len(queued') = Len(queued) + 1
        /\ \A i \in 1 .. Len(writers) : /\ writers[i] \in Users /\ writers[i] # u
                                        /\ writers'[i] = writers[i]
        /\ writers'[Len(writers) + 1] = u
        /\ \A i \in 1 .. Len(queued) : queued'[i] = queued[i]
        /\ queued'[Len(queued) + 1] = <<u, user[u].n + 1>>
    BY WriteQueues, CommitLengths
  <1>9. /\ \A i, j \in 1 .. Len(writers) : writers[i] = writers[j] => i = j
        /\ \A i \in 1 .. Len(writers) : InQueue(user[writers[i]])
        /\ \A v \in Users : InQueue(user[v]) => \E i \in 1 .. Len(writers) : writers[i] = v
        /\ Len(queued) = count + Len(writers)
        /\ \A i \in 1 .. Len(writers) : queued[count + i] = Datum(writers[i])
    BY DEF CommitInv, QueueAgrees
  <1>4. QueueAgrees'
    <2>8. \A i \in 1 .. Len(writers') : i \in 1 .. Len(writers) \/ i = Len(writers) + 1
      BY <1>8
    <2>9. \A i \in 1 .. Len(writers) : i \in 1 .. Len(writers') /\ count' + i \in 1 .. Len(queued)
      BY <1>8, <1>9
    <2>7. \A i \in 1 .. Len(writers) : writers'[i] # writers'[Len(writers) + 1]
      BY <1>8, Zenon
    <2>1. ASSUME NEW i \in 1 .. Len(writers'), NEW j \in 1 .. Len(writers'),
                 writers'[i] = writers'[j]
          PROVE  i = j
      <3>1. CASE i \in 1 .. Len(writers) /\ j \in 1 .. Len(writers)
        <4>1. writers[i] = writers[j]
          BY <1>8, <2>1, <3>1
        <4> QED
          BY <1>9, <3>1, <4>1
      <3>2. CASE i = Len(writers) + 1 /\ j \in 1 .. Len(writers)
        BY <2>1, <2>7, <3>2
      <3>3. CASE i \in 1 .. Len(writers) /\ j = Len(writers) + 1
        BY <2>1, <2>7, <3>3
      <3>4. CASE i = Len(writers) + 1 /\ j = Len(writers) + 1
        BY <3>4
      <3> QED
        BY <2>8, <3>1, <3>2, <3>3, <3>4, Zenon
    <2>2. ASSUME NEW i \in 1 .. Len(writers') PROVE InQueue(user'[writers'[i]])
      <3>1. CASE i \in 1 .. Len(writers)
        BY <1>2, <1>8, <1>9, <3>1, Zenon
      <3>2. CASE i = Len(writers) + 1
        BY <1>2, <1>8, <3>2, Zenon
      <3> QED
        BY <2>8, <3>1, <3>2, Zenon
    <2>3. ASSUME NEW v \in Users, InQueue(user'[v])
          PROVE  \E i \in 1 .. Len(writers') : writers'[i] = v
      <3>1. CASE v = u
        BY <1>8, <3>1
      <3>2. CASE v # u
        <4>1. PICK i \in 1 .. Len(writers) : writers[i] = v
          BY <1>2, <1>9, <2>3, <3>2, Zenon
        <4> QED
          BY <1>8, <2>9, <4>1, Zenon
      <3> QED
        BY <3>1, <3>2
    <2>4. Len(queued') = count' + Len(writers')
      BY <1>8, <1>9
    <2>5. ASSUME NEW i \in 1 .. Len(writers')
          PROVE  queued'[count' + i] = <<writers'[i], user'[writers'[i]].n>>
      <3>1. CASE i \in 1 .. Len(writers)
        <4>1. writers'[i] = writers[i] /\ user'[writers[i]] = user[writers[i]]
          BY <1>1, <1>8, <3>1, Zenon
        <4>2. queued'[count' + i] = queued[count + i]
          BY <1>8, <2>9, <3>1, Zenon
        <4>3. queued[count + i] = <<writers[i], user[writers[i]].n>>
          BY <1>9, <3>1 DEF Datum
        <4> QED
          BY <4>1, <4>2, <4>3, Zenon
      <3>2. CASE i = Len(writers) + 1
        <4>1. count' + i = Len(queued) + 1
          BY <1>8, <1>9, <3>2
        <4>2. writers'[i] = u /\ user'[u].n = user[u].n + 1
          BY <1>1, <1>8, <3>2, Zenon
        <4> QED
          BY <1>8, <4>1, <4>2, Zenon
      <3> QED
        BY <2>8, <3>1, <3>2, Zenon
    <2> QED
      BY <2>1, <2>2, <2>3, <2>4, <2>5, Zenon DEF QueueAgrees, Datum
  <1>5. LeaderAgrees'
    <2> SUFFICES ASSUME NEW v \in Users, Leading(user'[v])
                 PROVE  /\ writers'[1] = v
                        /\ Len(g_buf) \in 1 .. Len(writers')
                        /\ writers'[Len(g_buf)] = user'[v].last_writer
                        /\ \A i \in 1 .. Len(g_buf) : g_buf[i] = queued'[count + i]
      BY Zenon DEF LeaderAgrees
    <2>1. Leading(user[v]) /\ user'[v] = user[v]
      BY <1>1, <1>2
    <2>2. /\ writers[1] = v
          /\ Len(g_buf) \in 1 .. Len(writers) /\ writers[Len(g_buf)] = user[v].last_writer
          /\ \A i \in 1 .. Len(g_buf) : g_buf[i] = queued[count + i]
      BY <2>1, Zenon DEF CommitInv, LeaderAgrees
    <2>3. /\ 1 \in 1 .. Len(writers) /\ Len(g_buf) \in 1 .. Len(writers) + 1
          /\ \A i \in 1 .. Len(g_buf) : count + i \in 1 .. count + Len(writers)
      BY <2>2, CommitLengths
    <2>4. Len(queued) = count + Len(writers)
      BY DEF CommitInv, QueueAgrees
    <2> QED
      BY <1>8, <2>1, <2>2, <2>3, <2>4, Zenon
  <1>6. PrintedAgrees'
    <2>1. \A v \in Users : user'[v].pc = "finish" <=> user[v].pc = "finish"
      BY <1>1, <1>2
    <2>2. Len(printed) <= Len(queued)
      BY CommitLengths DEF CommitInv, PrintedAgrees, LeaderAgrees, QueueAgrees, Leading
    <2> QED
      BY <2>1, <2>2, WriteQueues, CommitLengths DEF CommitInv, PrintedAgrees
  <1>7. WritesLeft'
    <2> SUFFICES ASSUME NEW v \in Users, NEW i \in 1 .. user'[v].n,
                        i < user'[v].n \/ ~ InQueue(user'[v])
                 PROVE  \E k \in 1 .. count' : queued'[k] = <<v, i>>
      BY Zenon DEF WritesLeft
    <2>1. i \in 1 .. user[v].n /\ (i < user[v].n \/ ~ InQueue(user[v]))
      BY <1>1, <1>2
    <2>2. PICK k \in 1 .. count : queued[k] = <<v, i>>
      BY <2>1, Zenon DEF CommitInv, WritesLeft
    <2>3. k \in 1 .. Len(queued) /\ k \in 1 .. count'
      BY CommitLengths DEF CommitInv, QueueAgrees
    <2>4. queued'[k] = <<v, i>>
      BY <2>2, <2>3, WriteQueues
    <2> QED
      BY <2>3, <2>4, Zenon
  <1> QED
    BY <1>3, <1>4, <1>5, <1>6, <1>7 DEF CommitInv

(* A write that finds the queue empty leads, a group of its own.           *)
LEMMA WriteLeads ==
  ASSUME CommitInv, NEW u \in Users, Write(u), Head(Append(writers, u)) = u
  PROVE  CommitInv'
  <1> DEFINE data == [v \in Users |-> IF v = u THEN <<u, user[u].n + 1>> ELSE Datum(v)]
  <1>1. /\ user[u].pc = "user" /\ data[u] = <<u, user[u].n + 1>>
        /\ writers' = Append(writers, u) /\ queued' = Append(queued, <<u, user[u].n + 1>>)
        /\ Lead(u, Append(writers, u), data) /\ UNCHANGED <<printed, count>>
    BY DEF Write
  <1> HIDE DEF data
  <1>2. Len(writers) = 0 /\ Len(writers') = 1 /\ writers'[1] = u
    BY <1>1, WriteQueues, CommitLengths
  <1>3. \A v \in Users : ~ Leading(user[v]) /\ ~ InQueue(user[v])
    <2>1. \A v \in Users : ~ InQueue(user[v])
      BY <1>2 DEF CommitInv, QueueAgrees
    <2> QED
      BY <2>1 DEF InQueue
  <1>4. /\ user' \in [Users -> Writers]
        /\ user'[u].pc = "print" /\ user'[u].n = user[u].n + 1 /\ ~ user'[u].done
        /\ user'[u].last_writer = u /\ user[u].n \in Nat
        /\ \A v \in Users : v # u => user'[v] = user[v]
    <2> DEFINE r == [pc |-> "print", n |-> user[u].n + 1, done |-> FALSE, last_writer |-> u]
    <2>1. user' = [user EXCEPT ![u] = r]
      BY <1>1, <1>2 DEF Lead
    <2>2. user[u].n \in Nat
      BY DEF CommitInv, CommitTypeOK, Writers
    <2>3. /\ r \in Writers /\ r.pc = "print" /\ r.n = user[u].n + 1 /\ r.done = FALSE
          /\ r.last_writer = u
      BY <2>2 DEF Writers
    <2> HIDE DEF r
    <2> QED
      BY <2>1, <2>2, <2>3, WriterChanges, Zenon DEF CommitInv
  <1>5. g_buf' \in Seq(Data) /\ Len(g_buf') = 1 /\ g_buf'[1] = <<u, user[u].n + 1>>
    <2>1. DOMAIN writers' = 1 .. 1
      BY <1>1, <1>2, WriteQueues
    <2>2. g_buf' = [i \in 1 .. 1 |-> <<u, user[u].n + 1>>]
      BY <1>1, <1>2, <2>1 DEF Lead
    <2>3. <<u, user[u].n + 1>> \in Data
      BY <1>4 DEF Data
    <2> QED
      BY <2>2, <2>3
  <1>6. /\ Leading(user'[u]) /\ InQueue(user'[u]) /\ \A v \in Users : user'[v].pc # "finish"
        /\ \A v \in Users : v # u => ~ Leading(user'[v]) /\ ~ InQueue(user'[v])
    BY <1>3, <1>4 DEF Leading, InQueue
  <1> HIDE DEF Leading, InQueue
  <1>7. CommitTypeOK'
    BY <1>1, <1>4, <1>5, WriteQueues, Zenon DEF CommitInv, CommitTypeOK
  <1>8. QueueAgrees'
    <2>1. Len(queued') = count' + Len(writers') /\ count' + 1 = Len(queued) + 1
      BY <1>1, <1>2, WriteQueues, CommitLengths DEF CommitInv, QueueAgrees
    <2>2. queued'[count' + 1] = <<u, user'[u].n>>
      BY <1>1, <1>4, <2>1, WriteQueues
    <2>3. 1 .. Len(writers') = {1}
      BY <1>2
    <2> QED
      BY <1>2, <1>6, <2>1, <2>2, <2>3 DEF QueueAgrees, Datum
  <1>9. LeaderAgrees'
    <2>1. count' + 1 = Len(queued) + 1
      BY <1>1, <1>2, CommitLengths DEF CommitInv, QueueAgrees
    <2>2. queued'[count' + 1] = g_buf'[1]
      BY <1>1, <1>5, <2>1, WriteQueues
    <2>3. \A v \in Users : Leading(user'[v]) => v = u
      BY <1>6
    <2>4. Len(g_buf') \in 1 .. Len(writers') /\ 1 .. Len(g_buf') = {1}
      BY <1>2, <1>5
    <2> QED
      BY <1>2, <1>4, <1>5, <2>2, <2>3, <2>4 DEF LeaderAgrees
  <1>10. PrintedAgrees'
    <2>1. Len(printed) = count /\ \A i \in 1 .. Len(printed) : printed[i] = queued[i]
      BY <1>3, NoLeader DEF CommitInv, PrintedAgrees
    <2>2. \A i \in 1 .. Len(printed) : i \in 1 .. Len(queued)
      BY <2>1, CommitLengths DEF CommitInv, QueueAgrees
    <2>3. \A i \in 1 .. Len(queued) : queued'[i] = queued[i]
      BY <1>1, WriteQueues
    <2>4. \A i \in 1 .. Len(printed') : printed'[i] = queued'[i]
      BY <1>1, <2>1, <2>2, <2>3
    <2> QED
      BY <1>1, <1>6, <2>1, <2>4, Zenon DEF PrintedAgrees
  <1>11. WritesLeft'
    <2> SUFFICES ASSUME NEW v \in Users, NEW i \in 1 .. user'[v].n,
                        i < user'[v].n \/ ~ InQueue(user'[v])
                 PROVE  \E k \in 1 .. count' : queued'[k] = <<v, i>>
      BY Zenon DEF WritesLeft
    <2>1. i \in 1 .. user[v].n
      BY <1>4, <1>6
    <2>2. PICK k \in 1 .. count : queued[k] = <<v, i>>
      BY <1>3, <2>1, Zenon DEF CommitInv, WritesLeft
    <2>3. k \in 1 .. Len(queued) /\ k \in 1 .. count'
      BY <1>1, CommitLengths DEF CommitInv, QueueAgrees
    <2>4. queued'[k] = <<v, i>>
      BY <1>1, <2>2, <2>3, WriteQueues
    <2> QED
      BY <2>3, <2>4
  <1> QED
    BY <1>7, <1>8, <1>9, <1>10, <1>11 DEF CommitInv

(* Waking a Writer, or telling it that its datum was printed.              *)
LEMMA SignalledFacts ==
  ASSUME NEW r \in Writers
  PROVE  /\ Signalled(r, r.done) \in Writers /\ Signalled(r, TRUE) \in Writers
         /\ Signalled(r, r.done).n = r.n /\ Signalled(r, TRUE).n = r.n
         /\ Leading(Signalled(r, r.done)) <=> Leading(r)
         /\ InQueue(Signalled(r, r.done)) <=> InQueue(r)
         /\ Leading(Signalled(r, TRUE)) <=> Leading(r)
         /\ InQueue(Signalled(r, TRUE)) => Leading(r)
  BY DEF Writers, Leading, InQueue, Signalled

(* The leader takes its group, and no later writers, off the queue.        *)
LEMMA FinishKeeps ==
  ASSUME CommitInv, NEW u \in Users, Finish(u)
  PROVE  CommitInv'
  <1> DEFINE n     == CHOOSE i \in DOMAIN writers : writers[i] = user[u].last_writer
             group == {writers[i] : i \in 1 .. n} \ {u}
             rest  == SubSeq(writers, n + 1, Len(writers))
  <1>1. /\ user[u].pc = "finish" /\ writers' = rest /\ count' = count + n
        /\ user' = [v \in Users |-> CASE v = u -> [user[v] EXCEPT !.pc = "user"]
                                      [] v \in group -> Signalled(user[v], TRUE)
                                      [] rest # <<>> /\ v = Head(rest) ->
                                           Signalled(user[v], user[v].done)
                                      [] OTHER -> user[v]]
        /\ UNCHANGED <<g_buf, printed, queued>>
    BY DEF Finish
  <1>2. /\ writers[1] = u /\ Len(g_buf) \in 1 .. Len(writers)
        /\ writers[Len(g_buf)] = user[u].last_writer
        /\ \A v \in Users : Leading(user[v]) => v = u
    BY <1>1 DEF CommitInv, LeaderAgrees, Leading
  <1>3. n = Len(g_buf)
    <2>1. DOMAIN writers = 1 .. Len(writers)
      BY DEF CommitInv, CommitTypeOK
    <2>2. n \in 1 .. Len(writers) /\ writers[n] = user[u].last_writer
      BY <1>2, <2>1
    <2> HIDE DEF n
    <2> QED
      BY <1>2, <2>2 DEF CommitInv, QueueAgrees
  <1> HIDE DEF n
  <1>4. n \in 1 .. Len(writers) /\ Len(writers) \in Nat /\ n \in Nat
    BY <1>2, <1>3, CommitLengths
  <1>5. /\ rest \in Seq(Users) /\ Len(rest) = Len(writers) - n
        /\ \A i \in 1 .. Len(rest) : rest[i] = writers[n + i]
    <2>1. writers \in Seq(Users)
      BY DEF CommitInv, CommitTypeOK
    <2>2. n + 1 \in 1 .. Len(writers) + 1 /\ Len(writers) \in n .. Len(writers)
      BY <1>4
    <2> QED
      BY <1>4, <2>1, <2>2, CommitLengths
  <1>6. /\ \A i \in 1 .. n : writers[i] # u => writers[i] \in group
        /\ \A v \in group : v \in Users /\ v # u /\ \E i \in 1 .. n : writers[i] = v
    BY <1>4, CommitLengths
  <1>19. rest # <<>> => Head(rest) = rest[1] /\ 1 \in 1 .. Len(rest)
    BY <1>5
  <1> HIDE DEF group, rest
  <1>7. \A i \in 1 .. Len(rest) : rest[i] \in Users /\ rest[i] # u /\ rest[i] \notin group
    <2> SUFFICES ASSUME NEW i \in 1 .. Len(rest)
                 PROVE  rest[i] \in Users /\ rest[i] # u /\ rest[i] \notin group
      OBVIOUS
    <2>1. /\ n + i \in 1 .. Len(writers) /\ rest[i] = writers[n + i]
          /\ \A j \in 1 .. n : j \in 1 .. Len(writers) /\ j # n + i
      BY <1>4, <1>5
    <2>2. \A j \in 1 .. n : writers[j] # writers[n + i]
      BY <2>1 DEF CommitInv, QueueAgrees
    <2>3. 1 \in 1 .. n
      BY <1>4
    <2> QED
      BY <1>2, <1>6, <2>1, <2>2, <2>3, CommitLengths, Zenon
  <1>8. \A v \in Users : user[v] \in Writers
    BY DEF CommitInv, CommitTypeOK
  <1>9. /\ user'[u] \in Writers /\ user'[u].pc = "user" /\ user'[u].n = user[u].n
    <2>1. user'[u] = [user[u] EXCEPT !.pc = "user"]
      BY <1>1, <1>6, <1>19, <1>7, Zenon
    <2> QED
      BY <1>8, <2>1 DEF Writers
  <1>10. \A v \in group : /\ user'[v] \in Writers /\ user'[v].n = user[v].n
                          /\ ~ InQueue(user'[v]) /\ user'[v].pc # "finish"
    <2>1. \A v \in group : user'[v] = Signalled(user[v], TRUE) /\ ~ Leading(user[v])
      <3> SUFFICES ASSUME NEW v \in group
                   PROVE  user'[v] = Signalled(user[v], TRUE) /\ ~ Leading(user[v])
        BY Zenon
      <3>1. v \in Users /\ v # u /\ ~ Leading(user[v]) /\ ~ (rest # <<>> /\ v = Head(rest))
        BY <1>2, <1>6, <1>19, <1>7
      <3>2. user'[v] = CASE v = u -> [user[v] EXCEPT !.pc = "user"]
                         [] v \in group -> Signalled(user[v], TRUE)
                         [] rest # <<>> /\ v = Head(rest) -> Signalled(user[v], user[v].done)
                         [] OTHER -> user[v]
        BY <1>1, <3>1, Zenon
      <3> QED
        BY <3>1, <3>2
    <2>2. \A v \in group : /\ user'[v] \in Writers /\ user'[v].n = user[v].n
                           /\ ~ InQueue(user'[v]) /\ ~ Leading(user'[v])
      <3> SUFFICES ASSUME NEW v \in group
                   PROVE  /\ user'[v] \in Writers /\ user'[v].n = user[v].n
                          /\ ~ InQueue(user'[v]) /\ ~ Leading(user'[v])
        OBVIOUS
      <3>1. user[v] \in Writers /\ user'[v] = Signalled(user[v], TRUE) /\ ~ Leading(user[v])
        BY <1>6, <1>8, <2>1, Zenon
      <3>2. /\ Signalled(user[v], TRUE) \in Writers /\ Signalled(user[v], TRUE).n = user[v].n
            /\ Leading(Signalled(user[v], TRUE)) <=> Leading(user[v])
            /\ InQueue(Signalled(user[v], TRUE)) => Leading(user[v])
        BY <3>1, SignalledFacts, Zenon
      <3> QED
        BY <3>1, <3>2, Zenon
    <2> QED
      BY <2>2 DEF Leading
  <1>11. \A v \in Users : v # u /\ v \notin group =>
           /\ user'[v] \in Writers /\ user'[v].n = user[v].n
           /\ InQueue(user'[v]) <=> InQueue(user[v])
           /\ user'[v].pc # "finish" /\ ~ Leading(user'[v])
    <2>1. \A v \in Users : v # u /\ v \notin group =>
            user'[v] = user[v] \/ user'[v] = Signalled(user[v], user[v].done)
      <3> SUFFICES ASSUME NEW v \in Users, v # u, v \notin group
                   PROVE  user'[v] = user[v] \/ user'[v] = Signalled(user[v], user[v].done)
        OBVIOUS
      <3>1. user'[v] = CASE v = u -> [user[v] EXCEPT !.pc = "user"]
                         [] v \in group -> Signalled(user[v], TRUE)
                         [] rest # <<>> /\ v = Head(rest) -> Signalled(user[v], user[v].done)
                         [] OTHER -> user[v]
        BY <1>1, Zenon
      <3>2. CASE rest # <<>> /\ v = Head(rest)
        BY <3>1, <3>2
      <3>3. CASE ~ (rest # <<>> /\ v = Head(rest))
        BY <3>1, <3>3
      <3> QED
        BY <3>2, <3>3
    <2>2. \A v \in Users : v # u => ~ Leading(user[v])
      BY <1>2
    <2>3. \A v \in Users : v # u /\ v \notin group =>
            /\ user'[v] \in Writers /\ user'[v].n = user[v].n
            /\ InQueue(user'[v]) <=> InQueue(user[v])
            /\ ~ Leading(user'[v])
      <3> SUFFICES ASSUME NEW v \in Users, v # u, v \notin group
                   PROVE  /\ user'[v] \in Writers /\ user'[v].n = user[v].n
                          /\ InQueue(user'[v]) <=> InQueue(user[v])
                          /\ ~ Leading(user'[v])
        OBVIOUS
      <3>1. user[v] \in Writers /\ ~ Leading(user[v])
        BY <1>8, <2>2
      <3>2. CASE user'[v] = user[v]
        BY <3>1, <3>2
      <3>3. CASE user'[v] = Signalled(user[v], user[v].done)
        <4>1. /\ Signalled(user[v], user[v].done) \in Writers
              /\ Signalled(user[v], user[v].done).n = user[v].n
              /\ Leading(Signalled(user[v], user[v].done)) <=> Leading(user[v])
              /\ InQueue(Signalled(user[v], user[v].done)) <=> InQueue(user[v])
          BY <3>1, SignalledFacts, Zenon
        <4> QED
          BY <3>1, <3>3, <4>1
      <3> QED
        BY <2>1, <3>2, <3>3
    <2> QED
      BY <2>3 DEF Leading
  <1>12. ~ InQueue(user'[u])
    BY <1>9 DEF InQueue, Leading
  <1>13. \A v \in Users : ~ Leading(user'[v]) /\ user'[v].pc # "finish" /\ user'[v].n = user[v].n
    BY <1>9, <1>10, <1>11 DEF InQueue, Leading
  <1>14. CommitTypeOK'
    <2>1. user' \in [Users -> Writers]
      BY <1>1, <1>9, <1>10, <1>11, Zenon
    <2>2. writers' \in Seq(Users) /\ count' \in Nat
      BY <1>1, <1>4, <1>5, CommitLengths
    <2> QED
      BY <1>1, <2>1, <2>2, Zenon DEF CommitInv, CommitTypeOK
  <1>15. QueueAgrees'
    <2>1. \A i, j \in 1 .. Len(writers') : writers'[i] = writers'[j] => i = j
      <3> SUFFICES ASSUME NEW i \in 1 .. Len(rest), NEW j \in 1 .. Len(rest), rest[i] = rest[j]
                   PROVE  i = j
        BY <1>1
      <3>1. n + i \in 1 .. Len(writers) /\ n + j \in 1 .. Len(writers)
        BY <1>4, <1>5
      <3>2. writers[n + i] = writers[n + j]
        BY <1>5
      <3>3. n + i = n + j
        BY <3>1, <3>2 DEF CommitInv, QueueAgrees
      <3> QED
        BY <1>4, <3>3
    <2>2. \A i \in 1 .. Len(writers') : InQueue(user'[writers'[i]])
      <3> SUFFICES ASSUME NEW i \in 1 .. Len(rest) PROVE InQueue(user'[rest[i]])
        BY <1>1, Zenon
      <3>8. n + i \in 1 .. Len(writers) /\ rest[i] = writers[n + i]
        BY <1>4, <1>5
      <3>1. InQueue(user[rest[i]])
        BY <3>8 DEF CommitInv, QueueAgrees
      <3> QED
        BY <1>7, <1>11, <3>1
    <2>3. ASSUME NEW v \in Users, InQueue(user'[v])
          PROVE  \E i \in 1 .. Len(writers') : writers'[i] = v
      <3>1. v # u /\ v \notin group /\ InQueue(user[v])
        BY <1>10, <1>11, <1>12, <2>3
      <3>2. PICK j \in 1 .. Len(writers) : writers[j] = v
        BY <3>1 DEF CommitInv, QueueAgrees
      <3>3. j > n
        BY <1>4, <1>6, <3>1, <3>2
      <3>4. j - n \in 1 .. Len(rest) /\ n + (j - n) = j
        BY <1>4, <1>5, <3>3
      <3> QED
        BY <1>1, <1>5, <3>2, <3>4
    <2>4. Len(queued') = count' + Len(writers')
      BY <1>1, <1>4, <1>5, CommitLengths DEF CommitInv, QueueAgrees
    <2>5. ASSUME NEW i \in 1 .. Len(writers')
          PROVE  queued'[count' + i] = <<writers'[i], user'[writers'[i]].n>>
      <3>1. i \in 1 .. Len(rest) /\ n + i \in 1 .. Len(writers) /\ count' + i = count + (n + i)
        BY <1>1, <1>4, <1>5, CommitLengths
      <3>2. queued[count + (n + i)] = Datum(writers[n + i])
        BY <3>1 DEF CommitInv, QueueAgrees
      <3>3. writers'[i] = writers[n + i] /\ writers[n + i] \in Users
        BY <1>1, <1>5, <1>7, <3>1
      <3>4. user'[writers[n + i]].n = user[writers[n + i]].n
        BY <1>13, <3>3, Zenon
      <3>5. queued'[count' + i] = <<writers[n + i], user[writers[n + i]].n>>
        BY <1>1, <3>1, <3>2, Zenon DEF Datum
      <3> QED
        BY <3>3, <3>4, <3>5, Zenon
    <2> QED
      BY <2>1, <2>2, <2>3, <2>4, <2>5 DEF QueueAgrees, Datum
  <1>16. LeaderAgrees'
    BY <1>13 DEF LeaderAgrees
  <1>17. PrintedAgrees'
    BY <1>1, <1>3, <1>13, Zenon DEF CommitInv, PrintedAgrees
  <1>18. WritesLeft'
    <2> SUFFICES ASSUME NEW v \in Users, NEW i \in 1 .. user'[v].n,
                        i < user'[v].n \/ ~ InQueue(user'[v])
                 PROVE  \E k \in 1 .. count' : queued'[k] = <<v, i>>
      BY DEF WritesLeft
    <2>1. i \in 1 .. user[v].n /\ user'[v].n = user[v].n /\ user[v].n \in Nat
      BY <1>8, <1>13 DEF Writers
    <2>2. CASE i < user[v].n \/ ~ InQueue(user[v])
      <3>1. PICK k \in 1 .. count : queued[k] = <<v, i>>
        BY <2>1, <2>2, Zenon DEF CommitInv, WritesLeft
      <3>2. k \in 1 .. count'
        BY <1>1, <1>4, CommitLengths
      <3> QED
        BY <1>1, <3>1, <3>2
    <2>3. CASE i = user[v].n /\ InQueue(user[v])
      <3>1. PICK j \in 1 .. Len(writers) : writers[j] = v
        BY <2>3 DEF CommitInv, QueueAgrees
      <3>2. j <= n
        <4> SUFFICES ASSUME j > n PROVE FALSE
          BY <1>4
        <4>1. j - n \in 1 .. Len(rest) /\ n + (j - n) = j
          BY <1>4, <1>5
        <4>2. v = rest[j - n]
          BY <1>5, <3>1, <4>1
        <4>3. v # u /\ v \notin group
          BY <1>7, <4>1, <4>2
        <4>4. InQueue(user'[v])
          BY <1>11, <2>3, <4>3
        <4> QED
          BY <2>1, <2>3, <4>4
      <3>3. queued[count + j] = <<v, i>>
        BY <2>3, <3>1 DEF CommitInv, QueueAgrees, Datum
      <3>4. count + j \in 1 .. count'
        BY <1>1, <1>4, <3>2, CommitLengths
      <3> QED
        BY <1>1, <3>3, <3>4
    <2> QED
      BY <2>1, <2>2, <2>3
  <1> QED
    BY <1>14, <1>15, <1>16, <1>17, <1>18 DEF CommitInv

(* Every step of a thread keeps the invariant.                             *)
LEMMA CommitStep ==
  ASSUME CommitInv, [Next]_vars
  PROVE  CommitInv'
  <1>1. ASSUME NEW u \in Users, Write(u) PROVE CommitInv'
    <2>1. CASE Head(Append(writers, u)) = u
      BY <1>1, <2>1, WriteLeads
    <2>2. CASE Head(Append(writers, u)) # u
      BY <1>1, <2>2, WriteWaits DEF Write
    <2> QED
      BY <2>1, <2>2
  <1>2. ASSUME NEW u \in Users, Woken(u) \/ EmitGroup(u) \/ Finish(u) \/ Spurious(u)
        PROVE  CommitInv'
    BY <1>2, WokenKeeps, EmitKeeps, FinishKeeps, SpuriousKeeps
  <1>3. CASE UNCHANGED vars
    BY <1>3, CommitQuiet DEF vars, CommitInv, CommitTypeOK
  <1> QED
    BY <1>1, <1>2, <1>3 DEF Next, Step
=============================================================================
