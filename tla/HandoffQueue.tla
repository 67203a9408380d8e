---------------------------- MODULE HandoffQueue ----------------------------
(***************************************************************************)
(* What a blocking FIFO queue promises its callers, each call taking       *)
(* effect in one step.  A pop of an empty queue waits in line; a push      *)
(* hands its element to the first in line, or appends it.                  *)
(***************************************************************************)
EXTENDS Sequences

CONSTANTS Consumers, Values, Nothing

VARIABLES items,    \* elements in the queue, oldest first
          waiters,  \* consumers waiting, first come first
          got       \* the element a consumer has been given, until it returns

vars == <<items, waiters, got>>

Init ==
  /\ items = <<>>
  /\ waiters = <<>>
  /\ got = [c \in Consumers |-> Nothing]

Push(v) ==
  \/ /\ waiters = <<>>
     /\ items' = Append(items, v)
     /\ UNCHANGED <<waiters, got>>
  \/ /\ waiters # <<>>
     /\ got' = [got EXCEPT ![Head(waiters)] = v]
     /\ waiters' = Tail(waiters)
     /\ UNCHANGED items

Pop(c) ==
  /\ got[c] = Nothing
  /\ \A i \in DOMAIN waiters : waiters[i] # c
  /\ \/ /\ items # <<>>
        /\ got' = [got EXCEPT ![c] = Head(items)]
        /\ items' = Tail(items)
        /\ UNCHANGED waiters
     \/ /\ items = <<>>
        /\ waiters' = Append(waiters, c)
        /\ UNCHANGED <<items, got>>

Return(c) ==
  /\ got[c] # Nothing
  /\ got' = [got EXCEPT ![c] = Nothing]
  /\ UNCHANGED <<items, waiters>>

Next ==
  \/ \E v \in Values : Push(v)
  \/ \E c \in Consumers : Pop(c) \/ Return(c)

Spec == Init /\ [][Next]_vars
=============================================================================
