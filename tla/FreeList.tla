------------------------------ MODULE FreeList ------------------------------
(***************************************************************************)
(* FreeList of cpp-util/concurrentqueue.h: the stack from which the queue  *)
(* takes its blocks and to which it returns them.  Every node counts the   *)
(* threads that look at it, plus one while it is on the list; a node that  *)
(* is given back while others look at it only gets its                     *)
(* SHOULD_BE_ON_FREELIST bit, and whoever brings the count to zero pushes  *)
(* it.  A step is one atomic access, with the locals read before it.       *)
(***************************************************************************)
EXTENDS Naturals, FiniteSets

CONSTANTS ListThreads, ListNodes, NULL

VARIABLES
  freeListHead,
  freeListNext,   \* of each node
  refs, should,   \* freeListRefs: the count, and the SHOULD_BE_ON_FREELIST bit
  listPc,         \* of each thread: control point and its locals
  held            \* the nodes the caller of a thread has in use

vars == <<freeListHead, freeListNext, refs, should, listPc, held>>

Idle == [at |-> "idle", node |-> NULL, head |-> NULL, seen |-> NULL,
         refs |-> 0, should |-> FALSE]
At(t, p) == listPc[t].at = p
Goto(t, rec) == listPc' = [listPc EXCEPT ![t] = rec]

\* The loop of try_get with the head it has loaded; NULL returned for none.
TryGet(head) ==
  IF head = NULL THEN Idle ELSE [Idle EXCEPT !.at = "refs", !.node = head]

\* Every node is in the hands of a thread at first: the queue creates blocks
\* in use, and adds them when they are empty.
Init ==
  /\ freeListHead = NULL
  /\ freeListNext = [n \in ListNodes |-> NULL]
  /\ refs = [n \in ListNodes |-> 0] /\ should = [n \in ListNodes |-> FALSE]
  /\ listPc = [t \in ListThreads |-> Idle]
  /\ \E f \in [ListNodes -> ListThreads] :
       held = [t \in ListThreads |-> {n \in ListNodes : f[n] = t}]

\* add: the bit, and the push when nobody looks at the node.
add(t, n) ==
  /\ At(t, "idle") /\ n \in held[t]
  /\ held' = [held EXCEPT ![t] = @ \ {n}]
  /\ should' = [should EXCEPT ![n] = TRUE]
  /\ Goto(t, IF refs[n] = 0 THEN [Idle EXCEPT !.at = "push", !.node = n] ELSE Idle)
  /\ UNCHANGED <<freeListHead, freeListNext, refs>>

\* add_knowing_refcount_is_zero: load the head, ...
LoadForPush(t) ==
  /\ At(t, "push")
  /\ Goto(t, [listPc[t] EXCEPT !.at = "link", !.head = freeListHead])
  /\ UNCHANGED <<freeListHead, freeListNext, refs, should, held>>

\* ... store next, then a count of one, which clears the bit, ...
Link(t) ==
  LET n == listPc[t].node
  IN  /\ At(t, "link")
      /\ freeListNext' = [freeListNext EXCEPT ![n] = listPc[t].head]
      /\ refs' = [refs EXCEPT ![n] = 1] /\ should' = [should EXCEPT ![n] = FALSE]
      /\ Goto(t, [listPc[t] EXCEPT !.at = "swing"])
      /\ UNCHANGED <<freeListHead, held>>

\* ... and swing the head.  A failed exchange has loaded the new head.
Swing(t) ==
  /\ At(t, "swing")
  /\ IF freeListHead = listPc[t].head
     THEN freeListHead' = listPc[t].node /\ Goto(t, [listPc[t] EXCEPT !.at = "pushed"])
     ELSE /\ Goto(t, [listPc[t] EXCEPT !.at = "undo", !.head = freeListHead])
          /\ UNCHANGED freeListHead
  /\ UNCHANGED <<freeListNext, refs, should, held>>

\* The push failed: take the count back and set the bit; go on only when
\* nobody came to look at the node meanwhile.
Undo(t) ==
  LET n == listPc[t].node
  IN  /\ At(t, "undo")
      /\ refs' = [refs EXCEPT ![n] = @ - 1] /\ should' = [should EXCEPT ![n] = TRUE]
      /\ Goto(t, [listPc[t] EXCEPT !.at = IF refs[n] = 1 THEN "link" ELSE "pushed"])
      /\ UNCHANGED <<freeListHead, freeListNext, held>>

\* A push ends its call, or the loop of try_get that made it goes on with
\* the head that the failed exchange had loaded.
Pushed(t) ==
  /\ At(t, "pushed")
  /\ Goto(t, IF listPc[t].refs = 0 THEN Idle ELSE TryGet(listPc[t].seen))
  /\ UNCHANGED <<freeListHead, freeListNext, refs, should, held>>

-----------------------------------------------------------------------------

try_get(t) ==
  /\ At(t, "idle")
  /\ Goto(t, [Idle EXCEPT !.at = "head"])
  /\ UNCHANGED <<freeListHead, freeListNext, refs, should, held>>

LoadHead(t) ==
  /\ At(t, "head")
  /\ Goto(t, TryGet(freeListHead))
  /\ UNCHANGED <<freeListHead, freeListNext, refs, should, held>>

\* Its count: a node with none is on its way off or onto the list.
LoadRefs(t) ==
  LET n == listPc[t].node
  IN  /\ At(t, "refs")
      /\ Goto(t, IF refs[n] = 0 THEN [Idle EXCEPT !.at = "head"]
                 ELSE [listPc[t] EXCEPT !.at = "ref", !.refs = refs[n],
                                        !.should = should[n]])
      /\ UNCHANGED <<freeListHead, freeListNext, refs, should, held>>

\* One more looks at it, unless its count moved since.
TakeRef(t) ==
  LET n == listPc[t].node
  IN  /\ At(t, "ref")
      /\ IF refs[n] = listPc[t].refs /\ should[n] = listPc[t].should
         THEN /\ refs' = [refs EXCEPT ![n] = @ + 1]
              /\ Goto(t, [listPc[t] EXCEPT !.at = "next"])
         ELSE Goto(t, [Idle EXCEPT !.at = "head"]) /\ UNCHANGED refs
      /\ UNCHANGED <<freeListHead, freeListNext, should, held>>

LoadNext(t) ==
  /\ At(t, "next")
  /\ Goto(t, [listPc[t] EXCEPT !.at = "pop", !.head = freeListNext[listPc[t].node]])
  /\ UNCHANGED <<freeListHead, freeListNext, refs, should, held>>

\* Take the node off the list; a failed exchange has loaded the new head.
Pop(t) ==
  /\ At(t, "pop")
  /\ IF freeListHead = listPc[t].node
     THEN freeListHead' = listPc[t].head /\ Goto(t, [listPc[t] EXCEPT !.at = "got"])
     ELSE /\ Goto(t, [listPc[t] EXCEPT !.at = "unref", !.seen = freeListHead])
          /\ UNCHANGED freeListHead
  /\ UNCHANGED <<freeListNext, refs, should, held>>

\* Drop the own count and the list's, and return the node.
Got(t) ==
  LET n == listPc[t].node
  IN  /\ At(t, "got")
      /\ refs' = [refs EXCEPT ![n] = @ - 2]
      /\ held' = [held EXCEPT ![t] = @ \cup {n}]
      /\ Goto(t, Idle)
      /\ UNCHANGED <<freeListHead, freeListNext, should>>

\* The mutant forgets that the last to look must push a node given back.
BugUnref(t) ==
  LET n == listPc[t].node
  IN  /\ At(t, "unref")
      /\ refs' = [refs EXCEPT ![n] = @ - 1]
      /\ Goto(t, TryGet(listPc[t].seen))
      /\ UNCHANGED <<freeListHead, freeListNext, should, held>>

\* Somebody else took it: drop the own count, and push the node when it was
\* given back and nobody else looks at it.
Unref(t) ==
  LET n == listPc[t].node
  IN  /\ At(t, "unref")
      /\ refs' = [refs EXCEPT ![n] = @ - 1]
      /\ Goto(t, IF refs[n] = 1 /\ should[n] THEN [listPc[t] EXCEPT !.at = "push"]
                 ELSE TryGet(listPc[t].seen))
      /\ UNCHANGED <<freeListHead, freeListNext, should, held>>

Step(t) ==
  \/ \E n \in ListNodes : add(t, n)
  \/ LoadForPush(t) \/ Link(t) \/ Swing(t) \/ Undo(t) \/ Pushed(t)
  \/ try_get(t) \/ LoadHead(t) \/ LoadRefs(t) \/ TakeRef(t) \/ LoadNext(t)
  \/ Pop(t) \/ Got(t) \/ Unref(t)

Next == \E t \in ListThreads : Step(t)

Spec == Init /\ [][Next]_vars

-----------------------------------------------------------------------------

\* The nodes from the head on.
OnList ==
  LET reach[k \in 0 .. Cardinality(ListNodes)] ==
        IF k = 0 THEN {freeListHead}
        ELSE reach[k - 1] \cup {freeListNext[n] : n \in reach[k - 1] \ {NULL}}
  IN  reach[Cardinality(ListNodes)] \ {NULL}

\* No block is handed to two callers or kept on the list while in use, and
\* when no call is under way every block that is not in use is on the list:
\* the one that was given back while other threads looked at it as well.
FreeListIntact ==
  /\ \A t, u \in ListThreads : t # u => held[t] \cap held[u] = {}
  /\ OnList \cap UNION {held[t] : t \in ListThreads} = {}
  /\ (\A t \in ListThreads : listPc[t] = Idle)
       => OnList = ListNodes \ UNION {held[t] : t \in ListThreads}
=============================================================================
