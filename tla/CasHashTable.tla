---------------------------- MODULE CasHashTable ----------------------------
(***************************************************************************)
(* HashTable of cpp-util/cas_hashtable.h: Put pushes a bucket on the front *)
(* of its chain with a compare-and-swap, Get walks the chain; nothing is   *)
(* ever removed.  A step is one access to shared memory.                   *)
(*                                                                         *)
(* Chains do not touch each other, so the model is one chain.  A bucket is *)
(* numbered by the Put that allocates it, which is also the value it puts. *)
(***************************************************************************)
EXTENDS Naturals, FiniteSets

CONSTANTS HashThreads, HashKeys, MaxPuts, NULL

VARIABLES
  list_,    \* the head of the chain
  key, next_bucket,   \* by bucket
  htask,    \* by thread: [op, b, old, key, p, before]
  done      \* ghost: the puts that have returned

vars == <<list_, key, next_bucket, htask, done>>

Buckets == 1 .. MaxPuts
Rest == [op |-> "rest", b |-> NULL, old |-> NULL, key |-> NULL, p |-> NULL, before |-> {}]

Init ==
  /\ list_ = NULL
  /\ key = [b \in Buckets |-> NULL] /\ next_bucket = [b \in Buckets |-> NULL]
  /\ htask = [t \in HashThreads |-> Rest]
  /\ done = {}

Becomes(t, f) == htask' = [htask EXCEPT ![t] = f]

\* The bucket is allocated and filled.
Put(t, k) ==
  LET b == Cardinality({c \in Buckets : key[c] # NULL}) + 1
  IN  /\ htask[t].op = "rest" /\ b \in Buckets
      /\ key' = [key EXCEPT ![b] = k]
      /\ Becomes(t, [Rest EXCEPT !.op = "old", !.b = b])
      /\ UNCHANGED <<list_, next_bucket, done>>

ReadOldHead(t) ==
  /\ htask[t].op = "old"
  /\ Becomes(t, [htask[t] EXCEPT !.op = "next", !.old = list_])
  /\ UNCHANGED <<list_, key, next_bucket, done>>

\* The head is read a second time for the bucket's own pointer.
ReadNext(t) ==
  /\ htask[t].op = "next"
  /\ next_bucket' = [next_bucket EXCEPT ![htask[t].b] = list_]
  /\ Becomes(t, [htask[t] EXCEPT !.op = "cas"])
  /\ UNCHANGED <<list_, key, done>>

\* An exchange in place of the compare-and-swap.
BugSwap(t) ==
  LET c == htask[t]
  IN  /\ c.op = "cas" /\ list_' = c.b
      /\ done' = done \cup {c.b} /\ Becomes(t, Rest)
      /\ UNCHANGED <<key, next_bucket>>

Swap(t) ==
  LET c == htask[t]
  IN  /\ c.op = "cas"
      /\ IF list_ = c.old
         THEN list_' = c.b /\ done' = done \cup {c.b} /\ Becomes(t, Rest)
         ELSE Becomes(t, [c EXCEPT !.op = "old"]) /\ UNCHANGED <<list_, done>>
      /\ UNCHANGED <<key, next_bucket>>

Get(t, k) ==
  /\ htask[t].op = "rest"
  /\ Becomes(t, [Rest EXCEPT !.op = "walk", !.key = k, !.p = list_, !.before = done])
  /\ UNCHANGED <<list_, key, next_bucket, done>>

Walk(t) ==
  LET c == htask[t]
  IN  /\ c.op = "walk"
      /\ IF c.p # NULL /\ key[c.p] # c.key
         THEN Becomes(t, [c EXCEPT !.p = next_bucket[c.p]])
         ELSE Becomes(t, [c EXCEPT !.op = "got"])
      /\ UNCHANGED <<list_, key, next_bucket, done>>

GetReturns(t) ==
  htask[t].op = "got" /\ Becomes(t, Rest) /\ UNCHANGED <<list_, key, next_bucket, done>>

Step(t) ==
  \/ \E k \in HashKeys : Put(t, k) \/ Get(t, k)
  \/ ReadOldHead(t) \/ ReadNext(t) \/ Swap(t) \/ Walk(t) \/ GetReturns(t)

Next == \E t \in HashThreads : Step(t)
Spec == Init /\ [][Next]_vars

-----------------------------------------------------------------------------

\* The chain from b, b included.
Chain(b) ==
  LET at[i \in 0 .. MaxPuts] ==
        IF i = 0 THEN b ELSE IF at[i - 1] = NULL THEN NULL ELSE next_bucket[at[i - 1]]
  IN  {at[i] : i \in 0 .. MaxPuts} \ {NULL}

\* No Put is lost however the swaps of several threads interleave: a bucket
\* whose Put has returned is on the chain, and a Get that began after a Put of
\* its key returned finds that bucket or one put in front of it.
PutsStay ==
  /\ done \subseteq Chain(list_)
  /\ \A t \in HashThreads :
       LET c == htask[t]
           seen == {b \in c.before : key[b] = c.key}
       IN  c.op = "got" =>
             /\ c.p = NULL => seen = {}
             /\ c.p # NULL => \A b \in seen : b = c.p \/ b \in Chain(c.p)
=============================================================================
