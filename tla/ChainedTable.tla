---------------------------- MODULE ChainedTable ----------------------------
(***************************************************************************)
(* HashTable of cpp-util/lrucache.h: buckets of chained entries, a power   *)
(* of two of them, doubled when the elements outnumber the buckets.  The   *)
(* chain of a bucket is a sequence; Resize relinks every chain, which      *)
(* turns it around.  An entry is its key and its value; hash is the hash   *)
(* of a key.                                                               *)
(***************************************************************************)
EXTENDS Integers, SequencesExt

CONSTANTS Keys, Values, NULL, hash

VARIABLES
  length_,
  elems_,
  list_     \* the chain of every bucket

vars == <<length_, elems_, list_>>

Bucket(k, length) == hash[k] % length

\* FindPointer: the place of the first entry with the key in its chain, or
\* the place after the last one.
FindPointer(k) ==
  LET chain == list_[Bucket(k, length_)]
      found == {i \in 1 .. Len(chain) : chain[i].key = k}
  IN  IF found = {} THEN Len(chain) + 1 ELSE Min(found)

\* What Lookup returns: an entry's value, or NULL.
Lookup(k) ==
  LET chain == list_[Bucket(k, length_)]
      i == FindPointer(k)
  IN  IF i > Len(chain) THEN NULL ELSE chain[i].value

\* The first power of two, from 4, that is not below n.
NewLength(n) == CHOOSE m \in {2 ^ i : i \in 2 .. n + 2} :
                  m >= n /\ \A l \in {2 ^ i : i \in 2 .. n + 2} : l >= n => m <= l

AllEntries(list, length) == FlattenSeq([b \in 1 .. length |-> list[b - 1]])

\* The chains are copied, their entries stay where they were.
BugResized(list, length, new_length) ==
  [b \in 0 .. new_length - 1 |-> IF b < length THEN list[b] ELSE <<>>]

\* Resize: the buckets in their order, each from its front, every entry to
\* the front of its new chain.
Resized(list, length, new_length) ==
  [b \in 0 .. new_length - 1 |->
     Reverse(SelectSeq(AllEntries(list, length),
                       LAMBDA h : Bucket(h.key, new_length) = b))]

-----------------------------------------------------------------------------

\* The constructor calls Resize.
Init ==
  /\ length_ = 4
  /\ elems_ = 0
  /\ list_ = [b \in 0 .. 3 |-> <<>>]

\* Insert: in the place of the old entry, or at the end of the chain.
Insert(k, v) ==
  LET b == Bucket(k, length_)
      i == FindPointer(k)
      h == [key |-> k, value |-> v]
      isNew == i > Len(list_[b])
      list == [list_ EXCEPT ![b] = IF isNew THEN Append(@, h) ELSE [@ EXCEPT ![i] = h]]
  IN  /\ elems_' = elems_ + (IF isNew THEN 1 ELSE 0)
      /\ IF elems_' > length_
         THEN /\ length_' = NewLength(elems_')
              /\ list_' = Resized(list, length_, length_')
         ELSE /\ list_' = list
              /\ UNCHANGED length_

RemoveKey(k) ==
  LET b == Bucket(k, length_)
      i == FindPointer(k)
  IN  /\ i <= Len(list_[b])
      /\ list_' = [list_ EXCEPT ![b] = RemoveAt(@, i)]
      /\ elems_' = elems_ - 1
      /\ UNCHANGED length_

Next == \E k \in Keys : RemoveKey(k) \/ \E v \in Values : Insert(k, v)

Spec == Init /\ [][Next]_vars

-----------------------------------------------------------------------------
(* Properties.                                                             *)

TypeOK ==
  /\ length_ \in {2 ^ i : i \in 2 .. 8}
  /\ elems_ \in Nat
  /\ DOMAIN list_ = 0 .. length_ - 1
  /\ \A b \in DOMAIN list_ : list_[b] \in Seq([key : Keys, value : Values])

\* Every entry is in the chain where FindPointer looks for it, no key is
\* there twice, and elems_ counts the entries.
ChainsAgree ==
  /\ TypeOK
  /\ \A b \in DOMAIN list_ : \A i \in 1 .. Len(list_[b]) :
       /\ Bucket(list_[b][i].key, length_) = b
       /\ \A j \in 1 .. Len(list_[b]) : list_[b][j].key = list_[b][i].key => i = j
  /\ elems_ = Len(AllEntries(list_, length_))
  /\ elems_ <= length_

TableContents == [k \in Keys |-> Lookup(k)]

(* The table is a map: Insert sets the value of its key, Remove clears it, *)
(* no other key is affected, also when Insert moves every entry, and every *)
(* entry ends up in the chain where it is looked for.                      *)
MapStep ==
  /\ ChainsAgree'
  /\ \A k \in Keys :
       /\ \A v \in Values : Insert(k, v) => TableContents' = [TableContents EXCEPT ![k] = v]
       /\ RemoveKey(k) => TableContents' = [TableContents EXCEPT ![k] = NULL]
ActsAsMap == [][MapStep]_vars
=============================================================================
