------------------------------ MODULE LRUCache ------------------------------
(***************************************************************************)
(* LRUCache of cpp-util/lrucache.h, one shard of ShardedLRUCache.  Entries *)
(* are counted references: one of the cache while in_cache, one of every   *)
(* handle a client has not released.  Entries nobody but the cache refers  *)
(* to are on the list lru_, oldest first; the others on in_use_.           *)
(*                                                                         *)
(* The methods run under mutex_.  Insert and Prune evict in a loop: busy   *)
(* tells which of them holds mutex_, and one action is one turn of the     *)
(* loop.  The hash table is the map that ChainedTable implements.          *)
(***************************************************************************)
EXTENDS Integers, Sequences, TLAPS

CONSTANTS
  Keys,
  Values,
  Addresses,  \* bound: where malloc can place an entry
  NULL,
  capacity_,
  MaxHandles  \* bound: handles on one entry

\* What malloc gives an entry.
Entries == [key : Keys, value : Values, refs : Nat, in_cache : BOOLEAN]

ASSUME CacheAssumption ==
  /\ capacity_ \in Nat \ {0}
  /\ MaxHandles \in Nat
  /\ NULL \notin Addresses \cup Entries

VARIABLES
  entry,          \* what is allocated at an address, NULL if nothing
  table_,         \* the entry of a key
  lru_, in_use_,
  usage_,
  busy,           \* the running loop: "no", "insert" or "prune"
  made,           \* the entry the running Insert will return
  handles         \* history: handles the clients hold, by address

vars == <<entry, table_, lru_, in_use_, usage_, busy, made, handles>>

Live == {e \in Addresses : entry[e] # NULL}
InCache == {e \in Live : entry[e].in_cache}

Elements(list) == {list[i] : i \in DOMAIN list}
NoRepeats(list) == \A i, j \in DOMAIN list : list[i] = list[j] => i = j

\* LRU_Remove, which unlinks the entry from the list it is on: an entry is
\* on one list at most.
LRU_Remove(list, e) ==
  IF e \notin Elements(list) THEN list
  ELSE LET i == CHOOSE i \in DOMAIN list : list[i] = e
       IN  SubSeq(list, 1, i - 1) \o SubSeq(list, i + 1, Len(list))

\* An entry with another count, and in the cache or not.
Counted(x, n, c) == [key |-> x.key, value |-> x.value, refs |-> n, in_cache |-> c]

\* The entry is freed at once.
BugErased(en, e) ==
  [en EXCEPT ![e] = NULL]

\* FinishErase of an entry: unlink it, and free it if the cache's reference
\* was the last.
Erased(en, e) ==
  [en EXCEPT ![e] = IF @.refs = 1 THEN NULL
                    ELSE Counted(@, @.refs - 1, FALSE)]

-----------------------------------------------------------------------------

Init ==
  /\ entry = [e \in Addresses |-> NULL]
  /\ table_ = [k \in Keys |-> NULL]
  /\ lru_ = <<>>
  /\ in_use_ = <<>>
  /\ usage_ = 0
  /\ busy = "no"
  /\ made = NULL
  /\ handles = [e \in Addresses |-> 0]

\* Lookup that finds the key: Ref.  One that does not changes nothing.
Lookup(k) ==
  /\ busy = "no"
  /\ table_[k] # NULL
  /\ LET e == table_[k]
     IN  /\ handles[e] < MaxHandles
         /\ IF entry[e].refs = 1
            THEN lru_' = LRU_Remove(lru_, e) /\ in_use_' = Append(in_use_, e)
            ELSE UNCHANGED <<lru_, in_use_>>
         /\ entry' = [entry EXCEPT ![e] = Counted(@, @.refs + 1, @.in_cache)]
         /\ handles' = [handles EXCEPT ![e] = @ + 1]
  /\ UNCHANGED <<table_, usage_, busy, made>>

\* Release: Unref.
Release(e) ==
  /\ busy = "no"
  /\ handles[e] > 0
  /\ handles' = [handles EXCEPT ![e] = @ - 1]
  /\ entry' = [entry EXCEPT ![e] = IF @.refs = 1 THEN NULL
                                   ELSE Counted(@, @.refs - 1, @.in_cache)]
  /\ IF entry[e].in_cache /\ entry[e].refs = 2
     THEN in_use_' = LRU_Remove(in_use_, e) /\ lru_' = Append(lru_, e)
     ELSE UNCHANGED <<lru_, in_use_>>
  /\ UNCHANGED <<table_, usage_, busy, made>>

\* The entry that was replaced is forgotten.
BugInsert(k, v, e) ==
  /\ busy = "no"
  /\ entry[e] = NULL
  /\ entry' = [entry EXCEPT ![e] = [key |-> k, value |-> v, refs |-> 2, in_cache |-> TRUE]]
  /\ table_' = [table_ EXCEPT ![k] = e]
  /\ in_use_' = Append(in_use_, e)
  /\ usage_' = usage_ + 1
  /\ busy' = "insert"
  /\ made' = e
  /\ UNCHANGED <<lru_, handles>>

\* Insert up to its loop: a new entry, in use from the start, replaces the
\* one the table had for the key.
Insert(k, v, e) ==
  /\ busy = "no"
  /\ entry[e] = NULL
  /\ LET old == table_[k]
         new == [entry EXCEPT ![e] = [key |-> k, value |-> v, refs |-> 2, in_cache |-> TRUE]]
     IN  IF old = NULL
         THEN /\ entry' = new
              /\ in_use_' = Append(in_use_, e)
              /\ usage_' = usage_ + 1
              /\ UNCHANGED lru_
         ELSE /\ entry' = Erased(new, old)
              /\ in_use_' = LRU_Remove(Append(in_use_, e), old)
              /\ lru_' = LRU_Remove(lru_, old)
              /\ UNCHANGED usage_
  /\ table_' = [table_ EXCEPT ![k] = e]
  /\ busy' = "insert"
  /\ made' = e
  /\ UNCHANGED handles

\* One entry too many stays.
BugMustEvict == lru_ # <<>> /\ (busy = "insert" => usage_ > capacity_ + 1)

\* The condition of the running loop.
MustEvict == lru_ # <<>> /\ (busy = "insert" => usage_ > capacity_)

\* One turn of the loop in Insert or Prune: the oldest idle entry goes.
Evict ==
  /\ busy # "no"
  /\ MustEvict
  /\ LET oldest == Head(lru_)
     IN  /\ table_' = [table_ EXCEPT ![entry[oldest].key] = NULL]
         /\ lru_' = LRU_Remove(lru_, oldest)
         /\ entry' = Erased(entry, oldest)
  /\ usage_' = usage_ - 1
  /\ UNCHANGED <<in_use_, busy, made, handles>>

\* Insert or Prune returns.
Return ==
  /\ busy # "no"
  /\ ~ MustEvict
  /\ handles' = IF made = NULL THEN handles ELSE [handles EXCEPT ![made] = @ + 1]
  /\ busy' = "no"
  /\ made' = NULL
  /\ UNCHANGED <<entry, table_, lru_, in_use_, usage_>>

\* Erase of a key that is cached.
Erase(k) ==
  /\ busy = "no"
  /\ table_[k] # NULL
  /\ LET e == table_[k]
     IN  /\ lru_' = LRU_Remove(lru_, e)
         /\ in_use_' = LRU_Remove(in_use_, e)
         /\ entry' = Erased(entry, e)
  /\ table_' = [table_ EXCEPT ![k] = NULL]
  /\ usage_' = usage_ - 1
  /\ UNCHANGED <<busy, made, handles>>

Prune ==
  /\ busy = "no"
  /\ busy' = "prune"
  /\ UNCHANGED <<entry, table_, lru_, in_use_, usage_, made, handles>>

Next ==
  \/ \E k \in Keys : Lookup(k) \/ Erase(k)
  \/ \E k \in Keys, v \in Values, e \in Addresses : Insert(k, v, e)
  \/ \E e \in Addresses : Release(e)
  \/ Prune
  \/ Evict
  \/ Return

Spec == Init /\ [][Next]_vars

-----------------------------------------------------------------------------
(* Properties.                                                             *)

TypeOK ==
  /\ entry \in [Addresses -> Entries \cup {NULL}]
  /\ table_ \in [Keys -> Addresses \cup {NULL}]
  /\ lru_ \in Seq(Addresses)
  /\ in_use_ \in Seq(Addresses)
  /\ usage_ \in Nat
  /\ busy \in {"no", "insert", "prune"}
  /\ made \in Addresses \cup {NULL}
  /\ handles \in [Addresses -> Nat]

\* refs counts exactly the cache's reference and the handles that clients
\* hold or are about to get.
RefsAgree ==
  \A e \in Addresses :
    IF e \in Live
    THEN /\ entry[e].refs = handles[e] + (IF entry[e].in_cache THEN 1 ELSE 0)
                                       + (IF made = e THEN 1 ELSE 0)
         /\ entry[e].refs > 0
    ELSE handles[e] = 0 /\ made # e

\* Each cached entry is on the list its count of references asks for, once.
ListsAgree ==
  /\ Elements(lru_) = {e \in InCache : entry[e].refs = 1}
  /\ Elements(in_use_) = {e \in InCache : entry[e].refs >= 2}
  /\ NoRepeats(lru_)
  /\ NoRepeats(in_use_)

\* The table finds exactly the entries in the cache.  usage_ counts them:
\* each is once on one of the lists.
TableAgrees ==
  /\ \A k \in Keys, e \in Addresses :
       table_[k] = e <=> e \in InCache /\ entry[e].key = k
  /\ usage_ = Len(lru_) + Len(in_use_)

(* An entry is freed when the last reference to it is gone and not before, *)
(* however it left the cache in between; "entries have refs==1 and         *)
(* in_cache==true" on lru_, "refs >= 2 and in_cache==true" on in_use_; and *)
(* an entry that was replaced or erased while it is read counts no more.   *)
(* All variables keep their types.                                         *)
CacheConsistent == TypeOK /\ RefsAgree /\ ListsAgree /\ TableAgrees

\* CacheConsistent is inductive once it says that only Insert is about to
\* return an entry.
CacheInv ==
  /\ CacheConsistent
  /\ busy # "insert" => made = NULL

(* When Insert returns, the cache is within its capacity, or every entry   *)
(* it holds is in use.                                                     *)
OverfullIsInUse ==
  busy = "insert" /\ busy' = "no" =>
    \/ Len(lru_) + Len(in_use_) <= capacity_
    \/ \A e \in InCache : handles'[e] > 0
OverfullOnlyInUse == [][OverfullIsInUse]_vars

(* What a client sees through a handle stays as it is until it lets go,    *)
(* whatever the others insert, erase, prune or look up.                    *)
KeepsHandles ==
  \A e \in Addresses : handles[e] > 0 =>
    /\ entry'[e] # NULL \/ handles'[e] = 0
    /\ handles'[e] > 0 => entry'[e].key = entry[e].key /\ entry'[e].value = entry[e].value
HandlesStayValid == [][KeepsHandles]_vars

-----------------------------------------------------------------------------
(* The lists of the cache.                                                 *)

\* The elements of two lists put together.
LEMMA Joined ==
  ASSUME NEW S, NEW s \in Seq(S), NEW t \in Seq(S)
  PROVE  /\ s \o t \in Seq(S) /\ Len(s \o t) = Len(s) + Len(t)
         /\ \A j \in 1 .. Len(s) + Len(t) :
              (s \o t)[j] = IF j <= Len(s) THEN s[j] ELSE t[j - Len(s)]
  OBVIOUS

\* Unlinking an entry takes it off the list and nothing else.
LEMMA Removed ==
  ASSUME NEW S, NEW list \in Seq(S), NoRepeats(list), NEW e
  PROVE  /\ LRU_Remove(list, e) \in Seq(S)
         /\ Elements(LRU_Remove(list, e)) = Elements(list) \ {e}
         /\ NoRepeats(LRU_Remove(list, e))
         /\ e \in Elements(list) => Len(LRU_Remove(list, e)) = Len(list) - 1
         /\ e \notin Elements(list) => LRU_Remove(list, e) = list
<1>1. CASE e \notin Elements(list)
  BY <1>1 DEF LRU_Remove
<1>2. CASE e \in Elements(list)
  <2>1. PICK i \in DOMAIN list : list[i] = e /\ i = CHOOSE j \in DOMAIN list : list[j] = e
    BY <1>2 DEF Elements
  <2> DEFINE n == Len(list)
             s == SubSeq(list, 1, i - 1)
             t == SubSeq(list, i + 1, n)
  <2>2. n \in Nat /\ DOMAIN list = 1 .. n /\ i \in 1 .. n /\ \A j \in 1 .. n : list[j] \in S
    BY <2>1
  <2>3. s \in Seq(S) /\ Len(s) = i - 1 /\ \A j \in 1 .. i - 1 : s[j] = list[j]
    BY <2>2
  <2>4. t \in Seq(S) /\ Len(t) = n - i /\ \A j \in 1 .. n - i : t[j] = list[i + j]
    <3>1. Len(t) = n - i
      BY <2>2
    <3>2. \A j \in 1 .. n - i : t[j] = list[i + j]
      BY <2>2
    <3>3. t \in Seq(S)
      BY <2>2
    <3> QED BY <3>1, <3>2, <3>3
  <2>5. LRU_Remove(list, e) = s \o t
    BY <1>2, <2>1, Zenon DEF LRU_Remove
  <2> HIDE DEF s, t
  <2> DEFINE r == s \o t
  <2>6. /\ r \in Seq(S) /\ Len(r) = n - 1
        /\ \A j \in 1 .. n - 1 : r[j] = IF j < i THEN list[j] ELSE list[j + 1]
    <3>1. r \in Seq(S) /\ Len(r) = Len(s) + Len(t)
          /\ \A j \in 1 .. Len(s) + Len(t) : r[j] = IF j <= Len(s) THEN s[j] ELSE t[j - Len(s)]
      BY <2>3, <2>4, Joined, Zenon
    <3> HIDE DEF r, n
    <3>2. Len(r) = n - 1
      <4>1. i \in Int /\ n \in Int
        BY <2>2
      <4>2. Len(r) = (i - 1) + (n - i)
        BY <3>1, <2>3, <2>4, Zenon
      <4> QED BY <4>1, <4>2
    <3>3. ASSUME NEW j \in 1 .. n - 1, j < i PROVE r[j] = list[j]
      BY <3>1, <3>3, <2>2, <2>3, <2>4
    <3>4. ASSUME NEW j \in 1 .. n - 1, ~ j < i PROVE r[j] = list[j + 1]
      <4>1. r[j] = t[j - (i - 1)] /\ j - (i - 1) \in 1 .. n - i
        <5>1. j \in Int /\ i \in Int /\ n \in Int /\ i <= j /\ j <= n - 1
          BY <3>4, <2>2
        <5>2. j \in 1 .. Len(s) + Len(t) /\ ~ j <= Len(s) /\ Len(s) = i - 1
          BY <5>1, <3>4, <2>3, <2>4
        <5>3. j - (i - 1) \in 1 .. n - i
          BY <5>1
        <5> QED BY <5>2, <5>3, <3>1, Zenon
      <4>2. i + (j - (i - 1)) = j + 1
        BY <2>2
      <4> QED BY <4>1, <4>2, <2>4
    <3> QED BY <3>1, <3>2, <3>3, <3>4, Zenon
  <2>7. DOMAIN r = 1 .. n - 1
    BY <2>6
  <2> HIDE DEF r, n
  <2>8. \A j \in 1 .. n : list[j] = e <=> j = i
    BY <2>1, <2>2 DEF NoRepeats
  <2>9. ASSUME NEW x \in Elements(r) PROVE x \in Elements(list) \ {e}
    <3>1. PICK j \in 1 .. n - 1 : x = r[j]
      BY <2>7, <2>9 DEF Elements
    <3>2. PICK k \in 1 .. n : x = list[k] /\ k # i
      BY <3>1, <2>2, <2>6
    <3> QED BY <3>2, <2>2, <2>8 DEF Elements
  <2>10. ASSUME NEW x \in Elements(list) \ {e} PROVE x \in Elements(r)
    <3>1. PICK j \in 1 .. n : x = list[j] /\ j # i
      BY <2>1, <2>2, <2>10 DEF Elements
    <3>2. CASE j < i
      BY <3>1, <3>2, <2>2, <2>6, <2>7 DEF Elements
    <3>3. CASE j > i
      <4>1. j - 1 \in 1 .. n - 1 /\ r[j - 1] = x
        BY <3>1, <3>3, <2>2, <2>6
      <4> QED BY <4>1, <2>7 DEF Elements
    <3> QED BY <3>1, <3>2, <3>3, <2>2
  <2>11. NoRepeats(r)
    <3> SUFFICES ASSUME NEW j \in 1 .. n - 1, NEW k \in 1 .. n - 1, r[j] = r[k]
                 PROVE  j = k
      BY <2>7 DEF NoRepeats
    <3> DEFINE At(m) == IF m < i THEN m ELSE m + 1
    <3>1. At(j) \in 1 .. n /\ At(k) \in 1 .. n /\ list[At(j)] = list[At(k)]
      BY <2>2, <2>6
    <3>2. At(j) = At(k)
      BY <3>1, <2>2 DEF NoRepeats
    <3> QED BY <3>2, <2>2
  <2> QED BY <1>2, <2>5, <2>6, <2>9, <2>10, <2>11 DEF r, n
<1> QED BY <1>1, <1>2

\* LRU_Append and emplace_back put an entry on a list it is not on.
LEMMA Appended ==
  ASSUME NEW S, NEW list \in Seq(S), NoRepeats(list), NEW e \in S, e \notin Elements(list)
  PROVE  /\ Append(list, e) \in Seq(S)
         /\ Elements(Append(list, e)) = Elements(list) \cup {e}
         /\ NoRepeats(Append(list, e))
         /\ Len(Append(list, e)) = Len(list) + 1
<1> DEFINE n == Len(list)
           r == Append(list, e)
<1>1. n \in Nat /\ DOMAIN list = 1 .. n
  OBVIOUS
<1>2. r \in Seq(S) /\ Len(r) = n + 1 /\ r[n + 1] = e /\ \A j \in 1 .. n : r[j] = list[j]
  BY <1>1
<1>3. DOMAIN r = 1 .. n + 1
  BY <1>2
<1> HIDE DEF r, n
<1>4. ASSUME NEW x PROVE x \in Elements(r) <=> x \in Elements(list) \/ x = e
  BY <1>1, <1>2, <1>3 DEF Elements
<1>5. NoRepeats(r)
  BY <1>1, <1>2, <1>3 DEF NoRepeats, Elements
<1> QED BY <1>2, <1>4, <1>5 DEF r, n

\* The first of a list that is not empty, and the rest of it.
LEMMA First ==
  ASSUME NEW S, NEW list \in Seq(S), NoRepeats(list), list # <<>>
  PROVE  /\ Head(list) \in Elements(list)
         /\ Head(list) \in S
         /\ Tail(list) \in Seq(S)
         /\ Elements(Tail(list)) = Elements(list) \ {Head(list)}
         /\ NoRepeats(Tail(list))
<1> DEFINE n == Len(list)
           t == Tail(list)
<1>1. n \in Nat /\ DOMAIN list = 1 .. n /\ n >= 1
  OBVIOUS
<1>2. Head(list) = list[1] /\ list[1] \in S
  BY <1>1
<1>3. t \in Seq(S) /\ Len(t) = n - 1 /\ \A j \in 1 .. n - 1 : t[j] = list[j + 1]
  BY <1>1
<1>4. DOMAIN t = 1 .. n - 1
  BY <1>3
<1> HIDE DEF t, n
<1>5. ASSUME NEW x \in Elements(t) PROVE x \in Elements(list) \ {list[1]}
  <2>1. PICK j \in 1 .. n - 1 : x = list[j + 1]
    BY <1>3, <1>4, <1>5 DEF Elements
  <2>2. j + 1 \in 1 .. n /\ j + 1 # 1
    BY <1>1
  <2> QED BY <1>1, <2>1, <2>2 DEF Elements, NoRepeats
<1>6. ASSUME NEW x \in Elements(list) \ {list[1]} PROVE x \in Elements(t)
  <2>1. PICK j \in 1 .. n : x = list[j] /\ j # 1
    BY <1>1, <1>6 DEF Elements
  <2>2. j - 1 \in 1 .. n - 1 /\ t[j - 1] = x
    BY <1>1, <1>3, <2>1
  <2> QED BY <1>4, <2>2 DEF Elements
<1>7. NoRepeats(t)
  <2> SUFFICES ASSUME NEW j \in 1 .. n - 1, NEW k \in 1 .. n - 1, t[j] = t[k]
               PROVE  j = k
    BY <1>4 DEF NoRepeats
  <2>1. j + 1 \in 1 .. n /\ k + 1 \in 1 .. n /\ list[j + 1] = list[k + 1]
    BY <1>1, <1>3
  <2>2. j + 1 = k + 1
    BY <1>1, <2>1 DEF NoRepeats
  <2> QED BY <2>2, <1>1
<1>8. Head(list) \in Elements(list)
  BY <1>1, <1>2 DEF Elements
<1> QED BY <1>2, <1>3, <1>5, <1>6, <1>7, <1>8 DEF t

-----------------------------------------------------------------------------
(* The LRU cache keeps its invariant.                                      *)

\* The fields of an entry after a change of its count.
LEMMA CountedEntry ==
  ASSUME NEW x \in Entries, NEW n \in Nat, NEW c \in BOOLEAN
  PROVE  /\ Counted(x, n, c) \in Entries
         /\ Counted(x, n, c) # NULL
         /\ Counted(x, n, c).key = x.key
         /\ Counted(x, n, c).value = x.value
         /\ Counted(x, n, c).refs = n
         /\ Counted(x, n, c).in_cache = c
<1>1. Counted(x, n, c) \in Entries
  BY DEF Counted, Entries
<1> QED BY <1>1, CacheAssumption DEF Counted

\* An entry that is live is a record of an entry.
LEMMA LiveEntry ==
  ASSUME TypeOK, NEW e \in Live
  PROVE  /\ e \in Addresses /\ entry[e] \in Entries
         /\ entry[e].key \in Keys /\ entry[e].value \in Values
         /\ entry[e].refs \in Nat /\ entry[e].in_cache \in BOOLEAN
<1>1. e \in Addresses /\ entry[e] \in Entries
  BY DEF TypeOK, Live
<1> QED BY <1>1 DEF Entries

\* The entry at one address changes: what is live and what is in the cache.
LEMMA OneEntry ==
  ASSUME CacheInv, NEW e \in Addresses, NEW x \in Entries \cup {NULL},
         entry' = [entry EXCEPT ![e] = x]
  PROVE  /\ entry' \in [Addresses -> Entries \cup {NULL}]
         /\ entry'[e] = x
         /\ \A d \in Addresses \ {e} : entry'[d] = entry[d]
         /\ Live' = IF x = NULL THEN Live \ {e} ELSE Live \cup {e}
         /\ x = NULL => InCache' = InCache \ {e}
         /\ x # NULL => InCache' = IF x.in_cache THEN InCache \cup {e} ELSE InCache \ {e}
<1>1. /\ entry' \in [Addresses -> Entries \cup {NULL}] /\ entry'[e] = x
      /\ \A d \in Addresses \ {e} : entry'[d] = entry[d]
  BY DEF CacheInv, CacheConsistent, TypeOK
<1>2. Live' = IF x = NULL THEN Live \ {e} ELSE Live \cup {e}
  BY <1>1 DEF Live
<1>3. x = NULL => InCache' = InCache \ {e}
  BY <1>1, <1>2 DEF InCache, Live
<1>4. x # NULL => InCache' = IF x.in_cache THEN InCache \cup {e} ELSE InCache \ {e}
  BY <1>1, <1>2 DEF InCache, Live
<1> QED BY <1>1, <1>2, <1>3, <1>4

\* A cached key leads to an entry that counts the cache's reference.
LEMMA Found ==
  ASSUME CacheInv, NEW k \in Keys, table_[k] # NULL
  PROVE  /\ table_[k] \in InCache
         /\ entry[table_[k]].key = k
<1>1. table_[k] \in Addresses
  BY DEF CacheInv, CacheConsistent, TypeOK
<1> QED BY <1>1 DEF CacheInv, CacheConsistent, TableAgrees

\* The initial states.
LEMMA CacheInitial ==
  ASSUME Init PROVE CacheInv
<1>1. Live = {} /\ InCache = {}
  BY DEF Init, Live, InCache
<1>2. TypeOK
  BY DEF Init, TypeOK
<1>3. RefsAgree
  BY <1>1, CacheAssumption DEF Init, RefsAgree
<1>4. Elements(<<>>) = {} /\ NoRepeats(<<>>)
  BY DEF Elements, NoRepeats
<1>5. ListsAgree
  BY <1>1, <1>4 DEF Init, ListsAgree
<1>6. TableAgrees
  BY <1>1, CacheAssumption DEF Init, TableAgrees
<1> QED BY <1>1, <1>2, <1>3, <1>5, <1>6 DEF CacheInv, CacheConsistent, Init

\* A lookup that finds its key keeps the invariant.
LEMMA LookupKeeps ==
  ASSUME CacheInv, NEW k \in Keys, Lookup(k)
  PROVE  CacheInv'
<1> DEFINE e == table_[k]
           x == Counted(entry[e], entry[e].refs + 1, entry[e].in_cache)
<1>1. e \in InCache /\ e \in Live /\ e \in Addresses /\ entry[e].in_cache /\ entry[e].key = k
  BY Found DEF Lookup, InCache, Live
<1>2. TypeOK /\ RefsAgree /\ ListsAgree /\ TableAgrees
  BY DEF CacheInv, CacheConsistent
<1>3. entry[e] \in Entries /\ entry[e].refs \in Nat /\ entry[e].in_cache = TRUE
  BY <1>1, <1>2, LiveEntry
<1>4. /\ x \in Entries /\ x # NULL /\ x.key = entry[e].key
      /\ x.refs = entry[e].refs + 1 /\ x.in_cache = TRUE
  <2>1. entry[e].refs + 1 \in Nat
    BY <1>3
  <2>2. entry[e].in_cache \in BOOLEAN
    BY <1>1, <1>2, LiveEntry
  <2> QED BY <1>3, <2>1, <2>2, CountedEntry, Zenon
<1>5. /\ entry' = [entry EXCEPT ![e] = x]
      /\ handles' = [handles EXCEPT ![e] = @ + 1]
      /\ IF entry[e].refs = 1 THEN lru_' = LRU_Remove(lru_, e) /\ in_use_' = Append(in_use_, e)
                              ELSE lru_' = lru_ /\ in_use_' = in_use_
      /\ UNCHANGED <<table_, usage_, busy, made>> /\ busy = "no"
  BY DEF Lookup
<1> HIDE DEF e, x
<1>6. /\ entry' \in [Addresses -> Entries \cup {NULL}] /\ entry'[e] = x
      /\ \A d \in Addresses \ {e} : entry'[d] = entry[d]
      /\ Live' = Live /\ InCache' = InCache
  <2>1. /\ Live' = Live \cup {e} /\ InCache' = InCache \cup {e}
        /\ entry' \in [Addresses -> Entries \cup {NULL}] /\ entry'[e] = x
        /\ \A d \in Addresses \ {e} : entry'[d] = entry[d]
    BY <1>1, <1>4, <1>5, OneEntry, Zenon
  <2> QED BY <2>1, <1>1
<1>7. handles \in [Addresses -> Nat] /\ handles' \in [Addresses -> Nat]
      /\ handles'[e] = handles[e] + 1 /\ \A d \in Addresses \ {e} : handles'[d] = handles[d]
  BY <1>1, <1>2, <1>5 DEF TypeOK
<1>8. RefsAgree'
  BY <1>1, <1>2, <1>3, <1>4, <1>5, <1>6, <1>7 DEF RefsAgree
<1>9. /\ lru_' \in Seq(Addresses) /\ in_use_' \in Seq(Addresses) /\ ListsAgree'
      /\ Len(lru_') + Len(in_use_') = Len(lru_) + Len(in_use_)
  <2>1. /\ lru_ \in Seq(Addresses) /\ in_use_ \in Seq(Addresses)
        /\ NoRepeats(lru_) /\ NoRepeats(in_use_)
        /\ Elements(lru_) = {d \in InCache : entry[d].refs = 1}
        /\ Elements(in_use_) = {d \in InCache : entry[d].refs >= 2}
    BY <1>2 DEF TypeOK, ListsAgree
  <2>2. CASE entry[e].refs = 1
    <3>1. e \notin Elements(in_use_)
      BY <2>1, <2>2
    <3>2. /\ lru_' \in Seq(Addresses) /\ NoRepeats(lru_') /\ Elements(lru_') = Elements(lru_) \ {e}
          /\ Len(lru_') = Len(lru_) - 1
      BY <2>1, <2>2, <1>1, <1>5, Removed
    <3>3. /\ in_use_' \in Seq(Addresses) /\ NoRepeats(in_use_')
          /\ Elements(in_use_') = Elements(in_use_) \cup {e}
          /\ Len(in_use_') = Len(in_use_) + 1
      <4>1. /\ Append(in_use_, e) \in Seq(Addresses) /\ NoRepeats(Append(in_use_, e))
            /\ Elements(Append(in_use_, e)) = Elements(in_use_) \cup {e}
            /\ Len(Append(in_use_, e)) = Len(in_use_) + 1
        BY <2>1, <3>1, <1>1, Appended
      <4> QED BY <4>1, <2>2, <1>5, Zenon
    <3> QED BY <2>1, <2>2, <3>2, <3>3, <1>1, <1>4, <1>6 DEF ListsAgree, InCache, Live
  <2>3. CASE entry[e].refs # 1
    <3>1. entry[e].refs >= 2
      BY <2>3, <1>1, <1>2, <1>3 DEF RefsAgree
    <3> QED BY <2>1, <2>3, <3>1, <1>1, <1>3, <1>4, <1>5, <1>6 DEF ListsAgree, InCache, Live
  <2> QED BY <2>2, <2>3
<1>10. TableAgrees'
  BY <1>1, <1>2, <1>4, <1>5, <1>6, <1>9 DEF TableAgrees
<1>11. TypeOK'
  BY <1>2, <1>5, <1>6, <1>7, <1>9 DEF TypeOK
<1> QED BY <1>5, <1>6, <1>8, <1>9, <1>10, <1>11 DEF CacheInv, CacheConsistent

\* What CacheInv says of the lists.
LEMMA OnLists ==
  ASSUME CacheInv
  PROVE  /\ lru_ \in Seq(Addresses) /\ in_use_ \in Seq(Addresses)
         /\ NoRepeats(lru_) /\ NoRepeats(in_use_)
         /\ Elements(lru_) = {d \in InCache : entry[d].refs = 1}
         /\ Elements(in_use_) = {d \in InCache : entry[d].refs >= 2}
  BY DEF CacheInv, CacheConsistent, TypeOK, ListsAgree

\* FinishErase, of the entry of a key or of the oldest.
LEMMA Unlinked ==
  ASSUME CacheInv, NEW e \in InCache, entry' = Erased(entry, e),
         table_' = [table_ EXCEPT ![entry[e].key] = NULL],
         lru_' = LRU_Remove(lru_, e), in_use_' = LRU_Remove(in_use_, e),
         usage_' = usage_ - 1, UNCHANGED <<busy, made, handles>>
  PROVE  CacheInv'
<1> DEFINE x == IF entry[e].refs = 1 THEN NULL ELSE Counted(entry[e], entry[e].refs - 1, FALSE)
<1>1. TypeOK /\ RefsAgree /\ ListsAgree /\ TableAgrees
  BY DEF CacheInv, CacheConsistent
<1>2. e \in Live /\ e \in Addresses /\ entry[e] \in Entries /\ entry[e].refs \in Nat
      /\ entry[e].key \in Keys /\ entry[e].in_cache
  BY <1>1, LiveEntry DEF InCache
<1>3. entry[e].refs > 0 /\ entry[e].refs = handles[e] + 1 + (IF made = e THEN 1 ELSE 0)
      /\ handles[e] \in Nat
  BY <1>1, <1>2 DEF RefsAgree, TypeOK
<1>4. /\ x \in Entries \cup {NULL}
      /\ IF entry[e].refs = 1 THEN x = NULL
         ELSE x # NULL /\ x.refs = entry[e].refs - 1 /\ x.in_cache = FALSE
  <2>1. CASE entry[e].refs = 1
    BY <2>1
  <2>2. CASE entry[e].refs # 1
    <3>1. entry[e].refs - 1 \in Nat
      BY <1>2, <1>3
    <3> QED BY <2>2, <3>1, <1>2, CountedEntry, Zenon
  <2> QED BY <2>1, <2>2, Zenon
<1>5. entry' = [entry EXCEPT ![e] = x]
  BY DEF Erased
<1> HIDE DEF x
<1>6. /\ entry' \in [Addresses -> Entries \cup {NULL}] /\ entry'[e] = x
      /\ \A d \in Addresses \ {e} : entry'[d] = entry[d]
      /\ Live' = IF x = NULL THEN Live \ {e} ELSE Live \cup {e}
      /\ InCache' = InCache \ {e}
  BY <1>2, <1>4, <1>5, OneEntry, Zenon
<1>7. RefsAgree'
  BY <1>1, <1>2, <1>3, <1>4, <1>6 DEF RefsAgree, InCache
<1>8. /\ lru_' \in Seq(Addresses) /\ NoRepeats(lru_') /\ Elements(lru_') = Elements(lru_) \ {e}
      /\ in_use_' \in Seq(Addresses) /\ NoRepeats(in_use_')
      /\ Elements(in_use_') = Elements(in_use_) \ {e}
  BY OnLists, Removed
<1>9. ListsAgree'
  <2>1. \A d \in InCache' : entry'[d] = entry[d]
    BY <1>6 DEF InCache, Live
  <2> QED BY <2>1, <1>6, <1>8, OnLists, ZenonT(30) DEF ListsAgree
<1>10. usage_' = Len(lru_') + Len(in_use_') /\ usage_' \in Nat
  <2>1. usage_ = Len(lru_) + Len(in_use_)
    BY <1>1 DEF TableAgrees
  <2>2. CASE entry[e].refs = 1
    <3>1. e \in Elements(lru_) /\ e \notin Elements(in_use_)
      BY <2>2, OnLists
    <3>2. Len(lru_') = Len(lru_) - 1 /\ in_use_' = in_use_
      BY <3>1, OnLists, Removed
    <3> QED BY <2>1, <3>2, <1>8, OnLists
  <2>3. CASE entry[e].refs # 1
    <3>1. e \in Elements(in_use_) /\ e \notin Elements(lru_)
      BY <2>3, <1>2, <1>3, OnLists
    <3>2. Len(in_use_') = Len(in_use_) - 1 /\ lru_' = lru_
      BY <3>1, OnLists, Removed
    <3> QED BY <2>1, <3>2, <1>8, OnLists
  <2> QED BY <2>2, <2>3
<1>11. table_' \in [Keys -> Addresses \cup {NULL}]
       /\ table_'[entry[e].key] = NULL
       /\ \A k \in Keys : k # entry[e].key => table_'[k] = table_[k]
  BY <1>1, <1>2 DEF TypeOK
<1>12. ASSUME NEW k \in Keys, NEW d \in Addresses
       PROVE  table_'[k] = d <=> d \in InCache' /\ entry'[d].key = k
  <2>1. table_[k] = d <=> d \in InCache /\ entry[d].key = k
    BY <1>1 DEF TableAgrees
  <2>2. table_[entry[e].key] = e
    BY <1>1, <1>2 DEF TableAgrees
  <2>3. CASE d = e
    BY <2>1, <2>2, <2>3, <1>2, <1>6, <1>11, CacheAssumption
  <2>4. CASE d # e
    <3>1. entry'[d] = entry[d] /\ (d \in InCache' <=> d \in InCache)
      BY <2>4, <1>6
    <3> QED BY <2>1, <2>2, <2>4, <3>1, <1>2, <1>11, CacheAssumption
  <2> QED BY <2>3, <2>4
<1>13. TableAgrees'
  BY <1>10, <1>12 DEF TableAgrees
<1>14. TypeOK'
  BY <1>1, <1>6, <1>8, <1>10, <1>11 DEF TypeOK
<1> QED BY <1>6, <1>7, <1>9, <1>13, <1>14 DEF CacheInv, CacheConsistent

\* Every method keeps the invariant.
LEMMA EraseKeeps ==
  ASSUME CacheInv, NEW k \in Keys, Erase(k)
  PROVE  CacheInv'
  BY Found, Unlinked, Zenon DEF Erase

\* The oldest idle entry is only referred to by the cache.
LEMMA Oldest ==
  ASSUME CacheInv, lru_ # <<>>
  PROVE  /\ Head(lru_) \in InCache
         /\ entry[Head(lru_)].refs = 1
         /\ LRU_Remove(in_use_, Head(lru_)) = in_use_
<1>1. Head(lru_) \in Elements(lru_)
  BY OnLists, First
<1>2. Head(lru_) \in InCache /\ entry[Head(lru_)].refs = 1
  BY <1>1, OnLists
<1>3. Head(lru_) \notin Elements(in_use_)
  BY <1>2, OnLists
<1> QED BY <1>2, <1>3 DEF LRU_Remove

\* Evicting the oldest unused entry keeps the invariant.
LEMMA EvictKeeps ==
  ASSUME CacheInv, Evict
  PROVE  CacheInv'
  BY Oldest, Unlinked, Zenon DEF Evict, MustEvict

\* Releasing a handle keeps the invariant.
LEMMA ReleaseKeeps ==
  ASSUME CacheInv, NEW e \in Addresses, Release(e)
  PROVE  CacheInv'
<1> DEFINE x == IF entry[e].refs = 1 THEN NULL
                ELSE Counted(entry[e], entry[e].refs - 1, entry[e].in_cache)
<1>1. TypeOK /\ RefsAgree /\ ListsAgree /\ TableAgrees /\ made = NULL
  BY DEF CacheInv, CacheConsistent, Release
<1>2. /\ entry' = [entry EXCEPT ![e] = x]
      /\ handles[e] > 0
      /\ handles' = [handles EXCEPT ![e] = @ - 1]
      /\ IF entry[e].in_cache /\ entry[e].refs = 2
         THEN in_use_' = LRU_Remove(in_use_, e) /\ lru_' = Append(lru_, e)
         ELSE lru_' = lru_ /\ in_use_' = in_use_
      /\ UNCHANGED <<table_, usage_, busy, made>> /\ busy = "no"
  BY DEF Release
<1>3. e \in Live
  BY <1>1, <1>2 DEF RefsAgree, TypeOK
<1>4. /\ entry[e] \in Entries /\ entry[e].refs \in Nat
      /\ entry[e].key \in Keys /\ entry[e].in_cache \in BOOLEAN
  BY <1>1, <1>3, LiveEntry
<1>5. entry[e].refs = handles[e] + (IF entry[e].in_cache THEN 1 ELSE 0)
      /\ handles[e] \in Nat /\ made # e /\ made' # e
  BY <1>1, <1>2, <1>3, CacheAssumption DEF RefsAgree, TypeOK
<1>6. /\ x \in Entries \cup {NULL}
      /\ entry[e].refs = 1 => x = NULL
      /\ entry[e].refs # 1 =>
           /\ x # NULL /\ x.key = entry[e].key
           /\ x.refs = entry[e].refs - 1
           /\ x.in_cache = entry[e].in_cache
  <2>1. CASE entry[e].refs = 1
    BY <2>1
  <2>2. CASE entry[e].refs # 1
    <3> DEFINE y == Counted(entry[e], entry[e].refs - 1, entry[e].in_cache)
    <3>1. entry[e].refs - 1 \in Nat
      BY <1>2, <1>4, <1>5
    <3>2. /\ y \in Entries /\ y # NULL /\ y.key = entry[e].key
          /\ y.refs = entry[e].refs - 1 /\ y.in_cache = entry[e].in_cache
      <4>1. y \in Entries /\ y # NULL
        BY <3>1, <1>4, CountedEntry
      <4>2. y.key = entry[e].key /\ y.refs = entry[e].refs - 1
        BY DEF Counted
      <4>3. y.in_cache = entry[e].in_cache
        BY DEF Counted
      <4> QED BY <4>1, <4>2, <4>3, Zenon
    <3>3. x = y
      BY <2>2
    <3> HIDE DEF x, y
    <3> QED BY <2>2, <3>2, <3>3
  <2> QED BY <2>1, <2>2
<1> HIDE DEF x
<1>7. /\ entry' \in [Addresses -> Entries \cup {NULL}] /\ entry'[e] = x
      /\ \A d \in Addresses \ {e} : entry'[d] = entry[d]
      /\ Live' = IF x = NULL THEN Live \ {e} ELSE Live \cup {e}
      /\ x = NULL => InCache' = InCache \ {e}
      /\ x # NULL => InCache' = IF x.in_cache THEN InCache \cup {e} ELSE InCache \ {e}
  BY <1>2, <1>6, OneEntry, Zenon
<1>8. InCache' = InCache /\ (e \in InCache <=> entry[e].in_cache)
  <2>1. e \in InCache <=> entry[e].in_cache
    BY <1>3 DEF InCache
  <2>2. entry[e].refs = 1 => ~ entry[e].in_cache
    BY <1>2, <1>5
  <2> QED BY <2>1, <2>2, <1>6, <1>7
<1>9. handles' \in [Addresses -> Nat] /\ handles'[e] = handles[e] - 1
      /\ \A d \in Addresses \ {e} : handles'[d] = handles[d]
  BY <1>1, <1>2, <1>5 DEF TypeOK
<1>10. RefsAgree'
  <2> SUFFICES ASSUME NEW d \in Addresses
               PROVE  IF d \in Live'
                      THEN /\ entry'[d].refs = handles'[d] + (IF entry'[d].in_cache THEN 1 ELSE 0)
                                                           + (IF made' = d THEN 1 ELSE 0)
                           /\ entry'[d].refs > 0
                      ELSE handles'[d] = 0 /\ made' # d
    BY DEF RefsAgree
  <2>1. CASE d # e
    BY <2>1, <1>1, <1>2, <1>7, <1>9 DEF RefsAgree
  <2>2. CASE d = e /\ entry[e].refs = 1
    BY <2>2, <1>2, <1>5, <1>6, <1>7, <1>9
  <2>3. CASE d = e /\ entry[e].refs # 1
    BY <2>3, <1>2, <1>4, <1>5, <1>6, <1>7, <1>9
  <2> QED BY <2>1, <2>2, <2>3
<1>11. /\ lru_' \in Seq(Addresses) /\ in_use_' \in Seq(Addresses) /\ ListsAgree'
       /\ Len(lru_') + Len(in_use_') = Len(lru_) + Len(in_use_)
  <2>1. CASE entry[e].in_cache /\ entry[e].refs = 2
    <3>1. e \notin Elements(lru_)
      BY <2>1, OnLists
    <3>2. /\ in_use_' \in Seq(Addresses) /\ NoRepeats(in_use_')
          /\ Elements(in_use_') = Elements(in_use_) \ {e}
          /\ Len(in_use_') = Len(in_use_) - 1
      BY <2>1, <1>2, <1>8, OnLists, Removed
    <3>3. /\ lru_' \in Seq(Addresses) /\ NoRepeats(lru_')
          /\ Elements(lru_') = Elements(lru_) \cup {e}
          /\ Len(lru_') = Len(lru_) + 1
      <4>1. /\ Append(lru_, e) \in Seq(Addresses) /\ NoRepeats(Append(lru_, e))
            /\ Elements(Append(lru_, e)) = Elements(lru_) \cup {e}
            /\ Len(Append(lru_, e)) = Len(lru_) + 1
        BY <3>1, OnLists, Appended
      <4> QED BY <4>1, <2>1, <1>2, Zenon
    <3>4. entry'[e].refs = 1
      BY <2>1, <1>6, <1>7
    <3>5. Len(lru_') + Len(in_use_') = Len(lru_) + Len(in_use_)
      <4>1. Len(lru_) \in Nat /\ Len(in_use_) \in Nat
        BY OnLists
      <4> QED BY <4>1, <3>2, <3>3
    <3>6. ListsAgree'
      BY <2>1, <3>2, <3>3, <3>4, <1>7, <1>8, OnLists DEF ListsAgree, InCache, Live
    <3> QED BY <3>2, <3>3, <3>5, <3>6, Zenon
  <2>2. CASE ~ (entry[e].in_cache /\ entry[e].refs = 2)
    <3>1. ASSUME NEW d \in InCache
          PROVE  /\ entry'[d].refs = 1 <=> entry[d].refs = 1
                 /\ entry'[d].refs >= 2 <=> entry[d].refs >= 2
      <4>1. CASE d # e
        BY <4>1, <1>7 DEF InCache, Live
      <4>2. CASE d = e
        <5>1. entry[e].in_cache /\ entry[e].refs \in Nat /\ entry[e].refs >= 3
          BY <4>2, <2>2, <1>2, <1>4, <1>5, <1>8
        <5>2. entry[e].refs # 1
          BY <5>1
        <5>3. entry'[e].refs = entry[e].refs - 1
          BY <5>2, <1>6, <1>7, Zenon
        <5> QED BY <4>2, <5>1, <5>3
      <4> QED BY <4>1, <4>2
    <3> QED BY <2>2, <3>1, <1>2, <1>8, OnLists DEF ListsAgree
  <2> QED BY <2>1, <2>2
<1>12. TableAgrees'
  <2>1. \A d \in InCache : entry'[d].key = entry[d].key
    <3>1. entry[e].refs = 1 => e \notin InCache
      BY <1>2, <1>5, <1>8
    <3> QED BY <3>1, <1>6, <1>7 DEF InCache, Live
  <2> QED BY <2>1, <1>1, <1>2, <1>8, <1>11 DEF TableAgrees
<1>13. TypeOK'
  BY <1>1, <1>2, <1>7, <1>9, <1>11, Zenon DEF TypeOK
<1> QED BY <1>1, <1>2, <1>7, <1>10, <1>11, <1>12, <1>13 DEF CacheInv, CacheConsistent

\* Insert of a key that is not cached.
LEMMA InsertNewKeeps ==
  ASSUME CacheInv, NEW k \in Keys, NEW v \in Values, NEW e \in Addresses,
         Insert(k, v, e), table_[k] = NULL
  PROVE  CacheInv'
<1> DEFINE x == [key |-> k, value |-> v, refs |-> 2, in_cache |-> TRUE]
<1>1. TypeOK /\ RefsAgree /\ ListsAgree /\ TableAgrees /\ made = NULL /\ busy = "no"
  BY DEF CacheInv, CacheConsistent, Insert
<1>2. /\ entry[e] = NULL /\ entry' = [entry EXCEPT ![e] = x]
      /\ in_use_' = Append(in_use_, e) /\ lru_' = lru_
      /\ usage_' = usage_ + 1 /\ table_' = [table_ EXCEPT ![k] = e]
      /\ busy' = "insert" /\ made' = e /\ handles' = handles
  BY DEF Insert
<1>3. x \in Entries /\ x # NULL
  <2>1. x \in Entries
    BY DEF Entries
  <2> QED BY <2>1, CacheAssumption, Zenon
<1>4. x.key = k /\ x.refs = 2 /\ x.in_cache
  OBVIOUS
<1> HIDE DEF x
<1>5. e \notin Live /\ e \notin InCache /\ handles[e] = 0
  BY <1>1, <1>2 DEF Live, InCache, RefsAgree
<1>6. /\ entry' \in [Addresses -> Entries \cup {NULL}] /\ entry'[e] = x
      /\ \A d \in Addresses \ {e} : entry'[d] = entry[d]
      /\ Live' = Live \cup {e}
      /\ InCache' = InCache \cup {e}
  BY <1>2, <1>3, <1>4, OneEntry, Zenon
<1>7. RefsAgree'
  <2> SUFFICES ASSUME NEW d \in Addresses
               PROVE  IF d \in Live'
                      THEN /\ entry'[d].refs = handles'[d] + (IF entry'[d].in_cache THEN 1 ELSE 0)
                                                           + (IF made' = d THEN 1 ELSE 0)
                           /\ entry'[d].refs > 0
                      ELSE handles'[d] = 0 /\ made' # d
    BY DEF RefsAgree
  <2>1. CASE d # e
    BY <2>1, <1>1, <1>2, <1>6, CacheAssumption DEF RefsAgree
  <2>2. CASE d = e
    BY <2>2, <1>2, <1>4, <1>5, <1>6
  <2> QED BY <2>1, <2>2
<1>8. /\ in_use_' \in Seq(Addresses) /\ NoRepeats(in_use_')
      /\ Elements(in_use_') = Elements(in_use_) \cup {e}
      /\ Len(in_use_') = Len(in_use_) + 1
  <2>1. e \notin Elements(in_use_)
    BY <1>5, OnLists
  <2>2. /\ Append(in_use_, e) \in Seq(Addresses) /\ NoRepeats(Append(in_use_, e))
        /\ Elements(Append(in_use_, e)) = Elements(in_use_) \cup {e}
        /\ Len(Append(in_use_, e)) = Len(in_use_) + 1
    BY <2>1, OnLists, Appended
  <2> QED BY <2>2, <1>2
<1>9. ListsAgree'
  <2>1. \A d \in InCache : entry'[d] = entry[d]
    BY <1>5, <1>6 DEF InCache, Live
  <2> QED BY <2>1, <1>2, <1>4, <1>6, <1>8, OnLists DEF ListsAgree
<1>10. usage_' = Len(lru_') + Len(in_use_') /\ usage_' \in Nat
  BY <1>1, <1>2, <1>8, OnLists DEF TableAgrees, TypeOK
<1>11. table_' \in [Keys -> Addresses \cup {NULL}] /\ table_'[k] = e
       /\ \A q \in Keys : q # k => table_'[q] = table_[q]
  BY <1>1, <1>2 DEF TypeOK
<1>12. TableAgrees'
  <2> SUFFICES ASSUME NEW q \in Keys, NEW d \in Addresses
               PROVE  table_'[q] = d <=> d \in InCache' /\ entry'[d].key = q
    BY <1>10 DEF TableAgrees
  <2>1. table_[q] = d <=> d \in InCache /\ entry[d].key = q
    BY <1>1 DEF TableAgrees
  <2>2. CASE d = e
    BY <2>1, <2>2, <1>4, <1>5, <1>6, <1>11
  <2>3. CASE d # e
    <3>1. entry'[d] = entry[d] /\ (d \in InCache' <=> d \in InCache)
      BY <2>3, <1>6
    <3> QED BY <2>1, <2>3, <3>1, <1>11, CacheAssumption
  <2> QED BY <2>2, <2>3
<1>13. TypeOK'
  BY <1>1, <1>2, <1>6, <1>8, <1>10, <1>11 DEF TypeOK
<1> QED BY <1>2, <1>6, <1>7, <1>9, <1>12, <1>13 DEF CacheInv, CacheConsistent

\* Insert of a key that is cached: the entry the table had leaves the cache.
LEMMA InsertOldKeeps ==
  ASSUME CacheInv, NEW k \in Keys, NEW v \in Values, NEW e \in Addresses,
         Insert(k, v, e), table_[k] # NULL
  PROVE  CacheInv'
<1> DEFINE x == [key |-> k, value |-> v, refs |-> 2, in_cache |-> TRUE]
           o == table_[k]
           y == IF entry[o].refs = 1 THEN NULL ELSE Counted(entry[o], entry[o].refs - 1, FALSE)
<1>1. TypeOK /\ RefsAgree /\ ListsAgree /\ TableAgrees /\ made = NULL /\ busy = "no"
  BY DEF CacheInv, CacheConsistent, Insert
<1>2. /\ entry[e] = NULL /\ entry' = Erased([entry EXCEPT ![e] = x], o)
      /\ in_use_' = LRU_Remove(Append(in_use_, e), o) /\ lru_' = LRU_Remove(lru_, o)
      /\ usage_' = usage_ /\ table_' = [table_ EXCEPT ![k] = e]
      /\ busy' = "insert" /\ made' = e /\ handles' = handles
  BY DEF Insert
<1>3. x \in Entries /\ x # NULL
  <2>1. x \in Entries
    BY DEF Entries
  <2> QED BY <2>1, CacheAssumption, Zenon
<1>4. x.key = k /\ x.refs = 2 /\ x.in_cache
  OBVIOUS
<1>5. e \notin Live /\ e \notin InCache /\ handles[e] = 0
  BY <1>1, <1>2 DEF Live, InCache, RefsAgree
<1>6. o \in InCache /\ o \in Live /\ entry[o].key = k /\ o # e
  BY <1>5, Found DEF InCache
<1>7. /\ o \in Addresses /\ entry[o] \in Entries /\ entry[o].refs \in Nat
      /\ entry[o].refs > 0 /\ entry[o].refs = handles[o] + 1 /\ handles[o] \in Nat
  <2>1. o \in Addresses /\ entry[o] \in Entries /\ entry[o].refs \in Nat
    BY <1>1, <1>6, LiveEntry
  <2> QED BY <2>1, <1>1, <1>6, CacheAssumption DEF RefsAgree, InCache, TypeOK
<1>8. /\ y \in Entries \cup {NULL}
      /\ IF entry[o].refs = 1 THEN y = NULL
         ELSE y # NULL /\ y.refs = entry[o].refs - 1 /\ y.in_cache = FALSE
  <2>1. CASE entry[o].refs = 1
    BY <2>1
  <2>2. CASE entry[o].refs # 1
    <3>1. entry[o].refs - 1 \in Nat
      BY <1>7
    <3> QED BY <2>2, <3>1, <1>7, CountedEntry, Zenon
  <2> QED BY <2>1, <2>2, Zenon
<1> HIDE DEF x, o
<1>9. entry' = [[entry EXCEPT ![e] = x] EXCEPT ![o] = y]
  <2>1. entry \in [Addresses -> Entries \cup {NULL}]
    BY <1>1 DEF TypeOK
  <2>2. [entry EXCEPT ![e] = x][o] = entry[o]
    BY <2>1, <1>6, <1>7
  <2> QED BY <2>2, <1>2, Zenon DEF Erased
<1> HIDE DEF y
<1>10. /\ entry' \in [Addresses -> Entries \cup {NULL}] /\ entry'[e] = x /\ entry'[o] = y
       /\ \A d \in Addresses \ {e, o} : entry'[d] = entry[d]
  BY <1>1, <1>3, <1>6, <1>7, <1>8, <1>9, Zenon DEF TypeOK
<1>11. InCache' = (InCache \ {o}) \cup {e}
  <2>1. o \notin InCache'
    BY <1>8, <1>10 DEF InCache, Live
  <2>2. e \in InCache'
    BY <1>3, <1>4, <1>10 DEF InCache, Live
  <2>3. \A d \in Addresses \ {e, o} : d \in InCache' <=> d \in InCache
    BY <1>10 DEF InCache, Live
  <2>4. InCache \subseteq Addresses /\ InCache' \subseteq Addresses
    BY DEF InCache, Live
  <2> QED BY <2>1, <2>2, <2>3, <2>4, <1>6
<1>12. RefsAgree'
  <2> SUFFICES ASSUME NEW d \in Addresses
               PROVE  IF d \in Live'
                      THEN /\ entry'[d].refs = handles'[d] + (IF entry'[d].in_cache THEN 1 ELSE 0)
                                                           + (IF made' = d THEN 1 ELSE 0)
                           /\ entry'[d].refs > 0
                      ELSE handles'[d] = 0 /\ made' # d
    BY DEF RefsAgree
  <2>1. CASE d # e /\ d # o
    BY <2>1, <1>1, <1>2, <1>10, CacheAssumption, Zenon DEF RefsAgree, Live
  <2>2. CASE d = e
    BY <2>2, <1>2, <1>3, <1>4, <1>5, <1>10 DEF Live
  <2>3. CASE d = o /\ entry[o].refs = 1
    BY <2>3, <1>2, <1>6, <1>7, <1>8, <1>10 DEF Live
  <2>4. CASE d = o /\ entry[o].refs # 1
    BY <2>4, <1>2, <1>6, <1>7, <1>8, <1>10 DEF Live
  <2> QED BY <2>1, <2>2, <2>3, <2>4
<1>13. /\ in_use_' \in Seq(Addresses) /\ NoRepeats(in_use_')
       /\ Elements(in_use_') = (Elements(in_use_) \cup {e}) \ {o}
  <2>1. e \notin Elements(in_use_)
    BY <1>5, OnLists
  <2>2. /\ Append(in_use_, e) \in Seq(Addresses) /\ NoRepeats(Append(in_use_, e))
        /\ Elements(Append(in_use_, e)) = Elements(in_use_) \cup {e}
    BY <2>1, OnLists, Appended
  <2> QED BY <2>2, <1>2, Removed, ZenonT(30)
<1>14. /\ lru_' \in Seq(Addresses) /\ NoRepeats(lru_')
       /\ Elements(lru_') = Elements(lru_) \ {o}
  BY <1>2, OnLists, Removed
<1>15. ListsAgree'
  <2>1. \A d \in InCache \ {o} : entry'[d] = entry[d]
    BY <1>5, <1>10 DEF InCache, Live
  <2>2. entry'[e].refs = 2 /\ e # o /\ e \notin InCache
    BY <1>4, <1>5, <1>6, <1>10
  <2>3. Elements(lru_') = {d \in InCache' : entry'[d].refs = 1}
    BY <2>1, <2>2, <1>11, <1>14, OnLists
  <2>4. Elements(in_use_') = {d \in InCache' : entry'[d].refs >= 2}
    BY <2>1, <2>2, <1>11, <1>13, OnLists
  <2> QED BY <2>3, <2>4, <1>13, <1>14 DEF ListsAgree
<1>16. usage_' = Len(lru_') + Len(in_use_')
  <2> DEFINE u == Append(in_use_, e)
  <2>1. e \notin Elements(in_use_)
    BY <1>5, OnLists
  <2>2. /\ u \in Seq(Addresses) /\ NoRepeats(u) /\ Elements(u) = Elements(in_use_) \cup {e}
        /\ Len(u) = Len(in_use_) + 1
    BY <2>1, OnLists, Appended
  <2>3. usage_ = Len(lru_) + Len(in_use_) /\ lru_' = LRU_Remove(lru_, o) /\ in_use_' = LRU_Remove(u, o)
    BY <1>1, <1>2 DEF TableAgrees
  <2> HIDE DEF u
  <2>4. usage_' = usage_ /\ Len(lru_) \in Nat /\ Len(in_use_) \in Nat
    BY <1>2, OnLists
  <2>5. CASE entry[o].refs = 1
    <3>1. o \in Elements(lru_) /\ o \notin Elements(u)
      BY <2>2, <2>5, <1>6, OnLists
    <3>2. Len(lru_') = Len(lru_) - 1 /\ in_use_' = u
      BY <2>2, <2>3, <3>1, OnLists, Removed
    <3> QED BY <2>2, <2>3, <2>4, <3>2
  <2>6. CASE entry[o].refs # 1
    <3>1. o \in Elements(u) /\ o \notin Elements(lru_)
      BY <2>2, <2>6, <1>6, <1>7, OnLists
    <3>2. Len(in_use_') = Len(u) - 1 /\ lru_' = lru_
      BY <2>2, <2>3, <3>1, OnLists, Removed
    <3> QED BY <2>2, <2>3, <2>4, <3>2
  <2> QED BY <2>5, <2>6
<1>17. table_' \in [Keys -> Addresses \cup {NULL}] /\ table_'[k] = e
       /\ \A q \in Keys : q # k => table_'[q] = table_[q]
  BY <1>1, <1>2 DEF TypeOK
<1>18. TableAgrees'
  <2> SUFFICES ASSUME NEW q \in Keys, NEW d \in Addresses
               PROVE  table_'[q] = d <=> d \in InCache' /\ entry'[d].key = q
    BY <1>16 DEF TableAgrees
  <2>1. table_[q] = d <=> d \in InCache /\ entry[d].key = q
    BY <1>1 DEF TableAgrees
  <2>2. CASE d = e
    BY <2>1, <2>2, <1>4, <1>5, <1>10, <1>11, <1>17
  <2>3. CASE d = o
    BY <2>1, <2>3, <1>6, <1>11, <1>17
  <2>4. CASE d # e /\ d # o
    <3>1. entry'[d] = entry[d] /\ (d \in InCache' <=> d \in InCache)
      BY <2>4, <1>10, <1>11
    <3>2. table_[k] # d
      BY <2>4 DEF o
    <3> QED BY <2>1, <2>4, <3>1, <3>2, <1>17
  <2> QED BY <2>2, <2>3, <2>4
<1>19. TypeOK'
  BY <1>1, <1>2, <1>10, <1>13, <1>14, <1>17, Zenon DEF TypeOK
<1> QED BY <1>2, <1>12, <1>15, <1>16, <1>18, <1>19 DEF CacheInv, CacheConsistent

\* Insert handing out the new entry keeps the invariant.
LEMMA ReturnKeeps ==
  ASSUME CacheInv, Return
  PROVE  CacheInv'
<1>1. TypeOK /\ RefsAgree /\ ListsAgree /\ TableAgrees
  BY DEF CacheInv, CacheConsistent
<1>2. Live' = Live /\ InCache' = InCache
  BY DEF Return, Live, InCache
<1>3. TypeOK' /\ RefsAgree'
  <2>1. CASE made = NULL
    BY <2>1, <1>1, <1>2 DEF Return, TypeOK, RefsAgree
  <2>2. CASE made # NULL
    <3>1. made \in Addresses /\ handles \in [Addresses -> Nat]
          /\ handles' = [handles EXCEPT ![made] = @ + 1] /\ made' = NULL
      BY <2>2, <1>1 DEF TypeOK, Return
    <3>2. handles' \in [Addresses -> Nat] /\ handles'[made] = handles[made] + 1
          /\ \A d \in Addresses \ {made} : handles'[d] = handles[d]
      BY <3>1
    <3>3. TypeOK'
      BY <3>1, <3>2, <1>1 DEF TypeOK, Return
    <3>4. entry' = entry /\ \A d \in Addresses : made' # d
      BY <3>1, CacheAssumption DEF Return
    <3> QED BY <3>1, <3>2, <3>3, <3>4, <1>1, <1>2 DEF RefsAgree
  <2> QED BY <2>1, <2>2
<1>4. ListsAgree' /\ TableAgrees'
  BY <1>1, <1>2 DEF Return, ListsAgree, TableAgrees
<1> QED BY <1>2, <1>3, <1>4 DEF CacheInv, CacheConsistent, Return

\* A step that leaves the cache alone, or only takes mutex_ for Prune.
LEMMA CacheQuiet ==
  ASSUME CacheInv, UNCHANGED <<entry, table_, lru_, in_use_, usage_, made, handles>>,
         busy' = busy \/ (busy' = "prune" /\ busy = "no")
  PROVE  CacheInv'
<1>1. Live' = Live /\ InCache' = InCache
  BY DEF Live, InCache
<1>2. TypeOK' /\ RefsAgree' /\ ListsAgree' /\ TableAgrees'
  BY <1>1 DEF CacheInv, CacheConsistent, TypeOK, RefsAgree, ListsAgree, TableAgrees
<1> QED BY <1>1, <1>2 DEF CacheInv, CacheConsistent

\* Every step keeps the invariant.
LEMMA CacheStep ==
  ASSUME CacheInv, [Next]_vars
  PROVE  CacheInv'
<1>1. CASE \E k \in Keys : Lookup(k) \/ Erase(k)
  BY <1>1, LookupKeeps, EraseKeeps
<1>2. CASE \E k \in Keys, v \in Values, e \in Addresses : Insert(k, v, e)
  BY <1>2, InsertNewKeeps, InsertOldKeeps
<1>3. CASE \E e \in Addresses : Release(e)
  BY <1>3, ReleaseKeeps
<1>4. CASE Prune
  <2>1. UNCHANGED <<entry, table_, lru_, in_use_, usage_, made, handles>>
    BY <1>4 DEF Prune
  <2>2. busy' = "prune" /\ busy = "no"
    BY <1>4 DEF Prune
  <2> QED BY <2>1, <2>2, CacheQuiet
<1>5. CASE Evict \/ Return
  BY <1>5, EvictKeeps, ReturnKeeps
<1>6. CASE UNCHANGED vars
  <2>1. UNCHANGED <<entry, table_, lru_, in_use_, usage_, made, handles>>
    BY <1>6 DEF vars
  <2>2. busy' = busy
    BY <1>6 DEF vars
  <2> QED BY <2>1, <2>2, CacheQuiet
<1> QED BY <1>1, <1>2, <1>3, <1>4, <1>5, <1>6 DEF Next

(* Every state of the cache is consistent: an entry is freed with its last *)
(* reference and not before, each list holds the entries its comment says, *)
(* and the table and usage_ describe what is cached, for any number of     *)
(* keys, entries and handles and any capacity.                             *)
THEOREM CacheStaysConsistent == Spec => []CacheConsistent
<1>1. Init => CacheInv
  BY CacheInitial
<1>2. CacheInv /\ [Next]_vars => CacheInv'
  BY CacheStep
<1>3. CacheInv => CacheConsistent
  BY DEF CacheInv
<1> QED BY <1>1, <1>2, <1>3, PTL DEF Spec

-----------------------------------------------------------------------------
(* What a step may not do to the clients of the cache.                     *)

\* An entry somebody holds is allocated, and has a reference besides the one
\* of the cache.
LEMMA HeldEntry ==
  ASSUME CacheInv, NEW d \in Addresses, handles[d] > 0
  PROVE  /\ d \in Live
         /\ handles[d] \in Nat
         /\ entry[d].refs \in Nat
         /\ entry[d].refs >= handles[d] + (IF entry[d].in_cache THEN 1 ELSE 0)
<1>1. TypeOK /\ RefsAgree
  BY DEF CacheInv, CacheConsistent
<1>2. d \in Live /\ handles[d] \in Nat
  BY <1>1 DEF RefsAgree, TypeOK
<1>3. entry[d].refs \in Nat
  BY <1>1, <1>2, LiveEntry
<1> QED BY <1>1, <1>2, <1>3 DEF RefsAgree

\* A held entry survives FinishErase, with its key and its value.
LEMMA ErasedKeepsHeld ==
  ASSUME CacheInv, NEW d \in Addresses, handles[d] > 0, NEW e \in InCache,
         NEW en \in [Addresses -> Entries \cup {NULL}], en[d] = entry[d]
  PROVE  /\ Erased(en, e)[d] # NULL
         /\ Erased(en, e)[d].key = entry[d].key
         /\ Erased(en, e)[d].value = entry[d].value
<1>1. d \in Live /\ TypeOK /\ e \in Addresses
  BY HeldEntry DEF InCache, Live, CacheInv, CacheConsistent
<1>2. entry[d] \in Entries /\ entry[d] # NULL
  BY <1>1, LiveEntry DEF Live
<1>3. CASE d = e
  <2>1. entry[d].refs \in Nat /\ entry[d].refs # 1 /\ entry[d].refs - 1 \in Nat
    BY <1>3, HeldEntry DEF InCache
  <2>2. Erased(en, e)[d] = Counted(entry[d], entry[d].refs - 1, FALSE)
    BY <1>1, <1>3, <2>1, Zenon DEF Erased
  <2>3. /\ Counted(entry[d], entry[d].refs - 1, FALSE) # NULL
        /\ Counted(entry[d], entry[d].refs - 1, FALSE).key = entry[d].key
        /\ Counted(entry[d], entry[d].refs - 1, FALSE).value = entry[d].value
    BY <2>1, <1>2, CountedEntry, Zenon
  <2> QED BY <2>2, <2>3, Zenon
<1>4. CASE d # e
  BY <1>1, <1>2, <1>4 DEF Erased
<1> QED BY <1>3, <1>4

\* A step keeps every held entry, with its key and its value, until the last
\* handle on it is released.
LEMMA StepKeepsHandles ==
  ASSUME CacheInv, [Next]_vars
  PROVE  KeepsHandles
<1> SUFFICES ASSUME NEW d \in Addresses, handles[d] > 0
             PROVE  /\ entry'[d] # NULL \/ handles'[d] = 0
                    /\ handles'[d] > 0 => entry'[d].key = entry[d].key /\ entry'[d].value = entry[d].value
  BY DEF KeepsHandles
<1>1. TypeOK /\ d \in Live /\ entry[d] # NULL /\ entry[d] \in Entries
      /\ handles[d] \in Nat /\ entry[d].refs \in Nat /\ entry[d].refs >= handles[d]
      /\ entry[d].in_cache \in BOOLEAN
  BY HeldEntry, LiveEntry DEF Live, CacheInv, CacheConsistent
<1>2. ASSUME NEW k \in Keys, Lookup(k)
      PROVE  entry'[d] # NULL /\ entry'[d].key = entry[d].key /\ entry'[d].value = entry[d].value
  <2> DEFINE x == Counted(entry[d], entry[d].refs + 1, entry[d].in_cache)
  <2>1. x # NULL /\ x.key = entry[d].key /\ x.value = entry[d].value
    <3>1. entry[d] \in Entries /\ entry[d].refs + 1 \in Nat /\ entry[d].in_cache \in BOOLEAN
      BY <1>1
    <3> QED BY <3>1, CountedEntry, Zenon
  <2>2. entry'[d] = entry[d] \/ entry'[d] = x
    BY <1>1, <1>2 DEF Lookup, TypeOK
  <2> QED BY <1>1, <2>1, <2>2
<1>3. ASSUME NEW k \in Keys, Erase(k)
      PROVE  entry'[d] # NULL /\ entry'[d].key = entry[d].key /\ entry'[d].value = entry[d].value
  <2>1. table_[k] \in InCache
    BY <1>3, Found DEF Erase
  <2> QED BY <1>1, <1>3, <2>1, ErasedKeepsHeld DEF Erase, TypeOK
<1>4. ASSUME NEW k \in Keys, NEW v \in Values, NEW e \in Addresses, Insert(k, v, e)
      PROVE  entry'[d] # NULL /\ entry'[d].key = entry[d].key /\ entry'[d].value = entry[d].value
  <2> DEFINE new == [entry EXCEPT ![e] = [key |-> k, value |-> v, refs |-> 2, in_cache |-> TRUE]]
  <2>1. d # e
    BY <1>1, <1>4 DEF Insert
  <2>2. new \in [Addresses -> Entries \cup {NULL}] /\ new[d] = entry[d]
    BY <1>1, <2>1 DEF TypeOK, Entries
  <2>3. CASE table_[k] = NULL
    BY <2>2, <2>3, <1>1, <1>4 DEF Insert
  <2>4. CASE table_[k] # NULL
    <3>1. table_[k] \in InCache /\ entry' = Erased(new, table_[k])
      BY <2>4, <1>4, Found DEF Insert
    <3> HIDE DEF new
    <3> QED BY <3>1, <2>2, ErasedKeepsHeld, Zenon
  <2> QED BY <2>3, <2>4
<1>5. ASSUME NEW e \in Addresses, Release(e)
      PROVE  /\ entry'[d] # NULL \/ handles'[d] = 0
             /\ handles'[d] > 0 => entry'[d].key = entry[d].key /\ entry'[d].value = entry[d].value
  <2> DEFINE x == Counted(entry[d], entry[d].refs - 1, entry[d].in_cache)
  <2>1. CASE d = e /\ entry[d].refs = 1
    <3>1. handles' = [handles EXCEPT ![d] = @ - 1] /\ handles \in [Addresses -> Nat]
      BY <1>1, <1>5, <2>1 DEF Release, TypeOK
    <3> QED BY <3>1, <1>1, <2>1
  <2>2. CASE d = e /\ entry[d].refs # 1
    <3>1. x # NULL /\ x.key = entry[d].key /\ x.value = entry[d].value
      <4>1. entry[d] \in Entries /\ entry[d].in_cache \in BOOLEAN
        BY <1>1
      <4>2. entry[d].refs - 1 \in Nat
        BY <1>1
      <4> QED BY <4>1, <4>2, CountedEntry, Zenon
    <3>2. entry'[d] = x
      BY <1>1, <1>5, <2>2 DEF Release, TypeOK
    <3> QED BY <3>1, <3>2
  <2>3. CASE d # e
    BY <1>1, <1>5, <2>3 DEF Release, TypeOK
  <2> QED BY <2>1, <2>2, <2>3
<1>6. ASSUME Evict
      PROVE  entry'[d] # NULL /\ entry'[d].key = entry[d].key /\ entry'[d].value = entry[d].value
  <2>1. Head(lru_) \in InCache
    <3>1. lru_ \in Seq(Addresses) /\ lru_ # <<>> /\ Elements(lru_) \subseteq InCache
      BY <1>6 DEF Evict, MustEvict, CacheInv, CacheConsistent, TypeOK, ListsAgree
    <3> QED BY <3>1 DEF Elements
  <2> QED BY <1>1, <1>6, <2>1, ErasedKeepsHeld DEF Evict, TypeOK
<1>7. CASE Prune \/ Return \/ UNCHANGED vars
  BY <1>1, <1>7 DEF Prune, Return, vars
<1> QED BY <1>2, <1>3, <1>4, <1>5, <1>6, <1>7 DEF Next

\* Insert returns from its loop over capacity only with everything in use.
LEMMA StepOverfull ==
  ASSUME CacheInv, [Next]_vars
  PROVE  OverfullIsInUse
<1> SUFFICES ASSUME busy = "insert", busy' = "no", ~ (Len(lru_) + Len(in_use_) <= capacity_),
                    NEW e \in InCache
             PROVE  handles'[e] > 0
  BY Zenon DEF OverfullIsInUse
<1>1. Return
  BY DEF Next, Lookup, Erase, Insert, Release, Prune, Evict, vars
<1>2. TypeOK /\ RefsAgree /\ ListsAgree /\ usage_ = Len(lru_) + Len(in_use_)
  BY DEF CacheInv, CacheConsistent, TableAgrees
<1>3. lru_ = <<>>
  <2>1. ~ MustEvict /\ usage_ > capacity_
    <3>1. usage_ \in Nat /\ capacity_ \in Nat
      BY <1>2, CacheAssumption DEF TypeOK
    <3>2. ~ (usage_ <= capacity_)
      BY <1>2, Zenon
    <3> QED BY <1>1, <3>1, <3>2 DEF Return
  <2> QED BY <2>1 DEF MustEvict
<1>4. e \in Live /\ e \in Addresses /\ entry[e].in_cache /\ entry[e].refs # 1
  BY <1>2, <1>3 DEF InCache, Live, ListsAgree, Elements
<1>5. handles[e] \in Nat /\ (made = e \/ handles[e] > 0)
  <2>1. handles[e] \in Nat
    BY <1>2, <1>4 DEF TypeOK
  <2> QED BY <2>1, <1>2, <1>4 DEF RefsAgree
<1>6. CASE made = e
  <2>1. handles' = [handles EXCEPT ![e] = @ + 1] /\ handles \in [Addresses -> Nat]
    BY <1>1, <1>2, <1>4, <1>6, CacheAssumption DEF Return, TypeOK
  <2> QED BY <2>1, <1>4, <1>5
<1>7. CASE made # e
  <2>1. handles'[e] = handles[e]
    BY <1>1, <1>2, <1>4, <1>7 DEF Return, TypeOK
  <2> QED BY <2>1, <1>5, <1>7
<1> QED BY <1>6, <1>7

(* Whatever the clients of the cache do, and however small its capacity:   *)
(* the entry behind a handle stays allocated, with its key and its value,  *)
(* until the last handle is released.                                      *)
THEOREM HandlesAreKept == Spec => HandlesStayValid
<1>1. Init => CacheInv
  BY CacheInitial
<1>2. CacheInv /\ [Next]_vars => CacheInv'
  BY CacheStep
<1>3. CacheInv /\ [Next]_vars => [KeepsHandles]_vars
  BY StepKeepsHandles
<1> QED BY <1>1, <1>2, <1>3, PTL DEF Spec, HandlesStayValid

(* For every capacity, Insert returns with the cache within it or with     *)
(* every entry of the cache in use.                                        *)
THEOREM InsertShrinksTheCache == Spec => OverfullOnlyInUse
<1>1. Init => CacheInv
  BY CacheInitial
<1>2. CacheInv /\ [Next]_vars => CacheInv'
  BY CacheStep
<1>3. CacheInv /\ [Next]_vars => [OverfullIsInUse]_vars
  BY StepOverfull
<1> QED BY <1>1, <1>2, <1>3, PTL DEF Spec, OverfullOnlyInUse
=============================================================================
