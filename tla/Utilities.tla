----------------------------- MODULE Utilities ------------------------------
(***************************************************************************)
(* The small sequential utilities: fixed_sized_cache with its policies and *)
(* lru_cache (cpp-util/cache), Trie (trie.h), the extendible hash table    *)
(* (extendible_hashing.h), the binary heap of simple_heap.cc, the          *)
(* encodings of coding.h, the two Bloom filters (bloom.h, bloomfilter.h)   *)
(* and the histogram (histogram.cc).  One of them is chosen at the start;  *)
(* `spec' holds what was given to it, or what it should hold.              *)
(*                                                                         *)
(* An std::list with iterators to its nodes is the sequence of its keys:   *)
(* an iterator stays with its node.  A map is a function on the keys it    *)
(* has.  Bytes are numbers below 256, and a value that is encoded stays    *)
(* below 2^31.  The hash functions are a parameter, HashWidth bits wide    *)
(* where the code has 32; a filter is its size, the set of its bits and    *)
(* the number of probes.  The doubles of the histogram are whole numbers,  *)
(* and the result of Percentile is a fraction.                             *)
(***************************************************************************)
EXTENDS Integers, Sequences, FiniteSets, FiniteSetsExt, SequencesExt, Functions, TLC

CONSTANTS Boxes,          \* subset of {"none", "lru", "stl", "trie", "hash", "heap",
                          \*            "stream", "Bloom", "BloomFilter", "Histogram"}
          MaxBoxCalls,    \* bound on the calls, for each of them
          BoxKeys,        \* keys of the containers, positive numbers
          BoxValues,
          Words,          \* keys of a trie
          max_size,       \* capacity of the caches
          HeapRoom,       \* N of the heap
          bucket_size,    \* of the hash table
          Fields,         \* what goes into a stream: <<kind, number or bytes>>
          FilterKeys,
          Hash(_, _),     \* of a key and a seed
          HashWidth, Rotation, \* delta is h rotated right by Rotation bits
          FilterBytes, FilterBits, \* smallest size of a BloomFilter; total_bits_ of a Bloom
          BitsPerKey, Probes, \* bits_per_key_; k_ and hashes_
          Samples, kBucketLimit

VARIABLES box, spec, boxCalls

vars == <<box, spec, boxCalls>>

Nothing == <<>>           \* the empty function, the empty sequence
Put1(f, k, v) == [x \in (DOMAIN f) \union {k} |-> IF x = k THEN v ELSE f[x]]
Drop1(f, k) == Restrict(f, (DOMAIN f) \ {k})
ToFront(q, k) == <<k>> \o SelectSeq(q, LAMBDA x : x # k)
Is(kind) == box.kind = kind
Call == boxCalls < MaxBoxCalls[box.kind] /\ boxCalls' = boxCalls + 1
Box(b) == box' = b

Bucket(depth) == [depth |-> depth, values |-> Nothing]
kNumBuckets == Len(kBucketLimit)
Cleared == [min_ |-> kBucketLimit[kNumBuckets], max_ |-> 0, num_ |-> 0, sum_ |-> 0,
            buckets_ |-> [b \in 1 .. kNumBuckets |-> 0]]
NewBloom == [kind |-> "Bloom", total_bits_ |-> FilterBits, data_ |-> {}]

InitBox(kind) ==
  CASE kind \in {"none", "lru", "stl"} -> [kind |-> kind, items |-> Nothing, queue |-> <<>>]
    [] kind = "trie" -> [kind |-> kind, nodes |-> <<>> :> [prefix_ |-> <<>>, end_ |-> FALSE]]
    [] kind = "hash" -> [kind |-> kind, global_depth |-> 1, dir |-> (0 :> 1) @@ (1 :> 2), buckets |-> <<Bucket(1), Bucket(1)>>]
    [] kind = "heap" -> [kind |-> kind, h |-> <<>>]
    [] kind = "stream" -> [kind |-> kind, bytes |-> <<>>]
    [] kind = "Bloom" -> NewBloom
    [] kind = "BloomFilter" -> [kind |-> kind, bytes |-> 0, k |-> 0, array |-> {}]
    [] kind = "Histogram" -> [kind |-> kind, h |-> <<Cleared, Cleared>>]

Init ==
  /\ box \in {InitBox(kind) : kind \in Boxes}
  /\ spec = (IF box.kind = "Histogram" THEN <<<<>>, <<>>>> ELSE <<>>)
  /\ boxCalls = 0

-----------------------------------------------------------------------------
(* fixed_sized_cache: a map, and a policy that says who leaves.            *)

\* Insert, Erase, Touch and ReplCandidate of NoCachePolicy, any key of its
\* set, and of LRUCachePolicy, the last of its list.
PolicyInsert(b, k) == IF b.kind = "none" THEN Append(b.queue, k) ELSE <<k>> \o b.queue
PolicyErase(b, k) == SelectSeq(b.queue, LAMBDA x : x # k)
Touch(b, k) == IF b.kind = "none" THEN b.queue ELSE ToFront(b.queue, k)
ReplCandidates(b) == IF b.kind = "none" THEN Range(b.queue) ELSE {b.queue[Len(b.queue)]}

CacheErase(b, k) == [b EXCEPT !.queue = PolicyErase(b, k), !.items = Drop1(b.items, k)]
CacheInsert(b, k, v) == [b EXCEPT !.queue = PolicyInsert(b, k), !.items = Put1(b.items, k, v)]

\* The keys in the order of their last use, with their values: the reference.
Used(k, v) == <<[k |-> k, v |-> v]>> \o SelectSeq(spec, LAMBDA e : e.k # k)
Updated(k, v) == [i \in DOMAIN spec |-> IF spec[i].k = k THEN [k |-> k, v |-> v] ELSE spec[i]]
Known(k) == {i \in DOMAIN spec : spec[i].k = k}
ValueOf(k) == spec[CHOOSE i \in Known(k) : TRUE].v

\* Update leaves the order alone.
Put(k, v) ==
  /\ (Is("none") \/ Is("lru")) /\ Call
  /\ IF k \in DOMAIN box.items
     THEN Box([box EXCEPT !.items = Put1(@, k, v)]) /\ spec' = Updated(k, v)
     ELSE IF Cardinality(DOMAIN box.items) + 1 > max_size
     THEN \E out \in ReplCandidates(box) :
            /\ Box(CacheInsert(CacheErase(box, out), k, v))
            /\ spec' = IF Is("lru") THEN Front(Used(k, v)) ELSE SelectSeq(Used(k, v), LAMBDA e : e.k # out)
     ELSE Box(CacheInsert(box, k, v)) /\ spec' = Used(k, v)

Get(k) ==
  /\ (Is("none") \/ Is("lru")) /\ Call
  /\ k \in DOMAIN box.items
  /\ Box([box EXCEPT !.queue = Touch(box, k)])
  /\ spec' = IF Is("lru") THEN Used(k, ValueOf(k)) ELSE spec

\* Remove and Evict return what an erased iterator refers to: no value to rely on.
CacheRemove(k) ==
  /\ (Is("none") \/ Is("lru")) /\ Call
  /\ k \in DOMAIN box.items
  /\ Box(CacheErase(box, k))
  /\ spec' = SelectSeq(spec, LAMBDA e : e.k # k)

Evict ==
  /\ (Is("none") \/ Is("lru")) /\ Call /\ box.queue # <<>>
  /\ \E out \in ReplCandidates(box) :
       /\ Box(CacheErase(box, out))
       /\ spec' = IF Is("lru") THEN Front(spec) ELSE SelectSeq(spec, LAMBDA e : e.k # out)

Clear ==
  /\ (Is("none") \/ Is("lru")) /\ Call
  /\ Box([box EXCEPT !.queue = FoldLeft(LAMBDA q, k : SelectSeq(q, LAMBDA x : x # k), @, SetToSeq(DOMAIN box.items)),
                     !.items = Nothing])
  /\ spec' = <<>>

-----------------------------------------------------------------------------
(* lru_cache: a list of pairs, and a map to its nodes.                     *)

\* The oldest is looked for before the new one is in front.
BugPut(k, v) ==
  /\ Is("stl") /\ Call
  /\ LET q    == <<[k |-> k, v |-> v]>> \o SelectSeq(box.queue, LAMBDA e : e.k # k)
         full == Len(box.queue) >= max_size
     IN  Box([box EXCEPT !.queue = IF full THEN Front(q) ELSE q,
                         !.items = Put1(IF full THEN Drop1(@, q[Len(q)].k) ELSE @, k, 0)])
  /\ spec' = IF Len(Used(k, v)) > max_size THEN Front(Used(k, v)) ELSE Used(k, v)

put(k, v) ==
  /\ Is("stl") /\ Call
  /\ LET q     == <<[k |-> k, v |-> v]>> \o SelectSeq(box.queue, LAMBDA e : e.k # k)
         items == Put1(Drop1(box.items, k), k, 0)
     IN  Box(IF Cardinality(DOMAIN items) > max_size
             THEN [box EXCEPT !.queue = Front(q), !.items = Drop1(items, q[Len(q)].k)]
             ELSE [box EXCEPT !.queue = q, !.items = items])
  /\ spec' = IF Len(Used(k, v)) > max_size THEN Front(Used(k, v)) ELSE Used(k, v)

get(k) ==
  /\ Is("stl") /\ Call
  /\ k \in DOMAIN box.items
  /\ Box([box EXCEPT !.queue = SelectSeq(@, LAMBDA e : e.k = k) \o SelectSeq(@, LAMBDA e : e.k # k)])
  /\ spec' = Used(k, ValueOf(k))

-----------------------------------------------------------------------------
(* Trie: its nodes by the path to them, each with a copy of that path.     *)

\* The nodes on the way are made when they are missing.
TrieInsert(w) ==
  LET node(n) == SubSeq(w, 1, n)
      make(t, n) == IF node(n) \in DOMAIN t THEN t
                    ELSE Put1(t, node(n), [prefix_ |-> Append(t[node(n - 1)].prefix_, w[n]), end_ |-> FALSE])
      t == FoldLeft(make, box.nodes, [n \in 1 .. Len(w) |-> n])
  IN  /\ Is("trie") /\ Call
      /\ Box([box EXCEPT !.nodes = [t EXCEPT ![w].end_ = TRUE]])
      /\ spec' = Append(spec, w)

\* find and complete walk to the node; list_keys collects what ends below it.
TrieFind(w) == w \in DOMAIN box.nodes /\ box.nodes[w].end_
Complete(w) == {box.nodes[n].prefix_ : n \in {m \in DOMAIN box.nodes : IsPrefix(w, m) /\ box.nodes[m].end_}}

-----------------------------------------------------------------------------
(* The heap of simple_heap.cc.                                             *)

Swap(h, i, j) == [h EXCEPT ![i] = h[j], ![j] = h[i]]
RECURSIVE Up(_, _)
Up(h, idx) == IF idx > 1 /\ h[idx] < h[idx \div 2] THEN Up(Swap(h, idx, idx \div 2), idx \div 2) ELSE h

RECURSIVE Down(_, _)
Down(h, idx) ==
  LET l == 2 * idx
      t == IF l + 1 <= Len(h) /\ h[l + 1] < h[l] THEN l + 1 ELSE l
  IN  IF l <= Len(h) /\ h[t] < h[idx] THEN Down(Swap(h, t, idx), t) ELSE h

HeapInsert(x) ==
  /\ Is("heap") /\ Call /\ Len(box.h) + 1 < HeapRoom
  /\ Box([box EXCEPT !.h = Up(Append(@, x), Len(@) + 1)])
  /\ spec' = Append(spec, x)

pop_min ==
  /\ Is("heap") /\ Call /\ box.h # <<>>
  /\ Box([box EXCEPT !.h = Down(Front(Swap(@, 1, Len(@))), 1)])
  /\ spec' = LET least == CHOOSE i \in DOMAIN spec : \A j \in DOMAIN spec : spec[i] <= spec[j]
             IN  SubSeq(spec, 1, least - 1) \o SubSeq(spec, least + 1, Len(spec))

-----------------------------------------------------------------------------
(* The extendible hash table.                                              *)

hash(b, k) == k % 2^b.global_depth
grow(b) == [b EXCEPT !.dir = [i \in 0 .. 2^(b.global_depth + 1) - 1 |-> b.dir[i % 2^b.global_depth]],
                     !.global_depth = @ + 1]

\* The new bucket takes the places of pair_index.  It is the bucket_no that
\* is copied and emptied after that: the new one itself when the two agree.
Split(b, bucket_no) ==
  LET depth  == b.buckets[b.dir[bucket_no]].depth + 1
      deeper == [b EXCEPT !.buckets[b.dir[bucket_no]].depth = depth]
      g      == IF depth > b.global_depth THEN grow(deeper) ELSE deeper
      new    == Len(b.buckets) + 1
      pair_index == bucket_no % 2^depth
      dir    == [i \in DOMAIN g.dir |-> IF i = pair_index THEN new ELSE g.dir[i]]
      temp   == IF dir[bucket_no] = new THEN Nothing ELSE g.buckets[dir[bucket_no]].values
      all    == Append(g.buckets, Bucket(depth))
  IN  <<[g EXCEPT !.dir = [i \in DOMAIN dir |-> IF i % 2^depth = pair_index THEN new ELSE dir[i]],
                  !.buckets = [all EXCEPT ![dir[bucket_no]].values = Nothing]],
        temp>>

RECURSIVE Insert(_, _, _)
Insert(b, k, v) ==
  LET id == b.dir[hash(b, k)]
      values == b.buckets[id].values
  IN  IF k \in DOMAIN values THEN b
      ELSE IF Cardinality(DOMAIN values) = bucket_size
      THEN LET s == Split(b, hash(b, k))
           IN  Insert(FoldLeft(LAMBDA c, x : Insert(c, x, s[2][x]), s[1], SetToSortSeq(DOMAIN s[2], <)), k, v)
      ELSE [b EXCEPT !.buckets[id].values = Put1(@, k, v)]

HashInsert(k, v) ==
  /\ Is("hash") /\ Call
  /\ Box(Insert(box, k, v))
  /\ spec' = Append(spec, [k |-> k, v |-> v])

\* remove and update, of a key that is found.
HashChange(k, v) ==
  LET id == box.dir[hash(box, k)]
  IN  /\ Is("hash") /\ Call
      /\ k \in DOMAIN box.buckets[id].values
      /\ \/ Box([box EXCEPT !.buckets[id].values = Drop1(@, k)]) /\ UNCHANGED spec
         \/ /\ Box([box EXCEPT !.buckets[id].values = Put1(@, k, v)])
            /\ spec' = Append(spec, [k |-> k, v |-> v])

-----------------------------------------------------------------------------
(* coding.h.  A reader takes a field off a sequence of bytes and gives     *)
(* <<value, rest>>, or Refused.                                            *)

Refused == <<>>
Byte(v, i) == (v \div 256^i) % 256
Group(v, i) == (v \div 128^i) % 128
EncodeFixed32(v) == <<Byte(v, 0), Byte(v, 1), Byte(v, 2), Byte(v, 3)>>
EncodeFixed64(v) == EncodeFixed32(v) \o <<0, 0, 0, 0>>
DecodeFixed32(b) == b[1] + 256 * b[2] + 65536 * b[3] + 16777216 * b[4]
DecodeFixed64(b) == DecodeFixed32(b)     \* the upper half is 0 here

\* A group of seven bits each, the last one without the top bit.
EncodeVarint32(v) ==
  LET n == CASE v < 2^7 -> 1 [] v >= 2^7 /\ v < 2^14 -> 2 [] v >= 2^14 /\ v < 2^21 -> 3
             [] v >= 2^21 /\ v < 2^28 -> 4 [] v >= 2^28 -> 5
  IN  [i \in 1 .. n |-> Group(v, i - 1) + IF i < n THEN 128 ELSE 0]
RECURSIVE EncodeVarint64(_)
EncodeVarint64(v) == IF v >= 128 THEN <<128 + (v % 128)>> \o EncodeVarint64(v \div 128) ELSE <<v>>
RECURSIVE VarintLength(_)
VarintLength(v) == IF v >= 128 THEN 1 + VarintLength(v \div 128) ELSE 1

\* The loops of GetVarint32PtrFallback and GetVarint64Ptr, up to `most' bytes.
Fallback(b, most) ==
  LET ends == {i \in DOMAIN b : i <= most /\ b[i] < 128}
      n    == Min(ends)
  IN  IF ends = {} THEN Refused
      ELSE <<FoldLeft(LAMBDA r, i : r + (b[i] % 128) * 128^(i - 1), 0, [i \in 1 .. n |-> i]), SubSeq(b, n + 1, Len(b))>>
GetVarint32(b) == IF b # <<>> /\ b[1] < 128 THEN <<b[1], Tail(b)>> ELSE Fallback(b, 5)
GetVarint64(b) == Fallback(b, 10)

GetLengthPrefixedSlice(b) ==
  LET len == GetVarint32(b)
  IN  IF len = Refused \/ Len(len[2]) < len[1] THEN Refused
      ELSE <<SubSeq(len[2], 1, len[1]), SubSeq(len[2], len[1] + 1, Len(len[2]))>>

Encode(f) ==
  CASE f[1] = "fixed32" -> EncodeFixed32(f[2])
    [] f[1] = "fixed64" -> EncodeFixed64(f[2])
    [] f[1] = "varint32" -> EncodeVarint32(f[2])
    [] f[1] = "varint64" -> EncodeVarint64(f[2])
    [] f[1] = "slice" -> EncodeVarint32(Len(f[2])) \o f[2]
\* Fixed-size fields are read without a check: the caller looks at the size.
Decode(kind, b) ==
  CASE kind = "fixed32" -> IF Len(b) < 4 THEN Refused ELSE <<DecodeFixed32(b), SubSeq(b, 5, Len(b))>>
    [] kind = "fixed64" -> IF Len(b) < 8 THEN Refused ELSE <<DecodeFixed64(b), SubSeq(b, 9, Len(b))>>
    [] kind = "varint32" -> GetVarint32(b)
    [] kind = "varint64" -> GetVarint64(b)
    [] kind = "slice" -> GetLengthPrefixedSlice(b)

PutField(f) ==
  /\ Is("stream") /\ Call
  /\ box' = [box EXCEPT !.bytes = @ \o Encode(f)]
  /\ spec' = Append(spec, f)

\* Everything read back, as far as it goes, when only the first n bytes arrived.
RECURSIVE ReadBack(_, _)
ReadBack(b, kinds) ==
  IF kinds = <<>> THEN <<>>
  ELSE LET r == Decode(Head(kinds), b)
       IN  IF r = Refused THEN <<>> ELSE <<<<Head(kinds), r[1]>>>> \o ReadBack(r[2], Tail(kinds))

-----------------------------------------------------------------------------
(* bloom.h: Bloom, one bit array that keys are added to.                   *)

Probe(key, i) ==
  LET a == Hash(key, 0)
      b == Hash(key, a)
  IN  (a + b * i) % box.total_bits_

\* What CheckAdd answers: all the probed bits were set.
Check(key) == \A i \in 0 .. Probes - 1 : Probe(key, i) \in box.data_
BloomAdd(key) ==
  /\ Is("Bloom") /\ Call
  /\ box' = [box EXCEPT !.data_ = @ \union {Probe(key, i) : i \in 0 .. Probes - 1}]
  /\ spec' = Append(spec, key)
BloomReset ==
  /\ Is("Bloom") /\ Call
  /\ box' = [box EXCEPT !.data_ = {}]
  /\ spec' = <<>>

-----------------------------------------------------------------------------
(* bloomfilter.h: a string of bytes that ends with the number of probes.   *)

Positions(key, bits, k) ==
  LET h     == Hash(key, 0)
      delta == (h \div 2^Rotation) + (h % 2^Rotation) * 2^(HashWidth - Rotation)
  IN  {((h + j * delta) % 2^HashWidth) % bits : j \in 0 .. k - 1}

CreateFilter(keys) ==
  /\ Is("BloomFilter") /\ Call /\ box.bytes = 0
  /\ LET bytes == Max({FilterBytes, (Len(keys) * BitsPerKey + 7) \div 8})
     IN  box' = [box EXCEPT !.bytes = bytes + 1, !.k = Probes,
                                !.array = UNION {Positions(keys[i], bytes * 8, Probes) : i \in DOMAIN keys}]
  /\ spec' = keys

SetKey(key) ==
  /\ Is("BloomFilter") /\ Call /\ box.bytes >= 2
  /\ box' = [box EXCEPT !.array = @ \union Positions(key, (box.bytes - 1) * 8, box.k)]
  /\ spec' = Append(spec, key)

\* The byte with the number of probes taken for one of the array.
BugKeyMayMatch(key) == box.bytes >= 2 /\ Positions(key, box.bytes * 8, box.k) \subseteq box.array
KeyMayMatch(key) == box.bytes >= 2 /\ Positions(key, (box.bytes - 1) * 8, box.k) \subseteq box.array

-----------------------------------------------------------------------------
(* histogram.cc, two of them.                                              *)

BucketOf(v) == LET over == {b \in 1 .. kNumBuckets - 1 : v < kBucketLimit[b]}
               IN  IF over = {} THEN kNumBuckets ELSE Min(over)

Add(h, v) ==
  [h EXCEPT !.buckets_[BucketOf(v)] = @ + 1, !.min_ = Min({@, v}), !.max_ = Max({@, v}),
            !.num_ = @ + 1, !.sum_ = @ + v]
Merge(h, g) ==
  [h EXCEPT !.min_ = Min({@, g.min_}), !.max_ = Max({@, g.max_}), !.num_ = @ + g.num_, !.sum_ = @ + g.sum_,
            !.buckets_ = [b \in DOMAIN @ |-> @[b] + g.buckets_[b]]]

\* Number of samples in the buckets up to b.
UpTo(h, b) == FoldLeft(LAMBDA n, i : n + h.buckets_[i], 0, [i \in 1 .. b |-> i])
PercentileBucket(h, p) == Min({b \in 1 .. kNumBuckets : 100 * UpTo(h, b) >= h.num_ * p})
Left(b) == IF b = 1 THEN 0 ELSE kBucketLimit[b - 1]
\* The numerator over the denominator 100 * buckets_[b]; of a bucket that is not empty.
Percentile(h, p) ==
  LET b   == PercentileBucket(h, p)
      den == 100 * h.buckets_[b]
      pos == h.num_ * p - 100 * (UpTo(h, b) - h.buckets_[b])
      r   == Left(b) * den + (kBucketLimit[b] - Left(b)) * pos
      up  == IF r < h.min_ * den THEN h.min_ * den ELSE r
  IN  IF up > h.max_ * den THEN h.max_ * den ELSE up

HistogramAdd(i, v) ==
  /\ Is("Histogram") /\ Call
  /\ box' = [box EXCEPT !.h[i] = Add(@, v)]
  /\ spec' = [spec EXCEPT ![i] = Append(@, v)]
HistogramMerge ==
  /\ Is("Histogram") /\ Call
  /\ box' = [box EXCEPT !.h[1] = Merge(@, box.h[2])]
  /\ spec' = [spec EXCEPT ![1] = @ \o spec[2]]
HistogramClear(i) ==
  /\ Is("Histogram") /\ Call
  /\ box' = [box EXCEPT !.h[i] = Cleared]
  /\ spec' = [spec EXCEPT ![i] = <<>>]

-----------------------------------------------------------------------------
Next ==
  \/ \E k \in BoxKeys, v \in BoxValues : Put(k, v) \/ put(k, v) \/ HashInsert(k, v) \/ HashChange(k, v)
  \/ \E k \in BoxKeys : Get(k) \/ get(k) \/ CacheRemove(k) \/ HeapInsert(k)
  \/ \E w \in Words : TrieInsert(w)
  \/ Evict \/ Clear \/ pop_min
  \/ \E f \in Fields : PutField(f)
  \/ \E key \in FilterKeys : BloomAdd(key) \/ SetKey(key)
  \/ Is("BloomFilter") /\ \E keys \in SetToAllKPermutations(FilterKeys) : CreateFilter(keys)
  \/ BloomReset \/ HistogramMerge
  \/ \E i \in 1 .. 2 : HistogramClear(i) \/ \E v \in Samples : HistogramAdd(i, v)

Spec == Init /\ [][Next]_vars

\* The sample of that rank among the samples s.
Ranked(s, p) == LET rank == (Len(s) * p + 99) \div 100 IN SortSeq(s, <)[rank]
Bytes(n) == FoldLeft(LAMBDA m, f : m + Len(Encode(f)), 0, SubSeq(spec, 1, n))

=============================================================================
