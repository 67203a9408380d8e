------------------------------ MODULE DenseMap ------------------------------
(***************************************************************************)
(* ankerl::unordered_dense::map of cpp-util/unordered_dense_map.h: values  *)
(* densely in a vector, and buckets that hold, Robin Hood style, an index  *)
(* into it with the distance from the wanted bucket and some hash bits.    *)
(*                                                                         *)
(* The table is one record:                                                *)
(*   values   m_values, its keys                                           *)
(*   buckets  m_buckets, [df, idx] by number; df is                        *)
(*            m_dist_and_fingerprint, 0 for an empty bucket; no bucket at  *)
(*            all before the first allocation                              *)
(*   shifts, capacity (m_max_bucket_capacity), load (as <<p, q>>)          *)
(* dense_hash is mixed_hash, a word of WordWidth bits (64 in the code).    *)
(***************************************************************************)
EXTENDS Integers, Sequences, FiniteSetsExt, SequencesExt

CONSTANTS
  DenseKeys, dense_hash,
  WordWidth, InitialShifts, FingerprintBits,
  MaxBuckets,    \* max_bucket_count() = max_size(), 2 ^ bits of an index
  DenseLoads,    \* the values of max_load_factor
  Capacities,    \* the arguments of rehash and reserve
  Containers     \* the sequences of keys given to replace

VARIABLES
  dense,
  denseKeys      \* ghost: the keys of the map

vars == <<dense, denseKeys>>

dist_inc == 2 ^ FingerprintBits
Most(a, b) == IF a > b THEN a ELSE b
Least(a, b) == IF a < b THEN a ELSE b
NoBucket == [df |-> 0, idx |-> 0]
bucket_count(s) == Cardinality(DOMAIN s.buckets)

NewDense(load) == [values |-> <<>>, buckets |-> <<>>, shifts |-> InitialShifts,
                   capacity |-> 0, load |-> load]

-----------------------------------------------------------------------------
(* Buckets *)

calc_num_buckets(shifts) == Least(MaxBuckets, 2 ^ (WordWidth - shifts))
Loaded(n, load) == (n * load[1]) \div load[2]

calc_shifts_for_size(s, n) ==
  LET enough == {h \in 0 .. InitialShifts : h > 0 => Loaded(calc_num_buckets(h), s.load) >= n}
  IN  Max(enough)

\* deallocate_buckets, then allocate_buckets_from_shift, then clear_buckets.
Allocated(s) ==
  LET n == calc_num_buckets(s.shifts)
  IN  [s EXCEPT !.buckets = [i \in 0 .. n - 1 |-> NoBucket],
                !.capacity = IF n = MaxBuckets THEN n ELSE Loaded(n, s.load)]

clear_buckets(s) == [s EXCEPT !.buckets = [i \in DOMAIN @ |-> NoBucket]]

\* The i-th bucket a probe for the key looks at, and what it looks for there.
Place(s, k, i) == (((dense_hash[k] \div 2 ^ s.shifts) % MaxBuckets) + i) % bucket_count(s)
DistAndFingerprint(k, i) == (i + 1) * dist_inc + (dense_hash[k] % dist_inc)
ProbeSteps(s) == 0 .. 2 * bucket_count(s)

\* The step at which a probe ends: at the key, or at the first bucket that is
\* nearer to its place than the key would be.
Probe(s, k) ==
  Min({i \in ProbeSteps(s) :
         LET b == s.buckets[Place(s, k, i)]
         IN  \/ DistAndFingerprint(k, i) > b.df
             \/ DistAndFingerprint(k, i) = b.df /\ s.values[b.idx + 1] = k})

Holds(s, k) ==
  LET b == s.buckets[Place(s, k, Probe(s, k))]
  IN  b.df = DistAndFingerprint(k, Probe(s, k))

do_find(s, k) == Len(s.values) > 0 /\ Holds(s, k)

\* The new bucket takes its place, those behind it go one further.
place_and_shift_up(s, b, place) ==
  LET n == bucket_count(s)
      free == Min({i \in 0 .. n - 1 : s.buckets[(place + i) % n].df = 0})
      From(p) == (p - place + n) % n
      Up(p) == [s.buckets[(p - 1 + n) % n] EXCEPT !.df = @ + dist_inc]
  IN  [s EXCEPT !.buckets = [p \in DOMAIN @ |-> IF p = place THEN b
                                                ELSE IF From(p) <= free THEN Up(p) ELSE @[p]]]

next_while_less(s, k) ==
  Min({i \in ProbeSteps(s) : DistAndFingerprint(k, i) >= s.buckets[Place(s, k, i)].df})

\* One round of clear_and_fill_buckets_from_values.
Filled(s, idx) ==
  LET k == s.values[idx + 1]
      i == next_while_less(s, k)
  IN  place_and_shift_up(s, [df |-> DistAndFingerprint(k, i), idx |-> idx], Place(s, k, i))

clear_and_fill_buckets_from_values(s) ==
  FoldLeft(Filled, clear_buckets(s), [i \in 1 .. Len(s.values) |-> i - 1])

is_full(s) == Len(s.values) >= s.capacity
CannotGrow(s) == is_full(s) /\ s.capacity = MaxBuckets
increase_size(s) == clear_and_fill_buckets_from_values(Allocated([s EXCEPT !.shifts = @ - 1]))

-----------------------------------------------------------------------------
(* Operations, as functions of the table *)

\* emplace and try_emplace: the table grows before the key is looked for.
emplace(s0, k) ==
  LET s == IF is_full(s0) THEN increase_size(s0) ELSE s0
      added == [s EXCEPT !.values = Append(@, k)]
      i == Probe(s, k)
  IN  IF Holds(s, k) THEN s
      ELSE place_and_shift_up(added, [df |-> DistAndFingerprint(k, i), idx |-> Len(s.values)],
                              Place(s, k, i))

\* The buckets behind the erased one move down, in a full table up to the
\* erased one, which then holds its neighbour already.
Closed(s, p) ==
  LET n == bucket_count(s)
      Seen(i) == s.buckets[(p + i) % n].df
      stop == Min({i \in 1 .. n : (IF i = n THEN Seen(1) - dist_inc ELSE Seen(i)) < 2 * dist_inc})
      From(q) == (q - p + n) % n
      Down(q) == [s.buckets[(q + 1) % n] EXCEPT !.df = @ - dist_inc]
  IN  [q \in DOMAIN s.buckets |-> IF From(q) < stop - 1 THEN Down(q)
                                  ELSE IF From(q) = stop - 1 THEN NoBucket ELSE s.buckets[q]]

\* The last value takes the place of the erased one.
WithoutValue(s, idx) == Front([s.values EXCEPT ![idx + 1] = Last(s.values)])


do_erase(s, p) ==
  LET gone == s.buckets[p].idx
      back == Len(s.values) - 1
      moved == Last(s.values)
      i == Min({j \in ProbeSteps(s) : Closed(s, p)[Place(s, moved, j)].idx = back})
  IN  [s EXCEPT !.values = WithoutValue(s, gone),
                !.buckets = IF gone = back THEN Closed(s, p)
                            ELSE [Closed(s, p) EXCEPT ![Place(s, moved, i)].idx = gone]]

do_erase_key(s, k) == IF do_find(s, k) THEN do_erase(s, Place(s, k, Probe(s, k))) ELSE s

\* erase(iterator): the bucket is found by its index.
EraseAt(s, idx) ==
  LET k == s.values[idx + 1]
      i == Min({j \in ProbeSteps(s) : s.buckets[Place(s, k, j)].idx = idx})
  IN  do_erase(s, Place(s, k, i))

\* erase(first, last): from the left as long as values from the end take their
\* place, then from the right.
EraseRange(s, first, last) ==
  LET mid == first + Least(last - first, Len(s.values) - last)
      left == [i \in 1 .. mid - first |-> first + i - 1]
      right == [i \in 1 .. last - mid |-> last - i]
  IN  FoldLeft(EraseAt, s, left \o right)

\* erase_if, from the back.
EraseIf(s, ks) ==
  FoldLeft(LAMBDA t, idx : IF t.values[idx + 1] \in ks THEN EraseAt(t, idx) ELSE t,
           s, [i \in 1 .. Len(s.values) |-> Len(s.values) - i])

clear(s) == clear_buckets([s EXCEPT !.values = <<>>])

\* replace: a container with duplicates, whose places its last values take.
RECURSIVE Unique(_, _)
Unique(s, idx) ==
  IF idx = Len(s.values) THEN s
  ELSE LET k == s.values[idx + 1]
           i == Probe(s, k)
       IN  IF Holds(s, k)
           THEN Unique([s EXCEPT !.values = WithoutValue(s, idx)], idx)
           ELSE Unique(place_and_shift_up(s, [df |-> DistAndFingerprint(k, i), idx |-> idx],
                                          Place(s, k, i)), idx + 1)

replace(s, container) ==
  LET shifts == calc_shifts_for_size(s, Len(container))
      ready == IF bucket_count(s) = 0 \/ shifts < s.shifts
               THEN Allocated([s EXCEPT !.shifts = shifts]) ELSE clear_buckets(s)
  IN  Unique([ready EXCEPT !.values = container], 0)

Resized(s, shifts) == clear_and_fill_buckets_from_values(Allocated([s EXCEPT !.shifts = shifts]))

rehash(s, n) ==
  LET shifts == calc_shifts_for_size(s, Most(Least(n, MaxBuckets), Len(s.values)))
  IN  IF shifts # s.shifts THEN Resized(s, shifts) ELSE s

reserve(s, n) ==
  LET shifts == calc_shifts_for_size(s, Most(Least(n, MaxBuckets), Len(s.values)))
  IN  IF bucket_count(s) = 0 \/ shifts < s.shifts THEN Resized(s, shifts) ELSE s

max_load_factor(s, load) ==
  [s EXCEPT !.load = load,
            !.capacity = IF bucket_count(s) # MaxBuckets THEN Loaded(bucket_count(s), load) ELSE @]

\* operator= and the copy constructor: the buckets are copied unless the other
\* table is empty.
copy_buckets(s) ==
  IF s.values = <<>> THEN NewDense(s.load)
  ELSE [Allocated(s) EXCEPT !.buckets = s.buckets]

-----------------------------------------------------------------------------
Init ==
  /\ \E load \in DenseLoads : dense = NewDense(load)
  /\ denseKeys = {}

Becomes(s, keys) == dense' = s /\ denseKeys' = keys
Indices == 0 .. Len(dense.values) - 1

Emplace ==
  \E k \in DenseKeys :
    IF CannotGrow(dense) THEN UNCHANGED vars   \* overflow_error
    ELSE Becomes(emplace(dense, k), denseKeys \cup {k})
EraseKey == \E k \in DenseKeys : Becomes(do_erase_key(dense, k), denseKeys \ {k})
EraseIterator ==
  \E i \in Indices : Becomes(EraseAt(dense, i), denseKeys \ {dense.values[i + 1]})
EraseSeveral ==
  \E i \in Indices : \E j \in i + 1 .. Len(dense.values) :
    Becomes(EraseRange(dense, i, j), denseKeys \ {dense.values[x] : x \in i + 1 .. j})
Erase_if == \E ks \in {{k, l} : k, l \in DenseKeys} : Becomes(EraseIf(dense, ks), denseKeys \ ks)
Clear == Becomes(clear(dense), {})
Replace == \E c \in Containers : Becomes(replace(dense, c), ToSet(c))
Rehash == \E n \in Capacities : Becomes(rehash(dense, n), denseKeys)
Reserve == \E n \in Capacities : Becomes(reserve(dense, n), denseKeys)
SetLoad == \E load \in DenseLoads : Becomes(max_load_factor(dense, load), denseKeys)
Copy == Becomes(copy_buckets(dense), denseKeys)

Next ==
  \/ Emplace \/ EraseKey \/ EraseIterator \/ EraseSeveral \/ Erase_if \/ Clear
  \/ Replace \/ Rehash \/ Reserve \/ SetLoad \/ Copy

Spec == Init /\ [][Next]_vars

-----------------------------------------------------------------------------
\* After any operations the values are the keys of the map, once each, every
\* one is found, and buckets and values correspond one to one at the distance
\* and fingerprint a probe expects.
DenseMapActsAsMap ==
  LET used == {p \in DOMAIN dense.buckets : dense.buckets[p].df # 0}
  IN  /\ {dense.buckets[p].idx : p \in used} = Indices
      /\ Cardinality(used) = Len(dense.values)
      /\ IsInjective(dense.values) /\ ToSet(dense.values) = denseKeys
      /\ \A k \in DenseKeys : do_find(dense, k) <=> k \in denseKeys
=============================================================================
