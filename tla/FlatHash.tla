------------------------------ MODULE FlatHash ------------------------------
(***************************************************************************)
(* sherwood_v3_table of cpp-util/ska_hashtable.h, the Robin Hood table of  *)
(* ska::flat_hash_map: an entry knows its distance from the slot its hash  *)
(* asks for, insertion displaces entries that are nearer to theirs, and    *)
(* the probe length is limited by max_lookups, past which the table grows. *)
(*                                                                         *)
(* The table is one record:                                                *)
(*   slots    num_slots_minus_one + 1                                      *)
(*   entries  [d, key]: d is distance_from_desired, -1 for an empty entry; *)
(*            the last one is the special end item, with d = 0             *)
(*   max_lookups, num_elements, load (_max_load_factor, as <<p, q>>)       *)
(* hash is the hash of a key; for the Fibonacci policy, the product of     *)
(* HashBits bits of which index_for_hash takes the upper ones.             *)
(***************************************************************************)
EXTENDS Integers, Sequences, FiniteSetsExt, SequencesExt

CONSTANTS
  FlatKeys, NULL, flat_hash,
  Policies,     \* the hash policies that are looked at
  HashBits,
  LoadFactors,  \* the values given to max_load_factor
  RehashSizes, ReserveSizes

VARIABLES
  policy,
  flat,
  flatKeys      \* ghost: the keys of the map

vars == <<policy, flat, flatKeys>>

min_lookups == 4
RECURSIVE log2(_)
log2(n) == IF n <= 1 THEN 0 ELSE 1 + log2(n \div 2)
next_power_of_two(n) == IF n = 1 THEN 1 ELSE 2 ^ (log2(n - 1) + 1)
CeilDiv(a, b) == (a + b - 1) \div b
Larger(a, b) == IF a > b THEN a ELSE b
Lesser(a, b) == IF a < b THEN a ELSE b

Nothing == [d |-> -1, key |-> NULL]
special_end_value == [d |-> 0, key |-> NULL]

\* The entries of an empty table: slots and the room for lookups.
EmptyEntries(n, lookups) ==
  [i \in 0 .. n + lookups - 1 |-> IF i = n + lookups - 1 THEN special_end_value ELSE Nothing]

\* reset_to_empty_state, and the state after construction.
reset_to_empty_state(s) ==
  [s EXCEPT !.slots = 1, !.entries = EmptyEntries(1, min_lookups - 1), !.max_lookups = min_lookups - 1]
NewTable(load) ==
  [slots |-> 1, entries |-> EmptyEntries(1, min_lookups - 1), max_lookups |-> min_lookups - 1,
   num_elements |-> 0, load |-> load]

has_value(s, i) == s.entries[i].d >= 0
bucket_count(s) == IF s.slots = 1 THEN 0 ELSE s.slots
EndOf(s) == s.slots - 1 + s.max_lookups
compute_max_lookups(n) == Larger(min_lookups, log2(n))
num_buckets_for_reserve(s, n) ==
  IF 2 * s.load[1] < s.load[2] THEN CeilDiv(n * s.load[2], s.load[1]) ELSE 2 * n

-----------------------------------------------------------------------------
(* Hash policies *)

prime_list == {2, 3, 5, 7, 11, 13, 17, 23, 29, 37, 47, 59, 73, 97, 127}   \* its first ones
Modulus(s) == IF s.slots = 1 THEN 1 ELSE s.slots   \* mod0 until a size is committed
shift(s) == HashBits - Larger(1, log2(s.slots))

index_for_hash(s, k) ==
  CASE policy = "prime" -> flat_hash[k] % Modulus(s)
    [] policy = "power of two" -> flat_hash[k] % s.slots
    [] policy = "fibonacci" -> flat_hash[k] \div 2 ^ shift(s)

next_size_over(n) ==
  CASE policy = "prime" -> Min({p \in prime_list : p >= n})
    [] policy = "power of two" -> next_power_of_two(n)
    [] policy = "fibonacci" -> Larger(2, next_power_of_two(n))

-----------------------------------------------------------------------------
(* Operations, as functions of the table *)

\* Where the probe for a key ends: at the key, or at the first entry that is
\* nearer to its desired slot than the key would be.
Probe(s, k) ==
  LET i == index_for_hash(s, k)
  IN  Min({d \in 0 .. EndOf(s) - i : s.entries[i + d].d < d \/ s.entries[i + d].key = k})

find(s, k) ==
  LET p == index_for_hash(s, k) + Probe(s, k)
  IN  IF s.entries[p].d >= Probe(s, k) THEN p ELSE EndOf(s)

Placed(s, p, d, k) == [s EXCEPT !.entries[p] = [d |-> d, key |-> k]]
Overfull(s, d) ==
  \/ s.slots = 1 \/ d = s.max_lookups
  \/ (s.num_elements + 1) * s.load[2] > s.slots * s.load[1]

RECURSIVE emplace(_, _)
RECURSIVE Displace(_, _, _, _, _)
RECURSIVE rehash(_, _)

grow(s) == rehash(s, Larger(4, 2 * bucket_count(s)))

\* The key that finds no slot within the limit is dropped by the growth.
BugDisplace(s, k, d, p, first) ==
  LET e == s.entries[p]
  IN  IF e.d < 0 THEN [Placed(s, p, d, k) EXCEPT !.num_elements = @ + 1]
      ELSE IF e.d < d THEN Displace(Placed(s, p, d, k), e.key, e.d + 1, p + 1, first)
      ELSE IF d + 1 = s.max_lookups THEN emplace(grow(s), s.entries[first].key)
      ELSE Displace(s, k, d + 1, p + 1, first)

\* The loop of emplace_new_key: k, evicted from its slot, looks for another
\* from p on; the new key went to slot first.
Displace(s, k, d, p, first) ==
  LET e == s.entries[p]
  IN  IF e.d < 0 THEN [Placed(s, p, d, k) EXCEPT !.num_elements = @ + 1]
      ELSE IF e.d < d THEN Displace(Placed(s, p, d, k), e.key, e.d + 1, p + 1, first)
      ELSE IF d + 1 = s.max_lookups
      THEN emplace(grow([s EXCEPT !.entries[first].key = k]), s.entries[first].key)
      ELSE Displace(s, k, d + 1, p + 1, first)

emplace_new_key(s, d, p, k) ==
  LET e == s.entries[p]
  IN  IF Overfull(s, d) THEN emplace(grow(s), k)
      ELSE IF e.d < 0 THEN [Placed(s, p, d, k) EXCEPT !.num_elements = @ + 1]
      ELSE Displace(Placed(s, p, d, k), e.key, e.d + 1, p + 1, p)

emplace(s, k) ==
  IF find(s, k) # EndOf(s) THEN s
  ELSE emplace_new_key(s, Probe(s, k), index_for_hash(s, k) + Probe(s, k), k)

\* The keys in the order of iteration.
InEntryOrder(s) ==
  SelectSeq([i \in 1 .. EndOf(s) |-> s.entries[i - 1].key], LAMBDA k : k # NULL)

insert(s, ks) == FoldLeft(emplace, s, ks)

rehash(s, n) ==
  LET wanted == Larger(n, CeilDiv(s.num_elements * s.load[2], s.load[1]))
      size == next_size_over(wanted)
      lookups == compute_max_lookups(size)
      new == [s EXCEPT !.slots = size, !.entries = EmptyEntries(size, lookups),
                       !.max_lookups = lookups, !.num_elements = 0]
  IN  IF wanted = 0 THEN reset_to_empty_state(s)
      ELSE IF size = bucket_count(s) THEN s
      ELSE insert(new, InEntryOrder(s))

reserve(s, n) ==
  IF num_buckets_for_reserve(s, n) > bucket_count(s)
  THEN rehash(s, num_buckets_for_reserve(s, n)) ELSE s

rehash_for_other_container(s, other) ==
  rehash(s, Lesser(num_buckets_for_reserve(s, other.num_elements), bucket_count(other)))

\* erase of one entry: those behind it that are not at their desired slot move
\* one to the front.
erase(s, p) ==
  LET q == Min({i \in p + 1 .. EndOf(s) : s.entries[i].d <= 0})
  IN  [s EXCEPT
         !.num_elements = @ - 1,
         !.entries = [i \in DOMAIN @ |->
                        IF i = q - 1 THEN Nothing
                        ELSE IF i \in p .. q - 2 THEN [@[i + 1] EXCEPT !.d = @ - 1]
                        ELSE @[i]]]

\* erase of a range: what follows it moves to the front by at most its length.
RECURSIVE MoveDown(_, _, _)
MoveDown(s, p, n) ==
  LET by == Lesser(s.entries[p].d, n)
  IN  IF s.entries[p].d <= 0 THEN s
      ELSE MoveDown([s EXCEPT !.entries = [@ EXCEPT ![p - by] = [s.entries[p] EXCEPT !.d = @ - by],
                                                    ![p] = Nothing]], p + 1, by)

erase_range(s, b, e) ==
  LET gone == {i \in b .. e - 1 : has_value(s, i)}
      without == [s EXCEPT !.num_elements = @ - Cardinality(gone),
                           !.entries = [i \in DOMAIN @ |-> IF i \in gone THEN Nothing ELSE @[i]]]
  IN  IF b = e THEN s ELSE IF e = EndOf(s) THEN without ELSE MoveDown(without, e, e - b)

clear(s) ==
  [s EXCEPT !.num_elements = 0,
            !.entries = [i \in DOMAIN @ |-> IF i < EndOf(s) THEN Nothing ELSE @[i]]]

-----------------------------------------------------------------------------
Init ==
  /\ policy \in Policies
  /\ \E load \in LoadFactors : flat = NewTable(load)
  /\ flatKeys = {}

Becomes(s, keys) == flat' = s /\ flatKeys' = keys /\ UNCHANGED policy

Emplace == \E k \in FlatKeys : Becomes(emplace(flat, k), flatKeys \cup {k})

EraseKey ==
  \E k \in FlatKeys :
    Becomes(IF find(flat, k) = EndOf(flat) THEN flat ELSE erase(flat, find(flat, k)),
            flatKeys \ {k})

Iterators(s) == {i \in 0 .. EndOf(s) : has_value(s, i)}

EraseRange ==
  \E b, e \in Iterators(flat) :
    /\ b < e
    /\ Becomes(erase_range(flat, b, e),
               flatKeys \ {flat.entries[i].key : i \in b .. e - 1})

Clear == Becomes(clear(flat), {})
Rehash == \E n \in RehashSizes : Becomes(rehash(flat, n), flatKeys)
Reserve == \E n \in ReserveSizes : Becomes(reserve(flat, n), flatKeys)
ShrinkToFit == Becomes(rehash_for_other_container(flat, flat), flatKeys)

\* Copy construction, after which the copy is the table that is looked at.
Copy ==
  LET new == rehash_for_other_container(NewTable(flat.load), flat)
  IN  Becomes(insert(new, InEntryOrder(flat)), flatKeys)

Next ==
  \/ Emplace \/ EraseKey \/ EraseRange \/ Clear
  \/ Rehash \/ Reserve \/ ShrinkToFit \/ Copy

Spec == Init /\ [][Next]_vars

-----------------------------------------------------------------------------
\* After any operations the table holds the keys of the map and finds each of
\* them: an entry is where its distance says, no probe ends before its key,
\* iteration meets every key once and the special end item is in its place.
FlatHashActsAsMap ==
  /\ \A k \in FlatKeys : (find(flat, k) # EndOf(flat)) <=> k \in flatKeys
  /\ \A i \in 0 .. EndOf(flat) - 1 :
       has_value(flat, i) => i = index_for_hash(flat, flat.entries[i].key) + flat.entries[i].d
  /\ Len(InEntryOrder(flat)) = Cardinality(flatKeys)
  /\ flat.num_elements = Cardinality(flatKeys)
  /\ flat.entries[EndOf(flat)] = special_end_value
=============================================================================
