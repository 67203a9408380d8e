------------------------------ MODULE MCStorage -----------------------------
(***************************************************************************)
(* The data structures, in memory and on disk, side by side for TLC: at    *)
(* the start one part is picked, and only that one moves                   *)
(*   "cache"    PageCache on its LRUCache                                  *)
(*   "disk"     DiskManager                                                *)
(*   "lru"      LRUCache, larger than under the page cache                 *)
(*   "table"    ChainedTable, the hash table inside LRUCache               *)
(*   "cuckoo1" .. "cuckoo4"  CuckooMap, two threads that call different    *)
(*              operations; in the last, moving an element may throw       *)
(*   "flat"     FlatHash                                                   *)
(*   "dense"    DenseMap                                                   *)
(*   "chain"    CasHashTable                                               *)
(*   "bitset"   LfBitset                                                   *)
(*   "skiplist" SkipList                                                   *)
(*   "btree"    BTree of simpleBtree                                       *)
(*   "paged"    PagedBTree of simpleDB                                     *)
(*   "slab"     Slab                                                       *)
(*   "arena"    Arena                                                      *)
(*   "lz4"      Lz4                                                        *)
(*   "xxhash"   XxHash                                                     *)
(*   "utility"  Utilities                                                  *)
(* The parts from "lru" on keep their state in the variables x1 .. x11.    *)
(***************************************************************************)
EXTENDS PageCache, TLC

CONSTANTS
  Parts,                                     \* the parts to check
  PageIds, Kept, Buffers, MaxAppends,
  e4,                                        \* another address
  small, big, noClass,                        \* slot sizes of the slab, free list
  f1, f2, f3

VARIABLES
  part, file, failed, log, buffer_used, appends, short, diskWritten, answer,
  x1, x2, x3, x4, x5, x6, x7, x8, x9, x10, x11

diskVars == <<file, failed, log, buffer_used, appends, short, diskWritten, answer>>
x9on == <<x9, x10, x11>>
x8on == <<x8, x9on>>
x7on == <<x7, x8on>>
x6on == <<x6, x7on>>
x5on == <<x5, x6on>>
x4on == <<x4, x5on>>
x3on == <<x3, x4on>>
registers == <<x1, x2, x3on>>
storageVars == <<allVars, diskVars, registers, part>>

Disk == INSTANCE DiskManager WITH written <- diskWritten

Lru == INSTANCE LRUCache
  WITH Keys <- {1, 2, 3}, Values <- {"v"}, Addresses <- Addresses \cup {e4}, capacity_ <- 2,
       MaxHandles <- 2,
       entry <- x1, table_ <- x2, lru_ <- x3, in_use_ <- x4, usage_ <- x5, busy <- x6,
       made <- x7, handles <- x8

\* Six keys that fill the first four buckets unevenly and spread out again
\* when there are eight.
Table == INSTANCE ChainedTable
  WITH Keys <- 1 .. 6, Values <- {"v", "w"}, hash <- <<0, 4, 8, 1, 5, 3>>,
       length_ <- x1, elems_ <- x2, list_ <- x3

\* Buckets of one slot, two keys with both buckets in common, and two locks.
Cuckoo(ops, nothrow) == INSTANCE CuckooMap
  WITH MapThreads <- {1, 2}, MapKeys <- {1, 2, 3}, MapValues <- {1},
       hash <- <<0, 0, 1>>, tag <- (0 :> 1 @@ 1 :> 3 @@ 2 :> 3),
       SLOT_PER_BUCKET <- 1, kMaxNumLocks <- 2, MAX_BFS_PATH_LEN <- 3,
       InitialHashpower <- 1, maximum_hashpower_ <- 2, minimum_load_factor_ <- 5,
       NothrowMove <- nothrow, OpsOf <- ops, RehashTo <- {1, 2}, ReserveFor <- {3},
       MaxMapCalls <- <<3, 2>>, table <- x1, mtask <- x2, map <- x3, calls <- x4
Calls1 == <<{"insert", "erase"}, {"insert", "find"}>>
Calls2 == <<{"insert"}, {"insert", "rehash"}>>
Calls3 == <<{"insert", "uprase"}, {"insert_or_assign", "update", "reserve", "lock_table", "clear"}>>
Calls4 == <<{"insert"}, {"insert", "find"}>>

\* Hashes of six bits; five of the six keys start in two neighbouring entries.
Flat == INSTANCE FlatHash
  WITH FlatKeys <- 1 .. 6, flat_hash <- <<0, 0, 1, 1, 1, 33>>,
       Policies <- {"prime", "power of two", "fibonacci"}, HashBits <- 6,
       LoadFactors <- {<<1, 2>>, <<1, 1>>}, RehashSizes <- {0, 1, 9}, ReserveSizes <- {3},
       policy <- x1, flat <- x2, flatKeys <- x3

\* Hashes of five bits, a fingerprint of one, and at most four buckets.
Dense == INSTANCE DenseMap
  WITH DenseKeys <- 1 .. 5, dense_hash <- <<0, 0, 2, 31, 30>>, WordWidth <- 5,
       InitialShifts <- 4, FingerprintBits <- 1, MaxBuckets <- 4,
       DenseLoads <- {<<4, 5>>, <<1, 1>>}, Capacities <- {0, 3},
       Containers <- {<<1, 2, 1, 3>>, <<4, 4, 4>>}, dense <- x1, denseKeys <- x2

Chain == INSTANCE CasHashTable
  WITH HashThreads <- {1, 2}, HashKeys <- {"k", "l"}, MaxPuts <- 3,
       list_ <- x1, key <- x2, next_bucket <- x3, htask <- x4, done <- x5

\* Words of four bits: a bitset of one whole word, and one of a word and a half.
Bitset == INSTANCE LfBitset
  WITH BitThreads <- {1, 2}, WordBits <- 4, Sizes <- {4, 6}, Runs <- {2, 3},
       _Nbits <- x1, bitword <- x2, widx <- x3, task <- x4, owned <- x5

Skip == INSTANCE SkipList
  WITH Keys <- {1, 2, 3}, SkipReaders <- {1}, kMaxHeight_ <- 3, JUNK <- Garbage,
       next_ <- x1, max_height_ <- x2, prev_ <- x3, prev_height_ <- x4, ins <- x5,
       inserted <- x6, reader <- x7

\* Ten keys in nodes of one to three; one caller inserts one of them four times.
TreeKeys == 1 .. 10
Tree == INSTANCE BTree
  WITH M <- 2, Keys <- TreeKeys, Nodes <- 1 .. 12, Late <- 0, AbsentDeletes <- FALSE,
       Workloads <- {[i \in TreeKeys |-> i],
                     [i \in TreeKeys |-> (4 * i) % 11],
                     [i \in TreeKeys |-> IF i % 3 = 1 THEN 5 ELSE (4 * i) % 11]},
       node <- x1, roots <- x2, cursor <- x3, btree_node_num <- x4, inTree <- x5, todo <- x6

Paged == INSTANCE PagedBTree
  WITH M <- 2, Keys <- 1 .. 5, PageIds <- 0 .. 9, Orders <- {<<1, 2, 3, 4, 5>>}, MaxOpens <- 2,
       pages_inmem_ <- x1, roots <- x2, cursor <- x3, btree_node_num <- x4,
       next_page_id_ <- x5, file <- x6, flushing <- x7, inserts <- x8, opens <- x9,
       known <- x10, promise <- x11

\* Four pages; a page of small chunks keeps its bitmap in the first of them.
SlabPool == INSTANCE Slab
  WITH NPages <- 4, FREE <- noClass, Classes <- {small, big},
       TypeOf <- (small :> "SMALL" @@ big :> "BIG"),
       ChunksOf <- (small :> 3 @@ big :> 2),
       MapChunksOf <- (small :> 1 @@ big :> 0), RunLengths <- {1, 2},
       pool <- x1, live <- x2

Pieces == INSTANCE Arena
  WITH kBlockSize <- 12, Align <- 4, Sizes <- {2, 4}, fixed_size_ <- 3, MaxBlocks <- 2,
       blocks_ <- x1, alloc_ptr_ <- x2, alloc_bytes_remaining_ <- x3, memory_usage_ <- x4,
       free_list_ <- x5, pieces <- x6

\* Every length of the format is scaled down, and so is the window.
LZ4_hash(s) == (s[1] + 2 * s[2]) % 3
Blocks == INSTANCE Lz4
  WITH MINMATCH <- 2, LASTLITERALS <- 1, MFLIMIT <- 3, RUN_MASK <- 3, BYTE_MAX <- 3,
       HASH_UNIT <- 2, Window <- 16, IndexLimit <- 36, SmallInput <- 5,
       FASTLOOP_SAFE_DISTANCE <- 4, WideCopy <- 3, WILDCOPYLENGTH <- 2, LZ4_skipTrigger <- 1,
       Hashes <- {0, 1, 2}, Rooms <- {0, 7}, EncoderBuffer <- 11, DecoderBuffer <- 22,
       Blocks <- {<<0, 0, 0, 0, 0, 0>>, <<0, 1, 0, 1, 1, 0>>, <<1, 1, 0, 0, 1>>},
       Dictionary <- <<0, 1, 1, 0, 1>>, MaxLzCalls <- 4,
       enc <- x1, dec <- x2, emem <- x3, dmem <- x4, at <- x5, answer <- x6, lzCalls <- x7

\* Lengths on both sides of every case of XXH3, of a stripe and of a block.
Hashing == INSTANCE XxHash
  WITH Chunks <- {1, 63, 64, 193, 256, 577, 1100},
       Lengths <- (0 .. 70) \cup (120 .. 145) \cup (230 .. 270)
                    \cup {575, 576, 577, 1024, 1025, 1153, 1217},
       Seeds <- {0, 5}, SecretSizes <- {100, 136, 200}, MaxHashCalls <- 4, U32 <- 256,
       mode <- x1, xxh3 <- x2, xxh32 <- x3, xxh64 <- x4, hashCalls <- x5, oneShot <- x6

\* Numbers around the lengths of a varint, in either width.
Fields ==
  ({"varint32", "varint64"} \X {0, 127, 128, 16384, 2097152, 268435455, 268435456, 2147483647})
    \cup ({"fixed32", "fixed64"} \X {258, 2147483647})
    \cup {<<"slice", <<>>>>, <<"slice", <<9, 200>>>>}
Hash(k, seed) == (37 * k + 91 * seed + 13) % 256
Stores == {"none", "lru", "stl", "trie", "hash", "heap"}
Boxes == Stores \cup {"stream", "Bloom", "BloomFilter", "Histogram"}
MaxBoxCalls == [b \in Boxes |-> IF b \in Stores THEN 5 ELSE 3]
BoxKeys == {1, 2, 3, 5}
BoxValues == {7, 8}
Words == {<<1>>, <<1, 2>>, <<2, 1>>, <<1, 2, 1>>}
FilterKeys == 1 .. 4
Samples == {0, 1, 3, 6, 9}
kBucketLimit == <<1, 2, 4, 8>>
Utility == INSTANCE Utilities
  WITH max_size <- 2, HeapRoom <- 5, bucket_size <- 1, HashWidth <- 8, Rotation <- 3,
       FilterBytes <- 2, FilterBits <- 13, BitsPerKey <- 5, Probes <- 3,
       box <- x1, spec <- x2, boxCalls <- x3

MCPages == <<f1, f2>>
Symmetry == Permutations(Addresses) \cup Permutations(Contents)

-----------------------------------------------------------------------------
\* The variables a part does not use.
Unused9 == x9 = NULL /\ x10 = NULL /\ x11 = NULL
Unused8 == x8 = NULL /\ Unused9
Unused7 == x7 = NULL /\ Unused8
Unused6 == x6 = NULL /\ Unused7
Unused5 == x5 = NULL /\ Unused6
Unused4 == x4 = NULL /\ Unused5
Unused3 == x3 = NULL /\ Unused4
Unused1 == x1 = NULL /\ x2 = NULL /\ Unused3

StorageInit ==
  /\ part \in Parts
  /\ PageInit /\ Disk!Init
  /\ part # "cache" => client = CHOOSE c \in Clients : TRUE
  /\ \/ part \in {"cache", "disk"} /\ Unused1
     \/ part = "lru" /\ Lru!Init /\ Unused9
     \/ part = "table" /\ Table!Init /\ Unused4
     \/ part = "cuckoo1" /\ Cuckoo(Calls1, TRUE)!Init /\ Unused5
     \/ part = "cuckoo2" /\ Cuckoo(Calls2, TRUE)!Init /\ Unused5
     \/ part = "cuckoo3" /\ Cuckoo(Calls3, TRUE)!Init /\ Unused5
     \/ part = "cuckoo4" /\ Cuckoo(Calls4, FALSE)!Init /\ Unused5
     \/ part = "flat" /\ Flat!Init /\ Unused4
     \/ part = "dense" /\ Dense!Init /\ Unused3
     \/ part = "chain" /\ Chain!Init /\ Unused6
     \/ part = "bitset" /\ Bitset!Init /\ Unused6
     \/ part = "skiplist" /\ Skip!Init /\ Unused8
     \/ part = "btree" /\ Tree!Init /\ Unused7
     \/ part = "paged" /\ Paged!Init
     \/ part = "slab" /\ SlabPool!Init /\ Unused3
     \/ part = "arena" /\ Pieces!Init /\ Unused7
     \/ part = "lz4" /\ Blocks!Init /\ Unused8
     \/ part = "xxhash" /\ Hashing!Init /\ Unused7
     \/ part = "utility" /\ Utility!Init /\ Unused4

OfCache(A) == part = "cache" /\ A /\ UNCHANGED <<diskVars, registers, part>>
OfDisk(A) == part = "disk" /\ A /\ UNCHANGED <<allVars, registers, part>>
\* A part that leaves the variables `rest' alone.
Of(name, A, rest) == part = name /\ A /\ UNCHANGED <<allVars, diskVars, rest, part>>

StorageNext ==
  \/ OfCache(PageNext)
  \/ OfDisk(Disk!Next)
  \/ Of("lru", Lru!Next, x9on)
  \/ Of("table", Table!Next, x4on)
  \/ Of("cuckoo1", Cuckoo(Calls1, TRUE)!Next, x5on)
  \/ Of("cuckoo2", Cuckoo(Calls2, TRUE)!Next, x5on)
  \/ Of("cuckoo3", Cuckoo(Calls3, TRUE)!Next, x5on)
  \/ Of("cuckoo4", Cuckoo(Calls4, FALSE)!Next, x5on)
  \/ Of("flat", Flat!Next, x4on)
  \/ Of("dense", Dense!Next, x3on)
  \/ Of("chain", Chain!Next, x6on)
  \/ Of("bitset", Bitset!Next, x6on)
  \/ Of("skiplist", Skip!Next, x8on)
  \/ Of("btree", Tree!Next, x7on)
  \/ Of("paged", Paged!Next, <<>>)
  \/ Of("slab", SlabPool!Next, x3on)
  \/ Of("arena", Pieces!Next, x7on)
  \/ Of("lz4", Blocks!Next, x8on)
  \/ Of("xxhash", Hashing!Next, x7on)
  \/ Of("utility", Utility!Next, x4on)

StorageSpec == StorageInit /\ [][StorageNext]_storageVars

-----------------------------------------------------------------------------
(* DiskManager: a page that is read is the page that was written last      *)
(* under its number, by WritePage or by Append; after a Read past the end  *)
(* writes are lost and a page reads as zeros, until that page is read.     *)
DiskReadsWhatWasWritten == Disk!ReadsWhatWasWritten


(* LRUCache: what a client sees through a handle stays as it is until it   *)
(* lets go, Insert leaves the cache over its capacity only while           *)
(* everything in it is in use, and counts, lists and table still agree     *)
(* after every step, also one that replaces the entry of a key.            *)
HandlesStayGood ==
  [][part = "lru" => Lru!KeepsHandles /\ Lru!OverfullIsInUse /\ Lru!CacheConsistent']_storageVars

(* HandleTable is a map: Insert sets the value of its key, Remove clears   *)
(* it, and no other key is affected, also when Insert moves every entry.   *)
TableActsAsMap == [][part = "table" => Table!MapStep]_storageVars


(* HashTable of cas_hashtable.h and lfbitset: no Put is lost, and no bit   *)
(* is given out twice or past the end, whatever the compare-and-swaps of   *)
(* two threads meet; ffs_and_set_bulk takes the first run that is free.    *)
SwapsLoseNothing ==
  /\ part = "chain" => Chain!PutsStay
  /\ part = "bitset" => Bitset!BitsHaveOneOwner /\ Bitset!FirstRunIsFirst

(* SkipList: a search that runs while keys are inserted misses no key that *)
(* was there when it began, and follows no pointer that is not written.    *)
SearchesMissNothing == [][part = "skiplist" => Skip!MissesNothing]_storageVars



(* ngx_slab and Arena: what is handed out never overlaps, is aligned where *)
(* that was asked for, and what is free is listed where it is looked for.  *)
MemoryApart ==
  /\ part = "slab" => SlabPool!SlabIntact
  /\ part = "arena" => Pieces!PiecesApart

=============================================================================
