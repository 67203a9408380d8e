-------------------------------- MODULE Arena -------------------------------
(***************************************************************************)
(* Arena and FixedArena of cpp-util/arena.h: pieces cut from the front of  *)
(* the newest block, large ones in blocks of their own, and a queue of     *)
(* returned pieces of one size.                                            *)
(*                                                                         *)
(* A pointer is a block (numbered as malloc returns them) and an offset in *)
(* it; malloc aligns blocks.  Block 0 is the null pointer of a new Arena.  *)
(***************************************************************************)
EXTENDS Integers, Sequences, SequencesExt

CONSTANTS
  kBlockSize, Align,
  Sizes, fixed_size_,
  MaxBlocks   \* bound on the calls to malloc

VARIABLES
  blocks_,                          \* the sizes of the blocks
  alloc_ptr_, alloc_bytes_remaining_, memory_usage_,
  free_list_,
  pieces    \* ghost: what callers hold: [block, at, len, aligned]

vars == <<blocks_, alloc_ptr_, alloc_bytes_remaining_, memory_usage_, free_list_, pieces>>

Ptr(b, o) == [block |-> b, at |-> o]
Piece(p, n, aligned) == [block |-> p.block, at |-> p.at, len |-> n, aligned |-> aligned]
Advance(p, n) == [p EXCEPT !.at = @ + n]

Init ==
  /\ blocks_ = <<>> /\ alloc_ptr_ = Ptr(0, 0) /\ alloc_bytes_remaining_ = 0
  /\ memory_usage_ = 0 /\ free_list_ = <<>> /\ pieces = {}

Give(p, n, aligned) == pieces' = pieces \cup {Piece(p, n, aligned)}

AllocateNewBlock(n) ==
  /\ Len(blocks_) < MaxBlocks
  /\ blocks_' = Append(blocks_, n)
  /\ memory_usage_' = memory_usage_ + n + Align   \* and sizeof(char*)

AllocateFallback(n, aligned) ==
  LET new == Ptr(Len(blocks_) + 1, 0)
  IN  /\ Give(new, n, aligned)
      /\ IF n > kBlockSize \div 4
         THEN AllocateNewBlock(n) /\ UNCHANGED <<alloc_ptr_, alloc_bytes_remaining_>>
         ELSE /\ AllocateNewBlock(kBlockSize)
              /\ alloc_ptr_' = Advance(new, n)
              /\ alloc_bytes_remaining_' = kBlockSize - n

Cut(skip, n, aligned) ==
  /\ Give(Advance(alloc_ptr_, skip), n, aligned)
  /\ alloc_ptr_' = Advance(alloc_ptr_, skip + n)
  /\ alloc_bytes_remaining_' = alloc_bytes_remaining_ - skip - n
  /\ UNCHANGED <<blocks_, memory_usage_>>

Allocate(n) ==
  /\ IF n < alloc_bytes_remaining_ THEN Cut(0, n, FALSE) ELSE AllocateFallback(n, FALSE)
  /\ UNCHANGED free_list_

\* The padding is not counted in what must fit.
BugAllocateAligned(n) ==
  LET padding == (-alloc_ptr_.at) % Align
  IN  IF n <= alloc_bytes_remaining_ THEN Cut(padding, n, TRUE) ELSE AllocateFallback(n, TRUE)

AllocateAligned(n) ==
  LET padding == (-alloc_ptr_.at) % Align
  IN  IF padding + n <= alloc_bytes_remaining_ THEN Cut(padding, n, TRUE)
      ELSE AllocateFallback(n, TRUE)

\* The oldest returned piece, before any new one.
AllocateFixed ==
  IF free_list_ # <<>>
  THEN /\ Give(Head(free_list_), fixed_size_, TRUE)
       /\ free_list_' = Tail(free_list_)
       /\ UNCHANGED <<blocks_, alloc_ptr_, alloc_bytes_remaining_, memory_usage_>>
  ELSE AllocateAligned(fixed_size_) /\ UNCHANGED free_list_

\* The caller returns a piece it got from AllocateFixed.
FreeFixed(p) ==
  /\ p.aligned /\ p.len = fixed_size_
  /\ free_list_' = Append(free_list_, Ptr(p.block, p.at))
  /\ pieces' = pieces \ {p}
  /\ UNCHANGED <<blocks_, alloc_ptr_, alloc_bytes_remaining_, memory_usage_>>

Next ==
  \/ \E n \in Sizes : Allocate(n) \/ (AllocateAligned(n) /\ UNCHANGED free_list_)
  \/ AllocateFixed
  \/ \E p \in pieces : FreeFixed(p)

Spec == Init /\ [][Next]_vars

-----------------------------------------------------------------------------

Bytes(p) == p.at .. p.at + p.len - 1

\* Pieces lie inside their blocks and off one another, pieces asked for as
\* aligned are aligned (the assertion of AllocateAligned), and MemoryUsage
\* covers what callers hold, however plain, aligned, large and recycled
\* pieces mix.
PiecesApart ==
  /\ \A p \in pieces :
       /\ p.block \in DOMAIN blocks_
       /\ Bytes(p) \subseteq 0 .. blocks_[p.block] - 1
       /\ p.aligned => p.at % Align = 0
       /\ \A q \in pieces : q # p /\ q.block = p.block => Bytes(p) \cap Bytes(q) = {}
  /\ memory_usage_ >= FoldSet(LAMBDA p, sum : sum + p.len, 0, pieces)
=============================================================================
