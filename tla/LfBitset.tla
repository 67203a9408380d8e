------------------------------ MODULE LfBitset ------------------------------
(***************************************************************************)
(* lfbitset of cpp-util/bitmap.h: threads claim free bits with ffs_and_set *)
(* and runs of them with ffs_and_set_bulk, and give them back with reset   *)
(* and reset_bulk, by compare-and-swap on words.  A step is one access to  *)
(* a shared word.                                                          *)
(*                                                                         *)
(* A word is the set of its bits that are 1; the 64 bits of a word are     *)
(* WordBits.  Several words are lfbitset_base, one full word lfbitset<64>, *)
(* which alone has ffs_and_set_bulk.                                       *)
(***************************************************************************)
EXTENDS Integers, FiniteSetsExt

CONSTANTS
  BitThreads,
  WordBits,
  Sizes,         \* the bitsets checked, by their number of bits
  Runs           \* the lengths ffs_and_set_bulk is called for

VARIABLES
  _Nbits, bitword, widx,
  task,     \* by thread: [op, n, word, left, w]
  owned     \* ghost: by thread, the bits it was given and has not reset

vars == <<_Nbits, bitword, widx, task, owned>>

align_N == (_Nbits + WordBits - 1) \div WordBits
Words == 0 .. align_N - 1
Bits == 0 .. WordBits - 1
Rest == [op |-> "rest", n |-> 0, word |-> 0, left |-> 0, w |-> {}]
None == -1

Init ==
  /\ _Nbits \in Sizes /\ bitword = [i \in Words |-> {}] /\ widx = 0
  /\ task = [t \in BitThreads |-> Rest]
  /\ owned = [t \in BitThreads |-> {}]

Becomes(t, f) == task' = [task EXCEPT ![t] = f]

\* ffsl(~w) - 1; WordBits for the 0 of ffsl.
FirstFree(w) == Min({WordBits} \cup (Bits \ w))

-----------------------------------------------------------------------------

\* ffs_and_set starts at the word widx points to, and loads it.
ffs_and_set(t) ==
  /\ task[t].op = "rest"
  /\ Becomes(t, [Rest EXCEPT !.op = "scan", !.word = widx % align_N, !.left = align_N,
                             !.w = bitword[widx % align_N]])
  /\ UNCHANGED <<bitword, widx, owned>>

\* The word is full, or its first free bit is past _Nbits: on to the next.
NextWord(t) ==
  LET c == task[t]
      i == (c.word + 1) % align_N
      free == FirstFree(c.w)
  IN  /\ c.op = "scan"
      /\ free = WordBits \/ c.word * WordBits + free + 1 > _Nbits
      /\ IF c.left = 1 THEN Becomes(t, Rest)
         ELSE Becomes(t, [c EXCEPT !.word = i, !.left = @ - 1, !.w = bitword[i]])
      /\ UNCHANGED <<bitword, widx, owned>>

\* Set the bits if the word is still the one that was loaded, else load it
\* again; a weak compare-and-swap may fail without cause.
BugCas(t, bits, Done, Again) ==
  LET c == task[t]
  IN  /\ Done
      /\ bitword' = [bitword EXCEPT ![c.word] = @ \cup bits]
      /\ owned' = [owned EXCEPT ![t] = @ \cup {c.word * WordBits + b : b \in bits}]
Cas(t, bits, Done, Again) ==
  LET c == task[t]
  IN  \/ /\ bitword[c.word] = c.w
         /\ bitword' = [bitword EXCEPT ![c.word] = c.w \cup bits]
         /\ owned' = [owned EXCEPT ![t] = @ \cup {c.word * WordBits + b : b \in bits}]
         /\ Done
      \/ Again /\ UNCHANGED <<bitword, widx, owned>>

CasBit(t) ==
  LET c == task[t]
      free == FirstFree(c.w)
  IN  /\ c.op = "scan"
      /\ free < WordBits /\ c.word * WordBits + free + 1 <= _Nbits
      /\ Cas(t, {free},
             Becomes(t, Rest) /\ widx' = c.word + 8,
             Becomes(t, [c EXCEPT !.w = bitword[c.word]]))

-----------------------------------------------------------------------------

ffs_and_set_bulk(t, n) ==
  /\ align_N = 1 /\ _Nbits = WordBits /\ task[t].op = "rest"
  /\ Becomes(t, [Rest EXCEPT !.op = "bulk", !.n = n, !.w = bitword[0]])
  /\ UNCHANGED <<bitword, widx, owned>>

\* The loop that looks for the run from idx on, without touching the shared
\* word: the first 0, the first 1 after it, and on from there if the run is
\* too short.
FirstRun(w, n) ==
  LET At[idx \in 0 .. WordBits + 1] ==
        LET zeros == {b \in Bits : b >= idx /\ b \notin w}
            p == Min(zeros)
            ones == {b \in w : b > p}
        IN  CASE idx > WordBits - n \/ zeros = {} -> None
              [] idx <= WordBits - n /\ zeros # {} /\ ones # {} /\ Min(ones) - p < n ->
                   At[Min(ones) + 1]
              [] OTHER -> IF p > WordBits - n THEN None ELSE p
  IN  At[0]

CasRun(t) ==
  LET c == task[t]
      p == FirstRun(c.w, c.n)
  IN  /\ c.op = "bulk"
      /\ IF p = None THEN Becomes(t, Rest) /\ UNCHANGED <<bitword, widx, owned>>
         ELSE Cas(t, p .. p + c.n - 1, Becomes(t, Rest) /\ UNCHANGED widx,
                  Becomes(t, [c EXCEPT !.w = bitword[0]]))

\* reset: a fetch-and on the word of the bit.
reset(t, i) ==
  /\ task[t].op = "rest" /\ i \in owned[t]
  /\ bitword' = [bitword EXCEPT ![i \div WordBits] = @ \ {i % WordBits}]
  /\ owned' = [owned EXCEPT ![t] = @ \ {i}]
  /\ UNCHANGED <<widx, task>>

\* reset_bulk of a run the thread owns.  Word after word, a whole one by a
\* plain store of 0; no other thread touches these bits, so at once here.
reset_bulk(t, i, n) ==
  LET run == i .. i + n - 1
  IN  /\ task[t].op = "rest" /\ run \subseteq owned[t]
      /\ bitword' = [j \in Words |-> {b \in bitword[j] : j * WordBits + b \notin run}]
      /\ owned' = [owned EXCEPT ![t] = @ \ run]
      /\ UNCHANGED <<widx, task>>

Step(t) ==
  \/ ffs_and_set(t) \/ NextWord(t) \/ CasBit(t) \/ CasRun(t)
  \/ \E n \in Runs : ffs_and_set_bulk(t, n) \/ \E i \in owned[t] : reset_bulk(t, i, n)
  \/ \E i \in owned[t] : reset(t, i)

Next == (\E t \in BitThreads : Step(t)) /\ UNCHANGED _Nbits
Spec == Init /\ [][Next]_vars

-----------------------------------------------------------------------------

\* No bit is given to two threads, the bits that are set are those that are
\* owned, and no bit at or past _Nbits is given out, whatever the threads'
\* compare-and-swaps meet.
BitsHaveOneOwner ==
  /\ \A t, u \in BitThreads : t # u => owned[t] \cap owned[u] = {}
  /\ \A i \in Words :
       bitword[i] = {b \in Bits : \E t \in BitThreads : i * WordBits + b \in owned[t]}
  /\ \A t \in BitThreads : owned[t] \subseteq 0 .. _Nbits - 1

\* ffs_and_set_bulk gives up only when the word it loaded last had no run of n
\* free bits, and otherwise takes the first one.
FirstRunIsFirst ==
  \A t \in BitThreads :
    LET c == task[t]
        runs == {p \in 0 .. WordBits - c.n : (p .. p + c.n - 1) \cap c.w = {}}
    IN  c.op = "bulk" => FirstRun(c.w, c.n) = IF runs = {} THEN None ELSE Min(runs)
=============================================================================
