---------------------------- MODULE DiskManager -----------------------------
(***************************************************************************)
(* DiskManager of cpp-util/disk_manager.cc: pages at their place in a      *)
(* database file, and a log file that only grows.  Offsets and sizes are   *)
(* counted in pages, which loses nothing: every offset the model uses is a *)
(* multiple of PAGE_SIZE.                                                  *)
(*                                                                         *)
(* The std::fstream of the database keeps failed, its failbit: while it is *)
(* set, seeking and writing do nothing, and reading yields no byte.        *)
(***************************************************************************)
EXTENDS Integers, Sequences

CONSTANTS
  PageIds,
  Contents,   \* what a page or a log record can hold
  Zero,       \* a page of zeros
  Kept,       \* answer of a read that leaves its buffer alone
  Buffers,    \* the caller's log buffers
  NULL,
  MaxAppends  \* bound: pages appended, and log records

VARIABLES
  file,         \* the pages that were written, by their offset in the file
  failed,
  log,
  buffer_used,
  appends,
  short,        \* history: a Read past the end, and no page read since
  written,      \* history: what the callers have written, by page, but not
                \* while short
  answer        \* the page last read, what its reader got, and short

vars == <<file, failed, log, buffer_used, appends, short, written, answer>>

\* 2^32 / PAGE_SIZE: an int holds a byte offset modulo 2^32, in pages modulo this.
INT_PAGES == 2 ^ 20
AsInt(n) ==
  LET r == n % INT_PAGES
  IN  IF r < INT_PAGES \div 2 THEN r ELSE r - INT_PAGES

FileSize == IF DOMAIN file = {} THEN 0
            ELSE 1 + CHOOSE n \in DOMAIN file : \A m \in DOMAIN file : m <= n
GetFileSize == AsInt(FileSize)

\* What the file holds at an offset below its size: holes read as zeros.
At(n) == IF n \in DOMAIN file THEN file[n] ELSE Zero

Put(f, n, d) == [m \in DOMAIN f \cup {n} |-> IF m = n THEN d ELSE f[m]]

NoAnswer == <<NULL, Zero, FALSE>>

Writes(p, d) == written' = IF short THEN written ELSE Put(written, p, d)

-----------------------------------------------------------------------------

\* The files are new.
Init ==
  /\ file = [n \in {} |-> Zero]
  /\ failed = FALSE
  /\ log = <<>>
  /\ buffer_used = NULL
  /\ appends = 0
  /\ short = FALSE
  /\ written = [n \in {} |-> Zero]
  /\ answer = NoAnswer

\* WritePage computes its offset as size_t.
WritePage(p, d) ==
  /\ file' = IF failed THEN file ELSE Put(file, p, d)
  /\ Writes(p, d)
  /\ answer' = NoAnswer
  /\ UNCHANGED <<failed, log, buffer_used, appends, short>>

\* Appended one page too early.
BugAppend1(d) ==
  /\ appends < MaxAppends
  /\ file' = IF failed THEN file ELSE Put(file, FileSize - 1, d)
  /\ Writes(FileSize, d)
  /\ appends' = appends + 1
  /\ answer' = NoAnswer
  /\ UNCHANGED <<failed, log, buffer_used, short>>

\* Append of one page.  A negative offset fails the stream.
Append1(d) ==
  /\ appends < MaxAppends
  /\ failed' = (failed \/ GetFileSize < 0)
  /\ file' = IF failed' THEN file ELSE Put(file, GetFileSize, d)
  /\ Writes(FileSize, d)
  /\ appends' = appends + 1
  /\ answer' = NoAnswer
  /\ UNCHANGED <<log, buffer_used, short>>

\* The short read is not cleared.
BugReadPage(p) ==
  /\ answer' = <<p, IF failed \/ p >= FileSize THEN Zero ELSE At(p), short>>
  /\ failed' = (failed \/ p >= FileSize)
  /\ short' = FALSE
  /\ UNCHANGED <<file, log, buffer_used, appends, written>>

\* ReadPage computes its offset as int.  A read that ends early, for the
\* end of the file or a failed stream, is filled with zeros and clears failed.
ReadPage(p) ==
  LET offset == AsInt(p)
      less == failed \/ offset < 0 \/ offset >= FileSize
  IN  /\ IF offset > GetFileSize
         THEN answer' = <<p, Kept, short>> /\ UNCHANGED <<failed, short>>
         ELSE /\ answer' = <<p, IF less THEN Zero ELSE At(offset), short>>
              /\ failed' = FALSE
              /\ short' = FALSE
      /\ UNCHANGED <<file, log, buffer_used, appends, written>>

\* Read of n pages from an offset: a read that ends early leaves the stream
\* failed.
Read(offset, n) ==
  LET less == offset <= GetFileSize /\ offset + n > FileSize
  IN  /\ failed' = (failed \/ less)
      /\ short' = (short \/ less)
      /\ answer' = NoAnswer
      /\ UNCHANGED <<file, log, buffer_used, appends, written>>


\* WriteLog asserts that its caller has swapped buffers; the file is open
\* for appending.
WriteLog(b, d) ==
  /\ b # buffer_used
  /\ Len(log) < MaxAppends
  /\ buffer_used' = b
  /\ log' = Append(log, d)
  /\ answer' = NoAnswer
  /\ UNCHANGED <<file, failed, appends, short, written>>

\* ReadLog of the record at offset i: what it returns, NULL for false.
ReadLog(i) == IF i >= Len(log) THEN NULL ELSE log[i + 1]

Next ==
  \/ \E p \in PageIds, d \in Contents : WritePage(p, d)
  \/ \E p \in PageIds : ReadPage(p)
  \/ \E d \in Contents : Append1(d)
  \/ \E offset \in 0 .. 1, n \in 1 .. 2 : Read(offset, n)
  \/ \E b \in Buffers, d \in Contents : WriteLog(b, d)

Spec == Init /\ [][Next]_vars

-----------------------------------------------------------------------------
(* Properties.                                                             *)

TypeOK ==
  /\ DOMAIN file \subseteq Nat
  /\ \A n \in DOMAIN file : file[n] \in Contents
  /\ failed \in BOOLEAN
  /\ log \in Seq(Contents)
  /\ buffer_used \in Buffers \cup {NULL}
  /\ appends \in 0 .. MaxAppends
  /\ answer[1] \in PageIds \cup {NULL}

(* A page that is read is the page that was written last under its number, *)
(* by WritePage or by Append, whatever was written elsewhere; a page that  *)
(* was never written reads as zeros or is not read at all.  A Read that    *)
(* asks for more than the file holds makes the writes after it do nothing  *)
(* and the next page read as zeros; with that page everything is as        *)
(* before.  All variables keep their types.                                *)
ReadsWhatWasWritten ==
  /\ TypeOK
  /\ answer[1] # NULL =>
       IF answer[1] \in DOMAIN written /\ ~ answer[3]
       THEN answer[2] = written[answer[1]]
       ELSE answer[2] \in {Zero, Kept}

=============================================================================
