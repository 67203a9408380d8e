-------------------------------- MODULE Lz4 ---------------------------------
(***************************************************************************)
(* example/lz4/lz4.c: block and streaming compression and decompression.   *)
(*                                                                         *)
(* The encoder and the decoder each have a memory, a function from         *)
(* addresses to bytes (0 is NullPtr), in which their buffers lie; a           *)
(* compressed block is a sequence of bytes.  The sizes of the format are   *)
(* parameters (64 KB is Window, 255 is BYTE_MAX, 15 is RUN_MASK and        *)
(* ML_MASK ...), so that small blocks reach every boundary.  Copies are    *)
(* modelled by the bytes they produce; what a wide copy writes past its    *)
(* end, inside the room the caller gave, is not.                           *)
(*                                                                         *)
(*   enc  LZ4_stream_t_internal: table (hashTable), offset                 *)
(*        (currentOffset), type (tableType), dictionary, dictSize, dictCtx *)
(*   dec  LZ4_streamDecode_t_internal                                      *)
(*   at   the ends of the last blocks in the two buffers                   *)
(*   answer  what was compressed last and what came back                   *)
(***************************************************************************)
EXTENDS Integers, Sequences, FiniteSetsExt, SequencesExt

CONSTANTS
  MINMATCH, LASTLITERALS, MFLIMIT, RUN_MASK, BYTE_MAX, HASH_UNIT,
  Window,                  \* 64 KB, a power of two
  IndexLimit,              \* 0x80000000
  SmallInput,              \* 4 KB
  FASTLOOP_SAFE_DISTANCE, WideCopy, WILDCOPYLENGTH,
  LZ4_skipTrigger, LZ4_hash(_), Hashes,
  Blocks,                  \* the data a caller compresses
  Rooms,                   \* maxOutputSize, beyond what a block needs at best
  EncoderBuffer, DecoderBuffer,   \* sizes of the two ring buffers
  Dictionary,              \* a dictionary of LZ4_loadDict
  MaxLzCalls

VARIABLES enc, dec, emem, dmem, at, answer, lzCalls

vars == <<enc, dec, emem, dmem, at, answer, lzCalls>>

ML_MASK == RUN_MASK
LZ4_DISTANCE_MAX == Window - 1
LZ4_64Klimit == Window + MFLIMIT - 1
LZ4_minLength == MFLIMIT + 1
NullPtr == 0

Lesser(a, b) == IF a < b THEN a ELSE b
Bytes(m, a, n) == [i \in 1 .. n |-> m[a + i - 1]]
\* A copy byte after byte, which repeats what lies between the two when they overlap.
Copied(m, from, to, n) ==
  [a \in DOMAIN m |-> IF a \notin to .. to + n - 1 THEN m[a]
                      ELSE IF from < to THEN m[from + ((a - to) % (to - from))] ELSE m[from + (a - to)]]
Written(m, to, s) == [a \in DOMAIN m |-> IF a \in to .. to + Len(s) - 1 THEN s[a - to + 1] ELSE m[a]]

-----------------------------------------------------------------------------
(* Compressing a block *)

LZ4_compressBound(n) == n + (n \div BYTE_MAX) + RUN_MASK + 1

LZ4_count(m, in, match, limit) ==
  Max({n \in 0 .. Max({0, limit - in}) : \A i \in 0 .. n - 1 : m[in + i] = m[match + i]})

LZ4_hashPosition(m, a) == LZ4_hash(Bytes(m, a, MINMATCH))

LZ4_putIndexOnHash(t, idx, h, type) == [t EXCEPT ![h] = IF type = "byU16" THEN idx % Window ELSE idx]

\* The call: where the block is, its size, the directives, the room for output.
Call(src, size, mode, issue, directive, room, type) ==
  [src |-> src, size |-> size, mode |-> mode, issue |-> issue,
   directive |-> directive, room |-> room, type |-> type]

\* The dictionary the call looks into.
DictOf(e, c) == IF c.mode = "usingDictCtx" THEN e.dictCtx[1] ELSE e

\* The candidate the table has for a hash: its index, whether it lies in the
\* dictionary outside this memory segment, and its address.
Candidate(e, c, t, h) ==
  LET inDict == c.mode \in {"usingExtDict", "usingDictCtx"} /\ t[h] < e.offset
      idx == IF c.mode = "usingDictCtx" /\ inDict
             THEN e.dictCtx[1].table[h] + (e.offset - e.dictCtx[1].offset) ELSE t[h]
      d == DictOf(e, c)
  IN  [idx |-> idx, inDict |-> inDict,
       at |-> (IF inDict THEN d.dictionary + d.dictSize ELSE c.src) + (idx - e.offset)]

Usable(e, c, m, ip, x) ==
  /\ c.issue = "dictSmall" => x.idx >= e.offset - DictOf(e, c).dictSize
  /\ c.type = "byU16" \/ x.idx + LZ4_DISTANCE_MAX >= ip - c.src + e.offset
  /\ Bytes(m, x.at, MINMATCH) = Bytes(m, ip, MINMATCH)

mflimitPlusOne(c) == c.src + c.size - MFLIMIT + 1
matchlimit(c) == c.src + c.size - LASTLITERALS

\* Find a match, with steps that grow as nothing is found.
RECURSIVE FindMatch(_, _, _, _, _, _, _)
FindMatch(e, c, m, t, ip, step, nb) ==
  LET h == LZ4_hashPosition(m, ip)
      x == Candidate(e, c, t, h)
      filled == LZ4_putIndexOnHash(t, ip - c.src + e.offset, h, c.type)
  IN  IF ip + step > mflimitPlusOne(c) THEN [found |-> FALSE, table |-> t]
      ELSE IF Usable(e, c, m, ip, x) THEN [found |-> TRUE, table |-> filled, ip |-> ip, x |-> x]
      ELSE FindMatch(e, c, m, filled, ip + step, nb \div 2 ^ LZ4_skipTrigger, nb + 1)

LowLimit(e, c, x) ==
  IF x.inDict THEN DictOf(e, c).dictionary
  ELSE IF c.mode = "withPrefix64k" THEN c.src - e.dictSize ELSE c.src

CatchUp(e, c, m, anchor, ip, x) ==
  Max({n \in 0 .. Lesser(ip - anchor, x.at - LowLimit(e, c, x)) :
         \A j \in 1 .. n : m[ip - j] = m[x.at - j]})

\* A length beyond what the token holds.
LengthBytes(n) ==
  IF n < RUN_MASK THEN <<>>
  ELSE [i \in 1 .. (n - RUN_MASK) \div BYTE_MAX |-> BYTE_MAX] \o <<(n - RUN_MASK) % BYTE_MAX>>
Token(lit, ml) == Lesser(lit, RUN_MASK) * (ML_MASK + 1) + Lesser(ml, ML_MASK)
writeLE16(n) == <<n % (BYTE_MAX + 1), n \div (BYTE_MAX + 1)>>

Failure(t) == [out |-> <<>>, table |-> t, consumed |-> 0]

LastLiterals(c, m, s) ==
  LET all == c.src + c.size - s.anchor
      op == Len(s.out)
      tooLong == c.directive # "notLimited"
                 /\ op + all + 1 + ((all + BYTE_MAX - RUN_MASK) \div BYTE_MAX) > c.room
      room == c.room - op - 1
      run == IF tooLong THEN room - ((room + BYTE_MAX + 1 - RUN_MASK) \div (BYTE_MAX + 1)) ELSE all
  IN  IF tooLong /\ c.directive = "limitedOutput" THEN Failure(s.table)
      ELSE [out |-> s.out \o <<Token(run, 0)>> \o LengthBytes(run) \o Bytes(m, s.anchor, run),
            table |-> s.table, consumed |-> s.anchor + run - c.src]

\* The length of the match beyond MINMATCH; from the dictionary it may go on
\* at the start of the block.
MatchCode(e, c, m, ip, x) ==
  LET d == DictOf(e, c)
      limit == Lesser(ip + (d.dictionary + d.dictSize - x.at), matchlimit(c))
      n == LZ4_count(m, ip + MINMATCH, x.at + MINMATCH, limit)
  IN  IF ~x.inDict THEN LZ4_count(m, ip + MINMATCH, x.at + MINMATCH, matchlimit(c))
      ELSE IF ip + MINMATCH + n = limit THEN n + LZ4_count(m, limit, c.src, matchlimit(c)) ELSE n

\* The sequence written, and the positions between the end of the match and
\* filledIp forgotten when a match cut short ends before it.
Emitted(e, c, m, s, ip, x, code, filledIp) ==
  LET next == ip + MINMATCH + code
      lit == ip - s.anchor
  IN  [s EXCEPT !.anchor = next,
                !.table = [h \in Hashes |-> IF \E p \in next .. filledIp : h = LZ4_hashPosition(m, p)
                                            THEN 0 ELSE @[h]],
                !.out = @ \o <<Token(lit, code)>> \o LengthBytes(lit) \o Bytes(m, s.anchor, lit)
                        \o writeLE16(ip - c.src + e.offset - x.idx) \o LengthBytes(code)]

IndexOf(e, c, ip) == ip - c.src + e.offset
Filled(e, c, m, t, ip) == LZ4_putIndexOnHash(t, IndexOf(e, c, ip), LZ4_hashPosition(m, ip), c.type)

RECURSIVE Sequences(_, _, _, _), EncodeMatch(_, _, _, _, _, _, _)

\* "Test next position": another match right behind, or the search goes on.
TestNext(e, c, m, s, y, filledIp) ==
  LET more == [s EXCEPT !.table = Filled(e, c, m, @, s.anchor)]
  IN  IF Usable(e, c, m, s.anchor, y) THEN EncodeMatch(e, c, m, more, s.anchor, y, filledIp)
      ELSE Sequences(e, c, m, [more EXCEPT !.ip = s.anchor + 1])

AfterMatch(e, c, m, s, filledIp) ==
  LET filled == [s EXCEPT !.table = Filled(e, c, m, @, s.anchor - 2)]
  IN  IF s.anchor >= mflimitPlusOne(c) THEN LastLiterals(c, m, s)
      ELSE TestNext(e, c, m, filled, Candidate(e, c, filled.table, LZ4_hashPosition(m, s.anchor)), filledIp)

\* The match, if its length fits behind op; with fillOutput as much of it as fits.
EncodeLength(e, c, m, s, ip, x, filledIp, op, code) ==
  IF \/ c.directive = "notLimited"
     \/ op + 1 + LASTLITERALS + ((code + BYTE_MAX - ML_MASK) \div BYTE_MAX) <= c.room
  THEN AfterMatch(e, c, m, Emitted(e, c, m, s, ip, x, code, -1), filledIp)
  ELSE IF c.directive = "limitedOutput" THEN Failure(s.table)
  ELSE AfterMatch(e, c, m, Emitted(e, c, m, s, ip, x,
                                   ML_MASK - 1 + (c.room - op - 1 - LASTLITERALS) * BYTE_MAX, filledIp), filledIp)

\* From _next_match: the literals since the anchor, then the match at ip.
EncodeMatch(e, c, m, s, ip, x, filledIp) ==
  LET op == Len(s.out) + 1 + Len(LengthBytes(ip - s.anchor)) + (ip - s.anchor) + 2
  IN  IF c.directive = "fillOutput" /\ op + 1 + MFLIMIT - MINMATCH > c.room THEN LastLiterals(c, m, s)
      ELSE EncodeLength(e, c, m, s, ip, x, filledIp, op, MatchCode(e, c, m, ip, x))

\* The literals, if they fit.
EncodeLiterals(e, c, m, s, f, back) ==
  LET lit == f.ip - back - s.anchor
      op == Len(s.out) + 1
  IN  IF /\ c.directive = "limitedOutput"
         /\ op + lit + 2 + 1 + LASTLITERALS + (lit \div BYTE_MAX) > c.room
      THEN Failure(s.table)
      ELSE IF /\ c.directive = "fillOutput"
              /\ op + ((lit + BYTE_MAX - RUN_MASK) \div BYTE_MAX) + lit + 2 + 1 + MFLIMIT - MINMATCH > c.room
      THEN LastLiterals(c, m, s)
      ELSE EncodeMatch(e, c, m, s, f.ip - back, [f.x EXCEPT !.idx = @ - back, !.at = @ - back], f.ip)

FromMatch(e, c, m, s, f) ==
  IF f.found
  THEN EncodeLiterals(e, c, m, [s EXCEPT !.table = f.table], f, CatchUp(e, c, m, s.anchor, f.ip, f.x))
  ELSE LastLiterals(c, m, [s EXCEPT !.table = f.table])

\* The main loop.
Sequences(e, c, m, s) ==
  FromMatch(e, c, m, s, FindMatch(e, c, m, s.table, s.ip, 1, 2 ^ LZ4_skipTrigger))

\* LZ4_compress_generic: the block, the bytes of input in it, and the stream afterwards.
CompressValidated(e, c, m) ==
  LET start == [ip |-> c.src + 1, anchor |-> c.src, out |-> <<>>, table |-> e.table]
  IN  IF c.size < LZ4_minLength THEN LastLiterals(c, m, start)
      ELSE Sequences(e, c, m, [start EXCEPT !.table = Filled(e, c, m, @, c.src)])

Streamed(e, c, r) ==
  [out |-> r.out, consumed |-> r.consumed,
   enc |-> [e EXCEPT !.table = r.table, !.offset = @ + c.size, !.type = c.type,
                     !.dictCtx = IF c.mode = "usingDictCtx" THEN <<>> ELSE @,
                     !.dictSize = IF c.mode = "usingDictCtx" THEN c.size ELSE @ + c.size]]

LZ4_compress_generic(e, c, m) ==
  IF c.size = 0 \/ (c.directive = "fillOutput" /\ c.room < 1)
  THEN [out |-> IF c.size = 0 /\ (c.directive = "notLimited" \/ c.room > 0) THEN <<0>> ELSE <<>>,
        consumed |-> 0, enc |-> e]
  ELSE Streamed(e, c, CompressValidated(e, c, m))

-----------------------------------------------------------------------------
(* The encoder's entry points *)

NoStream == [table |-> [h \in Hashes |-> 0], offset |-> 0, type |-> "cleared",
             dictionary |-> NullPtr, dictSize |-> 0, dictCtx |-> <<>>]

LZ4_prepareTable(e, size, type) ==
  LET reset == /\ e.type # "cleared"
               /\ \/ e.type # type
                  \/ type = "byU16" /\ e.offset + size >= Window - 1
                  \/ type = "byU32" /\ e.offset > IndexLimit \div 2
                  \/ size >= SmallInput
      base == IF reset THEN NoStream ELSE e
  IN  [base EXCEPT !.offset = IF @ # 0 /\ type = "byU32" THEN @ + Window ELSE @,
                   !.dictCtx = <<>>, !.dictionary = NullPtr, !.dictSize = 0]

LZ4_resetStream_fast(e) == LZ4_prepareTable(e, 0, "byU32")

TypeFor(size) == IF size < LZ4_64Klimit THEN "byU16" ELSE "byU32"
Limit(size, room) == IF room >= LZ4_compressBound(size) THEN "notLimited" ELSE "limitedOutput"

LZ4_compress_fast_extState(m, src, size, room) ==
  LZ4_compress_generic(NoStream, Call(src, size, "noDict", "noDictIssue", Limit(size, room), room, TypeFor(size)), m)

LZ4_compress_fast_extState_fastReset(e, m, src, size, room) ==
  LET type == TypeFor(size)
      p == LZ4_prepareTable(e, size, type)
      issue == IF type = "byU16" /\ p.offset # 0 THEN "dictSmall" ELSE "noDictIssue"
  IN  LZ4_compress_generic(p, Call(src, size, "noDict", issue, Limit(size, room), room, type), m)

LZ4_compress_destSize(m, src, size, room) ==
  IF room >= LZ4_compressBound(size) THEN LZ4_compress_fast_extState(m, src, size, room)
  ELSE LZ4_compress_generic(NoStream, Call(src, size, "noDict", "noDictIssue", "fillOutput", room, TypeFor(size)), m)

\* Every third position of the last 64 KB of the dictionary enters the table.
LZ4_loadDict(m, dictionary, size) ==
  LET n == Lesser(size, Window)
      p == dictionary + size - n
      steps == {i \in 0 .. n - HASH_UNIT : i % 3 = 0}
      On(h) == {i \in steps : LZ4_hashPosition(m, p + i) = h}
  IN  IF size < HASH_UNIT THEN [NoStream EXCEPT !.offset = Window]
      ELSE [NoStream EXCEPT !.offset = Window, !.type = "byU32", !.dictionary = p, !.dictSize = n,
                            !.table = [h \in Hashes |-> IF On(h) = {} THEN 0
                                                        ELSE Window - n + Max(On(h))]]

LZ4_attach_dictionary(e, d) ==
  [e EXCEPT !.offset = IF @ = 0 THEN Window ELSE @,
            !.dictCtx = IF d.dictSize = 0 THEN <<>> ELSE <<d>>]

LZ4_renormDictT(e, size) ==
  LET delta == e.offset - Window
      n == Lesser(e.dictSize, Window)
  IN  IF e.offset + size <= IndexLimit THEN e
      ELSE [e EXCEPT !.table = [h \in Hashes |-> IF @[h] < delta THEN 0 ELSE @[h] - delta],
                     !.offset = Window, !.dictSize = n, !.dictionary = @ + e.dictSize - n]

\* Mutant of Overlap: a block written over the dictionary is not noticed.
BugOverlap(e, sourceEnd, dictEnd) == FALSE
Overlap(e, sourceEnd, dictEnd) == sourceEnd > e.dictionary /\ sourceEnd < dictEnd

SmallDict(e) == IF e.dictSize < Window /\ e.dictSize < e.offset THEN "dictSmall" ELSE "noDictIssue"

DictEnd(e) == IF e.dictSize # 0 THEN e.dictionary + e.dictSize ELSE NullPtr

\* A dictionary too small for a hash is forgotten, unless the block follows it.
WithoutTiny(e, src, size, end) ==
  IF e.dictSize < MINMATCH /\ end # src /\ size > 0 /\ e.dictCtx = <<>>
  THEN [enc |-> [e EXCEPT !.dictSize = 0, !.dictionary = src], end |-> src]
  ELSE [enc |-> e, end |-> end]

WithoutOverlap(e, sourceEnd, end) ==
  LET left == Lesser(end - sourceEnd, Window)
      kept == IF left < MINMATCH THEN 0 ELSE left
  IN  IF Overlap(e, sourceEnd, end) THEN [e EXCEPT !.dictSize = kept, !.dictionary = end - kept] ELSE e

\* The stream and the mode a block is compressed with.
ByMode(e, m, src, size, room, prefix) ==
  LET ctx == ~prefix /\ e.dictCtx # <<>>
      large == ctx /\ size > SmallInput
      mode == IF prefix THEN "withPrefix64k"
              ELSE IF ctx /\ ~large THEN "usingDictCtx" ELSE "usingExtDict"
      issue == IF ctx THEN "noDictIssue" ELSE SmallDict(e)
      r == LZ4_compress_generic(IF large THEN e.dictCtx[1] ELSE e,
                                Call(src, size, mode, issue, "limitedOutput", room, "byU32"), m)
  IN  IF prefix THEN r ELSE [r EXCEPT !.enc.dictionary = src, !.enc.dictSize = size]

Prepared(t, m, src, size, room) ==
  ByMode(WithoutOverlap(t.enc, src + size, t.end), m, src, size, room, t.end = src)

LZ4_compress_fast_continue(e, m, src, size, room) ==
  Prepared(WithoutTiny(LZ4_renormDictT(e, size), src, size, DictEnd(e)), m, src, size, room)

\* LZ4_saveDict: the dictionary is where it was copied to.
SavedSize(e, size) == Lesser(Lesser(size, Window), e.dictSize)
LZ4_saveDict(e, buffer, size) == [e EXCEPT !.dictionary = buffer, !.dictSize = SavedSize(e, size)]

-----------------------------------------------------------------------------
(* Decompressing a block.  q is the call, d the state of the loop. *)

Byte(q, ip) == q.src[ip + 1]

\* A length: of the token, or of the bytes behind it too; and where it ends.
LastByte(q, ip) == Min({i \in ip .. Len(q.src) : i = Len(q.src) \/ Byte(q, i) # BYTE_MAX})
Length(q, code, ip, last) ==
  IF code < RUN_MASK THEN [n |-> code, ip |-> ip, long |-> FALSE]
  ELSE [n |-> RUN_MASK + (last - ip) * BYTE_MAX + Byte(q, last), ip |-> last + 1, long |-> TRUE]
read_variable_length(q, code, ip) == Length(q, code, ip, LastByte(q, ip))
LZ4_readLE16(q, ip) == Byte(q, ip) + Byte(q, ip + 1) * (BYTE_MAX + 1)

\* The match copied, from the dictionary, from both, or within the block.
CopyMatch(q, m, op, offset, n) ==
  LET match == op - offset
      ext == Lesser(n, q.lowPrefix - match)
  IN  IF q.dict = "usingExtDict" /\ match < q.lowPrefix
      THEN Copied(Copied(m, q.dictStart + q.dictSize - (q.lowPrefix - match), op, ext),
                  q.lowPrefix, op + ext, n - ext)
      ELSE Copied(m, match, op, n)

Wrong(d) == [d EXCEPT !.loop = "error"]

\* The match of a sequence: offset, length v, from which loop and after which
\* kind of literals.
DecodeMatch(q, d, offset, v, fast, short) ==
  LET oend == q.dst + q.size
      match == d.op - offset
      n == MINMATCH + v.n
      stillFast == fast /\ d.op + n < oend - FASTLOOP_SAFE_DISTANCE
      simple == short /\ ~v.long /\ offset >= WILDCOPYLENGTH
                /\ (q.dict = "withPrefix64k" \/ match >= q.lowPrefix)
      wrong == \/ v.long /\ v.ip > Len(q.src) - LASTLITERALS + 1
               \/ q.dictSize < Window /\ match + q.dictSize < q.lowPrefix
               \/ ~q.partial /\ ~stillFast /\ d.op + n > oend - LASTLITERALS
      ext == q.dict = "usingExtDict" /\ match < q.lowPrefix
      cut == IF q.partial THEN Lesser(n, oend - d.op) ELSE n
  IN  IF wrong /\ ~simple THEN Wrong(d)
      ELSE [d EXCEPT !.ip = v.ip, !.op = @ + cut, !.mem = CopyMatch(q, @, d.op, offset, cut),
                     !.loop = IF q.partial /\ ~ext /\ ~simple /\ d.op + cut = oend THEN "done"
                              ELSE IF stillFast THEN "fast" ELSE "safe"]

AfterLiterals(q, d, token, fast, short, stop) ==
  IF stop THEN [d EXCEPT !.loop = "done"]
  ELSE DecodeMatch(q, d, LZ4_readLE16(q, d.ip),
                   read_variable_length(q, token % (ML_MASK + 1), d.ip + 2), fast, short)

\* The literals of a sequence, of the fast loop, of the shortcut of the safe
\* one, or of the safe one itself, where they may be the last ones.
DecodeLiterals(q, d, token, v) ==
  LET iend == Len(q.src)
      oend == q.dst + q.size
      fast == d.loop = "fast" /\ IF v.long THEN d.op + v.n <= oend - WideCopy /\ v.ip + v.n <= iend - WideCopy
                                 ELSE v.ip <= iend - (RUN_MASK + 2)
      short == /\ d.loop = "safe" /\ ~v.long /\ v.ip < iend - (RUN_MASK - 1) - 2
               /\ d.op <= oend - (RUN_MASK - 1) - (ML_MASK - 1 + MINMATCH)
      last == ~fast /\ ~short /\ (d.op + v.n > oend - MFLIMIT \/ v.ip + v.n > iend - (2 + 1 + LASTLITERALS))
      k == IF last /\ q.partial THEN Lesser(Lesser(v.n, iend - v.ip), oend - d.op) ELSE v.n
  IN  IF \/ v.long /\ (d.ip + 1 >= iend - RUN_MASK \/ v.ip > iend - RUN_MASK)
         \/ last /\ ~q.partial /\ (v.ip + v.n # iend \/ d.op + v.n > oend)
      THEN Wrong(d)
      ELSE AfterLiterals(q, [d EXCEPT !.ip = v.ip + k, !.op = @ + k,
                                      !.mem = Written(@, d.op, SubSeq(q.src, v.ip + 1, v.ip + k))],
                         token, fast, short,
                         last /\ (~q.partial \/ d.op + k = oend \/ v.ip + k >= iend - 2))

DecodeSequence(q, d) ==
  DecodeLiterals(q, d, Byte(q, d.ip), read_variable_length(q, Byte(q, d.ip) \div (ML_MASK + 1), d.ip + 1))

RECURSIVE Decode(_, _)
Decode(q, d) == IF d.loop \in {"done", "error"} THEN d ELSE Decode(q, DecodeSequence(q, d))

\* LZ4_decompress_generic: the bytes decoded, -1 for an error, and the memory.
Result(q, d) == [n |-> IF d.loop = "error" THEN -1 ELSE d.op - q.dst, mem |-> d.mem]
LZ4_decompress_generic(q, m) ==
  IF q.size = 0 \/ q.src = <<>>
  THEN [n |-> IF q.size = 0 /\ (q.partial \/ q.src = <<0>>) THEN 0 ELSE -1, mem |-> m]
  ELSE Result(q, Decode(q, [ip |-> 0, op |-> q.dst, mem |-> m,
                            loop |-> IF q.size < FASTLOOP_SAFE_DISTANCE THEN "safe" ELSE "fast"]))

\* The ways it is called.
Block(src, dst, size, partial, dict, lowPrefix, dictStart, dictSize) ==
  [src |-> src, dst |-> dst, size |-> size, partial |-> partial, dict |-> dict,
   lowPrefix |-> lowPrefix, dictStart |-> dictStart, dictSize |-> dictSize]

decompress_safe(src, dst, size) == Block(src, dst, size, FALSE, "noDict", dst, NullPtr, 0)
decompress_safe_partial(src, dst, target, capacity) ==
  Block(src, dst, Lesser(target, capacity), TRUE, "noDict", dst, NullPtr, 0)
decompress_safe_withPrefix64k(src, dst, size) ==
  Block(src, dst, size, FALSE, "withPrefix64k", dst - Window, NullPtr, 0)
decompress_safe_withSmallPrefix(src, dst, size, prefix) ==
  Block(src, dst, size, FALSE, "noDict", dst - prefix, NullPtr, 0)
decompress_safe_doubleDict(src, dst, size, prefix, dictStart, dictSize) ==
  Block(src, dst, size, FALSE, "usingExtDict", dst - prefix, dictStart, dictSize)
decompress_safe_forceExtDict(src, dst, size, dictStart, dictSize) ==
  Block(src, dst, size, FALSE, "usingExtDict", dst, dictStart, dictSize)

NoDecoder == [prefixEnd |-> NullPtr, prefixSize |-> 0, externalDict |-> NullPtr, extDictSize |-> 0]
LZ4_setStreamDecode(dictionary, size) ==
  [NoDecoder EXCEPT !.prefixSize = size, !.prefixEnd = IF size # 0 THEN dictionary + size ELSE dictionary]

Rolling(d, dst) == d.prefixSize # 0 /\ d.prefixEnd = dst
\* The last segment becomes the dictionary when the buffer wraps around.
Switched(d, dst) ==
  IF d.prefixSize = 0 \/ d.prefixEnd = dst THEN d
  ELSE [d EXCEPT !.extDictSize = d.prefixSize, !.externalDict = d.prefixEnd - d.prefixSize]
\* The decoder after n bytes at dst.
Grown(d, dst, n) ==
  IF n <= 0 THEN Switched(d, dst)
  ELSE [Switched(d, dst) EXCEPT !.prefixSize = IF Rolling(d, dst) THEN @ + n ELSE n, !.prefixEnd = dst + n]

LZ4_decompress_safe_continue(d, m, src, dst, size) ==
  LZ4_decompress_generic(
    IF d.prefixSize = 0 THEN decompress_safe(src, dst, size)
    ELSE IF d.prefixEnd # dst
    THEN decompress_safe_forceExtDict(src, dst, size, d.prefixEnd - d.prefixSize, d.prefixSize)
    ELSE IF d.prefixSize >= Window - 1 THEN decompress_safe_withPrefix64k(src, dst, size)
    ELSE IF d.extDictSize = 0 THEN decompress_safe_withSmallPrefix(src, dst, size, d.prefixSize)
    ELSE decompress_safe_doubleDict(src, dst, size, d.prefixSize, d.externalDict, d.extDictSize), m)

-----------------------------------------------------------------------------
(* LZ4_decompress_unsafe_generic, which knows the size of the output *)

UnsafeMatch(q, d, offset, v) ==
  LET left == q.dst + q.size - d.op
      n == MINMATCH + v.n
  IN  IF n > left \/ offset > d.op - q.lowPrefix + q.dictSize \/ left - n < LASTLITERALS THEN Wrong(d)
      ELSE [d EXCEPT !.op = @ + n, !.mem = CopyMatch(q, @, d.op, offset, n), !.ip = v.ip]

AfterUnsafeLiterals(q, d, code) ==
  IF q.dst + q.size - d.op < MFLIMIT
  THEN [d EXCEPT !.loop = IF d.op = q.dst + q.size THEN "done" ELSE "error"]
  ELSE UnsafeMatch(q, d, LZ4_readLE16(q, d.ip), read_variable_length(q, code, d.ip + 2))

UnsafeLiterals(q, d, code, v) ==
  IF q.dst + q.size - d.op < v.n THEN Wrong(d)
  ELSE AfterUnsafeLiterals(q, [d EXCEPT !.ip = v.ip + v.n, !.op = @ + v.n,
                                        !.mem = Written(@, d.op, SubSeq(q.src, v.ip + 1, v.ip + v.n))], code)

UnsafeSequence(q, d) ==
  UnsafeLiterals(q, d, Byte(q, d.ip) % (ML_MASK + 1),
                 read_variable_length(q, Byte(q, d.ip) \div (ML_MASK + 1), d.ip + 1))

RECURSIVE UnsafeDecode(_, _)
UnsafeDecode(q, d) == IF d.loop \in {"done", "error"} THEN d ELSE UnsafeDecode(q, UnsafeSequence(q, d))

LZ4_decompress_unsafe_generic(q, m) ==
  Result(q, UnsafeDecode(q, [ip |-> 0, op |-> q.dst, mem |-> m, loop |-> "unsafe"]))

LZ4_decompress_fast_continue(d, m, src, dst, size) ==
  LZ4_decompress_unsafe_generic(
    decompress_safe_doubleDict(src, dst, size, IF Rolling(d, dst) THEN d.prefixSize ELSE 0,
                               Switched(d, dst).externalDict, Switched(d, dst).extDictSize), m)

-----------------------------------------------------------------------------
(* Two ends of a stream.  Blocks lie one after the other in the ring       *)
(* buffers, from the start again when there is no room; behind each ring   *)
(* are the dictionary and a safe place for LZ4_saveDict.                   *)

MaxBlock == Max({Len(b) : b \in Blocks})
DictAt(ring) == ring + 2
SafeAt(ring) == ring + 3 + Len(Dictionary)
Memory(ring) == Written([a \in 1 .. SafeAt(ring) + Window |-> 0], DictAt(ring), Dictionary)
NextAt(pos, size, ring) == IF pos + size - 1 <= ring THEN pos ELSE 1

Init ==
  /\ enc = NoStream /\ dec = NoDecoder
  /\ emem = Memory(EncoderBuffer) /\ dmem = Memory(DecoderBuffer)
  /\ at = [e |-> 1, d |-> 1]     \* e = 0: the stream has to be reset first
  /\ answer = "none" /\ lzCalls = 0

Counted == lzCalls < MaxLzCalls /\ lzCalls' = lzCalls + 1

NoRoom(extra) == IF extra = 0 THEN "refused" ELSE "no room"

\* The block r at the other end, at q.
Receive(b, r, q, room, safe) ==
  \E s \in {IF safe THEN LZ4_decompress_safe_continue(dec, dmem, r.out, q, MaxBlock)
            ELSE LZ4_decompress_fast_continue(dec, dmem, r.out, q, Len(b))} :
    /\ dec' = Grown(dec, q, s.n) /\ dmem' = s.mem
    /\ answer' = IF Len(r.out) > room THEN "overrun"
                 ELSE IF Bytes(s.mem, q, s.n) = b THEN "equal" ELSE "different"

\* A block compressed by LZ4_compress_fast_continue and decoded at the other end.
Continue ==
  /\ Counted /\ at.e # 0
  /\ \E b \in Blocks, extra \in Rooms, safe \in BOOLEAN :
       LET p == NextAt(at.e, Len(b), EncoderBuffer)
           q == NextAt(at.d, MaxBlock, DecoderBuffer)
           room == LZ4_compressBound(Len(b)) - extra
       IN  /\ emem' = Written(emem, p, b)
           /\ \E r \in {LZ4_compress_fast_continue(enc, emem', p, Len(b), room)} :
                /\ enc' = r.enc
                /\ IF r.out = <<>>
                   THEN answer' = NoRoom(extra) /\ at' = [at EXCEPT !.e = 0] /\ UNCHANGED <<dec, dmem>>
                   ELSE at' = [e |-> p + Len(b), d |-> q + Len(b)] /\ Receive(b, r, q, room, safe)

Reset ==
  /\ Counted
  /\ enc' = LZ4_resetStream_fast(enc)
  /\ dec' = LZ4_setStreamDecode(NullPtr, 0)
  /\ at' = [at EXCEPT !.e = 1] /\ UNCHANGED <<emem, dmem, answer>>

\* The dictionary, loaded into the stream or attached to it.
LoadDict ==
  /\ Counted
  /\ LET loaded == LZ4_loadDict(emem, DictAt(EncoderBuffer), Len(Dictionary))
     IN  enc' \in {loaded, LZ4_attach_dictionary(LZ4_resetStream_fast(enc), loaded)}
  /\ dec' = LZ4_setStreamDecode(DictAt(DecoderBuffer), Len(Dictionary))
  /\ at' = [at EXCEPT !.e = 1] /\ UNCHANGED <<emem, dmem, answer>>

SaveDict ==
  /\ Counted /\ at.e # 0 /\ enc.dictSize > 0
  /\ LET n == SavedSize(enc, Window)
         from == enc.dictionary + enc.dictSize - n
     IN  emem' = Written(emem, SafeAt(EncoderBuffer), Bytes(emem, from, n))
  /\ enc' = LZ4_saveDict(enc, SafeAt(EncoderBuffer), Window)
  /\ at' = [at EXCEPT !.e = 1] /\ UNCHANGED <<dec, dmem, answer>>

\* The same at the other end, once the last segment holds all that is needed.
SaveDecoded ==
  /\ Counted /\ dec.prefixSize > 0 /\ (dec.extDictSize = 0 \/ dec.prefixSize >= Window)
  /\ LET n == Lesser(dec.prefixSize, Window)
     IN  /\ dmem' = Written(dmem, SafeAt(DecoderBuffer), Bytes(dmem, dec.prefixEnd - n, n))
         /\ dec' = LZ4_setStreamDecode(SafeAt(DecoderBuffer), n)
  /\ at' = [at EXCEPT !.d = 1] /\ UNCHANGED <<enc, emem, answer>>

\* What three decoders make of the block r.
OneAnswer(sent, r, m, room, extra, part) ==
  LET k == Lesser(part, Len(sent))
      n == Len(sent)
      Is(s, bytes) == Bytes(s.mem, 1, s.n) = bytes
  IN  IF r.out = <<>> THEN NoRoom(extra)
      ELSE IF Len(r.out) > room THEN "overrun"
      ELSE IF /\ Is(LZ4_decompress_generic(decompress_safe(r.out, 1, MaxBlock), m), sent)
              /\ Is(LZ4_decompress_generic(decompress_safe_partial(r.out, 1, k, n), m), SubSeq(sent, 1, k))
              /\ Is(LZ4_decompress_unsafe_generic(decompress_safe(r.out, 1, n), m), sent)
      THEN "equal" ELSE "different"

\* A block by itself, decoded in full, in part and without checks.
OneBlock ==
  /\ Counted
  /\ \E b \in Blocks, extra \in Rooms, by \in {"fast", "fastReset", "destSize"}, part \in 0 .. 3 :
       LET n == Len(b)
           room == LZ4_compressBound(n) - extra
           m == [a \in 1 .. MaxBlock + Window |-> IF a <= n THEN b[a] ELSE 0]
       IN  \E r \in {CASE by = "fast" -> LZ4_compress_fast_extState(m, 1, n, room)
                       [] by = "fastReset" -> LZ4_compress_fast_extState_fastReset(enc, m, 1, n, room)
                       [] by = "destSize" -> LZ4_compress_destSize(m, 1, n, room)} :
             /\ IF by = "fastReset" THEN enc' = r.enc /\ at' = [at EXCEPT !.e = 0] ELSE UNCHANGED <<enc, at>>
             /\ answer' = OneAnswer(IF by = "destSize" THEN SubSeq(b, 1, r.consumed) ELSE b,
                                    r, m, room, extra, part)
  /\ UNCHANGED <<dec, emem, dmem>>

Next == Continue \/ Reset \/ LoadDict \/ SaveDict \/ SaveDecoded \/ OneBlock

Spec == Init /\ [][Next]_vars

-----------------------------------------------------------------------------
\* Whatever the history of the stream (ring buffers that wrap, dictionaries
\* loaded, attached and saved, resets, blocks that did not fit), every block
\* decodes to what was compressed, never takes more than its room, and is
\* never refused the room LZ4_compressBound asks for.
BlocksComeBack == answer \in {"none", "equal", "no room"}
=============================================================================
