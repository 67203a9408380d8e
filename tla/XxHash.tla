------------------------------- MODULE XxHash -------------------------------
(***************************************************************************)
(* The hash functions: XXH32, XXH64 and XXH3 of xxhash.h, in one call and  *)
(* streaming, the murmur hashes and wyhash.                                *)
(*                                                                         *)
(* The arithmetic is left out: a hash is the sequence of the mixes that    *)
(* made it, each with the bytes it read, the part of the secret it used    *)
(* and the seed, so two hashes are equal when they mix the same things in  *)
(* the same order.  The sizes are those of the code.  The bytes of the     *)
(* stream are their positions.                                             *)
(***************************************************************************)
EXTENDS Integers, Sequences, SequencesExt

CONSTANTS Chunks,        \* the lengths an update may have
          Lengths,       \* the lengths hashed in one call
          Seeds, SecretSizes,
          MaxHashCalls,
          U32            \* where total_len_32 wraps around

VARIABLES mode,          \* how XXH3 was reset
          xxh3, xxh32, xxh64,
          hashCalls,
          oneShot        \* the length and the seed of a hash in one call, if any

vars == <<mode, xxh3, xxh32, xxh64, hashCalls, oneShot>>

Read(s, i, n) == SubSeq(s, i + 1, i + n)
Mix(op, bytes, k, off, width, seed) ==
  [op |-> op, bytes |-> bytes, secret |-> k, off |-> off, width |-> width, seed |-> seed]

XXH_STRIPE_LEN == 64
XXH_SECRET_CONSUME_RATE == 8
XXH3_INTERNALBUFFER_SIZE == 256
XXH3_INTERNALBUFFER_STRIPES == 4
XXH3_MIDSIZE_MAX == 240
XXH3_SECRET_SIZE_MIN == 136
XXH3_kSecret == [of |-> "kSecret", seed |-> 0, size |-> 192]
XXH3_initCustomSecret(seed) == [of |-> "custom", seed |-> seed, size |-> 192]
NoSecret == [of |-> "none", seed |-> 0, size |-> 0]

-----------------------------------------------------------------------------
(* XXH32 and XXH64: stripes of 16 and 32 bytes, words of 4 and 8.          *)

Plain(op, bytes) == Mix(op, bytes, NoSecret, 0, 0, 0)
Stripes(s, p) == [j \in 1 .. Len(s) \div p |-> Plain("round", Read(s, (j - 1) * p, p))]
Words(s, from, n, w) == [j \in 1 .. n |-> Plain("word", Read(s, from + (j - 1) * w, w))]

XXH32_finalize(s, len) ==
  LET n == (len % 16) \div 4
  IN  Words(s, 0, n, 4) \o Words(s, 4 * n, len % 4, 1)

XXH64_finalize(s, len) ==
  LET n == (len % 32) \div 8
      four == (len % 8) \div 4
  IN  Words(s, 0, n, 8) \o Words(s, 8 * n, four, 4) \o Words(s, 8 * n + 4 * four, len % 4, 1)

\* The hash of the rounds v, or of the seed alone for a short input.
Started(large, v, seed, len) ==
  (IF large THEN v ELSE <<>>) \o <<Mix(IF large THEN "rotl" ELSE "PRIME_5", <<>>, NoSecret, len, 0, seed)>>

XXH32(s, seed) ==
  LET done == IF Len(s) >= 16 THEN (Len(s) \div 16) * 16 ELSE 0
  IN  Started(Len(s) >= 16, Stripes(s, 16), seed, Len(s) % U32)
        \o XXH32_finalize(Read(s, done, Len(s) - done), Len(s) % 16)

XXH64(s, seed) ==
  LET done == (Len(s) \div 32) * 32
  IN  Started(Len(s) >= 32, Stripes(s, 32), seed, Len(s))
        \o XXH64_finalize(Read(s, done, Len(s) - done), Len(s))

NewState == [v |-> <<>>, mem |-> <<>>, total |-> 0, large |-> FALSE]

\* mem with the input behind it: what fills a stripe is consumed.
Consumed(st, input, p) ==
  IF Len(st.mem) + Len(input) < p THEN [st EXCEPT !.mem = @ \o input]
  ELSE LET first == IF st.mem = <<>> THEN 0 ELSE p - Len(st.mem)
           rest == Read(input, first, Len(input) - first)
           n == (Len(rest) \div p) * p
       IN  [st EXCEPT !.v = @ \o (IF first = 0 THEN <<>> ELSE Stripes(st.mem \o Read(input, 0, first), p))
                              \o Stripes(rest, p),
                      !.mem = Read(rest, n, Len(rest) - n)]

\* total_len_32 may wrap around: large_len remembers.
XXH32_update(st, input) ==
  LET total == (st.total + Len(input)) % U32
  IN  [Consumed(st, input, 16) EXCEPT !.total = total,
                                      !.large = @ \/ Len(input) >= 16 \/ total >= 16]
XXH64_update(st, input) == [Consumed(st, input, 32) EXCEPT !.total = @ + Len(input)]

XXH32_digest(st, seed) == Started(st.large, st.v, seed, st.total) \o XXH32_finalize(st.mem, Len(st.mem))
XXH64_digest(st, seed) == Started(st.total >= 32, st.v, seed, st.total) \o XXH64_finalize(st.mem, st.total)

-----------------------------------------------------------------------------
(* XXH3, the short inputs.                                                 *)

First_mid_last(s) == <<s[1], s[(Len(s) \div 2) + 1], s[Len(s)]>>
Ends(s, n) == Read(s, 0, n) \o Read(s, Len(s) - n, n)

XXH3_len_0to16_64b(s, k, seed) ==
  <<CASE Len(s) > 8 -> Mix("9to16", Ends(s, 8), k, 24, 32, seed)
      [] Len(s) \in 4 .. 8 -> Mix("4to8", Ends(s, 4), k, 8, 16, seed)
      [] Len(s) \in 1 .. 3 -> Mix("1to3", First_mid_last(s), k, 0, 8, seed)
      [] s = <<>> -> Mix("empty", <<>>, k, 56, 16, seed)>>

XXH3_len_0to16_128b(s, k, seed) ==
  <<CASE Len(s) > 8 -> Mix("9to16", Ends(s, 8), k, 32, 32, seed)
      [] Len(s) \in 4 .. 8 -> Mix("4to8", Ends(s, 4), k, 16, 16, seed)
      [] Len(s) \in 1 .. 3 -> Mix("1to3", First_mid_last(s), k, 0, 16, seed)
      [] s = <<>> -> Mix("empty", <<>>, k, 64, 32, seed)>>

XXH3_mix16B(s, i, k, off, seed) == Mix("mix16B", Read(s, i, 16), k, off, 16, seed)
XXH128_mix32B(s, i, j, k, off, seed) == Mix("mix32B", Read(s, i, 16) \o Read(s, j, 16), k, off, 32, seed)

\* From both ends towards the middle.
Rounds(len) == (len - 1) \div 32
XXH3_len_17to128_64b(s, k, seed) ==
  [j \in 1 .. Rounds(Len(s)) + 1 |-> XXH3_mix16B(s, 16 * (j - 1), k, 32 * (j - 1), seed)]
    \o [j \in 1 .. Rounds(Len(s)) + 1 |-> XXH3_mix16B(s, Len(s) - 16 * j, k, 32 * (j - 1) + 16, seed)]
XXH3_len_17to128_128b(s, k, seed) ==
  Reverse([j \in 1 .. Rounds(Len(s)) + 1 |->
             XXH128_mix32B(s, 16 * (j - 1), Len(s) - 16 * j, k, 32 * (j - 1), seed)])

XXH3_len_129to240_64b(s, k, seed) ==
  [i \in 1 .. 8 |-> XXH3_mix16B(s, 16 * (i - 1), k, 16 * (i - 1), seed)]
    \o <<XXH3_mix16B(s, Len(s) - 16, k, XXH3_SECRET_SIZE_MIN - 17, seed)>>
    \o [i \in 1 .. (Len(s) \div 16) - 8 |-> XXH3_mix16B(s, 16 * (i + 7), k, 16 * (i - 1) + 3, seed)]
XXH3_len_129to240_128b(s, k, seed) ==
  [i \in 1 .. 4 |-> XXH128_mix32B(s, 32 * (i - 1), 32 * i - 16, k, 32 * (i - 1), seed)]
    \o [i \in 1 .. (Len(s) \div 32) - 4 |->
          XXH128_mix32B(s, 32 * (i + 3), 32 * (i + 3) + 16, k, 32 * (i - 1) + 3, seed)]
    \o <<XXH128_mix32B(s, Len(s) - 16, Len(s) - 32, k, XXH3_SECRET_SIZE_MIN - 17 - 16, 0 - seed)>>

-----------------------------------------------------------------------------
(* XXH3, the long inputs: blocks of stripes, each with its part of the     *)
(* secret, and a scramble after every block.                               *)

XXH3_accumulate_512(s, i, k, off) == Mix("accumulate", Read(s, i, XXH_STRIPE_LEN), k, off, 64, 0)
XXH3_accumulate(s, i, k, off, n) ==
  [j \in 1 .. n |-> XXH3_accumulate_512(s, i + (j - 1) * XXH_STRIPE_LEN, k,
                                        off + (j - 1) * XXH_SECRET_CONSUME_RATE)]
XXH3_scrambleAcc(k) == Mix("scramble", <<>>, k, k.size - XXH_STRIPE_LEN, 64, 0)
StripesPerBlock(k) == (k.size - XXH_STRIPE_LEN) \div XXH_SECRET_CONSUME_RATE
Blocks(s, i, k, n) ==
  FlattenSeq([b \in 1 .. n |->
    Append(XXH3_accumulate(s, i + (b - 1) * StripesPerBlock(k) * XXH_STRIPE_LEN, k, 0, StripesPerBlock(k)),
           XXH3_scrambleAcc(k))])
LastStripe(s, k) == XXH3_accumulate_512(s, Len(s) - XXH_STRIPE_LEN, k, k.size - XXH_STRIPE_LEN - 7)

XXH3_hashLong_internal_loop(s, k) ==
  LET block_len == XXH_STRIPE_LEN * StripesPerBlock(k)
      nb_blocks == (Len(s) - 1) \div block_len
  IN  Blocks(s, 0, k, nb_blocks)
        \o XXH3_accumulate(s, nb_blocks * block_len, k, 0,
                           ((Len(s) - 1) - block_len * nb_blocks) \div XXH_STRIPE_LEN)
        \o <<LastStripe(s, k)>>

XXH3_mergeAccs(k, off, start) == Mix("merge", <<>>, k, off, 64, start)
Merged64(acc, k, len) == Append(acc, XXH3_mergeAccs(k, 11, len))
Merged128(acc, k, len) == acc \o <<XXH3_mergeAccs(k, 11, len), XXH3_mergeAccs(k, k.size - 64 - 11, -len)>>
WithSeed(seed) == IF seed = 0 THEN XXH3_kSecret ELSE XXH3_initCustomSecret(seed)

\* kLong: the secret of the long inputs.
XXH3_64bits_internal(s, seed, k, kLong) ==
  CASE Len(s) <= 16 -> XXH3_len_0to16_64b(s, k, seed)
    [] Len(s) \in 17 .. 128 -> XXH3_len_17to128_64b(s, k, seed)
    [] Len(s) \in 129 .. XXH3_MIDSIZE_MAX -> XXH3_len_129to240_64b(s, k, seed)
    [] Len(s) > XXH3_MIDSIZE_MAX -> Merged64(XXH3_hashLong_internal_loop(s, kLong), kLong, Len(s))
XXH3_128bits_internal(s, seed, k, kLong) ==
  CASE Len(s) <= 16 -> XXH3_len_0to16_128b(s, k, seed)
    [] Len(s) \in 17 .. 128 -> XXH3_len_17to128_128b(s, k, seed)
    [] Len(s) \in 129 .. XXH3_MIDSIZE_MAX -> XXH3_len_129to240_128b(s, k, seed)
    [] Len(s) > XXH3_MIDSIZE_MAX -> Merged128(XXH3_hashLong_internal_loop(s, kLong), kLong, Len(s))

XXH3_64bits_withSecret(s, k) == XXH3_64bits_internal(s, 0, k, k)
XXH3_64bits_withSeed(s, seed) == XXH3_64bits_internal(s, seed, XXH3_kSecret, WithSeed(seed))
XXH3_64bits_withSecretandSeed(s, k, seed) == XXH3_64bits_internal(s, seed, XXH3_kSecret, k)
XXH3_128bits_withSecret(s, k) == XXH3_128bits_internal(s, 0, k, k)
XXH3_128bits_withSeed(s, seed) == XXH3_128bits_internal(s, seed, XXH3_kSecret, WithSeed(seed))
XXH3_128bits_withSecretandSeed(s, k, seed) == XXH3_128bits_internal(s, seed, XXH3_kSecret, k)

-----------------------------------------------------------------------------
(* XXH3, streaming: a buffer of four stripes, whose last bytes are kept    *)
(* for a final stripe that reaches back behind the buffered input.         *)

\* customSecret is not initialized until a seed needs it.
XXH3_INITSTATE ==
  [acc |-> <<>>, customSecret |-> NoSecret, buffer |-> [j \in 1 .. XXH3_INTERNALBUFFER_SIZE |-> -1],
   bufferedSize |-> 0, useSeed |-> FALSE, nbStripesSoFar |-> 0, totalLen |-> 0, seed |-> 0,
   extSecret |-> <<>>, secretLimit |-> 0]

XXH3_reset_internal(st, seed, secret, secretSize) ==
  [st EXCEPT !.acc = <<>>, !.bufferedSize = 0, !.nbStripesSoFar = 0, !.totalLen = 0,
             !.seed = seed, !.useSeed = seed # 0, !.extSecret = secret,
             !.secretLimit = secretSize - XXH_STRIPE_LEN]
XXH3_reset(st) == XXH3_reset_internal(st, 0, <<XXH3_kSecret>>, XXH3_kSecret.size)
XXH3_reset_withSecret(st, k) == XXH3_reset_internal(st, 0, <<k>>, k.size)
XXH3_reset_withSeed(st, seed) ==
  IF seed = 0 THEN XXH3_reset(st)
  ELSE XXH3_reset_internal(
         [st EXCEPT !.customSecret = IF seed # st.seed \/ st.extSecret # <<>>
                                     THEN XXH3_initCustomSecret(seed) ELSE @],
         seed, <<>>, XXH3_kSecret.size)
XXH3_reset_withSecretandSeed(st, k, seed) ==
  IF k.size < XXH3_SECRET_SIZE_MIN THEN st
  ELSE [XXH3_reset_internal(st, seed, <<k>>, k.size) EXCEPT !.useSeed = TRUE]

SecretOf(st) == IF st.extSecret = <<>> THEN st.customSecret ELSE st.extSecret[1]
PerBlock(st) == st.secretLimit \div XXH_SECRET_CONSUME_RATE
At(st) == st.nbStripesSoFar * XXH_SECRET_CONSUME_RATE

XXH3_consumeStripes(st, s, i, n, k) ==
  LET toEnd == PerBlock(st) - st.nbStripesSoFar
  IN  IF toEnd <= n
      THEN [st EXCEPT !.acc = Append(@ \o XXH3_accumulate(s, i, k, At(st), toEnd), XXH3_scrambleAcc(k))
                              \o XXH3_accumulate(s, i + toEnd * XXH_STRIPE_LEN, k, 0, n - toEnd),
                      !.nbStripesSoFar = n - toEnd]
      ELSE [st EXCEPT !.acc = @ \o XXH3_accumulate(s, i, k, At(st), n), !.nbStripesSoFar = @ + n]

Put(buffer, i, s) == [j \in DOMAIN buffer |-> IF j \in i + 1 .. i + Len(s) THEN s[j - i] ELSE buffer[j]]
Buffer(st, s) == [st EXCEPT !.buffer = Put(@, st.bufferedSize, s), !.bufferedSize = @ + Len(s)]
EmptyBuffer(st, k) ==
  [XXH3_consumeStripes(st, st.buffer, 0, XXH3_INTERNALBUFFER_STRIPES, k) EXCEPT !.bufferedSize = 0]

\* More than a block: to the end of this one, then whole blocks, then the rest.
LargeInput(st, s, k, nbStripes, toEnd) ==
  LET whole == (nbStripes - toEnd) \div PerBlock(st)
      last == (nbStripes - toEnd) % PerBlock(st)
  IN  [st EXCEPT !.acc = Append(@ \o XXH3_accumulate(s, 0, k, At(st), toEnd), XXH3_scrambleAcc(k))
                         \o Blocks(s, toEnd * XXH_STRIPE_LEN, k, whole)
                         \o XXH3_accumulate(s, (nbStripes - last) * XXH_STRIPE_LEN, k, 0, last),
                 !.nbStripesSoFar = last]
ByBuffers(st, s, k, times) ==
  FoldLeft(LAMBDA x, j : XXH3_consumeStripes(x, s, (j - 1) * XXH3_INTERNALBUFFER_SIZE,
                                             XXH3_INTERNALBUFFER_STRIPES, k),
           st, [j \in 1 .. times |-> j])

\* What is left after n bytes is buffered, the stripe before it kept at the buffer's end.
KeepLastStripe(st, s, n) ==
  [st EXCEPT !.buffer = Put(@, XXH3_INTERNALBUFFER_SIZE - XXH_STRIPE_LEN, Read(s, n - XXH_STRIPE_LEN, XXH_STRIPE_LEN))]
BufferRest(st, s, n) == Buffer(KeepLastStripe(st, s, n), Read(s, n, Len(s) - n))

Ingest(st, s, k) ==
  IF Len(s) > PerBlock(st) * XXH_STRIPE_LEN
  THEN LET n == (Len(s) - 1) \div XXH_STRIPE_LEN
       IN  BufferRest(LargeInput(st, s, k, n, PerBlock(st) - st.nbStripesSoFar), s, n * XXH_STRIPE_LEN)
  ELSE IF Len(s) > XXH3_INTERNALBUFFER_SIZE
  THEN LET n == (Len(s) - 1) \div XXH3_INTERNALBUFFER_SIZE
       IN  BufferRest(ByBuffers(st, s, k, n), s, n * XXH3_INTERNALBUFFER_SIZE)
  ELSE Buffer(st, s)

XXH3_update(st0, input) ==
  LET st == [st0 EXCEPT !.totalLen = @ + Len(input)]
      load == XXH3_INTERNALBUFFER_SIZE - st.bufferedSize
      k == SecretOf(st)
  IN  IF Len(input) <= load THEN Buffer(st, input)
      ELSE IF st.bufferedSize = 0 THEN Ingest(st, input, k)
      ELSE Ingest(EmptyBuffer(Buffer(st, Read(input, 0, load)), k), Read(input, load, Len(input) - load), k)

\* The last stripe is made of the buffer's end and its beginning when too little is buffered.
XXH3_digest_long(st, k) ==
  LET off == st.secretLimit - 7
      back == XXH_STRIPE_LEN - st.bufferedSize
  IN  IF st.bufferedSize >= XXH_STRIPE_LEN
      THEN Append(XXH3_consumeStripes(st, st.buffer, 0, (st.bufferedSize - 1) \div XXH_STRIPE_LEN, k).acc,
                  XXH3_accumulate_512(st.buffer, st.bufferedSize - XXH_STRIPE_LEN, k, off))
      ELSE Append(st.acc, XXH3_accumulate_512(Read(st.buffer, XXH3_INTERNALBUFFER_SIZE - back, back)
                                                \o Read(st.buffer, 0, st.bufferedSize), 0, k, off))

XXH3_64bits_digest(st) ==
  IF st.totalLen > XXH3_MIDSIZE_MAX
  THEN Merged64(XXH3_digest_long(st, SecretOf(st)), SecretOf(st), st.totalLen)
  ELSE IF st.useSeed THEN XXH3_64bits_withSeed(Read(st.buffer, 0, st.totalLen), st.seed)
  ELSE XXH3_64bits_withSecret(Read(st.buffer, 0, st.totalLen), SecretOf(st))
XXH3_128bits_digest(st) ==
  IF st.totalLen > XXH3_MIDSIZE_MAX
  THEN Merged128(XXH3_digest_long(st, SecretOf(st)), SecretOf(st), st.totalLen)
  ELSE IF st.seed # 0 THEN XXH3_128bits_withSeed(Read(st.buffer, 0, st.totalLen), st.seed)
  ELSE XXH3_128bits_withSecret(Read(st.buffer, 0, st.totalLen), SecretOf(st))

-----------------------------------------------------------------------------
(* The other hashes, the generation of a secret.                           *)

fmix(seed, len) == Mix("fmix", <<>>, NoSecret, len, 0, seed)

\* Blocks of w bytes, then the tail in pieces of h.
Blocked(s, w, h, seed) ==
  LET n == Len(s) \div w
      tail == Read(s, n * w, Len(s) % w)
  IN  Words(s, 0, n, w) \o Words(tail, 0, Len(tail) \div h, h)
        \o (IF Len(tail) % h = 0 THEN <<>> ELSE <<Plain("tail", Read(tail, (Len(tail) \div h) * h, Len(tail) % h))>>)
        \o <<fmix(seed, Len(s))>>
MurmurHash3_x86_32(s, seed) == Blocked(s, 4, 4, seed)
MurmurHash3_x86_128(s, seed) == Blocked(s, 16, 4, seed)
MurmurHash3_x64_128(s, seed) == Blocked(s, 16, 8, seed)
MurmurHash2(s, seed) == Blocked(s, 4, 1, seed)

\* wyhash: rounds of 48 bytes, then of 16, then the last 16 bytes.
wyhash(s) ==
  LET far == (Len(s) \div 8) * 4
      thrice == (Len(s) - 1) \div 48
  IN  CASE Len(s) > 16 ->
             Words(s, 0, thrice, 48)
               \o Words(s, thrice * 48, (Len(s) - thrice * 48 - 1) \div 16, 16)
               \o <<Plain("mix", Read(s, Len(s) - 16, 16))>>
        [] Len(s) \in 4 .. 16 ->
             <<Plain("mix", Read(s, 0, 4) \o Read(s, far, 4) \o Read(s, Len(s) - 4, 4)
                              \o Read(s, Len(s) - 4 - far, 4))>>
        [] Len(s) \in 1 .. 3 -> <<Plain("mix", First_mid_last(s))>>
        [] s = <<>> -> <<Plain("mix", <<>>)>>

\* The buffer s is overwritten by copies of the seed, then combined 16 bytes at a time.
XXH3_generateSecret(s) ==
  IF Len(s) < XXH3_SECRET_SIZE_MIN THEN <<Plain("error", s)>>
  ELSE Append([n \in 1 .. Len(s) \div 16 |-> Mix("combine16", Read(s, 16 * (n - 1), 16), NoSecret, 0, 0, n - 1)],
              Plain("combine16", Read(s, Len(s) - 16, 16)))

-----------------------------------------------------------------------------
(* A program that hashes a stream in pieces, with all states at once, and  *)
(* strings in one call.                                                    *)

Own(size) == [of |-> "own", seed |-> 0, size |-> size]
Kinds == {"default", "withSecret", "withSeed", "withSecretandSeed"}
Modes == {m \in [kind : Kinds, seed : Seeds, size : SecretSizes] :
            /\ m.kind \in {"default", "withSecret"} => \A x \in Seeds : m.seed <= x
            /\ m.kind \in {"default", "withSeed"} => \A x \in SecretSizes : m.size <= x}
Bytes(from, n) == [j \in 1 .. n |-> from + j - 1]

Init ==
  /\ mode = [kind |-> "none", seed |-> 0, size |-> 0]
  /\ xxh3 = XXH3_INITSTATE
  /\ xxh32 = NewState /\ xxh64 = NewState
  /\ hashCalls = 0
  /\ oneShot = <<>>

\* A secret that is too short is refused; what withSecret leaves is not used.
Reset(m) ==
  /\ hashCalls < MaxHashCalls /\ oneShot = <<>>
  /\ xxh3' = CASE m.kind = "default" -> XXH3_reset(xxh3)
               [] m.kind = "withSecret" -> XXH3_reset_withSecret(xxh3, Own(m.size))
               [] m.kind = "withSeed" -> XXH3_reset_withSeed(xxh3, m.seed)
               [] m.kind = "withSecretandSeed" -> XXH3_reset_withSecretandSeed(xxh3, Own(m.size), m.seed)
  /\ mode' = IF m.size < XXH3_SECRET_SIZE_MIN /\ m.kind \in {"withSecret", "withSecretandSeed"}
             THEN [kind |-> "none", seed |-> 0, size |-> 0] ELSE m
  /\ xxh32' = NewState /\ xxh64' = NewState
  /\ hashCalls' = hashCalls + 1
  /\ UNCHANGED oneShot

Update(len) ==
  /\ mode.kind # "none" /\ hashCalls < MaxHashCalls
  /\ \E input \in {Bytes(xxh3.totalLen, len)} :
       /\ xxh3' = XXH3_update(xxh3, input)
       /\ xxh32' = XXH32_update(xxh32, input)
       /\ xxh64' = XXH64_update(xxh64, input)
  /\ hashCalls' = hashCalls + 1
  /\ UNCHANGED <<mode, oneShot>>

Hashes(s, seed) ==
  {XXH32(s, seed), XXH64(s, seed), XXH3_64bits_withSeed(s, seed), XXH3_128bits_withSeed(s, seed),
   MurmurHash3_x86_32(s, seed), MurmurHash3_x86_128(s, seed), MurmurHash3_x64_128(s, seed),
   MurmurHash2(s, seed), wyhash(s), XXH3_generateSecret(s)}
    \union UNION {{XXH3_64bits_withSecret(s, Own(n)), XXH3_128bits_withSecret(s, Own(n)),
                   XXH3_64bits_withSecretandSeed(s, Own(n), seed),
                   XXH3_128bits_withSecretandSeed(s, Own(n), seed)}
                  : n \in {n \in SecretSizes : n >= XXH3_SECRET_SIZE_MIN}}

OneShot(len) ==
  /\ hashCalls = 0 /\ oneShot = <<>>
  /\ \E seed \in Seeds : oneShot' = <<len, seed>>
  /\ UNCHANGED <<mode, xxh3, xxh32, xxh64, hashCalls>>

Next ==
  \/ \E m \in Modes : Reset(m)
  \/ \E len \in Chunks : Update(len)
  \/ \E len \in Lengths : OneShot(len)

Spec == Init /\ [][Next]_vars

-----------------------------------------------------------------------------
Stream == Bytes(0, xxh3.totalLen)

\* What one call computes for the stream, in the mode of the reset.
OneShot64(s, m) ==
  CASE m.kind = "default" -> XXH3_64bits_withSeed(s, 0)
    [] m.kind = "withSecret" -> XXH3_64bits_withSecret(s, Own(m.size))
    [] m.kind = "withSeed" -> XXH3_64bits_withSeed(s, m.seed)
    [] m.kind = "withSecretandSeed" -> XXH3_64bits_withSecretandSeed(s, Own(m.size), m.seed)
OneShot128(s, m) ==
  CASE m.kind = "default" -> XXH3_128bits_withSeed(s, 0)
    [] m.kind = "withSecret" -> XXH3_128bits_withSecret(s, Own(m.size))
    [] m.kind = "withSeed" -> XXH3_128bits_withSeed(s, m.seed)
    [] m.kind = "withSecretandSeed" -> XXH3_128bits_withSecretandSeed(s, Own(m.size), m.seed)

(***************************************************************************)
(* However a stream is cut into updates, and whatever the state was used   *)
(* for before, the digests are those of one call over the whole stream, in *)
(* 32, 64 and 128 bits.  (With a secret and a zero seed the 128-bit digest *)
(* of a short stream is not: see Digest128AsOneShot.)  And every hash      *)
(* depends on every byte of its input, with all it takes from the secret   *)
(* inside the secret.                                                      *)
(***************************************************************************)
HashesAgree ==
  /\ mode.kind # "none" =>
       /\ XXH3_64bits_digest(xxh3) = OneShot64(Stream, mode)
       /\ \/ XXH3_128bits_digest(xxh3) = OneShot128(Stream, mode)
          \/ mode.kind = "withSecretandSeed" /\ mode.seed = 0 /\ xxh3.totalLen <= XXH3_MIDSIZE_MAX
       /\ XXH32_digest(xxh32, mode.seed) = XXH32(Stream, mode.seed)
       /\ XXH64_digest(xxh64, mode.seed) = XXH64(Stream, mode.seed)
  /\ oneShot # <<>> =>
       \A h \in Hashes(Bytes(0, oneShot[1]), oneShot[2]) :
         /\ UNION {ToSet(h[i].bytes) : i \in DOMAIN h} = 0 .. oneShot[1] - 1
         /\ \A i \in DOMAIN h : h[i].secret # NoSecret => h[i].off \in 0 .. h[i].secret.size - h[i].width

(***************************************************************************)
(* The documentation of the withSecretandSeed variants: the seed is what   *)
(* counts for short inputs, streaming or not.                              *)
(***************************************************************************)
Digest128AsOneShot ==
  mode.kind = "withSecretandSeed" => XXH3_128bits_digest(xxh3) = OneShot128(Stream, mode)
=============================================================================
