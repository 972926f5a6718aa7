-------------------------------- MODULE Blocks --------------------------------
(* The block of ChaCha20 in both implementations (crypto_stream_chacha20.c,
   glo_chacha20.c) and of the hashes (crypto_hash_sha256.c, crypto_hash_sha512.c):
   what module Record takes for any function.  Words have BlkBits bits in four
   bytes, and the distances of rotations are scaled down with them. *)
EXTENDS Calls, Bitwise

CONSTANTS BlkBits,    \* bits of a word
          WideBits,   \* of unsigned long where it is longer than a word
          Turns,      \* the rotations of a quarter round, 16, 12, 8, 7
          DoubleRounds, \* 10
          HashRounds, \* 64 and 80
          HashTurns,  \* for each hash the distances of its four sigmas
          BlockSeeds  \* what the bytes of a block are made from

BlkW == 2 ^ BlkBits
BlkByte == 2 ^ (BlkBits \div 4)
Bytes4(x) == [i \in 0 .. 3 |-> (x \div BlkByte ^ i) % BlkByte]
\* unpack32 and load32_le: four bytes, the lowest first; big endian for hashes.
unpack32(b) == (b[0] | (b[1] * BlkByte)) | ((b[2] * BlkByte ^ 2) | (b[3] * BlkByte ^ 3))
pack32(u) == Bytes4(u % BlkW)
store_bigendian(x) == [i \in 0 .. 3 |-> (x \div BlkByte ^ (3 - i)) % BlkByte]
load_bigendian(b) ==
  ((b[0] * BlkByte | b[1]) * BlkByte | b[2]) * BlkByte | b[3]
-----------------------------------------------------------------------------
(* Words are kept modulo wide: unsigned long may have bits above a word, which
   rotations fill with garbage (crypto_stream_chacha20.c:23) and pack32 drops. *)
Rotate(x, c, wide) == ((x * 2 ^ c) % wide) | ((x % BlkW) \div 2 ^ (BlkBits - c))
\* x[a] += x[b]; x[d] = rotated x[d] ^ x[a]
AddXorTurned(x, a, d, sum, c, wide) ==
  [x EXCEPT ![a] = sum, ![d] = Rotate(@ ^^ sum, c, wide)]
AddXor(x, a, b, d, c, wide) ==
  AddXorTurned(x, a, d, (x[a] + x[b]) % wide, c, wide)
\* One of the four lines of a quarter round: q is <<a, b, c, d>>.
HalfQuarters(q) == << <<q[1], q[2], q[4]>>, <<q[3], q[4], q[2]>>,
                      <<q[1], q[2], q[4]>>, <<q[3], q[4], q[2]>> >>
Columns   == << <<0, 4, 8, 12>>, <<1, 5, 9, 13>>, <<2, 6, 10, 14>>, <<3, 7, 11, 15>> >>
Diagonals == << <<0, 5, 10, 15>>, <<1, 6, 11, 12>>, <<2, 7, 8, 13>>, <<3, 4, 9, 14>> >>
Lines(quarters) ==
  FlattenSeq([i \in DOMAIN quarters |->
    [j \in 1 .. 4 |-> Append(HalfQuarters(quarters[i])[j], Turns[j])]])
TwoRounds == Lines(Columns) \o Lines(Diagonals)
Rounded20(x, lines, wide) ==
  FoldLeft(LAMBDA y, l : AddXor(y, l[1], l[2], l[3], l[4], wide), x, lines)
RECURSIVE RepeatedSeq(_, _)
RepeatedSeq(s, n) == IF n = 0 THEN <<>> ELSE s \o RepeatedSeq(s, n - 1)
\* The words that come out: constants, key, counter and nonce are added again.
Summed(y, in, wide) == [i \in 0 .. 15 |-> (y[i] + in[i]) % wide]
chacha20_block(in) ==
  Summed(Rounded20(in, RepeatedSeq(TwoRounds, DoubleRounds), BlkW), in, BlkW)
\* XORBLOCK: the words of a block of the message are xored before they are
\* packed.
PackedXor(y, msg) == [i \in 0 .. 15 |-> pack32(y[i] ^^ unpack32(Bytes4(msg[i])))]
XORBLOCK(in, msg) ==
  PackedXor(Summed(Rounded20(in, RepeatedSeq(TwoRounds, DoubleRounds), 2 ^ WideBits), in,
                   2 ^ WideBits), msg)
-----------------------------------------------------------------------------
(* blocks() of both hashes; h chooses the one. *)
R(x, c) == (x \div 2 ^ c) | ((x * 2 ^ (BlkBits - c)) % BlkW)
NotW(x) == BlkW - 1 - x
Ch(x, y, z) == (x & y) ^^ (NotW(x) & z)
Maj(x, y, z) == ((x & y) ^^ (x & z)) ^^ (y & z)
Sigma0(h, x) == (R(x, HashTurns[h].S0[1]) ^^ R(x, HashTurns[h].S0[2])) ^^ R(x, HashTurns[h].S0[3])
Sigma1(h, x) == (R(x, HashTurns[h].S1[1]) ^^ R(x, HashTurns[h].S1[2])) ^^ R(x, HashTurns[h].S1[3])
\* Two rotations and a shift.
sigma0(h, x) == (R(x, HashTurns[h].s0[1]) ^^ R(x, HashTurns[h].s0[2]))
                ^^ (x \div 2 ^ HashTurns[h].s0[3])
sigma1(h, x) == (R(x, HashTurns[h].s1[1]) ^^ R(x, HashTurns[h].s1[2]))
                ^^ (x \div 2 ^ HashTurns[h].s1[3])
K(i) == (97 * i + 66) % BlkW   \* any constants

\* w[i] from the words before it; sequences start at 1.
RECURSIVE Schedule(_, _)
Schedule(h, w) ==
  IF Len(w) = HashRounds THEN w
  ELSE LET i == Len(w) + 1
       IN Schedule(h, Append(w, (sigma1(h, w[i - 2]) + w[i - 7] + sigma0(h, w[i - 15])
                                 + w[i - 16]) % BlkW))
\* b is a copy of a; a[(j + 1) % 8] = b[j].
ShiftedWords(b) == [j \in 0 .. 7 |-> b[(j + 7) % 8] % BlkW]
HashRound(h, a, t) ==
  ShiftedWords([a EXCEPT ![7] = t + Sigma0(h, a[0]) + Maj(a[0], a[1], a[2]), ![3] = @ + t])
HashSum(h, a, w, i) ==
  a[7] + Sigma1(h, a[4]) + Ch(a[4], a[5], a[6]) + K(i) + w[i]
RECURSIVE HashTrace(_, _, _)
HashTrace(h, w, trace) ==
  IF Len(trace) > HashRounds THEN Last(trace)
  ELSE HashTrace(h, w, Append(trace, HashRound(h, Last(trace),
                                               HashSum(h, Last(trace), w, Len(trace)))))
AddedWords(a, z) == [i \in 0 .. 7 |-> (a[i] + z[i]) % BlkW]
blocks(h, z, m) ==
  AddedWords(HashTrace(h, Schedule(h, [i \in 1 .. 16 |-> load_bigendian(store_bigendian(m[i]))]),
                       <<z>>), z)
-----------------------------------------------------------------------------
State16(seed) == [i \in 0 .. 15 |-> (seed * (2 * i + 3) * (i + 5) + 29 * i) % BlkW]
Words16(seed) == [i \in 1 .. 16 |-> (seed * (2 * i + 1) * (i + 7) + 31 * i) % BlkW]
CallBlock == Idle /\ \E s, t \in BlockSeeds :
  Call([of |-> "block", in |-> State16(s), msg |-> State16(t),
        out |-> chacha20_block(State16(s)), xored |-> XORBLOCK(State16(s), State16(t))])
CallHashBlock == Idle /\ \E h \in DOMAIN HashTurns, s, t \in BlockSeeds :
  Call([of |-> "hashblock", h |-> h, z |-> SubSeq(Words16(s), 1, 8), m |-> Words16(t),
        out |-> blocks(h, [i \in 0 .. 7 |-> Words16(s)[i + 1]], Words16(t))])
BlocksNext == CallBlock \/ CallHashBlock
-----------------------------------------------------------------------------
(* What the standards say.  A round on the diagonals is a round on the columns
   of a square whose rows are turned; the hash works on eight named words, and
   chooses and votes bit by bit. *)
Turned(x, by) == [i \in 0 .. 15 |-> x[4 * (i \div 4) + ((i + by * (i \div 4)) % 4)]]
ColumnsRound(x) == Rounded20(x, Lines(Columns), BlkW)
RECURSIVE SquareRounds(_, _)
SquareRounds(x, n) ==
  IF n = 0 THEN x ELSE SquareRounds(Turned(ColumnsRound(Turned(ColumnsRound(x), 1)), 3), n - 1)
BitAt(x, i) == (x \div 2 ^ i) % 2
RECURSIVE OfBits(_, _)
OfBits(b, i) == IF i = BlkBits THEN 0 ELSE b[i] * 2 ^ i + OfBits(b, i + 1)
Chosen(e, f, g) ==
  OfBits([i \in 0 .. BlkBits - 1 |-> IF BitAt(e, i) = 1 THEN BitAt(f, i) ELSE BitAt(g, i)], 0)
Voted(a, b, c) ==
  OfBits([i \in 0 .. BlkBits - 1 |-> (BitAt(a, i) + BitAt(b, i) + BitAt(c, i)) \div 2], 0)
RECURSIVE Rounds8(_, _, _, _, _, _, _, _, _, _, _)
Rounds8(n, w, t, a, b, c, d, e, f, g, k) ==
  IF t > HashRounds THEN <<a, b, c, d, e, f, g, k>>
  ELSE LET t1 == k + Sigma1(n, e) + Chosen(e, f, g) + K(t) + w[t]
       IN Rounds8(n, w, t + 1, (t1 + Sigma0(n, a) + Voted(a, b, c)) % BlkW, a, b, c,
                  (d + t1) % BlkW, e, f, g)
Standard(n, z, m) ==
  LET v == Rounds8(n, Schedule(n, m), 1, z[1], z[2], z[3], z[4], z[5], z[6], z[7], z[8])
  IN [i \in 0 .. 7 |-> (v[i + 1] + z[i + 1]) % BlkW]

\* Both implementations of ChaCha20 make the block of its definition by columns
\* and diagonals, with garbage above the words or without, and both hashes that
\* of theirs (crypto_stream_chacha20.c:31, crypto_hash_sha256.c:69).
BlocksStandard ==
  /\ Called("block") =>
       /\ job.out = Summed(SquareRounds(job.in, DoubleRounds), job.in, BlkW)
       /\ \A i \in 0 .. 15 : job.xored[i] = Bytes4(job.out[i] ^^ job.msg[i])
  /\ Called("hashblock") => job.out = Standard(job.h, job.z, job.m)
=============================================================================
