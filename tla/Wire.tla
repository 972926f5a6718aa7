-------------------------------- MODULE Wire --------------------------------
(* buf.c, packetparser.c, stringparser.c and the formats built from them: what
   one side puts into a packet the other side parses.  A byte has ByteBits bits,
   a length field NumLen bytes.  Both a buffer and a parser are records whose
   ok turns FALSE where the code calls bug_nomem or bug_proto. *)
EXTENDS Calls

CONSTANTS ByteBits,  \* 8; characters of base64 have 3 bits for every 4 of a byte
          NumLen,    \* 4
          BufAlloc,  \* the size of a buffer
          MaxNumber, \* 1073741824, a greater length is bug_inval
          Comma,     \* the byte ','
          AlgorithmNames, \* the names of algorithms, sequences of bytes
          KeyName,   \* "ssh-ed25519"
          PkBytes,   \* crypto_sign_ed25519_PUBLICKEYBYTES
          SigBytes,  \* crypto_sign_ed25519_BYTES
          MaxBytes   \* length of the byte sequences tried

Radix == 2 ^ ByteBits
Zeros(n) == [i \in 1 .. n |-> 0]

uint_pack_big(x) == [i \in 1 .. NumLen |-> (x \div Radix ^ (NumLen - i)) % Radix]
uint_unpack_big(s) == FoldLeft(LAMBDA y, c : y * Radix + c, 0, s)
uint_pack(x) == [i \in 1 .. NumLen |-> (x \div Radix ^ (i - 1)) % Radix]
uint_unpack(s) == uint_unpack_big(Reverse(s))
-----------------------------------------------------------------------------
buf_purge == [s |-> <<>>, ok |-> TRUE]
buf_ready(b, len) == Len(b.s) + len < BufAlloc
buf_put(b, x) == IF b.ok /\ Len(x) <= MaxNumber /\ buf_ready(b, Len(x))
                 THEN [b EXCEPT !.s = @ \o x] ELSE [b EXCEPT !.ok = FALSE]
buf_putnum8(b, u) == buf_put(b, <<u>>)
buf_putnum32(b, n) == buf_put(b, uint_pack_big(n))
buf_putzerobytes(b, n) == buf_put(b, Zeros(n))
buf_putrandombytes(b, random) == buf_put(b, random)
buf_putpadding(b, n) == buf_put(b, Zeros(n))
buf_putstring(b, x) == buf_put(buf_putnum32(b, Len(x)), x)

\* A number without its leading zero bytes, with one more if it would look
\* negative.  A number that is zero makes the code look at the byte after it.
SharedSecretUnpadded(b, x, after) ==
  LET pos == Min({i \in 1 .. Len(x) : x[i] # 0} \cup {Len(x) + 1})
      y   == SubSeq(x, pos, Len(x))
  IN buf_put(buf_putnum32(b, Len(y)), y)
buf_putsharedsecret(b, x, after) ==
  LET pos  == Min({i \in 1 .. Len(x) : x[i] # 0} \cup {Len(x) + 1})
      next == IF pos > Len(x) THEN after ELSE x[pos]
      y    == SubSeq(x, pos, Len(x))
  IN IF next >= Radix \div 2 THEN buf_put(buf_putnum8(buf_putnum32(b, Len(y) + 1), 0), y)
     ELSE buf_put(buf_putnum32(b, Len(y)), y)

\* Characters of 3/4 of a byte, the last one filled up with zero bits, and '='
\* (the value CharRadix here) until the whole buffer is a multiple of four.
CharBits  == (3 * ByteBits) \div 4
CharRadix == 2 ^ CharBits
BitsOf(x) == [i \in 1 .. ByteBits * Len(x) |->
                (x[(i - 1) \div ByteBits + 1]
                   \div 2 ^ (ByteBits - 1 - ((i - 1) % ByteBits))) % 2]
Base64Chars(x) ==
  LET n    == (ByteBits * Len(x) + CharBits - 1) \div CharBits
      bits == BitsOf(x) \o Zeros(CharBits)
  IN [k \in 1 .. n |-> FoldLeft(LAMBDA y, c : y * 2 + c, 0,
                         SubSeq(bits, (k - 1) * CharBits + 1, k * CharBits))]
buf_putbase64(b, x) ==
  LET c == Base64Chars(x)
  IN buf_put(b, c \o [i \in 1 .. (-(Len(b.s) + Len(c))) % 4 |-> CharRadix])
-----------------------------------------------------------------------------
(* packetparser: p.pos bytes of buf have been parsed. *)
parser == [pos |-> 0, ok |-> TRUE, out |-> <<>>]

Take(buf, p, n) == IF p.ok /\ n <= MaxNumber /\ p.pos + n <= Len(buf)
                   THEN [pos |-> p.pos + n, ok |-> TRUE,
                         out |-> SubSeq(buf, p.pos + 1, p.pos + n)]
                   ELSE [p EXCEPT !.ok = FALSE]
packetparser_uint8(buf, p)   == Take(buf, p, 1)
packetparser_uint32(buf, p)  == Take(buf, p, NumLen)
packetparser_copy(buf, p, n) == Take(buf, p, n)
packetparser_skip(buf, p, n) == Take(buf, p, n)
packetparser_end(buf, p) == [p EXCEPT !.ok = p.ok /\ p.pos = Len(buf)]

\* uint32 and then as many bytes.
ParseString(buf, p) == LET l == packetparser_uint32(buf, p) IN
  IF l.ok THEN packetparser_skip(buf, l, uint_unpack_big(l.out)) ELSE l

\* The next item of a list from pos on, empty ones skipped; pos = 0 at the end.
RECURSIVE stringparser(_, _)
stringparser(buf, pos) ==
  IF pos >= Len(buf) THEN [pos |-> 0, x |-> <<>>]
  ELSE LET i == Min({j \in pos .. Len(buf) - 1 : buf[j + 1] = Comma}
                    \cup {Len(buf)})
       IN IF i - pos # 0 THEN [pos |-> i + 1, x |-> SubSeq(buf, pos + 1, i)]
          ELSE stringparser(buf, i + 1)

\* sshcrypto_*_select: the first item that is the name of an enabled algorithm;
\* guess is that it was the client's first.  An algorithm is [name, enabled].
Offered(table) == SelectSeq(table, LAMBDA a : a.enabled)
RECURSIVE SelectFrom(_, _, _, _)
SelectFrom(table, buf, pos, guess) ==
  LET s  == stringparser(buf, pos)
      at == {i \in DOMAIN Offered(table) : Offered(table)[i].name = s.x}
  IN IF s.pos = 0 THEN [ok |-> FALSE, name |-> <<>>, guess |-> guess]
     ELSE IF at # {} THEN [ok |-> TRUE, name |-> s.x, guess |-> guess]
     ELSE SelectFrom(table, buf, s.pos, FALSE)
kex_select(table, buf) == SelectFrom(table, buf, 0, TRUE)
Choice(r) == [ok |-> r.ok, name |-> r.name]
key_select(table, buf)    == Choice(SelectFrom(table, buf, 0, TRUE))
cipher_select(table, buf) == Choice(SelectFrom(table, buf, 0, TRUE))

\* sshcrypto_*_put: the length of the list is computed before the list is put.
ListLen(table) == LET o == Offered(table) IN
  FoldLeft(LAMBDA n, a : n + Len(a.name), 0, o) + (IF o = <<>> THEN 0 ELSE Len(o) - 1)
ListText(table) == LET o == Offered(table) IN
  FlattenSeq([i \in DOMAIN o |-> (IF i > 1 THEN <<Comma>> ELSE <<>>) \o o[i].name])
ListPut(b, table) == buf_put(buf_putnum32(b, ListLen(table)), ListText(table))
kex_put(b, table)    == ListPut(b, table)
key_put(b, table)    == ListPut(b, table)
cipher_put(b, table) == ListPut(b, table)

\* A name and a value of fixed size, both as strings, inside one string.
PutNamed(b, x) ==
  buf_putstring(buf_putstring(
    buf_putnum32(b, Len(x) + Len(KeyName) + 2 * NumLen), KeyName), x)
ed25519_putsignature(b, x) == PutNamed(b, x)
ed25519_putsignpk(b, x)    == PutNamed(b, x)
ed25519_putsignpkbase64(b, x) ==
  buf_putbase64(b, uint_pack_big(Len(KeyName)) \o KeyName
                     \o uint_pack_big(Len(x)) \o x)

ParseNamed(buf, size) ==
  LET n == ParseString(buf, parser)
      l == packetparser_uint32(buf, n)
      x == packetparser_copy(buf, l, size)
  IN IF n.ok /\ n.out = KeyName /\ l.ok /\ uint_unpack_big(l.out) = size
     THEN packetparser_end(buf, x) ELSE [parser EXCEPT !.ok = FALSE]
ed25519_parsesignpk(buf)    == ParseNamed(buf, PkBytes)
ed25519_parsesignature(buf) == ParseNamed(buf, SigBytes)
-----------------------------------------------------------------------------
(* The calls. *)
Bytes == 0 .. Radix - 1
Tables == {<<[name |-> a, enabled |-> x], [name |-> b, enabled |-> y]>> :
             a, b \in AlgorithmNames, x, y \in BOOLEAN}

CallNumbers == Idle /\ \E n \in 0 .. Radix ^ NumLen - 1 :
  Call([of |-> "number", in |-> n,
        out |-> <<uint_unpack(uint_pack(n)), uint_unpack_big(uint_pack_big(n))>>])
CallSecret == Idle /\ \E x \in SeqsUpTo(Bytes, MaxBytes), after \in {0, Radix - 1} :
  Call([of |-> "secret", in |-> x, out |-> buf_putsharedsecret(buf_purge, x, after)])
CallBase64 == Idle /\ \E x \in SeqsUpTo(Bytes, MaxBytes) :
  Call([of |-> "base64", in |-> x, out |-> buf_putbase64(buf_purge, x)])
CallSelect == Idle /\ \E table \in Tables, list \in SeqsUpTo({Comma, 2, 3}, MaxBytes + 1) :
  \/ Call([of |-> "guess", in |-> list, table |-> table,
           out |-> kex_select(table, list)])
  \/ Call([of |-> "select", in |-> list, table |-> table,
           out |-> key_select(table, list)])
  \/ Call([of |-> "select", in |-> list, table |-> table,
           out |-> cipher_select(table, list)])
CallPutList == Idle /\ \E table \in Tables :
  \/ Call([of |-> "list", in |-> table, out |-> kex_put(buf_purge, table)])
  \/ Call([of |-> "list", in |-> table, out |-> key_put(buf_purge, table)])
  \/ Call([of |-> "list", in |-> table, out |-> cipher_put(buf_purge, table)])
\* Any message at all.
CallParse == Idle /\ \E x \in SeqsUpTo({0, 1, 2}, 2 * NumLen + Len(KeyName) + SigBytes) :
  \/ Call([of |-> "parsepk", in |-> x, out |-> ed25519_parsesignpk(x)])
  \/ Call([of |-> "parsesig", in |-> x, out |-> ed25519_parsesignature(x)])
CallPutKey == Idle /\ \E x \in [1 .. PkBytes -> Bytes] :
  Call([of |-> "keytext", in |-> x,
        out |-> ed25519_putsignpkbase64(buf_purge, x)])
CallFill == Idle /\ \E m, n, k \in 0 .. BufAlloc :
  Call([of |-> "fill", in |-> <<m, n, k>>,
        out |-> buf_putzerobytes(buf_putpadding(
                  buf_putrandombytes(buf_purge, [i \in 1 .. m |-> 1]), n), k)])

WireNext == \/ CallNumbers \/ CallSecret \/ CallBase64 \/ CallSelect
            \/ CallPutList \/ CallParse \/ CallPutKey \/ CallFill
-----------------------------------------------------------------------------
\* What base64 stands for: the bits without the filling, '=' as nothing.
Decoded(s) ==
  LET cs   == SelectSeq(s, LAMBDA c : c < CharRadix)
      bit(i) == (cs[(i - 1) \div CharBits + 1]
                   \div 2 ^ (CharBits - 1 - ((i - 1) % CharBits))) % 2
  IN [k \in 1 .. (Len(cs) * CharBits) \div ByteBits |->
        FoldLeft(LAMBDA y, i : y * 2 + bit(i), 0,
                 [j \in 1 .. ByteBits |-> (k - 1) * ByteBits + j])]
Items(list) == SelectSeq(Split(list, Comma), LAMBDA i : i # <<>>)
Enabled(table) == {a.name : a \in Range(Offered(table))}

\* What one function puts another one reads back.  A shared secret is a number
\* that is not negative and has no zero byte in front (buf.c:165), base64 has
\* every bit and no more, a list offers the enabled algorithms in their order
\* and the choice is the first of the client's that is enabled
\* (sshcrypto_kex.c:67), a key or signature is read from exactly the bytes that
\* ed25519_putsignpk makes, and no buffer is filled to its last byte.
WireReadsBack ==
  /\ Called("number") => job.out = <<job.in, job.in>>
  /\ Called("secret") =>
       LET v == ParseString(job.out.s, parser) IN
       /\ job.out.ok /\ packetparser_end(job.out.s, v).ok
       /\ uint_unpack_big(v.out) = uint_unpack_big(job.in)
       /\ v.out = <<>> \/ v.out[1] < Radix \div 2
       /\ uint_unpack_big(v.out) # 0 => v.out[1] # 0 \/ v.out[2] >= Radix \div 2
  /\ Called("base64") => /\ job.out.ok /\ Len(job.out.s) % 4 = 0
                         /\ Decoded(job.out.s) = job.in
  /\ Called("guess") \/ Called("select") =>
       LET at == {i \in DOMAIN Items(job.in) :
                    Items(job.in)[i] \in Enabled(job.table)}
       IN /\ job.out.ok = (at # {})
          /\ job.out.ok => job.out.name = Items(job.in)[Min(at)]
          /\ Called("guess") /\ job.out.ok => job.out.guess = (Min(at) = 1)
  /\ Called("list") =>
       LET v == ParseString(job.out.s, parser) IN
       /\ job.out.ok /\ packetparser_end(job.out.s, v).ok
       /\ Items(v.out) = [i \in DOMAIN Offered(job.in) |-> Offered(job.in)[i].name]
  /\ Called("parsepk") =>
       (job.out.ok <=> \E u \in [1 .. PkBytes -> 0 .. 2] :
          uint_pack_big(Len(job.in)) \o job.in = ed25519_putsignpk(buf_purge, u).s)
  /\ Called("parsesig") =>
       (job.out.ok <=> \E u \in [1 .. SigBytes -> 0 .. 2] :
          uint_pack_big(Len(job.in)) \o job.in = ed25519_putsignature(buf_purge, u).s)
  /\ Called("keytext") =>
       LET v == ed25519_parsesignpk(Decoded(job.out.s)) IN v.ok /\ v.out = job.in
  /\ Called("fill") =>
       (job.out.ok <=> job.in[1] + job.in[2] + job.in[3] < BufAlloc)
=============================================================================
