-------------------------------- MODULE Record --------------------------------
(* glo_record.c, glo_aead.c, glo_hkdf.c and glo_ks.c with what they stand on:
   the padding of SHA-2, the key stream of ChaCha20 and Poly1305.  Bytes have
   OctetBits bits, all lengths are scaled down with them; the compression of a
   block and the block of a key stream are any functions. *)
EXTENDS Calls, Bitwise

CONSTANTS OctetBits,
          ShaBlk, ShaField, \* block of the hash, the bytes of the length in it
          ShaLen,           \* SHA_LEN
          StreamBlk,        \* 64, holds the key of Poly1305 too
          IvLen, SeqLen,    \* 12, 8
          Pad0, IPad, OPad, \* 0x80, 0x36, 0x5c
          Compress(_, _),   \* chaining value and block to chaining value
          Keystream(_, _, _), \* key, nonce and counter to a block
          LabelPrefix,      \* "tls13 "
          RMask,            \* the bits of r that are kept
          Lengths           \* lengths of messages

Octet == 2 ^ OctetBits
Nil(n) == [i \in 1 .. n |-> 0]
Message(n) == SubSeq([i \in 1 .. n |-> (5 * i + n) % Octet], 1, n)
BigEndian(x, n)    == SubSeq([i \in 1 .. n |-> (x \div Octet ^ (n - i)) % Octet], 1, n)
LittleEndian(x, n) == Reverse(BigEndian(x, n))
Xored(s, t) == SubSeq([i \in DOMAIN s |-> s[i] ^^ t[i]], 1, Len(s))

\* The whole blocks of the message, then one or two that hold its end, Pad0,
\* zeros and the length in bits.
RECURSIVE Digest(_, _)
Digest(z, m) == IF Len(m) < ShaBlk THEN z
                ELSE Digest(Compress(z, SubSeq(m, 1, ShaBlk)),
                            SubSeq(m, ShaBlk + 1, Len(m)))
PaddedEnd(m) ==
  LET n == Len(m) % ShaBlk
      l == IF n < ShaBlk - ShaField THEN ShaBlk ELSE 2 * ShaBlk
  IN SubSeq(m, Len(m) - n + 1, Len(m)) \o <<Pad0>> \o Nil(l - n - 1 - ShaField)
     \o BigEndian(OctetBits * Len(m), ShaField)
crypto_hash(m) == BigEndian(Digest(Digest(0, m), PaddedEnd(m)), ShaLen)
-----------------------------------------------------------------------------
\* memory: malloc succeeds.
hmac(key, msg, memory) ==
  LET k0   == IF Len(key) > ShaBlk THEN crypto_hash(key) \o Nil(ShaBlk - ShaLen)
              ELSE key \o Nil(ShaBlk - Len(key))
      ipad == [i \in 1 .. ShaBlk |-> k0[i] ^^ IPad]
      opad == [i \in 1 .. ShaBlk |-> k0[i] ^^ OPad]
  IN IF memory THEN crypto_hash(SubSeq(opad, 1, ShaBlk)
                                  \o crypto_hash(SubSeq(ipad, 1, ShaBlk) \o msg))
     ELSE Nil(ShaLen)

hkdf_extract(salt, ikm) == hmac(IF salt = <<>> THEN Nil(ShaLen) ELSE salt, ikm, TRUE)

RECURSIVE ExpandBlocks(_, _, _, _)
ExpandBlocks(prk, info, n, memory) ==
  IF n = 0 THEN <<>>
  ELSE LET w == ExpandBlocks(prk, info, n - 1, memory)
       IN Append(w, hmac(prk, (IF n = 1 THEN <<>> ELSE Last(w)) \o info \o <<n % Octet>>,
                         memory))
hkdf_expand(okmlen, prk, info, memory) ==
  IF okmlen > (Octet - 1) * ShaLen THEN [ok |-> FALSE, out |-> <<>>]
  ELSE [ok |-> TRUE,
        out |-> SubSeq(FlattenSeq(ExpandBlocks(prk, info, (okmlen + ShaLen - 1) \div ShaLen,
                                               memory)), 1, okmlen)]

HkdfLabel(outlen, label, ctx) ==
  BigEndian(outlen, 2) \o <<Len(LabelPrefix) + Len(label)>> \o LabelPrefix \o label
  \o <<Len(ctx)>> \o ctx
hkdf_expand_label(outlen, secret, label, ctx) ==
  IF \/ outlen >= Octet ^ 2
     \/ Len(LabelPrefix) + Len(label) >= Octet \/ Len(ctx) >= Octet
  THEN [ok |-> FALSE, out |-> <<>>]
  ELSE hkdf_expand(outlen, secret, HkdfLabel(outlen, label, ctx), TRUE)

\* The key schedule; labels are sequences of one or two bytes.
Derived == <<1>>  KeyLabel == <<2>>  IvLabel == <<3>>  Finished == <<4, 1>>
early_secret(psk) == hkdf_extract(<<>>, IF psk = <<>> THEN Nil(ShaLen) ELSE psk)
derive_secret(secret, label, transcript) ==
  hkdf_expand_label(ShaLen, secret, label, transcript).out
handshake_secret(early, ecdhe) ==
  hkdf_extract(derive_secret(early, Derived, crypto_hash(<<>>)), ecdhe)
master_secret(hs) ==
  hkdf_extract(derive_secret(hs, Derived, crypto_hash(<<>>)), Nil(ShaLen))
traffic_key_iv(secret) == [key |-> hkdf_expand_label(ShaLen, secret, KeyLabel, <<>>).out,
                           iv  |-> hkdf_expand_label(IvLen, secret, IvLabel, <<>>).out]
finished_key(secret) == hkdf_expand_label(ShaLen, secret, Finished, <<>>).out
-----------------------------------------------------------------------------
\* A block of the key stream after the other, the last one in part.
RECURSIVE chacha20_xor(_, _, _, _)
chacha20_xor(in, key, nonce, counter) ==
  LET n == Min({Len(in), StreamBlk})
  IN IF in = <<>> THEN <<>>
     ELSE Xored(SubSeq(in, 1, n), Keystream(key, nonce, counter))
          \o chacha20_xor(SubSeq(in, n + 1, Len(in)), key, nonce, counter + 1)
\* The stream of the SSH cipher, whose counter always starts at 0.
crypto_stream_xor(in, nonce, key) == chacha20_xor(in, key, nonce, 0)

(* Poly1305: numbers modulo 2^18 - 5 in three limbs of six bits for 2^130 - 5 in
   five of twenty-six, blocks of four bytes of four bits for sixteen of eight. *)
LimbB == 64
Word  == 4096    \* unsigned long, six bits longer than a limb
MacBlk == 4
LimbsOf(n) == <<n % LimbB, (n \div LimbB) % LimbB, n \div LimbB ^ 2>>
RECURSIVE NumberIn(_)
NumberIn(s) == IF s = <<>> THEN 0 ELSE s[1] + Octet * NumberIn(Tail(s))

\* h * r with the factor 5 for what goes over the top, and a partial reduction.
PolyStep(h, r) ==
  LET d0 == h[1] * r[1] + 5 * (h[2] * r[3] + h[3] * r[2])
      d1 == h[1] * r[2] + h[2] * r[1] + 5 * h[3] * r[3] + ((d0 \div LimbB) % Word)
      d2 == h[1] * r[3] + h[2] * r[2] + h[3] * r[1] + ((d1 \div LimbB) % Word)
      h0 == ((d0 % LimbB) + ((d2 \div LimbB) % Word) * 5) % Word
  IN <<h0 % LimbB, ((d1 % LimbB) + (h0 \div LimbB)) % Word, d2 % LimbB>>

\* The sums after each of the first n blocks.
BlockOf(m, n) == LimbsOf(NumberIn(SubSeq(m, (n - 1) * MacBlk + 1, Min({n * MacBlk, Len(m)}))
                                  \o <<1>>))
PolyAdd(h, b) == <<h[1] + b[1], h[2] + b[2], h[3] + b[3]>>
RECURSIVE PolyBlocks(_, _, _)
PolyBlocks(m, n, r) ==
  IF n = 0 THEN <<<<0, 0, 0>>>>
  ELSE LET w == PolyBlocks(m, n - 1, r)
       IN Append(w, PolyStep(PolyAdd(Last(w), BlockOf(m, n)), r))
PolySum(m, r) == Last(PolyBlocks(m, (Len(m) + MacBlk - 1) \div MacBlk, r))

PolyCarried(h) ==
  LET h2 == h[3] + (h[2] \div LimbB)
      h0 == h[1] + (h2 \div LimbB) * 5
  IN <<h0 % LimbB, (h[2] % LimbB) + (h0 \div LimbB), h2 % LimbB>>
PolyReducedMutant(h) == h
PolyReduced(h) ==
  LET r0 == h[1] + 5
      r1 == h[2] + (r0 \div LimbB)
      r2 == h[3] + (r1 \div LimbB) - LimbB
  IN IF r2 < 0 THEN h ELSE <<r0 % LimbB, r1 % LimbB, r2>>

\* The limbs are joined by "or"; the pad is added to 128 bits of them.
poly1305(m, k) ==
  LET r == LimbsOf(NumberIn(SubSeq(k, 1, MacBlk)) & RMask)
      h == PolyReduced(PolyCarried(PolySum(m, r)))
      low == (h[1] | (h[2] * LimbB)) | (h[3] * LimbB ^ 2)
  IN LittleEndian((low + NumberIn(SubSeq(k, MacBlk + 1, 2 * MacBlk))) % (Octet ^ MacBlk),
                  MacBlk)
-----------------------------------------------------------------------------
Aligned(s) == s \o Nil((-Len(s)) % MacBlk)
poly_tag(otk, aad, ct) ==
  poly1305(Aligned(aad) \o Aligned(ct) \o LittleEndian(Len(aad), MacBlk \div 2)
             \o LittleEndian(Len(ct), MacBlk \div 2), otk)
aead_seal(pt, aad, key, nonce) ==
  LET otk == chacha20_xor(Nil(2 * MacBlk), key, nonce, 0)
      ct  == chacha20_xor(pt, key, nonce, 1)
  IN [ct |-> ct, tag |-> poly_tag(otk, aad, ct)]
aead_open(ct, tag, aad, key, nonce) ==
  LET otk == chacha20_xor(Nil(2 * MacBlk), key, nonce, 0)
  IN IF poly_tag(otk, aad, ct) # tag THEN [ok |-> FALSE, pt |-> <<>>]
     ELSE [ok |-> TRUE, pt |-> chacha20_xor(ct, key, nonce, 1)]

\* The sequence number is added without carry to the end of the iv.
build_nonce(iv, seq) ==
  SubSeq(iv, 1, IvLen - SeqLen)
  \o Xored(SubSeq(iv, IvLen - SeqLen + 1, IvLen), BigEndian(seq, SeqLen))

AppData == 7    \* 0x17
HdrLen == 5
Header(length) == <<AppData, 3, 3>> \o BigEndian(length, 2)
\* inner is content, type and, from another implementation, zeros.
Sealed(inner, key, iv, seq) ==
  LET length == Len(inner) + MacBlk
      s == aead_seal(inner, Header(length), key, build_nonce(iv, seq))
  IN IF length >= Octet ^ 2 THEN <<>> ELSE Header(length) \o s.ct \o s.tag
record_seal(content, type, key, iv, seq) == Sealed(Append(content, type), key, iv, seq)

Refused == [ok |-> FALSE, content |-> <<>>, type |-> 0]
record_open(record, key, iv, seq) ==
  LET length == record[4] * Octet + record[5]
      inner  == length - MacBlk
      p == aead_open(SubSeq(record, HdrLen + 1, HdrLen + inner),
                     SubSeq(record, HdrLen + inner + 1, Len(record)),
                     SubSeq(record, 1, HdrLen), key, build_nonce(iv, seq))
      n == Max({0} \cup {i \in DOMAIN p.pt : p.pt[i] # 0})
  IN IF \/ Len(record) < HdrLen + MacBlk
        \/ record[1] # AppData \/ length + HdrLen # Len(record) \/ length < MacBlk
        \/ ~p.ok \/ n = 0
     THEN Refused
     ELSE [ok |-> TRUE, content |-> SubSeq(p.pt, 1, n - 1), type |-> p.pt[n]]
-----------------------------------------------------------------------------
(* The calls. *)
Secret == Message(ShaLen)
Otk(n) == SubSeq([i \in 1 .. 2 * MacBlk |-> (n \div Octet ^ ((i - 1) % MacBlk)) % Octet],
                 1, 2 * MacBlk)
CallHash == Idle /\ \E n \in Lengths :
  Call([of |-> "hash", in |-> Message(n), out |-> PaddedEnd(Message(n))])
CallExpand == Idle /\ \E n \in 0 .. (Octet - 1) * ShaLen + 1, info \in {<<>>, <<1>>, <<1, 2>>},
                 memory \in BOOLEAN :
  Call([of |-> "expand", in |-> n, info |-> info, memory |-> memory,
        out |-> hkdf_expand(n, Secret, info, memory)])
CallLabel == Idle /\ \E n \in {0, 1, ShaLen, Octet ^ 2 - 1, Octet ^ 2},
                label, ctx \in {Message(l) : l \in Lengths} :
  Call([of |-> "label", in |-> <<n, label, ctx>>, info |-> HkdfLabel(n, label, ctx),
        out |-> hkdf_expand_label(n, Secret, label, ctx)])
CallStream == Idle /\ \E n \in Lengths, counter \in 0 .. 2 :
  Call([of |-> "stream", in |-> Message(n), counter |-> counter,
        out |-> IF counter = 0 THEN crypto_stream_xor(Message(n), Message(IvLen), Secret)
                ELSE chacha20_xor(Message(n), Secret, Message(IvLen), counter)])
CallPoly == Idle /\ \E r \in 0 .. 127, n \in Lengths :
  LET k == Otk((509 * r + 1) % (Octet ^ MacBlk))
      m == SubSeq([i \in 1 .. n |-> Octet - 1], 1, n)
  IN Call([of |-> "poly", m |-> m, k |-> k, out |-> poly1305(m, k)])
\* Keys from the schedule; zeros are added by another implementation only.
TrafficKeys == traffic_key_iv(derive_secret(master_secret(handshake_secret(
          early_secret(<<>>), Secret)), Finished, Message(2)))
CallSeal == Idle /\ \E n \in Lengths, type \in {1, AppData}, seq, zeros \in 0 .. 1 :
  Call([of |-> "seal", content |-> Message(n), type |-> type, seq |-> seq,
        out |-> IF zeros = 0 THEN record_seal(Message(n), type, TrafficKeys.key, TrafficKeys.iv, seq)
                ELSE Sealed(Message(n) \o <<type, 0>>, TrafficKeys.key, TrafficKeys.iv, seq)])
Altered(r) == {r, Front(r), Append(r, 0), SubSeq(r, 1, HdrLen)}
              \cup {[r EXCEPT ![i] = (@ + 1) % Octet] : i \in DOMAIN r}
CallOpenRecord == /\ Called("seal")
                  /\ \E r \in Altered(job.out), seq \in 0 .. 1 :
                       job' = [of |-> "unsealed", sent |-> job, in |-> r, seq |-> seq,
                               out |-> record_open(r, TrafficKeys.key, TrafficKeys.iv, seq)]

RecordNext == \/ CallHash \/ CallExpand \/ CallLabel \/ CallStream \/ CallPoly
              \/ CallSeal \/ CallOpenRecord
-----------------------------------------------------------------------------
(* Poly1305 by its definition, and how a label is read. *)
PolyP == LimbB ^ 3 - 5
TimesMod(x, y) == ((((x * (y \div 256)) % PolyP) * 256) + x * (y % 256)) % PolyP
RECURSIVE Horner(_, _, _)
Horner(h, m, r) ==
  LET n == Min({Len(m), MacBlk})
  IN IF m = <<>> THEN h
     ELSE Horner(TimesMod(h + NumberIn(SubSeq(m, 1, n) \o <<1>>), r),
                 SubSeq(m, n + 1, Len(m)), r)
ReadLabel(info) ==
  LET l == Len(LabelPrefix)
      n == info[3]
  IN <<info[1] * Octet + info[2], SubSeq(info, 4 + l, 3 + n),
       SubSeq(info, 5 + n, 4 + n + info[4 + n])>>

\* A record is opened exactly when it is the one that was sealed, as the record
\* of its number, and gives its content and type back, with zeros after it or
\* without (glo_record.c:75); on the way there the hash pads every message
\* to whole blocks from which it can be read, key material has the length that
\* was asked for and its beginning does not depend on it, a label is encoded
\* so that it can be read, a key stream cut anywhere is the same stream, and
\* the limbs of Poly1305 give the polynomial's value.
RecordOpens ==
  /\ Called("hash") =>
       LET n == Len(job.in) % ShaBlk
           l == Len(job.out)
       IN /\ (Len(job.in) - n + l) % ShaBlk = 0 /\ l - n - 1 - ShaField \in 0 .. ShaBlk - 1
          /\ SubSeq(job.out, 1, n) = SubSeq(job.in, Len(job.in) - n + 1, Len(job.in))
          /\ job.out[n + 1] = Pad0 /\ \A i \in n + 2 .. l - ShaField : job.out[i] = 0
          /\ NumberIn(Reverse(SubSeq(job.out, l - ShaField + 1, l)))
               = OctetBits * Len(job.in)
  /\ Called("expand") =>
       /\ job.out.ok <=> job.in <= (Octet - 1) * ShaLen
       /\ job.out.ok => /\ Len(job.out.out) = job.in
                        /\ job.in > 0 => SubSeq(job.out.out, 1, job.in - 1)
                             = hkdf_expand(job.in - 1, Secret, job.info, job.memory).out
  /\ Called("label") => (job.out.ok => /\ ReadLabel(job.info) = job.in
                                       /\ Len(job.out.out) = job.in[1])
  /\ Called("stream") => \A j \in DOMAIN job.in :
       job.out[j] ^^ job.in[j] = Keystream(Secret, Message(IvLen),
         job.counter + ((j - 1) \div StreamBlk))[((j - 1) % StreamBlk) + 1]
  /\ Called("poly") =>
       LET r == NumberIn(SubSeq(job.k, 1, MacBlk)) & RMask
       IN NumberIn(job.out) = (Horner(0, job.m, r)
            + NumberIn(SubSeq(job.k, MacBlk + 1, 2 * MacBlk))) % (Octet ^ MacBlk)
  /\ Called("seal") => Len(job.out) - Len(job.content) - HdrLen - MacBlk \in {1, 2}
  /\ Called("unsealed") =>
       job.out = IF job.in = job.sent.out /\ job.seq = job.sent.seq
                 THEN [ok |-> TRUE, content |-> job.sent.content, type |-> job.sent.type]
                 ELSE Refused
=============================================================================
