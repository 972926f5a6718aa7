--------------------------------- MODULE Kem ---------------------------------
(* crypto_kem_sntrup761.c, Streamlined NTRU Prime, with parameters small enough
   to enumerate: the same algorithms for another p, q and w, bytes of KByte
   values and the bound KLimit in place of 2^14.  Branch-free masks are written
   as the choices they make.  SHA-512 is a function without collisions: its
   result is its argument. *)
EXTENDS Calls, Bitwise

CONSTANTS KP, KQ, KW, \* p = 1 mod 4, q = 1 mod 6 prime, q >= 16 w + 1
          KByte,      \* 256
          KLimit,     \* 16384
          KWord,      \* bits of an unsigned integer, 32
          KeyGs,      \* the random polynomials keys are made from
          KeyFs,      \* the random lists of words for the short polynomials
          Messages,   \* the short polynomials that are encapsulated
          SortBits    \* bits of the words that are sorted, 32

Half == 2 ^ (KWord - 1)
Step(x, m) == (x * (Half \div m)) \div Half

\* uint32_divmod_uint14: two quotient digits from the inverse of m, and one
\* correction that is taken back when it makes the rest negative.
Corrected(q, r, m) == IF r < m THEN [q |-> q, r |-> r] ELSE [q |-> q + 1, r |-> r - m]
Second(q, r, m) == Corrected(q + Step(r, m), r - Step(r, m) * m, m)
divmod(x, m) == Second(Step(x, m), x - Step(x, m) * m, m)
\* int32_divmod_uint14: x and 2^31 are both divided as unsigned numbers.
Shifted(u, z, m) == IF u.r < z.r THEN [q |-> u.q - z.q - 1, r |-> u.r - z.r + m]
                    ELSE [q |-> u.q - z.q, r |-> u.r - z.r]
idivmod(x, m) == Shifted(divmod(Half + x, m), divmod(Half, m), m)
uint32_mod_uint14(x, m) == divmod(x, m).r
int32_div_uint14(x, m) == idivmod(x, m).q
int32_mod_uint14(x, m) == idivmod(x, m).r

\* Masks from the sign bits of wrapped numbers; int16 has half of the bits.
Short16 == 2 ^ (KWord \div 2)
int16_nonzero_mask(x) == -(((-(x % Short16)) % (2 * Half)) \div Half)
int16_negative_mask(x) == -((x % Short16) \div (Short16 \div 2))
-----------------------------------------------------------------------------
(* Numbers below M[i], two at a time, with bytes taken out of a pair while it
   is not below KLimit.  Sequences start at 1. *)
CeilByte(m) == (m + KByte - 1) \div KByte
RECURSIVE Spill(_, _)
Spill(r, m) == IF m < KLimit THEN [out |-> <<>>, r |-> r, m |-> m]
               ELSE LET s == Spill(r \div KByte, CeilByte(m))
                    IN [s EXCEPT !.out = <<r % KByte>> \o @]
RECURSIVE LastBytes(_, _)
LastBytes(r, m) == IF m <= 1 THEN <<>>
                   ELSE <<r % KByte>> \o LastBytes(r \div KByte, CeilByte(m))

Odd(S) == IF Len(S) % 2 = 1 THEN <<S[Len(S)]>> ELSE <<>>
RECURSIVE Encode(_, _), EncodePairs(_, _, _)
Encode(R, M) ==
  IF Len(R) = 1 THEN LastBytes(R[1], M[1])
  ELSE EncodePairs([i \in 1 .. Len(R) \div 2 |->
                      Spill(R[2 * i - 1] + R[2 * i] * M[2 * i - 1],
                            M[2 * i - 1] * M[2 * i])], R, M)
EncodePairs(s, R, M) ==
  FlattenSeq([i \in DOMAIN s |-> s[i].out])
  \o Encode([i \in DOMAIN s |-> s[i].r] \o Odd(R), [i \in DOMAIN s |-> s[i].m] \o Odd(M))

\* The bytes a pair has, and the modulus that is left.
Bottom(m) == IF m > KByte * (KLimit - 1) THEN 2 ELSE IF m >= KLimit THEN 1 ELSE 0
RECURSIVE TotalOf(_, _)
TotalOf(f, n) == IF n = 0 THEN 0 ELSE f[n] + TotalOf(f, n - 1)
LeftOf(m) == CASE Bottom(m) = 0 -> m
               [] Bottom(m) = 1 -> CeilByte(m)
               [] Bottom(m) = 2 -> CeilByte(CeilByte(m))
LowOf(S, from, bytes) == TotalOf([i \in 1 .. bytes |-> S[from + i] * KByte ^ (i - 1)], bytes)
Rests(d, m) == <<d.r, uint32_mod_uint14(d.q, m)>>
\* bytes says how many bytes each pair has, rest is what is decoded above it.
DecodePairs(S, M, bytes, rest) ==
  FlattenSeq([i \in DOMAIN bytes |->
    Rests(divmod(LowOf(S, TotalOf(bytes, i - 1), bytes[i]) + KByte ^ bytes[i] * rest[i],
                 M[2 * i - 1]), M[2 * i])])
  \o (IF Len(M) % 2 = 1 THEN <<rest[Len(rest)]>> ELSE <<>>)
RECURSIVE Decode(_, _), DecodeAll(_, _, _)
Decode(S, M) ==
  IF Len(M) = 1
  THEN <<IF M[1] = 1 THEN 0
         ELSE IF M[1] <= KByte THEN uint32_mod_uint14(S[1], M[1])
         ELSE uint32_mod_uint14(S[1] + KByte * S[2], M[1])>>
  ELSE DecodeAll(S, M, [i \in 1 .. Len(M) \div 2 |-> Bottom(M[2 * i - 1] * M[2 * i])])
DecodeAll(S, M, bytes) ==
  DecodePairs(S, M, bytes,
    Decode(SubSeq(S, TotalOf(bytes, Len(bytes)) + 1, Len(S)),
           [i \in DOMAIN bytes |-> LeftOf(M[2 * i - 1] * M[2 * i])] \o Odd(M)))
-----------------------------------------------------------------------------
(* Polynomials of degree below KP over F3, {-1, 0, 1}, and over Fq, -Q12 .. Q12. *)
Q12 == (KQ - 1) \div 2
Coefs == 0 .. KP - 1
Freeze(m, x) == int32_mod_uint14(x + (m - 1) \div 2, m) - (m - 1) \div 2
F3_freeze(x) == Freeze(3, x)
Fq_freeze(x) == Freeze(KQ, x)

RECURSIVE FqPowers(_)
FqPowers(w) == IF Len(w) = KQ - 2 THEN w
               ELSE FqPowers(Append(w, Fq_freeze(Head(w) * Last(w))))
Fq_recip(a) == Last(FqPowers(<<a>>))

\* The sum of f[j] * g[i - j], reduced after each addition.
RECURSIVE Convolve(_, _, _, _, _, _)
Convolve(m, f, g, i, j, result) ==
  IF j > i \/ j >= KP THEN result
  ELSE Convolve(m, f, g, i, j + 1, Freeze(m, result + f[j] * g[i - j]))
\* x^p = x + 1 from the highest coefficient down.
AddedAt(m, f, i, x) == [f EXCEPT ![i] = Freeze(m, @ + x)]
RECURSIVE Fold(_, _, _)
Fold(m, fg, i) ==
  IF i < KP THEN [k \in Coefs |-> fg[k]]
  ELSE Fold(m, AddedAt(m, AddedAt(m, fg, i - KP, fg[i]), i - KP + 1, fg[i]), i - 1)
Product(m, f, g) ==
  Fold(m, [i \in 0 .. 2 * KP - 2 |->
             Convolve(m, f, g, i, IF i < KP THEN 0 ELSE i - KP + 1, 0)],
       2 * KP - 2)
R3_mult(f, g)       == Product(3, f, g)
Rq_mult_small(f, g) == Product(KQ, f, g)
Rq_mult3(f) == [i \in Coefs |-> Fq_freeze(3 * f[i])]
R3_fromRq(r) == [i \in Coefs |-> F3_freeze(r[i])]
Round(a) == [i \in Coefs |-> a[i] - F3_freeze(a[i])]
Weight(r) == Cardinality({i \in Coefs : r[i] # 0})
Weightw_mask(r) == int16_nonzero_mask(Weight(r) - KW)

\* The division steps of Bernstein and Yang: f is x^p - x - 1 with its
\* coefficients reversed, g the polynomial reversed.
Long == 0 .. KP
RecipStart(in, one) ==
  [f |-> [i \in Long |-> IF i = 0 THEN 1 ELSE IF i >= KP - 1 THEN -1 ELSE 0],
   g |-> [i \in Long |-> IF i = KP THEN 0 ELSE in[KP - 1 - i]],
   v |-> [i \in Long |-> 0], r |-> [i \in Long |-> IF i = 0 THEN one ELSE 0],
   delta |-> 1]
\* v is shifted up and, when delta is positive and g[0] is not zero, f and g
\* and v and r are exchanged.
Up(v) == [i \in Long |-> IF i = 0 THEN 0 ELSE v[i - 1]]
Swapped(s) ==
  IF int16_negative_mask(-s.delta) = -1 /\ int16_nonzero_mask(s.g[0]) = -1
  THEN [f |-> s.g, g |-> s.f, v |-> s.r, r |-> Up(s.v), delta |-> 1 - s.delta]
  ELSE [s EXCEPT !.v = Up(@), !.delta = @ + 1]
Down(g) == [i \in Long |-> IF i = KP THEN 0 ELSE g[i + 1]]

Combined(m, s, a, b) ==  \* g and r become a g + b f and a r + b v
  [s EXCEPT !.g = Down([i \in Long |-> Freeze(m, a * @[i] + b * s.f[i])]),
            !.r = [i \in Long |-> Freeze(m, a * @[i] + b * s.v[i])]]
R3_step(s, sign) == Combined(3, Swapped(s), 1, sign)
R3_next(s) == R3_step(s, -(s.g[0] * s.f[0]))
Rq_step(t) == Combined(KQ, t, t.f[0], -t.g[0])
\* The states the loops go through.
RECURSIVE R3_steps(_), Rq_steps(_)
R3_steps(w) == IF Len(w) = 2 * KP THEN Last(w) ELSE R3_steps(Append(w, R3_next(Last(w))))
Rq_steps(w) == IF Len(w) = 2 * KP THEN Last(w)
               ELSE Rq_steps(Append(w, Rq_step(Swapped(Last(w)))))

Inverse3(s) == [ok |-> s.delta = 0, out |-> [i \in Coefs |-> s.f[0] * s.v[KP - 1 - i]]]
InverseQ(s, scale) ==
  [ok |-> s.delta = 0, out |-> [i \in Coefs |-> Fq_freeze(scale * s.v[KP - 1 - i])]]
WithScale(s) == InverseQ(s, Fq_recip(s.f[0]))
R3_recip(in) == Inverse3(R3_steps(<<RecipStart(in, 1)>>))
\* 1 / (3 in)
Rq_recip3(in) == WithScale(Rq_steps(<<RecipStart(in, Fq_recip(3))>>))
-----------------------------------------------------------------------------
(* crypto_sort_uint32: a sorting network of branch-free exchanges. *)
TopBit == 2 ^ (SortBits - 1)
\* c ^= xy & (c ^ yi ^ 0x80000000) makes the sign of a wrapped difference right.
Borrow(d, x, y) == d ^^ ((x ^^ y) & ((d ^^ y) ^^ TopBit)) >= TopBit
minmax(x, y) == IF Borrow((y - x) % (2 * TopBit), x, y) THEN <<y, x>> ELSE <<x, y>>
Placed(x, i, j, m) == [x EXCEPT ![i] = m[1], ![j] = m[2]]
minmaxAt(x, i, j) == Placed(x, i, j, minmax(x[i], x[j]))
RECURSIVE SortTop(_, _)
SortTop(n, top) == IF top < n - top THEN SortTop(n, 2 * top) ELSE top
RECURSIVE Halves(_)
Halves(top) == IF top = 0 THEN <<>> ELSE <<top>> \o Halves(top \div 2)
\* The pairs at distance pp, then those between halves, qq - pp apart.
Unpaired(pp, i) == (i \div pp) % 2 = 0
Pairs(n, pp, qq) ==
  LET i == SelectSeq([k \in 1 .. n - qq |-> k - 1], LAMBDA x : Unpaired(pp, x))
  IN [k \in DOMAIN i |-> <<IF qq = pp THEN i[k] ELSE i[k] + pp, i[k] + qq>>]
Network(n, h) ==
  FlattenSeq([a \in DOMAIN h |-> Pairs(n, h[a], h[a])
                \o FlattenSeq([b \in 1 .. a - 1 |-> Pairs(n, h[a], h[b])])])
RECURSIVE Exchanges(_, _)
Exchanges(w, net) ==
  IF Len(w) > Len(net) THEN w
  ELSE Exchanges(Append(w, minmaxAt(Last(w), net[Len(w)][1], net[Len(w)][2])), net)
Sorted(x, net) == Last(Exchanges(<<x>>, net))
crypto_sort(x, n) == IF n < 2 THEN x ELSE Sorted(x, Network(n, Halves(SortTop(n, 1))))

\* KW words are made even, the others 1 modulo 4; sorted, their low bits are a
\* random short polynomial.
Tagged(in) == [i \in Coefs |-> IF i < KW THEN (in[i] \div 2) * 2 ELSE (in[i] \div 4) * 4 + 1]
LowBits(S) == [i \in Coefs |-> (S[i] % 4) - 1]
Short_fromlist(in) == LowBits(crypto_sort(Tagged(in), KP))
\* Four random bytes; a third of their words, without two bits, for each of the
\* coefficients -1, 0 and 1.
urandom32(c) == c[1] + c[2] * KByte + c[3] * KByte ^ 2 + c[4] * KByte ^ 3
Small_random(u) == [i \in Coefs |-> (((u[i] % (Half \div 2)) * 3) \div (Half \div 2)) - 1]
Short_random(u) == Short_fromlist([i \in Coefs |-> u[i] % (2 * TopBit)])
-----------------------------------------------------------------------------
(* Keys, encryption and encapsulation. *)

\* KeyGen tries g until it is invertible; h and (f, ginv).
KeyGen(g, f) == [h |-> Rq_mult_small(Rq_recip3(f).out, g),
                 f |-> f, ginv |-> R3_recip(g).out]
Encrypt(r, h) == Round(Rq_mult_small(h, r))
\* When the weight is wrong the result is a fixed short polynomial.
ShortOr(ev) == IF Weightw_mask(ev) = 0 THEN ev ELSE [i \in Coefs |-> IF i < KW THEN 1 ELSE 0]
Decrypt(c, f, ginv) == ShortOr(R3_mult(R3_fromRq(Rq_mult3(Rq_mult_small(c, f))), ginv))

\* Four coefficients to a byte, the last one alone.
Small_encode(f) ==
  [b \in 1 .. KP \div 4 + 1 |->
     IF b > KP \div 4 THEN f[KP - 1] + 1
     ELSE LET i == 4 * (b - 1)
          IN f[i] + 1 + 4 * (f[i + 1] + 1) + 16 * (f[i + 2] + 1) + 64 * (f[i + 3] + 1)]
Small_decode(s) == [i \in Coefs |-> ((s[i \div 4 + 1] \div 4 ^ (i % 4)) % 4) - 1]

All(m) == [i \in 1 .. KP |-> m]
Rq_encode(r) == Encode([i \in 1 .. KP |-> r[i - 1] + Q12], All(KQ))
Centred(R, factor) == [i \in Coefs |-> R[i + 1] * factor - Q12]
Rq_decode(s) == Centred(Decode(s, All(KQ)), 1)
\* (x * 10923) >> 15 is x / 3 for the multiples of 3 that Round returns.
Rounded_encode(r) ==
  Encode([i \in 1 .. KP |-> ((r[i - 1] + Q12) * 10923) \div 2 ^ 15],
         All((KQ + 2) \div 3))
Rounded_decode(s) == Centred(Decode(s, All((KQ + 2) \div 3)), 3)

PackedKeys(k) == [pk |-> Rq_encode(k.h), f |-> Small_encode(k.f), v |-> Small_encode(k.ginv)]
ZKeyGen(g, f) == PackedKeys(KeyGen(g, f))
ZEncrypt(r, pk) == Rounded_encode(Encrypt(r, Rq_decode(pk)))
ZDecrypt(c, sk) == Decrypt(Rounded_decode(c), Small_decode(sk.f), Small_decode(sk.v))

Hash_prefix(b, in) == <<b, in>>
HashConfirm(r, cache) == Hash_prefix(2, <<Hash_prefix(3, r), cache>>)
HashSession(b, y, c) == Hash_prefix(b, <<Hash_prefix(3, y), c>>)

WithRho(z, rho) == [pk |-> z.pk, f |-> z.f, v |-> z.v, rho |-> Small_encode(rho),
                    cache |-> Hash_prefix(4, z.pk)]
KEM_KeyGen(g, f, rho) == WithRho(ZKeyGen(g, f), rho)
Hide(r, pk, cache) == [r_enc |-> Small_encode(r), c |-> ZEncrypt(r, pk),
                       confirm |-> HashConfirm(Small_encode(r), cache)]
Sent(h) == <<h.c, h.confirm>>
WithSession(h) == [c |-> Sent(h), k |-> HashSession(1, h.r_enc, Sent(h))]
Encap(r, pk) == WithSession(Hide(r, pk, Hash_prefix(4, pk)))
\* The ciphertext is made again; if it is another one the key is made from rho.
SessionKeyUnchecked(h, c, sk) == HashSession(1, h.r_enc, c)
SessionKey(h, c, sk) == IF Sent(h) = c THEN HashSession(1, h.r_enc, c)
                    ELSE HashSession(0, sk.rho, c)
Decap(c, sk) == SessionKey(Hide(ZDecrypt(c[1], sk), sk.pk, sk.cache), c, sk)
-----------------------------------------------------------------------------
(* The calls: a division, a sort, a key pair, what is encapsulated for it, and
   what the owner makes of the ciphertext, possibly changed on its way. *)
Smalls == [Coefs -> {-1, 0, 1}]

CallDivide == Idle /\ \E x \in 0 .. 20, m \in 2 .. KLimit - 1 :
  Call([of |-> "divide", in |-> <<x * 3203, m>>, out |-> divmod(x * 3203, m)])
CallDivideSigned == Idle /\ \E x \in -9 .. 9, m \in {2, 3, KQ, KLimit - 1} :
  Call([of |-> "signed", in |-> <<x * 3203, m>>,
        q |-> int32_div_uint14(x * 3203, m), r |-> int32_mod_uint14(x * 3203, m)])
CallMask == Idle /\ \E x \in -(Short16 \div 2) .. Short16 \div 2 - 1 :
  Call([of |-> "mask", in |-> x, nonzero |-> int16_nonzero_mask(x),
        negative |-> int16_negative_mask(x)])
CallRandom == Idle /\ \E c \in [1 .. 4 -> {0, 5, 10, KByte - 1}] :
  LET u == [i \in Coefs |-> urandom32([j \in 1 .. 4 |-> c[((i + j) % 4) + 1]])]
  IN Call([of |-> "random", u |-> u, small |-> Small_random(u), short |-> Short_random(u)])
CallSort == Idle /\ \E in \in [Coefs -> {0, TopBit - 1, TopBit, 2 * TopBit - 1}] :
  Call([of |-> "sort", in |-> in, out |-> crypto_sort(in, KP)])
CallExchange == Idle /\ \E x, y \in 0 .. 2 * TopBit - 1 :
  Call([of |-> "minmax", in |-> <<x, y>>, out |-> minmax(x, y)])
CallKeypair == Idle /\ \E g \in KeyGs, in \in KeyFs :
  /\ R3_recip(g).ok
  /\ Call([of |-> "keypair", g |-> g,
           sk |-> KEM_KeyGen(g, Short_random(in), g)])
CallEncap == Called("keypair") /\ \E r \in Messages :
  job' = [of |-> "encap", sk |-> job.sk, r |-> r, out |-> Encap(r, job.sk.pk)]
CallDecap == Called("encap") /\ \E altered \in {"no", "byte", "confirm"} :
  LET c == job.out.c
      d == CASE altered = "no" -> c
             [] altered = "byte" -> <<[c[1] EXCEPT ![1] = (@ + 1) % KByte], c[2]>>
             [] altered = "confirm" ->
                  <<c[1], HashConfirm(Small_encode(job.r), Hash_prefix(4, <<>>))>>
  IN job' = [of |-> "decap", k |-> job.out.k, sk |-> job.sk, c |-> d,
                altered |-> altered, out |-> Decap(d, job.sk)]

KemNext == \/ CallDivide \/ CallDivideSigned \/ CallMask \/ CallRandom \/ CallSort
           \/ CallExchange \/ CallKeypair \/ CallEncap \/ CallDecap
-----------------------------------------------------------------------------
One(i) == IF i = 0 THEN 1 ELSE 0

\* The owner of the key gets the key that was encapsulated, and for a
\* ciphertext that was changed a key that depends on its secret (Decap,
\* crypto_kem_sntrup761.c:1144); on the way there the quotient and rest are
\* exact, the masks are those of the sign, the network sorts, every short
\* polynomial has weight w, a third of the words is behind each coefficient of
\* a small one, the inverses are inverses and public key and ciphertext are
\* decoded to what was encoded.
KemAgrees ==
  /\ Called("divide") => /\ job.out.q = job.in[1] \div job.in[2]
                         /\ job.out.r = job.in[1] % job.in[2]
  /\ Called("signed") => job.r \in 0 .. job.in[2] - 1 /\ job.in[1] = job.q * job.in[2] + job.r
  /\ Called("mask") => /\ job.nonzero = IF job.in = 0 THEN 0 ELSE -1
                       /\ job.negative = IF job.in < 0 THEN -1 ELSE 0
  /\ Called("random") =>
       /\ Weight(job.short) = KW /\ job.short \in Smalls
       /\ \A i \in Coefs : job.small[i] + 1
            = Cardinality({k \in {1, 2} : 3 * (job.u[i] % (Half \div 2)) >= k * (Half \div 2)})
  /\ Called("minmax") => job.out = IF job.in[1] <= job.in[2] THEN job.in
                                   ELSE <<job.in[2], job.in[1]>>
  /\ Called("sort") =>
       /\ \A i \in 1 .. KP - 1 : job.out[i - 1] <= job.out[i]
       /\ \A x \in 0 .. 2 * TopBit - 1 : Cardinality({i \in Coefs : job.in[i] = x})
                               = Cardinality({i \in Coefs : job.out[i] = x})
  /\ Called("keypair") =>
       LET f == Small_decode(job.sk.f)
           h == Rq_decode(job.sk.pk)
       IN /\ Weight(f) = KW /\ f \in Smalls
          /\ R3_mult(job.g, Small_decode(job.sk.v)) = [i \in Coefs |-> One(i)]
          /\ Rq_mult_small(Rq_mult3(h), f) = job.g
          /\ job.sk.pk = Rq_encode(h)
  /\ Called("encap") =>
       Rounded_decode(job.out.c[1]) = Encrypt(job.r, Rq_decode(job.sk.pk))
  /\ Called("decap") =>
       job.out = IF job.altered = "no" THEN job.k
                 ELSE HashSession(0, job.sk.rho, job.c)
=============================================================================
