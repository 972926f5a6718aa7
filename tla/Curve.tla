-------------------------------- MODULE Curve --------------------------------
(* ge25519.c, sc25519.c, crypto_sign_ed25519.c, crypto_scalarmult_curve25519.c
   and crypto_kem_sntrup761x25519.c over the field of module Field, for a
   smaller curve of the same family: -x^2 + y^2 = 1 + D x^2 y^2 with a base
   point of prime order Order and cofactor 8.  Thirty-two bytes are a number
   below Capacity; SHA-512 is any function Hash. *)
EXTENDS Field

CONSTANTS BasePoint,   \* <<x, y>>
          Order,       \* the prime L of sc25519.c
          WindowBits,  \* bits of the scalar per step, 4
          Hash(_),     \* from sequences of numbers to 0 .. Capacity ^ 2 - 1
          Elements,    \* numbers whose limbs the field is tried with
          Seeds, Scalars, Points, \* numbers below Capacity
          SignedTexts   \* messages

RECURSIVE PowerMod(_, _)
PowerMod(x, n) == IF n = 0 THEN 1
                  ELSE LET y == PowerMod(x, n \div 2)
                       IN (((y * y) % P) * (IF n % 2 = 1 THEN x % P ELSE 1)) % P
Quotient(a, b) == ((a % P) * PowerMod(b % P, P - 2)) % P

D == ToLimbs(Quotient(-(A24 - 1), A24))
D2 == ToLimbs(Quotient(-2 * (A24 - 1), A24))
sqrtm1 == ToLimbs(PowerMod(2, (P - 1) \div 4))
baseq == [x |-> ToLimbs(BasePoint[1]), y |-> ToLimbs(BasePoint[2]), z |-> fe_1,
          t |-> ToLimbs((BasePoint[1] * BasePoint[2]) % P)]
neutral == [x |-> fe_0, y |-> fe_1, z |-> fe_1, t |-> fe_0]

\* The point (e / g, h / f) with its three products, and how both operations
\* come to it.
Completed(e, f, g, h) ==
  [x |-> mul(e, f), y |-> mul(h, g), z |-> mul(g, f), t |-> mul(e, h)]
Added(a, b, c, d) == Completed(sub(b, a), sub(d, c), add(d, c), add(b, a))
Squared(a, b, c, d, s) ==
  Completed(sub(sub(s, a), b), sub(add(d, b), c), add(d, b), sub(d, b))
double(x) == add(x, x)

ge_add(p, q) == Added(mul(sub(p.y, p.x), sub(q.y, q.x)),
                      mul(add(p.x, p.y), add(q.x, q.y)),
                      mul(mul(p.t, q.t), D2), double(mul(p.z, q.z)))
dbl(p) == Squared(sq(p.x), sq(p.y), double(sq(p.z)), neg(sq(p.x)),
                  sq(add(p.x, p.y)))

\* The sign of x is the highest bit of the last byte.
PointBytes(x, y) == tobytes(y) + isnegative(x) * (Capacity \div 2)
Affine(h, z) == PointBytes(mul(h.x, z), mul(h.y, z))
ge_tobytes(h) == Affine(h, inv(h.z))

\* u / v = (y^2 - 1) / (D y^2 + 1) has the root r or sqrtm1 * r, or none.
Candidate(u, v, v3) == mul(mul(pow22523(mul(mul(sq(v3), v), u)), v3), u)
Point(x, y) == [x |-> x, y |-> y, z |-> fe_1, t |-> mul(x, y)]
Signed(x, y, odd) == Point(IF isnegative(x) = odd THEN neg(x) ELSE x, y)
Rooted(r, vrr, u, y, odd) ==
  [ok |-> ~isnonzero(sub(vrr, u)) \/ ~isnonzero(add(vrr, u)),
   at |-> Signed(IF isnonzero(sub(vrr, u)) THEN mul(r, sqrtm1) ELSE r, y, odd)]
Checked(r, u, v, y, odd) == Rooted(r, mul(sq(r), v), u, y, odd)
Solved(u, v, y, odd) == Checked(Candidate(u, v, mul(sq(v), v)), u, v, y, odd)
ge_frombytes_negate(s) ==
  LET y == frombytes(s)
  IN Solved(sub(sq(y), fe_1), add(mul(sq(y), D), fe_1), y, s \div (Capacity \div 2))

\* WindowBits of the scalar at a time from the highest; every entry of the table
\* of multiples is moved under the mask of its index.
WindowSize == 2 ^ WindowBits
RECURSIVE Multiples(_, _)
Multiples(q, n) ==
  IF n = 1 THEN <<neutral, q>>
  ELSE LET t == Multiples(q, n - 1)
       IN Append(t, IF n % 2 = 0 THEN dbl(t[n \div 2 + 1]) ELSE ge_add(t[n], q))
\* The results of the steps: each window doubles WindowBits times and adds.
RECURSIVE Doubled(_, _)
Doubled(w, n) == IF n = 0 THEN w
                 ELSE LET d == Doubled(w, n - 1) IN Append(d, dbl(Last(d)))
RECURSIVE Windows(_, _)
Windows(t, a) ==
  IF a = 0 THEN <<t[1]>>
  ELSE LET w == Doubled(Windows(t, a \div WindowSize), WindowBits)
       IN Append(w, ge_add(Last(w), t[(a % WindowSize) + 1]))
ge_scalarmult(q, a) == Last(Windows(Multiples(q, WindowSize - 1), a))
ge_scalarmult_base(a) == ge_scalarmult(baseq, a)

sc_reduce(s) == s % Order
sc_muladd(a, b, c) == (a * b + c) % Order
-----------------------------------------------------------------------------
\* The lowest three bits are cleared, the highest is cleared and the next set.
Clamp(e) == LET quarter == Capacity \div 4
            IN (e % quarter) - (e % 8) + quarter

sign_keypair(seed) == [seed |-> seed,
  pk |-> ge_tobytes(ge_scalarmult_base(Clamp(Hash(<<seed>>) % Capacity)))]

sign(m, sk) ==
  LET h     == Hash(<<sk.seed>>)
      nonce == sc_reduce(Hash(<<h \div Capacity, m>>))
      r     == ge_tobytes(ge_scalarmult_base(nonce))
      hram  == sc_reduce(Hash(<<r, sk.pk, m>>))
  IN [r |-> r, s |-> sc_muladd(hram, Clamp(h % Capacity), nonce), m |-> m]

sign_open(sm, pk) ==
  LET A == ge_frombytes_negate(pk)
      hram == sc_reduce(Hash(<<sm.r, pk, sm.m>>))
      R == ge_add(ge_scalarmult_base(sm.s), ge_scalarmult(A.at, hram))
  IN sm.s < Capacity \div 8 /\ A.ok /\ ge_tobytes(R) = sm.r
-----------------------------------------------------------------------------
\* The ladder, bit after bit; swap is 1 when the two points are exchanged.
Climbed(x1, da, cb, aa, bb, swap) ==
  [x2 |-> mul(aa, bb),
   z2 |-> mul(sub(aa, bb), add(bb, mul121666(sub(aa, bb)))),
   x3 |-> sq(add(da, cb)), z3 |-> mul(x1, sq(sub(da, cb))), swap |-> swap]
Rung(x1, x2, z2, x3, z3, swap) ==
  Climbed(x1, mul(sub(x3, z3), add(x2, z2)), mul(add(x3, z3), sub(x2, z2)),
          sq(add(x2, z2)), sq(sub(x2, z2)), swap)
Uncrossed(x, z, x1, b) == Rung(x1, x[1], z[1], x[2], z[2], b)
Exchanged(s, x1, b) == Uncrossed(cswap(s.x2, s.x3, (s.swap + b) % 2),
                                cswap(s.z2, s.z3, (s.swap + b) % 2), x1, b)
TopRung == Limbs * LimbBits - 2
RECURSIVE Ladder(_, _, _)
Ladder(e, x1, pos) ==
  IF pos > TopRung
  THEN <<[x2 |-> fe_1, z2 |-> fe_0, x3 |-> x1, z3 |-> fe_1, swap |-> 0]>>
  ELSE LET w == Ladder(e, x1, pos + 1)
       IN Append(w, Exchanged(Last(w), x1, (e \div 2 ^ pos) % 2))

\* The number, and whether it is not zero.
Answer(q) == [ok |-> q # 0, q |-> q]
Top(s) == Answer(tobytes(mul(cswap(s.x2, s.x3, s.swap)[1],
                             inv(cswap(s.z2, s.z3, s.swap)[1]))))
scalarmult(n, p) == Top(Last(Ladder(Clamp(n), frombytes(p), 0)))
basepoint == Quotient(1 + BasePoint[2], 1 - BasePoint[2])
scalarmult_base(n) == scalarmult(n, basepoint)

\* The hybrid key exchange; kem is what sntrup761 returned.  When a part has
\* failed, random bytes take the place of both secrets.
sx_keypair(kem, sk) ==
  LET p == scalarmult_base(sk)
  IN IF kem.ok /\ p.ok THEN [ok |-> TRUE, pk |-> <<kem.pk, p.q>>, sk |-> <<kem.sk, sk>>]
     ELSE [ok |-> FALSE, pk |-> <<0, 0>>, sk |-> <<0, 0>>]
sx_enc(kem, pk, onetimesk, random) ==
  LET p == scalarmult_base(onetimesk)
      k == scalarmult(onetimesk, pk[2])
      ok == kem.ok /\ p.ok /\ k.ok
  IN [ok |-> ok, c |-> <<kem.c, p.q>>, k |-> Hash(IF ok THEN <<kem.k, k.q>> ELSE random)]
sx_dec(kem, c, sk, random) ==
  LET k == scalarmult(sk[2], c[2])
      ok == kem.ok /\ k.ok
  IN [ok |-> ok, k |-> Hash(IF ok THEN <<kem.k, k.q>> ELSE random)]
-----------------------------------------------------------------------------
(* The calls. *)
CallField == Idle /\ \E a, b \in Elements : LET x == ToLimbs(a)  y == ToLimbs(b) IN
  Call([of |-> "field", x |-> a, y |-> b, bytes |-> tobytes(x),
        out |-> <<mul(x, y), sq(x), add(x, y), sub(x, y), neg(x), mul121666(x), inv(x)>>])
CallPoint == Idle /\ \E s \in Points : LET p == ge_frombytes_negate(s) IN
  Call([of |-> "point", in |-> s, out |-> [ok |-> p.ok, s |-> ge_tobytes(p.at)]])
CallMultiple == Idle /\ \E n \in Scalars :
  Call([of |-> "multiple", in |-> n, out |-> ge_tobytes(ge_scalarmult_base(n))])
CallSign == Idle /\ \E seed \in Seeds, m \in SignedTexts : LET sk == sign_keypair(seed) IN
  Call([of |-> "sign", sk |-> sk, out |-> sign(m, sk)])
\* The signature may have been changed on its way.
CallOpen == Called("sign") /\ \E r, s \in 0 .. 1, m \in SignedTexts, top \in 0 .. 2 :
  LET sm == [r |-> (job.out.r + r) % Capacity, m |-> m,
             s |-> (job.out.s + s + top * Order) % Capacity]
  IN job' = [of |-> "open", sk |-> job.sk, in |-> sm, out |-> sign_open(sm, job.sk.pk)]
CallLadder == Idle /\ \E n \in Scalars, m \in Elements :
  Call([of |-> "ladder", n |-> n, m |-> m, out |-> scalarmult(n, m),
        ours |-> scalarmult(n, scalarmult_base(m).q),
        theirs |-> scalarmult(m, scalarmult_base(n).q)])
CallHybrid == Idle /\ \E kem \in [ok : BOOLEAN, pk : {1}, sk : {2}, c : {3}, k : {4}],
                 n \in Seeds, m \in Scalars, low \in BOOLEAN :
  LET key == sx_keypair([kem EXCEPT !.ok = TRUE], n)
      pk  == IF low THEN <<key.pk[1], 0>> ELSE key.pk
      enc == sx_enc(kem, pk, m, <<n, 0>>)
  IN Call([of |-> "hybrid", ok |-> kem.ok /\ ~low, key |-> key, enc |-> enc,
           bad |-> sx_keypair([kem EXCEPT !.ok = FALSE], n),
           dec |-> sx_dec(kem, enc.c, key.sk, <<m, 1>>)])

CurveNext == \/ CallField \/ CallPoint \/ CallMultiple \/ CallSign \/ CallOpen
             \/ CallLadder \/ CallHybrid
-----------------------------------------------------------------------------
(* The curve by its definition: points <<x, y>>, the rational group law. *)
DNumber == Quotient(-(A24 - 1), A24)
Plus(p, q) ==
  LET x == (p[1] * q[2]) % P  y == (p[2] * q[1]) % P
      z == (((x * y) % P) * DNumber) % P
  IN <<Quotient(x + y, 1 + z), Quotient(p[2] * q[2] + p[1] * q[1], 1 - z)>>
RECURSIVE Times(_, _)
Times(n, p) == IF n = 0 THEN <<0, 1>>
               ELSE LET h == Times(n \div 2, Plus(p, p))
                    IN IF n % 2 = 1 THEN Plus(h, p) ELSE h
OnCurve(p) == LET x == (p[1] * p[1]) % P  y == (p[2] * p[2]) % P
              IN (y - x - 1 - DNumber * ((x * y) % P)) % P = 0
Packed(p) == p[2] + (p[1] % 2) * (Capacity \div 2)
Roots(s) == {x \in 0 .. P - 1 : OnCurve(<<x, s % (Capacity \div 2)>>)}
Height(p) == IF p = <<0, 1>> THEN 0 ELSE Quotient(1 + p[2], 1 - p[2])

\* Field operations have the right value and fit their limbs; points are
\* unpacked, negated and multiplied as the group law says; a signature opens
\* exactly when its equation holds and S is short (crypto_sign_ed25519.c:59),
\* so that S + L is accepted too; both sides of a Diffie-Hellman exchange get
\* the same number, zero only for a point of small order; and of the hybrid
\* secret nothing is left when a part has failed.
CurveAgrees ==
  /\ Called("field") =>
       /\ \A i \in 1 .. 7 : \A l \in 1 .. Limbs : job.out[i][l] \in 0 .. LimbSize - 1
       /\ \A i \in 1 .. 7 : NumberOf(job.out[i]) < 2 * P
       /\ LET v(i) == NumberOf(job.out[i]) % P IN
          /\ <<v(1), v(2), v(3)>> = <<(job.x * job.y) % P, (job.x * job.x) % P,
                                      (job.x + job.y) % P>>
          /\ <<v(4), v(5), v(6)>> = <<(job.x - job.y) % P, (-job.x) % P,
                                      (A24 * job.x) % P>>
          /\ (v(7) * (job.x % P)) % P = IF job.x % P = 0 THEN 0 ELSE 1
       /\ job.bytes = job.x % P
  /\ Called("point") =>
       /\ job.out.ok <=> Roots(job.in) # {}
       /\ job.out.ok => \E x \in Roots(job.in) :
            /\ x % 2 = job.in \div (Capacity \div 2) \/ x = 0
            /\ job.out.s = Packed(<<(-x) % P, (job.in % (Capacity \div 2)) % P>>)
  /\ Called("multiple") => job.out = Packed(Times(job.in, BasePoint))
  /\ Called("sign") => sign_open(job.out, job.sk.pk)
  /\ Called("open") =>
       LET a == Clamp(Hash(<<job.sk.seed>>) % Capacity)
           h == sc_reduce(Hash(<<job.in.r, job.sk.pk, job.in.m>>))
       IN job.out <=> /\ job.in.s < Capacity \div 8
                      /\ job.in.r = Packed(Times((job.in.s - h * a) % Order, BasePoint))
  /\ Called("ladder") =>
       /\ job.ours = job.theirs /\ job.ours.ok
       /\ \A x \in Roots(job.m) : (job.m % (Capacity \div 2)) # 1 =>
            scalarmult(job.n, Height(<<x, job.m % (Capacity \div 2)>>)).q
              = Height(Times(Clamp(job.n), <<x, job.m % (Capacity \div 2)>>))
  /\ Called("hybrid") =>
       /\ job.enc.ok = job.ok /\ (job.ok => job.dec.ok /\ job.dec.k = job.enc.k)
       /\ ~job.bad.ok /\ job.bad.pk = <<0, 0>> /\ job.bad.sk = <<0, 0>>
       /\ ~job.ok => job.enc.k # Hash(<<4, scalarmult(job.key.sk[2], job.enc.c[2]).q>>)
=============================================================================
