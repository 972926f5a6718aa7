-------------------------------- MODULE Field --------------------------------
(* fe.c and fe25519.c: the integers modulo p = Capacity / 2 - Fold19 in limbs of
   LimbBits bits, sums of products in words of WordBits bits.  The code has
   eight limbs of 32 bits, words of 64 bits and p = 2^255 - 19.  Elements are
   sequences of limbs, the lowest first, and need not be below p. *)
EXTENDS Calls

CONSTANTS Limbs, LimbBits, WordBits,
          Fold19,  \* 19: 2^255 is 19 modulo p
          A24      \* 121666, of the curve

LimbSize == 2 ^ LimbBits
Capacity == LimbSize ^ Limbs
P == Capacity \div 2 - Fold19

ToLimbs(n)  == SubSeq([i \in 1 .. Limbs |-> (n \div LimbSize ^ (i - 1)) % LimbSize], 1, Limbs)
RECURSIVE NumberOf(_)
NumberOf(x) == IF x = <<>> THEN 0 ELSE x[1] + LimbSize * NumberOf(Tail(x))
RECURSIVE SumOf(_, _)
SumOf(f, n) == IF n = 0 THEN 0 ELSE f[n] + SumOf(f, n - 1)
fe_0 == ToLimbs(0)
fe_1 == ToLimbs(1)

\* A pass over the limbs with a carry; the last limb keeps less than top.
RECURSIVE Carry(_, _, _)
Carry(t, u, top) ==
  IF t = <<>> THEN <<u>>
  ELSE LET v == (u + t[1]) % 2 ^ WordBits
           b == IF Len(t) = 1 THEN top ELSE LimbSize
       IN <<v % b>> \o Carry(Tail(t), v \div b, top)

\* The second pass starts with 19 times what the first one carried out.
Reduced(t) == LET s == Carry(t, 0, LimbSize \div 2)
              IN SubSeq(Carry(SubSeq(s, 1, Limbs), Fold19 * Last(s), LimbSize), 1, Limbs)

\* The product of two limbs goes to two places, which are not carried yet.
Low(a, b)  == (a * b) % LimbSize
High(a, b) == (a * b) \div LimbSize
At(k) == {i \in 1 .. Limbs : k - i + 1 \in 1 .. Limbs}
fe_mul_(a, b) ==
  [k \in 1 .. 2 * Limbs |->
     SumOf([i \in 1 .. Limbs |->
              (IF i \in At(k) THEN Low(a[i], b[k - i + 1]) ELSE 0)
              + (IF i \in At(k - 1) THEN High(a[i], b[k - i]) ELSE 0)], Limbs)]
\* The square takes each pair of different limbs once, and twice its product.
Twice(i, j, n) == IF i < j THEN 2 * n ELSE IF i = j THEN n ELSE 0
fe_sq_(a) ==
  [k \in 1 .. 2 * Limbs |->
     SumOf([i \in 1 .. Limbs |->
              (IF i \in At(k) THEN Twice(i, k - i + 1, Low(a[i], a[k - i + 1])) ELSE 0)
              + (IF i \in At(k - 1) THEN Twice(i, k - i, High(a[i], a[k - i])) ELSE 0)],
           Limbs)]

reducebig(t) == Reduced([i \in 1 .. Limbs |-> t[i] + 2 * Fold19 * t[i + Limbs]])
mul(a, b) == reducebig(fe_mul_(a, b))
sq(a) == reducebig(fe_sq_(a))
mul121666(f) == Reduced([i \in 1 .. Limbs |-> A24 * f[i]])
add(x, y) == Reduced([i \in 1 .. Limbs |-> x[i] + y[i]])

\* 3 p in limbs that are each larger than a limb of y.
p3 == [i \in 1 .. Limbs |-> IF i = 1 THEN 3 * LimbSize - 3 * Fold19
                            ELSE IF i < Limbs THEN 3 * LimbSize - 3
                            ELSE 3 * (LimbSize \div 2) - 3]
sub(x, y) == Reduced([i \in 1 .. Limbs |-> p3[i] - y[i] + x[i]])
neg(x) == sub(fe_0, x)

\* The addition chains for p - 2 and (p - 5) / 8 are the powers they end in.
RECURSIVE Powers(_, _)
Powers(z, n) ==
  IF n = 1 THEN <<z>>
  ELSE LET w == Powers(z, n \div 2)
       IN Append(w, IF n % 2 = 0 THEN sq(Last(w)) ELSE mul(sq(Last(w)), z))
Raised(z, n) == Last(Powers(z, n))
inv(z) == Raised(z, P - 2)
pow22523(z) == Raised(z, (P - 5) \div 8)

\* p is subtracted once; a number of 32 bytes has its highest bit left out.
reducesmall(x) == IF NumberOf(x) >= P THEN ToLimbs(NumberOf(x) - P) ELSE x
tobytes(x) == NumberOf(reducesmall(x))
frombytes(n) == ToLimbs(n % (Capacity \div 2))
isnonzero(f) == tobytes(f) # 0
isnegative(f) == tobytes(f) % 2
cswap(f, g, b) == IF b = 1 THEN <<g, f>> ELSE <<f, g>>
=============================================================================
