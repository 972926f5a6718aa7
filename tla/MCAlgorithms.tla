---------------------------- MODULE MCAlgorithms ----------------------------
(* The constants of module Algorithms, as small as the algorithms allow. *)
EXTENDS Algorithms

ProcessEnviron == [s \in Names |-> IF s = "PATH" THEN 2 ELSE Unset]

\* Every pattern of zero and other groups, and mapped IPv4 addresses.
MCAddresses ==
  {[i \in 1 .. 16 |-> IF i % 2 = 0 THEN g[i \div 2]
                      ELSE IF g[(i + 1) \div 2] = 2 THEN 255 ELSE 0] :
     g \in [1 .. 8 -> {0, 18}]}
  \cup {MappedPrefix \o <<a, 10, c, d>> : a \in {0, 9, 255}, c \in {0, 100},
                                         d \in {99, 255}}

MCNames == {<<2>>, <<3, 2>>}
MCKeyName == <<0, 1>>

Poly(a, b, c, d, e5) == [i \in 0 .. 4 |-> <<a, b, c, d, e5>>[i + 1]]
MCGs == {Poly(1, 0, -1, 1, 0), Poly(0, 1, 1, 0, 1), Poly(-1, 1, 0, 0, 1)}
MCFs == {Poly(3, 14, 5, 9, 2), Poly(0, 0, 0, 0, 0), Poly(15, 1, 8, 4, 7),
         Poly(2, 6, 10, 12, 4)}
MCMessages == {Poly(1, 1, 0, -1, 0), Poly(0, 0, -1, -1, -1), Poly(1, 0, 1, 0, 1),
               Poly(-1, 0, 0, 1, 1)}

\* p = 509, a curve of 8 * 67 points.
MCBasePoint == <<504, 41>>
MCElements == {0, 1, 31, 32, 508, P, P + 1, P + 2, P + 3, 2 * P - 1, 777}
MCPoints == 0 .. Capacity - 1
MCScalars == {0, 7, 66, 67, 511, 1023, 300}

Mix(z, b) == ((z % 9973) * 211 + 17
              + SumOf([i \in DOMAIN b |-> (b[i] + 3) * (31 * i * i + 7 * i + 1)], Len(b)))
             % 30000001
MCHash(s) == Mix(17, s) % (Capacity * Capacity)
MCKeystream(k, n, c) ==
  SubSeq([i \in 1 .. StreamBlk |-> (Mix(c * StreamBlk + i, k \o n) \div 64) % Octet],
         1, StreamBlk)
MCPrefix == <<9, 9>>
MCLengths == {0, 1, 3, 4, 5, 7, 8, 9, 13, 14, 17}

MCTurns == <<4, 3, 2, 1>>
MCHashTurns ==
  [sha256 |-> [S0 |-> <<1, 3, 6>>, S1 |-> <<2, 3, 7>>, s0 |-> <<2, 5, 1>>, s1 |-> <<4, 5, 3>>],
   sha512 |-> [S0 |-> <<4, 5, 6>>, S1 |-> <<2, 3, 5>>, s0 |-> <<1, 3, 2>>, s1 |-> <<2, 7, 1>>]]

\* Options that leave something to agree upon and those that do not.
MCWords == {<<>>, <<"S">>, <<"P", "x", "?">>, <<"v", "x">>, <<"q", "?">>, <<"O", "s", "p">>}
=============================================================================
