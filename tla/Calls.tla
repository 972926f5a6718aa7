-------------------------------- MODULE Calls --------------------------------
(* One call of one function: job holds its arguments and what it returned. *)
EXTENDS Integers, Sequences, SequencesExt, FiniteSetsExt

VARIABLES job

None == [of |-> "none"]
Idle == job = None
Call(r) == job' = r
Called(f) == job.of = f

\* The parts of s between the characters c.
Split(s, c) ==
  LET ends   == {i \in DOMAIN s : s[i] = c} \cup {0, Len(s) + 1}
      End(k) == CHOOSE i \in ends : Cardinality({j \in ends : j < i}) = k
  IN [k \in 1 .. Cardinality(ends) - 1 |-> SubSeq(s, End(k - 1) + 1, End(k) - 1)]

SeqsUpTo(S, n) == UNION {[1 .. k -> S] : k \in 0 .. n}
==============================================================================
