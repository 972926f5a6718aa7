------------------------------ MODULE PosixFlow ------------------------------
(***************************************************************************)
(* PosixSession implements CreditFlow for the output of the child.  What   *)
(* has been sent is what has left the pipes; the client's window is at     *)
(* first Window and then what it has received and given back.              *)
(***************************************************************************)
EXTENDS PosixInvariant

Both(bytes) == bytes["out"] + bytes["err"]

OutSent    == Both(made) - outpipe - errpipe
OutGranted == IF cstate = "open" THEN 0 ELSE Window + Both(got) - owed

ToUser == INSTANCE CreditFlow WITH Room <- Window,
            granted <- OutGranted, known <- OutSent + window,
            sent <- OutSent, taken <- Both(got)

\* channel_read, channel_extendedread and channel_incrementremotewindow: both
\* outputs of the child share one window, in which the client never has more
\* on its way than it has room for, also when the session dies.
OutputFlow == ToUser!Spec

----------------------------------------------------------------------------
(* The credit on its way to the session, and when it begins.               *)

Credit(p) == IF p.kind \in {"open", "adjust"} THEN p.n ELSE 0

\* After from bytes of credit and the packets of q there are to.
Credits(q, from, to) ==
  \E sum \in [1..(Len(q) + 1) -> Nat] :
    /\ sum[1] = from /\ sum[Len(q) + 1] = to
    /\ \A i \in 1..Len(q) : sum[i + 1] = sum[i] + Credit(q[i])

CreditInv ==
  /\ owed <= Both(got)
  /\ cstate = "open" => ~open /\ ~Asked("open")
  /\ ~open => window = 0 /\ ~Asked("adjust")
  /\ ~Over => Credits(fromnet, OutSent + window, OutGranted)
==============================================================================
