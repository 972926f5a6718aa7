------------------------------ MODULE KeyChange ------------------------------
(***************************************************************************)
(* What the key exchanges and the login of one connection promise.  A key  *)
(* is <<hash, session>>: the hash of its exchange, which begins with the   *)
(* number of the exchange, and the session it belongs to.  The client      *)
(* changes its sending key before its receiving key, the server both at    *)
(* once; whoever is second takes what the first has taken, and nobody      *)
(* begins before all three keys are the same.                              *)
(***************************************************************************)
EXTENDS Naturals

VARIABLES
  here, up,   \* the client and the server take part
  session,    \* the session as the server names it
  agreed,     \* the session as the client names it
  out, in,    \* the client's keys for sending and for receiving
  srv,        \* the server's keys
  authorised  \* the client is logged in

vars == <<here, up, session, agreed, out, in, srv, authorised>>

Nothing == <<>>

Exchange(k) == IF k = Nothing THEN 0 ELSE k[1][1]
\* k is of the exchange after that of l and of this session.
After(k, l) == Exchange(k) = Exchange(l) + 1 /\ k[2] = session

Init == /\ here = TRUE /\ up = TRUE /\ authorised = FALSE
        /\ session = Nothing /\ agreed = Nothing
        /\ out = Nothing /\ in = Nothing /\ srv = Nothing

\* The first exchange names the session.
Name == /\ up /\ srv = Nothing /\ session = Nothing /\ session' # Nothing
        /\ UNCHANGED <<here, up, agreed, out, in, srv, authorised>>

\* The client is the first to take new keys, and with them the session.
Lead == /\ here /\ session # Nothing
        /\ in = out /\ (up => srv = out)
        /\ After(out', out) /\ agreed' = session
        /\ UNCHANGED <<here, up, session, in, srv, authorised>>

Take == /\ here /\ in # out /\ in' = out
        /\ UNCHANGED <<here, up, session, agreed, out, srv, authorised>>

Follow == /\ up /\ After(srv', srv)
          /\ here => srv' = out
          /\ UNCHANGED <<here, up, session, agreed, out, in, authorised>>

\* Once, under keys that both have taken in both directions.
Authorise == /\ up /\ ~authorised /\ authorised' = TRUE
             /\ srv # Nothing
             /\ here => srv = out /\ srv = in
             /\ UNCHANGED <<here, up, session, agreed, out, in, srv>>

Leave == /\ here' \in {here, FALSE} /\ up' \in {up, FALSE}
         /\ UNCHANGED <<session, agreed, out, in, srv, authorised>>

Next == Name \/ Lead \/ Take \/ Follow \/ Authorise \/ Leave

Spec == Init /\ [][Next]_vars

\* There are never more than two keys in use, of neighbouring exchanges, and
\* all are of the session that both ends name.
Together ==
  /\ agreed # Nothing => agreed = session
  /\ \A k \in {out, in, srv} : k # Nothing => k[2] = session
  /\ authorised => srv # Nothing
  /\ here => out = in \/ Exchange(out) = Exchange(in) + 1
  /\ here /\ up => \/ srv = out
                   \/ /\ Exchange(out) = Exchange(srv) + 1
                      /\ in \in {srv, out}
==============================================================================
