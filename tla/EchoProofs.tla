----------------------------- MODULE EchoProofs ----------------------------
(***************************************************************************)
(* Theorems about EchoPipes: bytes are conserved, and a session and its    *)
(* interpreter block each other only after more than Cap bytes of input    *)
(* and more than Cap bytes of output.                                      *)
(***************************************************************************)
EXTENDS EchoPipes, TLAPS

Inv == TypeOK /\ Conservation

LEMMA InitInv == Init => Inv
  BY SizeAssumption, ReplyAssumption, BoundAssumption
  DEF Init, Inv, TypeOK, Conservation, Unwritten

LEMMA SessionKeepsInv == ASSUME Inv, Session PROVE Inv'
<1> USE SizeAssumption DEF Inv, TypeOK, Conservation, Unwritten, sessionVars,
                           childVars, clientVars
<1>1. CASE Poll          BY <1>1 DEF Poll, Ready
<1>2. CASE WriteSome     BY <1>2 DEF WriteSome
<1>3. CASE WriteReturns  BY <1>3 DEF WriteReturns, Written
<1>4. CASE ReadFromChild
  <2>1. CASE "fromchild" \in watch
    <3>1. PICK n \in 1..ReadLimit : /\ outp' = outp - n
                                    /\ remotewindow' = remotewindow - n
                                    /\ cgot' = cgot + n
      BY <1>4, <2>1 DEF ReadFromChild
    <3>2. n \in Nat /\ n <= outp /\ n <= remotewindow
      BY <3>1 DEF ReadLimit
    <3> QED BY <1>4, <3>1, <3>2 DEF ReadFromChild
  <2>2. CASE "fromchild" \notin watch  BY <1>4, <2>2 DEF ReadFromChild
  <2> QED BY <2>1, <2>2
<1>5. CASE Receive
  <2>1. CASE "recv" \in watch
    <3>1. PICK d \in 0..data, c \in 0..credit :
            /\ data' = data - d /\ len0' = len0 + d
            /\ credit' = credit - c /\ remotewindow' = remotewindow + c
      BY <1>5, <2>1 DEF Receive
    <3> QED BY <1>5, <3>1 DEF Receive
  <2>2. CASE "recv" \notin watch  BY <1>5, <2>2 DEF Receive
  <2> QED BY <2>1, <2>2
<1> QED BY <1>1, <1>2, <1>3, <1>4, <1>5 DEF Session

LEMMA OthersKeepInv ==
  ASSUME Inv, Interpreter \/ ClientData \/ ClientGrant PROVE Inv'
<1> USE SizeAssumption, BoundAssumption
    DEF Inv, TypeOK, Conservation, Unwritten, sessionVars, childVars,
        clientVars
<1>1. CASE Eat          BY <1>1, ReplyAssumption DEF Eat
<1>2. CASE PrintSome    BY <1>2 DEF PrintSome
<1>3. CASE ClientData   BY <1>3 DEF ClientData
<1>4. CASE ClientGrant  BY <1>4 DEF ClientGrant
<1> QED BY <1>1, <1>2, <1>3, <1>4 DEF Interpreter

\* Conservation of the bytes in both directions, whatever the sizes of the
\* sockets, the replies and the windows (channel_write, channel_read).
THEOREM BytesConserved == Spec => []Conservation
<1>1. Inv /\ [Next]_vars => Inv'
  <2>1. ASSUME Inv, UNCHANGED vars PROVE Inv'
    BY <2>1 DEF Inv, TypeOK, Conservation, Unwritten, vars, sessionVars,
                childVars, clientVars
  <2> QED BY <2>1, SessionKeepsInv, OthersKeepInv DEF Next
<1>2. Inv => Conservation
  BY DEF Inv
<1> QED BY InitInv, <1>1, <1>2, PTL DEF Spec

\* A session is never blocked for good in channel_write when either the
\* input or the output of its child fits one socket pair.
THEOREM ShortNeverBlocks ==
  ASSUME MaxInput <= Cap \/ MaxPrinted <= Cap
  PROVE  Spec => []NotMutuallyBlocked
<1>1. Inv /\ [Next]_vars => Inv'
  <2>1. ASSUME Inv, UNCHANGED vars PROVE Inv'
    BY <2>1 DEF Inv, TypeOK, Conservation, Unwritten, vars, sessionVars,
                childVars, clientVars
  <2> QED BY <2>1, SessionKeepsInv, OthersKeepInv DEF Next
<1>2. Inv => NotMutuallyBlocked
  BY SizeAssumption, BoundAssumption
  DEF Inv, TypeOK, Conservation, Unwritten, NotMutuallyBlocked, WriteBlocked,
      SendBlocked
<1> QED BY InitInv, <1>1, <1>2, PTL DEF Spec

============================================================================
