----------------------------- MODULE CreditFlow -----------------------------
(***************************************************************************)
(* What a windowed byte stream promises, in one direction: the receiver    *)
(* has room for Room bytes and grants credit, the sender learns of it      *)
(* later and sends no more than it has learnt of.  All four variables      *)
(* count bytes since the beginning.                                        *)
(***************************************************************************)
EXTENDS Integers, TLAPS

CONSTANT Room      \* bytes the receiver can hold

VARIABLES granted, \* credit the receiver has given
          known,   \* credit the sender knows of
          sent,    \* bytes the sender has sent
          taken    \* bytes that have left the receiver's buffer

vars == <<granted, known, sent, taken>>

Init == granted = 0 /\ known = 0 /\ sent = 0 /\ taken = 0

\* The receiver takes bytes out and gives credit for free room only.
Release == /\ taken' \in Nat /\ taken <= taken' /\ taken' <= sent
           /\ granted' \in Nat /\ granted <= granted'
           /\ granted' <= taken' + Room
           /\ UNCHANGED <<known, sent>>

Learn == /\ known' \in Nat /\ known <= known' /\ known' <= granted
         /\ UNCHANGED <<granted, sent, taken>>

Transmit == /\ sent' \in Nat /\ sent <= sent' /\ sent' <= known
            /\ UNCHANGED <<granted, known, taken>>

Next == Release \/ Learn \/ Transmit

Spec == Init /\ [][Next]_vars

Ordered == /\ taken \in Nat /\ sent \in Int /\ known \in Int /\ granted \in Int
           /\ taken <= sent /\ sent <= known /\ known <= granted
           /\ granted <= taken + Room

\* What is on its way or waiting always fits the receiver's buffer.
NoOverrun == sent - taken <= Room

(* Whatever implements this flow never has more bytes outstanding than the *)
(* receiver has room for: channel_put of port_channel.c never meets its    *)
(* bug_nomem, nor the client a packet beyond its window.                   *)
THEOREM FlowSafe == ASSUME Room \in Nat PROVE Spec => [](Ordered /\ NoOverrun)
<1>1. Init => Ordered BY DEF Init, Ordered
<1>2. Ordered /\ [Next]_vars => Ordered'
  <2> SUFFICES ASSUME Ordered, [Next]_vars PROVE Ordered'
    OBVIOUS
  <2> USE DEF Ordered
  <2>1. CASE Release
    <3>1. taken' \in Nat /\ taken' <= sent' BY <2>1 DEF Release
    <3>2. /\ sent' \in Int /\ known' \in Int
          /\ sent' <= known' /\ known' <= granted'
      BY <2>1 DEF Release
    <3>3. granted' \in Int BY <2>1 DEF Release
    <3>4. granted' <= taken' + Room BY <2>1 DEF Release
    <3> QED BY <3>1, <3>2, <3>3, <3>4
  <2>2. CASE Learn BY <2>2 DEF Learn
  <2>3. CASE Transmit BY <2>3 DEF Transmit
  <2>4. CASE UNCHANGED vars BY <2>4 DEF vars
  <2> QED BY <2>1, <2>2, <2>3, <2>4 DEF Next
<1>3. Ordered => NoOverrun BY DEF Ordered, NoOverrun
<1> QED BY <1>1, <1>2, <1>3, PTL DEF Spec

=============================================================================
