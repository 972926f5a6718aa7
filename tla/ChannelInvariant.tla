------------------------- MODULE ChannelInvariant -------------------------
(***************************************************************************)
(* The inductive invariant behind the window and EOF properties of         *)
(* Channel, for a polite client.                                           *)
(*                                                                         *)
(* Each packet carries its sender's totals after it.  A queue is therefore *)
(* a chain that leads from the totals of the receiver to those of the      *)
(* sender: what the receiver has counted, plus what is on its way, is what *)
(* the sender has counted.                                                 *)
(***************************************************************************)
EXTENDS Channel

DataOf(m)   == IF m.type = "DATA" THEN m.n ELSE 0
CreditOf(m) == IF m.type \in {"OPEN", "CONFIRM", "ADJUST"} THEN m.n ELSE 0

\* The totals before the first packet and after packet i of the queue q.
SentAt(q, s, i)    == IF i = 0 THEN s ELSE q[i].sent
GrantedAt(q, g, i) == IF i = 0 THEN g ELSE q[i].granted

Chain(q, s0, s1, g0, g1) ==
  /\ SentAt(q, s0, Len(q)) = s1
  /\ GrantedAt(q, g0, Len(q)) = g1
  /\ \A i \in 1..Len(q) :
       /\ q[i].sent = SentAt(q, s0, i - 1) + DataOf(q[i])
       /\ q[i].granted = GrantedAt(q, g0, i - 1) + CreditOf(q[i])
  /\ \A i \in 0..Len(q) :
       /\ SentAt(q, s0, i) <= s1
       /\ GrantedAt(q, g0, i) <= g1

\* The two directions; the credit of one travels with the data of the other.
ToServerInv == Chain(toServer, rcvd, csent, remotewindow + ssent, cgrant)
ToClientInv == Chain(toClient, crcvd, ssent, cgot, localwindow + rcvd)

\* Until the channel is open there is nothing but requests to open it.
OpenInv ==
  maxpacket = 0 =>
    /\ cstate \in {"start", "opening", "gone"}
    /\ \A i \in 1..Len(toServer) : toServer[i].type = "OPEN"
    /\ toClient = <<>>
    /\ remotewindow = 0 /\ localwindow = 0 /\ rcvd = 0 /\ ssent = 0

NotStuckInv == maxpacket # 0 /\ len0 = 0 => localwindow > Half

Ended == cstate \in {"eof", "closed", "gone"}

EofInv ==
  /\ \A i \in 1..Len(toServer) :
       toServer[i].type = "EOF" => toServer[i].sent = csent /\ Ended
  /\ remoteeof = 1 => rcvd = csent /\ Ended
  /\ pid # NoPid /\ fd0 = "closed" => remoteeof = 1 /\ len0 = 0

\* Every byte accepted is in buf0, in the pipe, or has been read.
ChildInv ==
  /\ rcvd = len0 + inpipe + consumed
  /\ child # "none" => pid # NoPid
  /\ child = "sawEof" => inpipe = 0 /\ fd0 = "closed"

LiveInv == /\ ToServerInv /\ ToClientInv /\ OpenInv /\ NotStuckInv
           /\ EofInv /\ ChildInv
           /\ csent <= cgot

\* What also holds of a session that has died.
SafeInv == /\ why # "nomem"
           /\ localwindow + len0 <= BufSize
           /\ ssent <= cgrant
           /\ cgrant - crcvd <= MaxWindow

\* The windows and the end of input of a session with a polite client.
WindowInv == Polite => SafeInv /\ (Alive => LiveInv)

=============================================================================
