--------------------------- MODULE ChannelProofs ---------------------------
(***************************************************************************)
(* Proofs about Channel for every value of its constants: first types, the *)
(* buffer and the death of a session, for any client; then the window and  *)
(* EOF properties with a polite client, from the inductive invariant       *)
(* WindowInv, and from these that Channel implements CreditFlow in both    *)
(* directions.                                                             *)
(***************************************************************************)
EXTENDS ChannelFlow, TLAPS

USE BufAssumption, LimitAssumption, SlotAssumption, ClientAssumption,
    ModeAssumption, BoundAssumption DEF NoPid, DummyPid

LEMMA HalfFacts == /\ Half \in Nat /\ Half < BufSize /\ Half + Half <= BufSize
  BY DEF Half

LEMMA AppendFacts ==
  ASSUME NEW S, NEW q \in Seq(S), NEW m \in S
  PROVE  /\ Append(q, m) \in Seq(S)
         /\ Len(q) \in Nat
         /\ Len(Append(q, m)) = Len(q) + 1
         /\ \A i \in 1..Len(q) : Append(q, m)[i] = q[i]
         /\ Append(q, m)[Len(q) + 1] = m
  OBVIOUS

LEMMA TailFacts ==
  ASSUME NEW S, NEW q \in Seq(S), Len(q) > 0
  PROVE  /\ Tail(q) \in Seq(S)
         /\ Len(q) \in Nat
         /\ Len(Tail(q)) = Len(q) - 1
         /\ \A i \in 1..(Len(q) - 1) : Tail(q)[i] = q[i + 1]
         /\ Head(q) = q[1] /\ Head(q) \in S
  OBVIOUS

(* No packet names a window larger than a crypto_uint32 holds. *)
WindowsFit ==
  \A i \in 1..Len(toServer) :
    toServer[i].type \in {"OPEN", "ADJUST"} => toServer[i].n <= MaxWindow

TypeInv == TypeOK /\ BufferSafe /\ WindowsFit

(* The parts of TypeInv, by who changes them. *)
SessType == /\ pc \in Phases \cup {"dead"} /\ why \in Deaths
            /\ watch \in SUBSET {"tochild", "fromchild", "send", "recv"}
ChanType == /\ maxpacket \in Nat /\ pid \in {NoPid, DummyPid}
            /\ fd0 \in {"closed", "open"} /\ fd1 \in {"closed", "open"}
            /\ remoteeof \in {0, 1} /\ len0 \in Nat
            /\ localwindow \in 0..MaxWindow /\ remotewindow \in 0..MaxWindow
            /\ eofsent \in {0, 1} /\ closercvd \in {0, 1}
            /\ rcvd \in Nat /\ ssent \in Nat
InType == /\ toServer \in Seq(Message(ClientTypes))
          /\ inbuf \in 0..Len(toServer)
OutType == /\ toClient \in Seq(Message(ServerTypes))
           /\ outbuf \in 0..Len(toClient)
ClientType == /\ cstate \in {"start", "opening", "open", "running", "eof",
                             "closed", "gone"}
              /\ opens \in Nat /\ others \in Nat
              /\ csent \in Nat /\ cgot \in Nat /\ crcvd \in Nat
              /\ cgrant \in Nat
ChildType == /\ child \in {"none", "shell", "exec", "left", "sawEof", "closed"}
             /\ inpipe \in Nat /\ outpipe \in Nat /\ consumed \in Nat
             /\ printed \in Nat

LEMMA TypeParts ==
  TypeInv <=> /\ SessType /\ ChanType /\ InType /\ OutType /\ ClientType
              /\ ChildType /\ BufferSafe /\ WindowsFit
<1>1. ASSUME TypeOK
      PROVE  SessType /\ ChanType /\ InType /\ OutType /\ ClientType /\ ChildType
  <2>1. SessType /\ InType /\ OutType
    BY <1>1 DEF TypeOK, SessType, InType, OutType
  <2>2. ChanType BY <1>1 DEF TypeOK, ChanType
  <2>3. ClientType BY <1>1 DEF TypeOK, ClientType
  <2>4. ChildType BY <1>1 DEF TypeOK, ChildType
  <2> QED BY <2>1, <2>2, <2>3, <2>4
<1>2. ASSUME SessType, ChanType, InType, OutType, ClientType, ChildType
      PROVE  TypeOK
  BY <1>2 DEF TypeOK, SessType, ChanType, InType, OutType, ClientType, ChildType
<1> QED BY <1>1, <1>2, Zenon DEF TypeInv

LEMMA TypePartsNext ==
  ASSUME SessType', ChanType', InType', OutType', ClientType', ChildType',
         BufferSafe', WindowsFit'
  PROVE  TypeInv'
  BY TypeParts, PTL

LEMMA DieType ==
  ASSUME TypeInv, NEW r \in Deaths, Die(r), UNCHANGED clientVars,
         UNCHANGED <<inpipe, outpipe, consumed, printed, child>>
  PROVE  TypeInv'
<1> USE TypeParts DEF Die, flagVars, netVars, totalVars, clientVars
<1>1. SessType' BY DEF SessType
<1>2. ChanType' BY SMTT(30) DEF ChanType
<1>3. InType' /\ OutType' BY DEF InType, OutType
<1>4. ClientType' /\ ChildType' BY DEF ClientType, ChildType
<1>5. BufferSafe' /\ WindowsFit' BY DEF BufferSafe, WindowsFit
<1> QED BY <1>1, <1>2, <1>3, <1>4, <1>5, TypePartsNext

(* packet_put keeps sendbuf well typed. *)
LEMMA ReplyType ==
  ASSUME OutType, NEW t \in ServerTypes, NEW n \in Nat, Reply(t, n),
         ssent' \in Nat, localwindow' + rcvd' \in Nat
  PROVE  OutType'
<1> DEFINE m == [type |-> t, n |-> n, sent |-> ssent',
                 granted |-> localwindow' + rcvd']
<1>1. m \in Message(ServerTypes) BY DEF Message
<1>2. toClient' = Append(toClient, m) /\ outbuf' = outbuf + 1 BY DEF Reply
<1> HIDE DEF m
<1> QED BY <1>1, <1>2, AppendFacts DEF OutType

LEMMA TakeType ==
  ASSUME InType, WindowsFit, inbuf > 0, toServer' = Tail(toServer),
         inbuf' = inbuf - 1
  PROVE  InType' /\ WindowsFit'
<1>1. toServer \in Seq(Message(ClientTypes)) /\ Len(toServer) > 0 BY DEF InType
<1>2. InType' BY <1>1, TailFacts DEF InType
<1>3. WindowsFit' BY <1>1, TailFacts DEF WindowsFit
<1> QED BY <1>2, <1>3

LEMMA SendType ==
  ASSUME InType, WindowsFit, NEW t \in ClientTypes, NEW n \in Nat, Send(t, n),
         inbuf' = inbuf, csent' \in Nat, cgrant' \in Nat,
         t \in {"OPEN", "ADJUST"} => n <= MaxWindow
  PROVE  InType' /\ WindowsFit'
<1> DEFINE m == [type |-> t, n |-> n, sent |-> csent', granted |-> cgrant']
<1>1. m \in Message(ClientTypes) BY DEF Message
<1>2. toServer' = Append(toServer, m) BY DEF Send
<1>3. m.type = t /\ m.n = n OBVIOUS
<1> HIDE DEF m
<1>4. InType' BY <1>1, <1>2, AppendFacts DEF InType
<1>5. WindowsFit' BY <1>1, <1>2, <1>3, AppendFacts DEF WindowsFit, InType
<1> QED BY <1>4, <1>5

LEMMA TypeInit == Init => TypeInv
  BY DEF Init, TypeInv, TypeOK, BufferSafe, WindowsFit, Phases, Deaths

LEMMA PhaseAfterType ==
  \A p, w : PhaseAfter(p, w) \in Phases
  BY DEF PhaseAfter, Phases

(* The session's steps that wait, move bytes, or talk to the child. *)
LEMMA PollType == TypeInv /\ (Poll \/ PollTimeout) => TypeInv'
<1> SUFFICES ASSUME TypeInv, Poll \/ PollTimeout PROVE TypeInv'
  OBVIOUS
<1> USE TypeParts DEF chanVars, flagVars, netVars, totalVars, clientVars,
        childVars
<1>1. SessType' BY PhaseAfterType DEF SessType, Poll, PollTimeout, Ready, Phases
<1>2. ChanType' BY DEF ChanType, Poll, PollTimeout
<1>3. InType' /\ OutType' BY DEF InType, OutType, Poll, PollTimeout
<1>4. ClientType' /\ ChildType' BY DEF ClientType, ChildType, Poll, PollTimeout
<1>5. BufferSafe' /\ WindowsFit'
  BY DEF BufferSafe, WindowsFit, Poll, PollTimeout
<1> QED BY <1>1, <1>2, <1>3, <1>4, <1>5, TypePartsNext

LEMMA AdjustType ==
  ASSUME ChanType, OutType, NEW n \in Nat, rcvd' = rcvd, ssent' = ssent,
         n <= BufSize, SendWindowAdjust(n, localwindow)
  PROVE  OutType' /\ localwindow' \in 0..MaxWindow
<1>1. CASE n > Half \/ localwindow > Half
  BY <1>1 DEF SendWindowAdjust, NoReply, ChanType, OutType
<1>2. CASE ~(n > Half \/ localwindow > Half)
  <2> DEFINE plus == Word(BufSize - n - localwindow)
  <2>1. plus = BufSize - n - localwindow /\ plus \in Nat /\ plus <= BufSize
    BY <1>2, HalfFacts DEF Word, ChanType
  <2>2. localwindow' = Word(localwindow + plus) /\ Reply("ADJUST", plus)
    BY <1>2 DEF SendWindowAdjust
  <2>3. localwindow' \in 0..MaxWindow
    BY <2>1, <2>2 DEF Word, ChanType
  <2> HIDE DEF plus
  <2>4. OutType'
    BY <2>1, <2>2, <2>3, ReplyType DEF ChanType, ServerTypes
  <2> QED BY <2>3, <2>4
<1> QED BY <1>1, <1>2

LEMMA WriteToChildType == TypeInv /\ WriteToChild => TypeInv'
<1> SUFFICES ASSUME TypeInv, WriteToChild PROVE TypeInv'
  OBVIOUS
<1>1. CASE ChildGone /\ Die("write") /\ inpipe' = inpipe
  BY <1>1, DieType DEF WriteToChild, Deaths
<1>2. ASSUME NEW w \in 1..len0,
             len0' = len0 - w, inpipe' = inpipe + w,
             fd0' = FdAfter(remoteeof, len0'), rcvd' = rcvd, ssent' = ssent,
             SendWindowAdjust(len0', localwindow), Continue,
             UNCHANGED <<maxpacket, pid, fd1, remoteeof, remotewindow,
                         flagVars, toServer, inbuf>>,
             UNCHANGED <<clientVars, child, outpipe, consumed, printed>>
      PROVE  TypeInv'
  <2> USE TypeParts DEF flagVars, clientVars
  <2>1. SessType' BY <1>2, PhaseAfterType DEF SessType, Continue
  <2>2. len0' \in Nat /\ len0' <= BufSize
    BY <1>2 DEF ChanType, BufferSafe
  <2>3. OutType' /\ localwindow' \in 0..MaxWindow
    BY <1>2, <2>2, AdjustType
  <2>4. ChanType' BY <1>2, <2>2, <2>3 DEF ChanType, FdAfter
  <2>5. InType' /\ ClientType' BY <1>2 DEF InType, ClientType
  <2>8. ChildType' BY <1>2 DEF ChildType, ChanType
  <2>6. BufferSafe' BY <1>2, <2>2 DEF BufferSafe, ChanType, FdAfter
  <2>7. WindowsFit' BY <1>2 DEF WindowsFit
  <2> QED BY <2>1, <2>3, <2>4, <2>5, <2>6, <2>7, <2>8, TypePartsNext
<1> QED BY <1>1, <1>2 DEF WriteToChild

LEMMA ReadFromChildType == TypeInv /\ ReadFromChild => TypeInv'
<1> SUFFICES ASSUME TypeInv, ReadFromChild PROVE TypeInv'
  OBVIOUS
<1>1. ASSUME NEW r \in Deaths, Die(r), outpipe' = outpipe
      PROVE  TypeInv'
  BY <1>1, DieType DEF ReadFromChild
<1>2. CASE Continue
           /\ UNCHANGED <<chanVars, flagVars, netVars, totalVars, outpipe>>
  <2> USE <1>2, TypeParts DEF chanVars, flagVars, netVars, totalVars,
          clientVars, ReadFromChild
  <2>1. SessType' BY PhaseAfterType DEF SessType, Continue
  <2>2. ChanType' BY DEF ChanType
  <2>3. InType' /\ OutType' BY DEF InType, OutType
  <2>4. ClientType' BY DEF ClientType
  <2>5. ChildType' BY DEF ChildType
  <2>6. BufferSafe' /\ WindowsFit' BY DEF BufferSafe, WindowsFit
  <2> QED BY <2>1, <2>2, <2>3, <2>4, <2>5, <2>6, TypePartsNext
<1>3. ASSUME NEW r \in ReadSizes, Continue,
             remotewindow' = remotewindow - r, ssent' = ssent + r,
             rcvd' = rcvd, outpipe' = outpipe - r, localwindow' = localwindow,
             Reply("DATA", r),
             UNCHANGED <<maxpacket, pid, fd0, fd1, remoteeof, len0, flagVars,
                         toServer, inbuf>>,
             UNCHANGED <<clientVars, child, inpipe, consumed, printed>>
      PROVE  TypeInv'
  <2> USE TypeParts DEF flagVars, clientVars
  <2>1. r \in Nat \ {0} /\ r <= remotewindow /\ r <= outpipe
    BY DEF ReadSizes
  <2>2. SessType' BY <1>3, PhaseAfterType DEF SessType, Continue
  <2>3. ChanType' BY <1>3, <2>1 DEF ChanType
  <2>4. OutType' BY <1>3, <2>1, ReplyType DEF ChanType, ServerTypes
  <2>5. InType' /\ ClientType' BY <1>3 DEF InType, ClientType
  <2>6. ChildType' BY <1>3, <2>1 DEF ChildType
  <2>7. BufferSafe' /\ WindowsFit' BY <1>3 DEF BufferSafe, WindowsFit
  <2> QED BY <2>2, <2>3, <2>4, <2>5, <2>6, <2>7, TypePartsNext
<1> QED BY <1>1, <1>2, <1>3 DEF ReadFromChild, Deaths

LEMMA NetType == TypeInv /\ (SendToNet \/ RecvFromNet) => TypeInv'
<1> SUFFICES ASSUME TypeInv, SendToNet \/ RecvFromNet PROVE TypeInv'
  OBVIOUS
<1>1. CASE Die("net")
  BY <1>1, DieType DEF SendToNet, RecvFromNet, Deaths, childVars
<1>2. ASSUME ~Die("net") PROVE TypeInv'
  <2> USE <1>2, TypeParts DEF chanVars, flagVars, totalVars, clientVars,
          childVars
  <2>1. SessType'
    BY PhaseAfterType DEF SessType, SendToNet, RecvFromNet, Continue
  <2>2. ChanType' BY DEF ChanType, SendToNet, RecvFromNet
  <2>3. InType' BY DEF InType, SendToNet, RecvFromNet
  <2>4. OutType' BY DEF OutType, SendToNet, RecvFromNet
  <2>5. ClientType' /\ ChildType'
    BY DEF ClientType, ChildType, SendToNet, RecvFromNet
  <2>6. BufferSafe' /\ WindowsFit'
    BY DEF BufferSafe, WindowsFit, SendToNet, RecvFromNet
  <2> QED BY <2>1, <2>2, <2>3, <2>4, <2>5, <2>6, TypePartsNext
<1> QED BY <1>1, <1>2

(* The packet handlers. *)
LEMMA PacketFacts ==
  ASSUME TypeInv, inbuf > 0
  PROVE  /\ Packet \in Message(ClientTypes) /\ Packet = toServer[1]
         /\ Packet.n \in Nat /\ Packet.sent \in Nat
         /\ Packet.granted \in Nat
         /\ Packet.type \in {"OPEN", "ADJUST"} => Packet.n <= MaxWindow
<1>1. toServer \in Seq(Message(ClientTypes)) /\ Len(toServer) > 0
  BY TypeParts DEF InType
<1>2. Packet \in Message(ClientTypes) /\ Packet = toServer[1]
  BY <1>1, TailFacts DEF Packet
<1>3. Packet.n \in Nat /\ Packet.sent \in Nat /\ Packet.granted \in Nat
  BY <1>2 DEF Message
<1>4. 1 \in 1..Len(toServer) BY <1>1
<1> QED BY <1>2, <1>3, <1>4, TypeParts DEF WindowsFit

LEMMA DieProcessingType ==
  ASSUME TypeInv, NEW r \in Deaths, DieProcessing(r)
  PROVE  TypeInv'
  BY DieType DEF DieProcessing, childVars

LEMMA ProcOpenType == TypeInv /\ ProcOpen => TypeInv'
<1> SUFFICES ASSUME TypeInv, ProcOpen PROVE TypeInv'
  OBVIOUS
<1>1. ASSUME NEW r \in Deaths, DieProcessing(r) PROVE TypeInv'
  BY <1>1, DieProcessingType
<1>2. ASSUME NEW size \in MaxPackets,
             maxpacket' = (IF size > PacketLimit THEN PacketLimit ELSE size),
             remotewindow' = Packet.n, localwindow' = BufSize, rcvd' = rcvd,
             ssent' = ssent, Reply("CONFIRM", BufSize),
             UNCHANGED <<pid, fd0, fd1, remoteeof, len0, flagVars>>, Done
      PROVE  TypeInv'
  <2> USE TypeParts DEF flagVars, clientVars, childVars, sessVars
  <2>1. inbuf > 0 /\ Packet.type = "OPEN" BY DEF ProcOpen, Take
  <2>2. SessType' /\ ClientType' /\ ChildType'
    BY <1>2 DEF SessType, ClientType, ChildType, Done
  <2>3. ChanType' BY <1>2, <2>1, PacketFacts DEF ChanType
  <2>4. OutType' BY <1>2, ReplyType DEF ChanType, ServerTypes
  <2>5. InType' /\ WindowsFit' BY <1>2, <2>1, TakeType DEF Done
  <2>6. BufferSafe' BY <1>2 DEF BufferSafe
  <2> QED BY <2>2, <2>3, <2>4, <2>5, <2>6, TypePartsNext
<1> QED BY <1>1, <1>2 DEF ProcOpen, Deaths

LEMMA ProcExecType == TypeInv /\ ProcExec => TypeInv'
<1> SUFFICES ASSUME TypeInv, ProcExec PROVE TypeInv'
  OBVIOUS
<1>1. ASSUME NEW r \in Deaths, DieProcessing(r) PROVE TypeInv'
  BY <1>1, DieProcessingType
<1>2. ASSUME ~DieProcessing("exec"), ~DieProcessing("proto") PROVE TypeInv'
  <2> USE <1>2, TypeParts DEF ProcExec, flagVars, totalVars, clientVars,
          sessVars
  <2>1. inbuf > 0 BY DEF Take
  <2>2. SessType' /\ ClientType' BY DEF SessType, ClientType
  <2>3. ChildType' BY DEF ChildType
  <2>4. ChanType' BY DEF ChanType
  <2>5. OutType' BY ReplyType DEF ChanType, ServerTypes
  <2>6. InType' /\ WindowsFit' BY <2>1, TakeType
  <2>7. BufferSafe' BY DEF BufferSafe
  <2> QED BY <2>2, <2>3, <2>4, <2>5, <2>6, <2>7, TypePartsNext
<1> QED BY <1>1, <1>2 DEF Deaths

LEMMA ProcOtherType == TypeInv /\ ProcOther => TypeInv'
<1> SUFFICES ASSUME TypeInv, ProcOther PROVE TypeInv'
  OBVIOUS
<1> USE TypeParts DEF ProcOther, chanVars, flagVars, totalVars, clientVars,
        childVars, sessVars, Done
<1>1. inbuf > 0 BY DEF Take
<1>2. SessType' /\ ClientType' /\ ChildType'
  BY DEF SessType, ClientType, ChildType
<1>3. ChanType' BY DEF ChanType
<1>4. OutType'
  <2>1. CASE NoReply BY <2>1 DEF NoReply, OutType
  <2>2. CASE Reply("REPLY", 0)
    BY <2>2, ReplyType DEF ChanType, ServerTypes
  <2> QED BY <2>1, <2>2
<1>5. InType' /\ WindowsFit' BY <1>1, TakeType
<1>6. BufferSafe' BY DEF BufferSafe
<1> QED BY <1>2, <1>3, <1>4, <1>5, <1>6, TypePartsNext

LEMMA ProcIgnoreType == TypeInv /\ (ProcIgnore \/ ProcDone) => TypeInv'
<1> SUFFICES ASSUME TypeInv, ProcIgnore \/ ProcDone PROVE TypeInv'
  OBVIOUS
<1> USE TypeParts DEF ProcIgnore, ProcDone, chanVars, flagVars, totalVars,
        netVars, clientVars, childVars
<1>1. SessType' BY DEF SessType, Phases
<1>2. ClientType' /\ ChildType' BY DEF ClientType, ChildType
<1>3. ChanType' BY DEF ChanType
<1>4. OutType' BY DEF OutType
<1>5. InType' /\ WindowsFit'
  <2>1. CASE ProcIgnore BY <2>1, TakeType DEF Take
  <2>2. CASE ProcDone BY <2>2 DEF InType, WindowsFit
  <2> QED BY <2>1, <2>2
<1>6. BufferSafe' BY DEF BufferSafe
<1> QED BY <1>1, <1>2, <1>3, <1>4, <1>5, <1>6, TypePartsNext

LEMMA ProcDataType == TypeInv /\ ProcData => TypeInv'
<1> SUFFICES ASSUME TypeInv, ProcData PROVE TypeInv'
  OBVIOUS
<1>1. ASSUME NEW r \in Deaths, DieProcessing(r) PROVE TypeInv'
  BY <1>1, DieProcessingType
<1>2. ASSUME maxpacket # 0, pid > 0, fd0 = "open", PutFits(Packet.n),
             len0' = len0 + Packet.n,
             localwindow' = Word(localwindow - Packet.n),
             rcvd' = rcvd + Packet.n,
             UNCHANGED <<maxpacket, pid, fd0, fd1, remoteeof, remotewindow,
                         flagVars, ssent, toClient, outbuf>>,
             Done
      PROVE  TypeInv'
  <2> USE <1>2, TypeParts DEF flagVars, clientVars, childVars, sessVars, Done
  <2>1. inbuf > 0 /\ Packet.n \in Nat BY PacketFacts DEF ProcData, Take
  <2>2. SessType' /\ ClientType' /\ ChildType'
    BY DEF SessType, ClientType, ChildType
  <2>3. len0' \in Nat /\ len0' <= BufSize /\ Packet.n <= BufSize
    <3> DEFINE n == Packet.n
    <3>1. n \in Nat /\ len0 + n <= BufSize /\ len0' = len0 + n
      BY <2>1 DEF PutFits
    <3>2. len0 \in Nat BY DEF ChanType
    <3> HIDE DEF n
    <3>3. len0' \in Nat /\ len0' <= BufSize /\ n <= BufSize
      BY ONLY <3>1, <3>2, BufAssumption
    <3> QED BY <3>3 DEF n
  <2>4. localwindow' \in 0..MaxWindow
    <3> DEFINE n == Packet.n
    <3>1. localwindow' = Word(localwindow - n) /\ n \in Nat /\ n <= BufSize
      BY <2>1, <2>3
    <3>2. localwindow \in 0..MaxWindow BY DEF ChanType
    <3> HIDE DEF n
    <3> QED
      BY ONLY <3>1, <3>2, BufAssumption, ClientAssumption DEF Word
  <2>5. ChanType'
    <3>1. /\ maxpacket' = maxpacket /\ pid' = pid /\ fd0' = fd0 /\ fd1' = fd1
          /\ remoteeof' = remoteeof /\ remotewindow' = remotewindow
          /\ eofsent' = eofsent /\ closercvd' = closercvd
          /\ rcvd' = rcvd + Packet.n /\ ssent' = ssent
      BY <2>1
    <3>2. rcvd' \in Nat
      <4> DEFINE n == Packet.n
      <4>1. rcvd \in Nat /\ n \in Nat /\ rcvd' = rcvd + n
        BY <2>1, <3>1 DEF ChanType
      <4> HIDE DEF n
      <4> QED BY ONLY <4>1
    <3> QED BY <3>1, <3>2, <2>3, <2>4 DEF ChanType
  <2>6. InType' /\ WindowsFit' BY <2>1, TakeType
  <2>7. OutType' BY DEF OutType
  <2>8. BufferSafe' BY <2>3 DEF BufferSafe
  <2> QED BY <2>2, <2>5, <2>6, <2>7, <2>8, TypePartsNext
<1> QED BY <1>1, <1>2 DEF ProcData, Deaths

LEMMA ProcAdjustType == TypeInv /\ ProcAdjust => TypeInv'
<1> SUFFICES ASSUME TypeInv, ProcAdjust PROVE TypeInv'
  OBVIOUS
<1> USE TypeParts DEF ProcAdjust, flagVars, totalVars, clientVars, childVars,
        sessVars, Done
<1>1. inbuf > 0 /\ Packet.n \in 0..MaxWindow BY PacketFacts DEF Take
<1>2. SessType' /\ ClientType' /\ ChildType'
  BY DEF SessType, ClientType, ChildType
<1>3. remotewindow' \in 0..MaxWindow BY SMTT(30), <1>1 DEF Word, ChanType
<1>4. ChanType' BY <1>3 DEF ChanType
<1>5. InType' /\ WindowsFit' BY <1>1, TakeType
<1>6. OutType' BY DEF OutType
<1>7. BufferSafe' BY DEF BufferSafe
<1> QED BY <1>2, <1>4, <1>5, <1>6, <1>7, TypePartsNext

LEMMA ProcEofType == TypeInv /\ ProcEof => TypeInv'
<1> SUFFICES ASSUME TypeInv, ProcEof PROVE TypeInv'
  OBVIOUS
<1>1. CASE DieProcessing("proto")
  BY <1>1, DieProcessingType DEF Deaths
<1>2. ASSUME ~DieProcessing("proto") PROVE TypeInv'
  <2> USE <1>2, TypeParts DEF ProcEof, flagVars, totalVars, clientVars,
          childVars, sessVars, Done
  <2>1. inbuf > 0 BY DEF Take
  <2>2. SessType' /\ ClientType' /\ ChildType'
    BY DEF SessType, ClientType, ChildType
  <2>3. ChanType' BY DEF ChanType, FdAfter
  <2>4. InType' /\ WindowsFit' BY <2>1, TakeType
  <2>5. OutType' BY DEF OutType
  <2>6. BufferSafe' BY DEF BufferSafe, FdAfter
  <2> QED BY <2>2, <2>3, <2>4, <2>5, <2>6, TypePartsNext
<1> QED BY <1>1, <1>2

LEMMA ProcCloseType == TypeInv /\ ProcClose => TypeInv'
<1> SUFFICES ASSUME TypeInv, ProcClose PROVE TypeInv'
  OBVIOUS
<1> USE TypeParts DEF ProcClose, chanVars, totalVars, clientVars, childVars,
        sessVars, Done
<1>1. inbuf > 0 BY DEF Take
<1>2. SessType' /\ ClientType' /\ ChildType'
  BY DEF SessType, ClientType, ChildType
<1>3. ChanType' BY DEF ChanType
<1>4. InType' /\ WindowsFit' BY <1>1, TakeType
<1>5. OutType'
  <2>1. CASE NoReply BY <2>1 DEF NoReply, OutType
  <2>2. CASE Reply("EOF", 0)
    BY <2>2, ReplyType DEF ChanType, ServerTypes
  <2> QED BY <2>1, <2>2
<1>6. BufferSafe' BY DEF BufferSafe
<1> QED BY <1>2, <1>3, <1>4, <1>5, <1>6, TypePartsNext

LEMMA SessionType == TypeInv /\ Session => TypeInv'
  BY PollType, WriteToChildType, ReadFromChildType, NetType, ProcOpenType,
     ProcExecType, ProcOtherType, ProcIgnoreType, ProcDataType,
     ProcAdjustType, ProcEofType, ProcCloseType
     DEF Session, Process

(* The client. *)
LEMMA ClientSendType == TypeInv /\ ClientSend => TypeInv'
<1> SUFFICES ASSUME TypeInv, ClientSend PROVE TypeInv'
  OBVIOUS
<1> USE TypeParts DEF ClientSend, sessVars, chanVars, flagVars, totalVars,
        childVars
<1>1. SessType' /\ ChanType' /\ OutType' /\ ChildType' /\ BufferSafe'
  BY DEF SessType, ChanType, OutType, ChildType, BufferSafe
<1>2. ClientType' /\ InType' /\ WindowsFit'
  <2>1. CASE ClientOpen
    <3>1. PICK w \in FirstWindows : /\ cgrant' = cgrant + w /\ csent' = csent
                                   /\ Send("OPEN", w)
      BY <2>1 DEF ClientOpen
    <3>2. ClientType'
      <4>1. cgrant' \in Nat /\ csent' \in Nat
        <5>1. w \in Nat /\ cgrant \in Nat /\ csent \in Nat
          BY ClientAssumption DEF ClientType
        <5> QED BY <3>1, <5>1
      <4>2. /\ opens' \in Nat /\ others' \in Nat /\ cgot' \in Nat /\ crcvd' \in Nat
        <5>1. /\ opens' = opens + 1 /\ others' = others /\ cgot' = cgot
              /\ crcvd' = crcvd
          BY <2>1 DEF ClientOpen
        <5>2. opens \in Nat /\ others \in Nat /\ cgot \in Nat /\ crcvd \in Nat
          BY DEF ClientType
        <5> QED BY ONLY <5>1, <5>2
      <4>3. cstate' \in {"opening", cstate}
        BY <2>1 DEF ClientOpen
      <4> QED BY <4>1, <4>2, <4>3 DEF ClientType
    <3>3. InType' /\ WindowsFit'
      BY <3>1, <3>2, SendType DEF ClientType, ClientTypes
    <3> QED BY <3>2, <3>3
  <2>2. CASE ClientExec
    <3>1. ClientType' BY <2>2 DEF ClientExec, ClientType
    <3>2. Send("SHELL", 0) \/ Send("EXEC", 0) BY <2>2 DEF ClientExec
    <3>3. InType' /\ WindowsFit'
      BY <3>1, <3>2, SendType DEF ClientType, ClientTypes
    <3> QED BY <3>1, <3>3
  <2>3. CASE ClientOther
    <3>1. ClientType' BY <2>3 DEF ClientOther, ClientType
    <3>2. Send("OTHER", 0) \/ Send("IGNORE", 0) BY <2>3 DEF ClientOther
    <3>3. InType' /\ WindowsFit'
      BY <3>1, <3>2, SendType DEF ClientType, ClientTypes
    <3> QED BY <3>1, <3>3
  <2>4. CASE ClientData
    <3>1. PICK n \in 1..(PacketLimit - DataHeader) :
            csent' = csent + n /\ cgrant' = cgrant /\ Send("DATA", n)
      BY <2>4 DEF ClientData
    <3>2. ClientType'
      <4>1. csent' \in Nat /\ cgrant' \in Nat
        <5>1. n \in Nat /\ csent \in Nat /\ cgrant \in Nat
          BY DEF ClientType
        <5> QED BY <3>1, <5>1
      <4> QED BY <2>4, <4>1 DEF ClientData, ClientType
    <3>3. InType' /\ WindowsFit'
      BY <3>1, <3>2, SendType DEF ClientType, ClientTypes
    <3> QED BY <3>2, <3>3
  <2>5. CASE ClientAdjust
    <3>1. PICK n \in 1..MaxWindow :
            cgrant' = cgrant + n /\ csent' = csent /\ Send("ADJUST", n)
      BY <2>5 DEF ClientAdjust
    <3>2. ClientType'
      <4>1. csent' \in Nat /\ cgrant' \in Nat
        <5>1. n \in Nat /\ csent \in Nat /\ cgrant \in Nat
          BY DEF ClientType
        <5> QED BY <3>1, <5>1
      <4> QED BY <2>5, <4>1 DEF ClientAdjust, ClientType
    <3>3. InType' /\ WindowsFit'
      BY <3>1, <3>2, SendType DEF ClientType, ClientTypes
    <3> QED BY <3>2, <3>3
  <2>6. CASE ClientEof \/ ClientClose
    <3>1. ClientType' BY <2>6 DEF ClientEof, ClientClose, ClientType
    <3>2. Send("EOF", 0) \/ Send("CLOSE", 0)
      BY <2>6 DEF ClientEof, ClientClose
    <3>3. InType' /\ WindowsFit'
      BY <3>1, <3>2, SendType DEF ClientType, ClientTypes
    <3> QED BY <3>1, <3>3
  <2>7. CASE ClientLeave
    BY <2>7 DEF ClientLeave, ClientType, InType, WindowsFit
  <2> QED BY <2>1, <2>2, <2>3, <2>4, <2>5, <2>6, <2>7
<1> QED BY <1>1, <1>2, TypePartsNext

LEMMA ClientReceiveType == TypeInv /\ ClientReceive => TypeInv'
<1> SUFFICES ASSUME TypeInv, ClientReceive PROVE TypeInv'
  OBVIOUS
<1> USE TypeParts DEF ClientReceive, sessVars, chanVars, flagVars, totalVars,
        childVars
<1>1. SessType' /\ ChanType' /\ InType' /\ ChildType' /\ BufferSafe'
        /\ WindowsFit'
  BY DEF SessType, ChanType, InType, ChildType, BufferSafe, WindowsFit
<1>2. toClient \in Seq(Message(ServerTypes)) /\ Len(toClient) > 0
  BY DEF OutType
<1>3. Head(toClient) \in Message(ServerTypes) BY <1>2, TailFacts
<1>6. Head(toClient).n \in Nat BY <1>3 DEF Message
<1>4. OutType' BY <1>2, TailFacts DEF OutType
<1>5. ClientType' BY SMTT(30), <1>6 DEF ClientType
<1> QED BY <1>1, <1>4, <1>5, TypePartsNext

LEMMA InterpreterType == TypeInv /\ Interpreter => TypeInv'
<1> SUFFICES ASSUME TypeInv, Interpreter PROVE TypeInv'
  OBVIOUS
<1> USE TypeParts DEF Interpreter, sessVars, chanVars, flagVars, netVars,
        totalVars, clientVars
<1>1. SessType' /\ ChanType' /\ InType' /\ OutType'
  BY DEF SessType, ChanType, InType, OutType
<1>2. ClientType' /\ BufferSafe' /\ WindowsFit'
  BY DEF ClientType, BufferSafe, WindowsFit
<1>3. ChildType'
  BY DEF ChildType, ChildEcho, ChildPrint, ChildLeave, ChildSeesEof,
         ChildClose, Output
<1> QED BY <1>1, <1>2, <1>3, TypePartsNext

LEMMA TypeStutter == TypeInv /\ UNCHANGED vars => TypeInv'
<1> SUFFICES ASSUME TypeInv, UNCHANGED vars PROVE TypeInv'
  OBVIOUS
<1> USE TypeParts DEF vars, sessVars, chanVars, flagVars, netVars, totalVars,
        clientVars, childVars
<1>1. SessType' /\ ChanType' /\ InType' /\ OutType'
  BY DEF SessType, ChanType, InType, OutType
<1>2. ClientType' /\ BufferSafe' /\ WindowsFit' /\ ChildType'
  BY DEF ClientType, BufferSafe, WindowsFit, ChildType
<1> QED BY <1>1, <1>2, TypePartsNext

LEMMA TypeInvariance == Spec => []TypeInv
<1>1. TypeInv /\ [Next]_vars => TypeInv'
  BY SessionType, ClientSendType, ClientReceiveType, InterpreterType,
     TypeStutter
     DEF Next
<1> QED BY <1>1, TypeInit, PTL DEF Spec

(* Every variable keeps its type: in particular the two windows, computed  *)
(* in crypto_uint32 arithmetic, stay within 32 bits, and the positions in  *)
(* recvbuf and sendbuf within the queues, whatever the client sends.       *)
THEOREM TypeCorrect == Spec => []TypeOK
  BY TypeInvariance, PTL DEF TypeInv

(* channel_put never writes past the end of buf0, and buf0 holds input only *)
(* while there is a descriptor to write it to, whatever the client sends.  *)
THEOREM BufferCorrect == Spec => []BufferSafe
  BY TypeInvariance, PTL DEF TypeInv

----------------------------------------------------------------------------
(* The death of a session at the end of the child's output.                *)

(* What poll() has seen of the child's output is still there when it is    *)
(* read: only the session takes bytes out, and a child that has closed its *)
(* socket writes no more.                                                  *)
OutputSeen == maxpacket # 0 /\ (outpipe > 0 \/ ChildGone)
DeathInv ==
  /\ pc \in {"tochild", "fromchild"} /\ "fromchild" \in watch => OutputSeen
  /\ pc = "fromchild" => "fromchild" \in watch

LEMMA DeathInit == Init => DeathInv
  BY DEF Init, DeathInv

LEMMA PhaseAfterFromChild ==
  ASSUME NEW p, NEW ready, PhaseAfter(p, ready) \in {"tochild", "fromchild"}
  PROVE  PhaseAfter(p, ready) = "fromchild" => "fromchild" \in ready
  BY DEF PhaseAfter

LEMMA DieDeath ==
  ASSUME NEW r \in Deaths, Die(r)
  PROVE  DeathInv'
  BY DEF DeathInv, Die

(* A living session goes on.                                               *)
LEMMA GoOnDeath ==
  ASSUME pc' \in {"tochild", "fromchild"} /\ "fromchild" \in watch' => OutputSeen',
         pc' = "fromchild" => "fromchild" \in watch'
  PROVE  DeathInv'
  BY DEF DeathInv

LEMMA SessionDeath ==
  ASSUME TypeInv, DeathInv, Session
  PROVE  DeathInv'
<1> USE DEF DeathInv, Deaths
<1>0. maxpacket \in Nat /\ outpipe \in Nat /\ pc \in Phases \cup {"dead"}
  BY DEF TypeInv, TypeOK
<1>1. CASE Poll \/ PollTimeout
  <2>1. "fromchild" \in Ready => OutputSeen
    BY <1>0 DEF Ready, ReadIsReady, OutputSeen
  <2>2. UNCHANGED <<maxpacket, outpipe, child>>
    BY <1>1 DEF Poll, PollTimeout, chanVars, childVars
  <2>3. OutputSeen' <=> OutputSeen
    BY <2>2 DEF OutputSeen, ChildGone
  <2>4. pc' = "fromchild" => "fromchild" \in watch'
    BY <1>1, PhaseAfterFromChild DEF Poll, PollTimeout
  <2>5. watch' \in {Ready, {}}
    BY <1>1 DEF Poll, PollTimeout
  <2> QED BY <2>1, <2>2, <2>3, <2>4, <2>5, GoOnDeath
<1>2. CASE WriteToChild
  <2>1. CASE Die("write")
    BY <1>2, <2>1, DieDeath DEF WriteToChild
  <2>2. CASE Continue /\ UNCHANGED maxpacket
    <3>1. UNCHANGED <<outpipe, child, watch>> /\ pc = "tochild"
      BY <1>2, <2>2 DEF WriteToChild, Continue
    <3>2. pc' = "fromchild" => "fromchild" \in watch'
      BY <2>2, <3>1, PhaseAfterFromChild DEF Continue
    <3>3. OutputSeen' <=> OutputSeen
      BY <2>2, <3>1 DEF OutputSeen, ChildGone
    <3> QED BY <2>2, <3>1, <3>2, <3>3, GoOnDeath
  <2> QED BY <1>2, <2>1, <2>2 DEF WriteToChild
<1>3. CASE ReadFromChild
  <2>1. pc = "fromchild"
    BY <1>3 DEF ReadFromChild
  <2>2. CASE Die("inval") \/ Die("pipe")
    BY <2>2, DieDeath
  <2>3. CASE Continue
    <3>1. pc' \notin {"tochild", "fromchild"}
      BY <2>1, <2>3 DEF Continue, PhaseAfter
    <3> QED BY <3>1, GoOnDeath
  <2> QED BY <1>3, <2>2, <2>3 DEF ReadFromChild
<1>4. CASE SendToNet \/ RecvFromNet
  <2>1. CASE Die("net")
    BY <2>1, DieDeath
  <2>2. CASE Continue
    <3>1. pc' \notin {"tochild", "fromchild"}
      BY <1>4, <2>2 DEF SendToNet, RecvFromNet, Continue, PhaseAfter
    <3> QED BY <3>1, GoOnDeath
  <2> QED BY <1>4, <2>1, <2>2 DEF SendToNet, RecvFromNet
<1>5. CASE Process
  <2>1. ASSUME NEW r \in {"exec", "nomem", "proto", "inval"}, DieProcessing(r)
        PROVE  DeathInv'
    BY <2>1, DieDeath DEF DieProcessing
  <2>2. ASSUME pc' \in {"process", "poll"}
        PROVE  DeathInv'
    BY <2>2, GoOnDeath
  <2>3. pc = "process" /\ (Done \/ UNCHANGED sessVars => pc' = "process")
    BY <1>5 DEF Process, ProcOpen, ProcExec, ProcOther, ProcIgnore, ProcData,
                ProcAdjust, ProcEof, ProcClose, ProcDone, Take, Done, sessVars
  <2>4. CASE ProcOpen \/ ProcExec
    BY <2>1, <2>2, <2>3, <2>4 DEF ProcOpen, ProcExec
  <2>5. CASE ProcOther \/ ProcIgnore \/ ProcClose \/ ProcDone
    BY <2>2, <2>3, <2>5 DEF ProcOther, ProcIgnore, ProcClose, ProcDone
  <2>6. CASE ProcData \/ ProcAdjust \/ ProcEof
    BY <2>1, <2>2, <2>3, <2>6 DEF ProcData, ProcAdjust, ProcEof
  <2> QED BY <1>5, <2>4, <2>5, <2>6 DEF Process
<1> QED BY <1>1, <1>2, <1>3, <1>4, <1>5 DEF Session

LEMMA NextDeath ==
  ASSUME TypeInv, DeathInv, [Next]_vars
  PROVE  DeathInv'
<1> USE DEF DeathInv
<1>1. CASE ClientSend \/ ClientReceive \/ UNCHANGED vars
  <2>1. UNCHANGED <<pc, watch, maxpacket, child, outpipe>>
    BY <1>1 DEF ClientSend, ClientReceive, vars, sessVars, chanVars, childVars
  <2> QED BY <2>1 DEF OutputSeen, ChildGone
<1>2. CASE Interpreter
  <2>1. UNCHANGED <<pc, watch, maxpacket>>
    BY <1>2 DEF Interpreter, sessVars, chanVars
  <2>2. /\ outpipe' \in Nat /\ outpipe \in Nat /\ outpipe' >= outpipe
        /\ ChildGone => child' = child /\ outpipe' = outpipe
    BY <1>2 DEF Interpreter, ChildEcho, ChildPrint, ChildLeave, ChildSeesEof,
                ChildClose, Output, ChildGone, TypeInv, TypeOK
  <2> QED BY <2>1, <2>2 DEF OutputSeen, ChildGone
<1> QED BY <1>1, <1>2, SessionDeath DEF Next

(* No room for data means a maximum packet no longer than the header, for  *)
(* the packet limit is longer.                                             *)
LEMMA NoRoom ==
  ASSUME maxpacket \in Nat
  PROVE  /\ ReadLimit = 0 => maxpacket = DataHeader
         /\ ReadLimit < 0 => maxpacket < DataHeader
  BY LimitAssumption DEF ReadLimit

(* Only the read itself takes a session from "fromchild" to its end.       *)
LEMMA DeathStep ==
  ASSUME TypeInv, DeathInv, Next, pc = "fromchild", pc' = "dead"
  PROVE  \/ why' = "pipe" /\ child = "closed" /\ outpipe = 0
         \/ why' = "pipe" /\ maxpacket = DataHeader
         \/ why' = "inval" /\ maxpacket < DataHeader
<1>1. maxpacket \in Nat /\ outpipe \in Nat /\ OutputSeen
  BY DEF TypeInv, TypeOK, DeathInv
<1>2. ReadFromChild
  <2>1. ~ClientSend /\ ~ClientReceive /\ ~Interpreter
    BY DEF ClientSend, ClientReceive, Interpreter, sessVars
  <2>2. ~Process
    BY DEF Process, ProcOpen, ProcExec, ProcOther, ProcIgnore, ProcData,
           ProcAdjust, ProcEof, ProcClose, ProcDone, Take
  <2>3. ~Poll /\ ~PollTimeout /\ ~WriteToChild /\ ~SendToNet /\ ~RecvFromNet
    BY DEF Poll, PollTimeout, WriteToChild, SendToNet, RecvFromNet
  <2> QED BY <2>1, <2>2, <2>3 DEF Next, Session
<1>3. ~Continue
  BY DEF Continue, PhaseAfter
<1>4. CASE ReadLimit < 0 /\ Die("inval")
  BY <1>1, <1>4, NoRoom DEF Die
<1>5. CASE (ReadLimit = 0 \/ outpipe = 0) /\ Die("pipe")
  <2>1. why' = "pipe"
    BY <1>5 DEF Die
  <2>2. CASE ReadLimit = 0
    BY <1>1, <2>1, <2>2, NoRoom
  <2>3. CASE outpipe = 0
    BY <1>1, <2>1, <2>3 DEF OutputSeen, ChildGone
  <2> QED BY <1>5, <2>2, <2>3
<1> QED BY <1>2, <1>3, <1>4, <1>5 DEF ReadFromChild

(* Whatever is read fits a packet behind the header.                       *)
LEMMA SentStep ==
  ASSUME TypeInv, Next, pc = "fromchild", ssent' # ssent
  PROVE  DataHeader < maxpacket
<1>1. maxpacket \in Nat
  BY DEF TypeInv, TypeOK
<1>2. ReadFromChild
  <2>1. ~ClientSend /\ ~ClientReceive /\ ~Interpreter
    BY DEF ClientSend, ClientReceive, Interpreter, totalVars
  <2>2. ~Process
    BY DEF Process, ProcOpen, ProcExec, ProcOther, ProcIgnore, ProcData,
           ProcAdjust, ProcEof, ProcClose, ProcDone, Take
  <2>3. ~Poll /\ ~PollTimeout /\ ~WriteToChild /\ ~SendToNet /\ ~RecvFromNet
    BY DEF Poll, PollTimeout, WriteToChild, SendToNet, RecvFromNet
  <2> QED BY <2>1, <2>2, <2>3 DEF Next, Session
<1>3. ReadSizes # {}
  BY <1>2 DEF ReadFromChild, Die, totalVars
<1> QED BY <1>1, <1>3, LimitAssumption DEF ReadSizes, ReadLimit

(* port_load.c, packet_channel_send.c: a session that dies while it reads  *)
(* from its child has read all that the child wrote and the child is gone, *)
(* or its client asked for packets without room for data and never gets    *)
(* any, whatever other sizes, windows and bytes there are.                 *)
THEOREM DeathOfEof == Spec => ReadingEnds
<1>1. TypeInv /\ DeathInv /\ [Next]_vars => DeathInv'
  BY NextDeath
<1>2. TypeInv /\ DeathInv /\ [Next]_vars =>
        [pc = "fromchild" =>
           /\ pc' = "dead" => \/ why' = "pipe" /\ child = "closed" /\ outpipe = 0
                              \/ why' = "pipe" /\ maxpacket = DataHeader
                              \/ why' = "inval" /\ maxpacket < DataHeader
           /\ ssent' # ssent => DataHeader < maxpacket]_vars
  BY DeathStep, SentStep DEF vars, sessVars, totalVars
<1> QED BY <1>1, <1>2, DeathInit, TypeInvariance, PTL DEF Spec, ReadingEnds


----------------------------------------------------------------------------
(* Chains of totals.                                                       *)

LEMMA ChainEmpty ==
  ASSUME NEW s0 \in Int, NEW s1 \in Int, NEW g0 \in Int, NEW g1 \in Int
  PROVE  Chain(<<>>, s0, s1, g0, g1) <=> s0 = s1 /\ g0 = g1
  BY DEF Chain, SentAt, GrantedAt

(* The ends of a chain are in order. *)
LEMMA ChainEnds ==
  ASSUME NEW T, NEW q \in Seq(Message(T)),
         NEW s0, NEW s1, NEW g0, NEW g1, Chain(q, s0, s1, g0, g1)
  PROVE  /\ s0 <= s1 /\ g0 <= g1
         /\ \A i \in 1..Len(q) : q[i].sent <= s1 /\ q[i].granted <= g1
<1>1. Len(q) \in Nat OBVIOUS
<1>2. 0 \in 0..Len(q) /\ \A i \in 1..Len(q) : i \in 0..Len(q) /\ i # 0
  BY <1>1
<1> QED BY <1>2 DEF Chain, SentAt, GrantedAt

(* Appending a packet that carries the sender's new totals. *)
LEMMA ChainAppend ==
  ASSUME NEW T, NEW q \in Seq(Message(T)), NEW m \in Message(T),
         NEW s0 \in Int, NEW s1 \in Int, NEW g0 \in Int, NEW g1 \in Int,
         Chain(q, s0, s1, g0, g1),
         m.sent = s1 + DataOf(m), m.granted = g1 + CreditOf(m)
  PROVE  Chain(Append(q, m), s0, m.sent, g0, m.granted)
<1> DEFINE r == Append(q, m)
<1>1. /\ Len(q) \in Nat /\ Len(r) = Len(q) + 1 /\ r[Len(q) + 1] = m
      /\ \A i \in 1..Len(q) : r[i] = q[i]
  BY AppendFacts
<1>2. DataOf(m) \in Nat /\ CreditOf(m) \in Nat
  BY DEF DataOf, CreditOf, Message
<1>3. m.sent \in Int /\ m.granted \in Int /\ s1 <= m.sent /\ g1 <= m.granted
  BY <1>2
<1> HIDE DEF r
<1>4. \A i \in 0..Len(q) : /\ SentAt(r, s0, i) = SentAt(q, s0, i)
                           /\ GrantedAt(r, g0, i) = GrantedAt(q, g0, i)
  BY <1>1 DEF SentAt, GrantedAt
<1>5. /\ SentAt(r, s0, Len(r)) = m.sent
      /\ GrantedAt(r, g0, Len(r)) = m.granted
  BY <1>1 DEF SentAt, GrantedAt
<1>6. /\ SentAt(q, s0, Len(q)) = s1 /\ GrantedAt(q, g0, Len(q)) = g1
      /\ \A i \in 1..Len(q) :
           /\ q[i].sent = SentAt(q, s0, i - 1) + DataOf(q[i])
           /\ q[i].granted = GrantedAt(q, g0, i - 1) + CreditOf(q[i])
      /\ \A i \in 0..Len(q) : /\ SentAt(q, s0, i) <= s1
                              /\ GrantedAt(q, g0, i) <= g1
  BY DEF Chain
<1>7. ASSUME NEW i \in 1..Len(r)
      PROVE  /\ r[i].sent = SentAt(r, s0, i - 1) + DataOf(r[i])
             /\ r[i].granted = GrantedAt(r, g0, i - 1) + CreditOf(r[i])
  <2>1. CASE i = Len(q) + 1
    <3>1. i - 1 = Len(q) /\ Len(q) \in 0..Len(q) BY <2>1, <1>1
    <3> QED BY <2>1, <3>1, <1>1, <1>4, <1>6
  <2>2. CASE i # Len(q) + 1
    <3>1. i \in 1..Len(q) /\ i - 1 \in 0..Len(q) BY <2>2, <1>1
    <3> QED BY <3>1, <1>1, <1>4, <1>6
  <2> QED BY <2>1, <2>2
<1>8. ASSUME NEW i \in 0..Len(r)
      PROVE  /\ SentAt(r, s0, i) <= m.sent
             /\ GrantedAt(r, g0, i) <= m.granted
  <2>1. CASE i = Len(q) + 1 BY <2>1, <1>1, <1>3, <1>5
  <2>2. CASE i # Len(q) + 1
    <3>1. i \in 0..Len(q) BY <2>2, <1>1
    <3>2. SentAt(q, s0, i) \in Int /\ GrantedAt(q, g0, i) \in Int
      <4>1. CASE i = 0 BY <4>1 DEF SentAt, GrantedAt
      <4>2. CASE i # 0
        <5>1. i \in 1..Len(q) BY <3>1, <4>2
        <5>2. q[i] \in Message(T) BY <5>1
        <5>3. q[i].sent \in Nat /\ q[i].granted \in Nat BY <5>2 DEF Message
        <5>4. SentAt(q, s0, i) = q[i].sent /\ GrantedAt(q, g0, i) = q[i].granted
          BY <4>2 DEF SentAt, GrantedAt
        <5> QED BY <5>3, <5>4
      <4> QED BY <4>1, <4>2
    <3> QED BY <3>1, <3>2, <1>3, <1>4, <1>6
  <2> QED BY <2>1, <2>2
<1> QED BY <1>5, <1>7, <1>8 DEF Chain, r

(* Removing the head moves the start of the chain to the head's totals. *)
LEMMA ChainTail ==
  ASSUME NEW T, NEW q \in Seq(Message(T)), Len(q) > 0,
         NEW s0 \in Int, NEW s1 \in Int, NEW g0 \in Int, NEW g1 \in Int,
         Chain(q, s0, s1, g0, g1)
  PROVE  /\ Head(q).sent = s0 + DataOf(Head(q))
         /\ Head(q).granted = g0 + CreditOf(Head(q))
         /\ Head(q).sent <= s1 /\ Head(q).granted <= g1
         /\ Chain(Tail(q), Head(q).sent, s1, Head(q).granted, g1)
<1> DEFINE r == Tail(q)
<1>1. /\ Len(q) \in Nat /\ Len(r) = Len(q) - 1 /\ Head(q) = q[1]
      /\ \A i \in 1..(Len(q) - 1) : r[i] = q[i + 1]
  BY TailFacts
<1>2. 1 \in 1..Len(q) /\ 1 - 1 = 0 /\ 1 \in 0..Len(q) BY <1>1
<1> HIDE DEF r
<1>3. /\ q[1].sent = s0 + DataOf(q[1]) /\ q[1].granted = g0 + CreditOf(q[1])
      /\ q[1].sent <= s1 /\ q[1].granted <= g1
  <2>1. /\ q[1].sent = SentAt(q, s0, 0) + DataOf(q[1])
        /\ q[1].granted = GrantedAt(q, g0, 0) + CreditOf(q[1])
    BY <1>2 DEF Chain
  <2>2. SentAt(q, s0, 1) <= s1 /\ GrantedAt(q, g0, 1) <= g1
    BY <1>2 DEF Chain
  <2> QED BY <2>1, <2>2 DEF SentAt, GrantedAt
<1>4. \A i \in 0..Len(r) :
        /\ SentAt(r, q[1].sent, i) = SentAt(q, s0, i + 1)
        /\ GrantedAt(r, q[1].granted, i) = GrantedAt(q, g0, i + 1)
  BY <1>1 DEF SentAt, GrantedAt
<1>5. SentAt(r, q[1].sent, Len(r)) = s1 /\ GrantedAt(r, q[1].granted, Len(r)) = g1
  BY <1>1, <1>4 DEF Chain
<1>6. ASSUME NEW i \in 1..Len(r)
      PROVE  /\ r[i].sent = SentAt(r, q[1].sent, i - 1) + DataOf(r[i])
             /\ r[i].granted = GrantedAt(r, q[1].granted, i - 1)
                               + CreditOf(r[i])
  <2>1. /\ i - 1 \in 0..Len(r) /\ (i - 1) + 1 = i /\ i + 1 \in 1..Len(q)
        /\ (i + 1) - 1 = i /\ r[i] = q[i + 1]
    BY <1>1
  <2>2. /\ q[i + 1].sent = SentAt(q, s0, i) + DataOf(q[i + 1])
        /\ q[i + 1].granted = GrantedAt(q, g0, i) + CreditOf(q[i + 1])
    BY <2>1 DEF Chain
  <2>3. /\ SentAt(r, q[1].sent, i - 1) = SentAt(q, s0, i)
        /\ GrantedAt(r, q[1].granted, i - 1) = GrantedAt(q, g0, i)
    BY <2>1, <1>4
  <2> QED BY <2>1, <2>2, <2>3
<1>7. ASSUME NEW i \in 0..Len(r)
      PROVE  /\ SentAt(r, q[1].sent, i) <= s1
             /\ GrantedAt(r, q[1].granted, i) <= g1
  <2>1. i + 1 \in 0..Len(q) BY <1>1
  <2>2. SentAt(q, s0, i + 1) <= s1 /\ GrantedAt(q, g0, i + 1) <= g1
    BY <2>1 DEF Chain
  <2> QED BY <2>2, <1>4
<1> QED BY <1>1, <1>3, <1>5, <1>6, <1>7 DEF Chain, r

----------------------------------------------------------------------------
(* The parts of the invariant under the effects that actions share.        *)

LEMMA WindowInit == Init => WindowInv
<1> SUFFICES ASSUME Init PROVE SafeInv /\ LiveInv
  BY DEF WindowInv
<1>1. ToServerInv /\ ToClientInv BY ChainEmpty DEF Init, ToServerInv, ToClientInv
<1>2. OpenInv /\ NotStuckInv /\ EofInv /\ ChildInv
  BY DEF Init, OpenInv, NotStuckInv, EofInv, ChildInv
<1> QED BY <1>1, <1>2 DEF Init, SafeInv, LiveInv

(* What the chains say about the totals at their ends. *)
LEMMA Numbers ==
  ASSUME TypeInv, ToServerInv, ToClientInv
  PROVE  /\ rcvd <= csent /\ remotewindow + ssent <= cgrant
         /\ crcvd <= ssent /\ cgot <= localwindow + rcvd
<1>1. toServer \in Seq(Message(ClientTypes)) /\ toClient \in Seq(Message(ServerTypes))
  BY TypeParts DEF InType, OutType
<1> QED BY <1>1, ChainEnds DEF ToServerInv, ToClientInv

(* Nothing the invariant reads changes, or the session only moves on. *)
LEMMA Frame ==
  ASSUME WindowInv, Alive,
         UNCHANGED <<maxpacket, pid, fd0, remoteeof, len0, localwindow,
                     remotewindow, toServer, toClient, rcvd, ssent,
                     clientVars, child, inpipe, consumed, why>>
  PROVE  WindowInv'
<1> USE DEF clientVars
<1>1. ASSUME Polite PROVE SafeInv' /\ LiveInv'
  <2>1. SafeInv /\ LiveInv BY <1>1 DEF WindowInv
  <2>2. SafeInv' BY <2>1 DEF SafeInv
  <2>3. ToServerInv' /\ ToClientInv'
    BY <2>1 DEF LiveInv, ToServerInv, ToClientInv
  <2>4. OpenInv' /\ NotStuckInv' /\ ChildInv'
    BY <2>1 DEF LiveInv, OpenInv, NotStuckInv, ChildInv
  <2>5. EofInv' BY <2>1 DEF LiveInv, EofInv, Ended
  <2> QED BY <2>1, <2>2, <2>3, <2>4, <2>5 DEF LiveInv
<1> QED BY <1>1 DEF WindowInv

(* A death for any reason but a full buf0. *)
LEMMA DieWindow ==
  ASSUME TypeInv, WindowInv, Alive, NEW r \in Deaths \ {"nomem"}, Die(r),
         UNCHANGED clientVars
  PROVE  WindowInv'
  BY TypeParts DEF WindowInv, SafeInv, Alive, Die, clientVars, totalVars

(* packet_put of a packet whose data or credit the totals now include. *)
LEMMA ReplyChain ==
  ASSUME TypeInv, ToClientInv, NEW t \in ServerTypes, NEW n \in Nat,
         Reply(t, n), crcvd' = crcvd, cgot' = cgot,
         ssent' \in Nat, localwindow' + rcvd' \in Nat,
         ssent' = ssent + (IF t = "DATA" THEN n ELSE 0),
         localwindow' + rcvd' =
           localwindow + rcvd + (IF t \in {"CONFIRM", "ADJUST"} THEN n ELSE 0)
  PROVE  ToClientInv'
<1> DEFINE m == [type |-> t, n |-> n, sent |-> ssent',
                 granted |-> localwindow' + rcvd']
<1>1. m \in Message(ServerTypes) BY DEF Message
<1>2. toClient' = Append(toClient, m) BY DEF Reply
<1>3. DataOf(m) = (IF t = "DATA" THEN n ELSE 0) BY DEF DataOf
<1>4. CreditOf(m) = (IF t \in {"CONFIRM", "ADJUST"} THEN n ELSE 0)
  BY DEF CreditOf, ServerTypes
<1>5. m.sent = ssent' /\ m.granted = localwindow' + rcvd' OBVIOUS
<1> HIDE DEF m
<1>6. m.sent = ssent + DataOf(m) /\ m.granted = localwindow + rcvd + CreditOf(m)
  BY <1>3, <1>4, <1>5
<1>7. /\ toClient \in Seq(Message(ServerTypes)) /\ crcvd \in Int /\ ssent \in Int
      /\ cgot \in Int /\ localwindow + rcvd \in Int
  BY TypeParts DEF OutType, ChanType, ClientType
<1>8. Chain(toClient, crcvd, ssent, cgot, localwindow + rcvd)
  BY DEF ToClientInv
<1>9. Chain(Append(toClient, m), crcvd, m.sent, cgot, m.granted)
  BY <1>1, <1>6, <1>7, <1>8, ChainAppend
<1> QED BY <1>2, <1>5, <1>9 DEF ToClientInv

(* The client appends a packet and counts its data or credit. *)
LEMMA SendChain ==
  ASSUME TypeInv, ToServerInv, NEW t \in ClientTypes, NEW n \in Nat,
         Send(t, n), UNCHANGED <<rcvd, remotewindow, ssent>>,
         csent' = csent + (IF t = "DATA" THEN n ELSE 0),
         cgrant' = cgrant + (IF t \in {"OPEN", "ADJUST"} THEN n ELSE 0)
  PROVE  ToServerInv'
<1> DEFINE m == [type |-> t, n |-> n, sent |-> csent', granted |-> cgrant']
<1>0. /\ toServer \in Seq(Message(ClientTypes)) /\ rcvd \in Int /\ csent \in Nat
      /\ remotewindow + ssent \in Int /\ cgrant \in Nat
  <2>1. toServer \in Seq(Message(ClientTypes)) BY TypeParts DEF InType
  <2>2. csent \in Nat /\ cgrant \in Nat BY TypeParts DEF ClientType
  <2>3. rcvd \in Nat /\ ssent \in Nat /\ remotewindow \in 0..MaxWindow
    BY TypeParts DEF ChanType
  <2>4. remotewindow + ssent \in Int BY ONLY <2>3, ClientAssumption
  <2> QED BY <2>1, <2>2, <2>3, <2>4
<1>1. m \in Message(ClientTypes)
  <2> DEFINE x == IF t = "DATA" THEN n ELSE 0
             y == IF t \in {"OPEN", "ADJUST"} THEN n ELSE 0
  <2>0. x \in Nat /\ y \in Nat /\ csent' = csent + x /\ cgrant' = cgrant + y
    OBVIOUS
  <2> HIDE DEF x, y
  <2>1. csent' \in Nat BY ONLY <1>0, <2>0
  <2>2. cgrant' \in Nat BY ONLY <1>0, <2>0
  <2> QED BY <2>1, <2>2 DEF Message
<1>2. toServer' = Append(toServer, m) BY DEF Send
<1>3. DataOf(m) = (IF t = "DATA" THEN n ELSE 0) BY DEF DataOf
<1>4. CreditOf(m) = (IF t \in {"OPEN", "ADJUST"} THEN n ELSE 0)
  BY DEF CreditOf, ClientTypes
<1>5. m.sent = csent' /\ m.granted = cgrant' OBVIOUS
<1> HIDE DEF m
<1>6. m.sent = csent + DataOf(m) /\ m.granted = cgrant + CreditOf(m)
  BY <1>3, <1>4, <1>5
<1>8. Chain(toServer, rcvd, csent, remotewindow + ssent, cgrant)
  BY DEF ToServerInv
<1>9. Chain(Append(toServer, m), rcvd, m.sent, remotewindow + ssent, m.granted)
  BY <1>0, <1>1, <1>6, <1>8, ChainAppend
<1> QED BY <1>2, <1>5, <1>9 DEF ToServerInv

(* The server takes the head of toServer and counts its data or credit. *)
LEMMA TakeChain ==
  ASSUME TypeInv, ToServerInv, inbuf > 0, toServer' = Tail(toServer),
         csent' = csent, cgrant' = cgrant,
         rcvd' = rcvd + DataOf(Packet),
         remotewindow' + ssent' = remotewindow + ssent + CreditOf(Packet)
  PROVE  ToServerInv'
<1>1. toServer \in Seq(Message(ClientTypes)) /\ Len(toServer) > 0
  BY TypeParts DEF InType
<1>2. /\ rcvd \in Int /\ csent \in Int /\ remotewindow + ssent \in Int
      /\ cgrant \in Int
  BY TypeParts DEF ChanType, ClientType
<1>3. Chain(toServer, rcvd, csent, remotewindow + ssent, cgrant)
  BY DEF ToServerInv
<1>4. /\ Packet.sent = rcvd + DataOf(Packet)
      /\ Packet.granted = remotewindow + ssent + CreditOf(Packet)
      /\ Chain(Tail(toServer), Packet.sent, csent, Packet.granted, cgrant)
  BY <1>1, <1>2, <1>3, ChainTail DEF Packet
<1> QED BY <1>4 DEF ToServerInv

(* What the totals allow the head of toServer to be. *)
LEMMA HeadFacts ==
  ASSUME TypeInv, ToServerInv, inbuf > 0
  PROVE  /\ Packet.sent = rcvd + DataOf(Packet)
         /\ rcvd + DataOf(Packet) <= csent
         /\ remotewindow + ssent + CreditOf(Packet) <= cgrant
<1>1. toServer \in Seq(Message(ClientTypes)) /\ Len(toServer) > 0
  BY TypeParts DEF InType
<1>2. /\ rcvd \in Int /\ csent \in Int /\ remotewindow + ssent \in Int
      /\ cgrant \in Int
  BY TypeParts DEF ChanType, ClientType
<1>3. Chain(toServer, rcvd, csent, remotewindow + ssent, cgrant)
  BY DEF ToServerInv
<1> QED BY <1>1, <1>2, <1>3, ChainTail DEF Packet

(* Taking a packet leaves the EOFs that follow it as they were. *)
LEMMA TakeEof ==
  ASSUME TypeInv, EofInv, inbuf > 0, toServer' = Tail(toServer),
         csent' = csent, cstate' = cstate
  PROVE  \A i \in 1..Len(toServer') :
           toServer'[i].type = "EOF" => toServer'[i].sent = csent' /\ Ended'
<1>1. toServer \in Seq(Message(ClientTypes)) /\ Len(toServer) > 0
  BY TypeParts DEF InType
<1>2. \A i \in 1..Len(toServer') : /\ i + 1 \in 1..Len(toServer)
                                   /\ toServer'[i] = toServer[i + 1]
  BY <1>1, TailFacts
<1> QED BY <1>2 DEF EofInv, Ended

(* Every packet but OPEN finds the channel open. *)
LEMMA TakeOpened ==
  ASSUME TypeInv, OpenInv, inbuf > 0, Packet.type # "OPEN"
  PROVE  maxpacket # 0
<1>1. Packet = toServer[1] /\ 1 \in 1..Len(toServer)
  BY PacketFacts, TypeParts DEF InType
<1> QED BY <1>1 DEF OpenInv

----------------------------------------------------------------------------
(* The steps of the session.                                               *)

LEMMA PollWindow ==
  TypeInv /\ WindowInv /\ (Poll \/ PollTimeout \/ ProcDone) => WindowInv'
  BY Frame DEF Poll, PollTimeout, ProcDone, Alive, chanVars, netVars,
               totalVars, clientVars, childVars

LEMMA NetWindow ==
  TypeInv /\ WindowInv /\ (SendToNet \/ RecvFromNet) => WindowInv'
<1> SUFFICES ASSUME TypeInv, WindowInv, SendToNet \/ RecvFromNet
             PROVE  WindowInv'
  OBVIOUS
<1>1. Alive BY DEF SendToNet, RecvFromNet, Alive
<1>2. CASE Die("net")
  BY <1>1, <1>2, DieWindow DEF SendToNet, RecvFromNet, Deaths
<1>3. CASE ~Die("net")
  BY <1>1, <1>3, Frame DEF SendToNet, RecvFromNet, Continue, chanVars,
                           totalVars, childVars
<1> QED BY <1>2, <1>3

LEMMA WriteToChildWindow ==
  TypeInv /\ TypeInv' /\ WindowInv /\ WriteToChild => WindowInv'
<1> SUFFICES ASSUME TypeInv, TypeInv', WindowInv, WriteToChild
             PROVE  WindowInv'
  OBVIOUS
<1>1. Alive BY DEF WriteToChild, Alive
<1>2. CASE Die("write") BY <1>1, <1>2, DieWindow DEF WriteToChild, Deaths
<1>3. ASSUME NEW w \in 1..len0, Polite,
             len0' = len0 - w, inpipe' = inpipe + w,
             fd0' = FdAfter(remoteeof, len0'), rcvd' = rcvd, ssent' = ssent,
             SendWindowAdjust(len0', localwindow), Continue,
             UNCHANGED <<maxpacket, pid, fd1, remoteeof, remotewindow,
                         flagVars, toServer, inbuf>>,
             UNCHANGED <<clientVars, child, outpipe, consumed, printed>>
      PROVE  SafeInv' /\ LiveInv'
  <2> USE <1>3 DEF clientVars
  <2>1. SafeInv /\ LiveInv BY <1>1 DEF WindowInv
  <2>2. /\ len0 \in Nat /\ len0' \in Nat /\ localwindow \in Nat
        /\ rcvd \in Nat /\ ssent \in Nat /\ inpipe \in Nat /\ consumed \in Nat
        /\ len0 > 0 /\ len0' < len0 /\ localwindow + len0 <= BufSize
    BY <2>1, TypeParts DEF ChanType, ChildType, SafeInv
  <2>3. maxpacket # 0 BY <2>1, <2>2 DEF LiveInv, OpenInv, ChildInv
  <2>4. /\ localwindow' + len0' <= BufSize
        /\ len0' = 0 => localwindow' > Half
        /\ ToClientInv'
    <3>1. CASE len0' > Half \/ localwindow > Half
      <4>1. localwindow' = localwindow /\ toClient' = toClient
        BY <3>1 DEF SendWindowAdjust, NoReply
      <4>2. ToClientInv' BY <4>1, <2>1 DEF LiveInv, ToClientInv
      <4> QED BY <4>1, <4>2, <3>1, <2>2, HalfFacts
    <3>2. CASE ~(len0' > Half \/ localwindow > Half)
      <4> DEFINE plus == BufSize - len0' - localwindow
      <4>1. plus \in Nat /\ plus <= MaxWindow /\ localwindow + plus <= BufSize
        BY <3>2, <2>2, HalfFacts
      <4>2. Word(plus) = plus /\ Word(localwindow + plus) = BufSize - len0'
        BY <4>1, <2>2 DEF Word
      <4>3. localwindow' = BufSize - len0' /\ Reply("ADJUST", plus)
        BY <3>2, <4>2 DEF SendWindowAdjust
      <4>4. localwindow' + rcvd' = localwindow + rcvd + plus
        BY <4>3, <2>2
      <4>5. localwindow' + rcvd' \in Nat BY <4>1, <4>4, <2>2
      <4> HIDE DEF plus
      <4>6. ToClientInv'
        BY <2>1, <2>2, <4>1, <4>3, <4>4, <4>5, ReplyChain
           DEF LiveInv, ServerTypes
      <4> QED BY <4>3, <4>6, <2>2, HalfFacts
    <3> QED BY <3>1, <3>2
  <2>5. SafeInv' BY <2>1, <2>4 DEF SafeInv, Continue
  <2>6. ToServerInv' BY <2>1 DEF LiveInv, ToServerInv
  <2>7. OpenInv' /\ NotStuckInv' BY <2>3, <2>4 DEF OpenInv, NotStuckInv
  <2>8. EofInv' BY <2>1 DEF LiveInv, EofInv, Ended, FdAfter
  <2>9. ChildInv'
    <3>1. fd0 = "open" BY <2>2, TypeParts DEF BufferSafe
    <3> QED BY <3>1, <2>1, <2>2 DEF LiveInv, ChildInv
  <2> QED BY <2>1, <2>4, <2>5, <2>6, <2>7, <2>8, <2>9 DEF LiveInv
<1> QED BY <1>2, <1>3 DEF WriteToChild, WindowInv

LEMMA ReadFromChildWindow ==
  TypeInv /\ TypeInv' /\ WindowInv /\ ReadFromChild => WindowInv'
<1> SUFFICES ASSUME TypeInv, TypeInv', WindowInv, ReadFromChild
             PROVE  WindowInv'
  OBVIOUS
<1>1. Alive BY DEF ReadFromChild, Alive
<1>2. CASE Die("pipe") \/ Die("inval")
  BY <1>1, <1>2, DieWindow DEF ReadFromChild, Deaths
<1>3. CASE Continue
           /\ UNCHANGED <<chanVars, flagVars, netVars, totalVars, outpipe>>
  BY <1>1, <1>3, Frame DEF ReadFromChild, Continue, chanVars, netVars,
                           totalVars
<1>4. ASSUME NEW r \in ReadSizes, Polite, Continue,
             remotewindow' = remotewindow - r, ssent' = ssent + r,
             rcvd' = rcvd, outpipe' = outpipe - r, localwindow' = localwindow,
             Reply("DATA", r),
             UNCHANGED <<maxpacket, pid, fd0, fd1, remoteeof, len0, flagVars,
                         toServer, inbuf>>,
             UNCHANGED <<clientVars, child, inpipe, consumed, printed>>
      PROVE  SafeInv' /\ LiveInv'
  <2> USE <1>4 DEF clientVars
  <2>1. SafeInv /\ LiveInv BY <1>1 DEF WindowInv
  <2>2. r \in Nat \ {0} /\ r <= remotewindow BY DEF ReadSizes
  <2>3. /\ remotewindow \in Nat /\ ssent \in Nat /\ localwindow \in Nat
        /\ rcvd \in Nat /\ cgrant \in Nat
    BY TypeParts DEF ChanType, ClientType
  <2>4. maxpacket # 0 BY <2>1, <2>2, <2>3 DEF LiveInv, OpenInv
  <2>5. /\ remotewindow' + ssent' = remotewindow + ssent
        /\ ssent' <= remotewindow + ssent
    BY <2>2, <2>3
  <2>6. ToServerInv' BY <2>1, <2>5 DEF LiveInv, ToServerInv
  <2>7. ToClientInv'
    BY <2>1, <2>2, <2>3, ReplyChain DEF LiveInv, ServerTypes
  <2>8. remotewindow + ssent <= cgrant BY <2>1, Numbers DEF LiveInv
  <2>9. SafeInv' BY <2>1, <2>2, <2>3, <2>5, <2>8 DEF SafeInv, Continue
  <2>10. OpenInv' /\ NotStuckInv' /\ ChildInv'
    BY <2>1, <2>4 DEF LiveInv, OpenInv, NotStuckInv, ChildInv
  <2>11. EofInv' BY <2>1 DEF LiveInv, EofInv, Ended
  <2> QED BY <2>1, <2>6, <2>7, <2>9, <2>10, <2>11 DEF LiveInv
<1> QED BY <1>2, <1>3, <1>4 DEF ReadFromChild, WindowInv

----------------------------------------------------------------------------
(* The packet handlers.                                                    *)

LEMMA DieProcessingWindow ==
  ASSUME TypeInv, WindowInv, pc = "process", NEW r \in Deaths \ {"nomem"},
         DieProcessing(r)
  PROVE  WindowInv'
  BY DieWindow DEF DieProcessing, Alive

LEMMA ProcOpenWindow ==
  TypeInv /\ TypeInv' /\ WindowInv /\ ProcOpen => WindowInv'
<1> SUFFICES ASSUME TypeInv, TypeInv', WindowInv, ProcOpen PROVE WindowInv'
  OBVIOUS
<1>1. Alive /\ inbuf > 0 /\ Packet.type = "OPEN" /\ pc = "process"
  BY DEF ProcOpen, Take, Alive
<1>2. CASE DieProcessing("proto") \/ DieProcessing("inval")
  BY <1>1, <1>2, DieProcessingWindow DEF Deaths
<1>3. ASSUME NEW size \in MaxPackets, Polite, maxpacket = 0, pid = NoPid,
             maxpacket' = (IF size > PacketLimit THEN PacketLimit ELSE size),
             remotewindow' = Packet.n, localwindow' = BufSize, rcvd' = rcvd,
             ssent' = ssent, Reply("CONFIRM", BufSize),
             UNCHANGED <<pid, fd0, fd1, remoteeof, len0, flagVars>>, Done
      PROVE  SafeInv' /\ LiveInv'
  <2> USE <1>3 DEF clientVars, childVars, sessVars, Done
  <2>1. SafeInv /\ LiveInv BY <1>1 DEF WindowInv
  <2>2. /\ remotewindow = 0 /\ localwindow = 0 /\ rcvd = 0 /\ ssent = 0
        /\ len0 = 0
    BY <2>1, TypeParts DEF LiveInv, OpenInv, BufferSafe, ChanType
  <2>3. maxpacket' # 0 BY <1>3
  <2>4. SafeInv' BY <2>1, <2>2 DEF SafeInv
  <2>5. ToServerInv'
    <3>1. /\ DataOf(Packet) = 0 /\ CreditOf(Packet) = Packet.n
          /\ Packet.n \in Nat
      BY <1>1, PacketFacts DEF DataOf, CreditOf
    <3>2. /\ rcvd' = rcvd + DataOf(Packet)
          /\ remotewindow' + ssent' = remotewindow + ssent + CreditOf(Packet)
      BY <3>1, <2>2
    <3> QED BY <1>1, <2>1, <3>2, TakeChain DEF LiveInv
  <2>6. ToClientInv'
    BY <2>1, <2>2, ReplyChain DEF LiveInv, ServerTypes
  <2>7. OpenInv' /\ NotStuckInv'
    BY <2>3, HalfFacts DEF OpenInv, NotStuckInv
  <2>8. EofInv' BY <1>1, <2>1, TakeEof DEF LiveInv, EofInv, Ended
  <2>9. ChildInv' BY <2>1 DEF LiveInv, ChildInv
  <2> QED BY <2>1, <2>4, <2>5, <2>6, <2>7, <2>8, <2>9 DEF LiveInv
<1> QED BY <1>2, <1>3 DEF ProcOpen, WindowInv

LEMMA ProcExecWindow ==
  TypeInv /\ TypeInv' /\ WindowInv /\ ProcExec => WindowInv'
<1> SUFFICES ASSUME TypeInv, TypeInv', WindowInv, ProcExec PROVE WindowInv'
  OBVIOUS
<1>1. Alive /\ inbuf > 0 /\ Packet.type \in {"SHELL", "EXEC"} /\ pc = "process"
  BY DEF ProcExec, Take, Alive
<1>2. CASE DieProcessing("exec") \/ DieProcessing("proto")
  BY <1>1, <1>2, DieProcessingWindow DEF Deaths
<1>3. ASSUME ~DieProcessing("exec"), ~DieProcessing("proto"), Polite
      PROVE  SafeInv' /\ LiveInv'
  <2> USE <1>3 DEF ProcExec, flagVars, totalVars, clientVars, sessVars
  <2>1. SafeInv /\ LiveInv BY <1>1 DEF WindowInv
  <2>2. len0 = 0 /\ len0' = 0
    BY TypeParts DEF BufferSafe, ChanType
  <2>3. SafeInv' BY <2>1, <2>2 DEF SafeInv
  <2>4. ToServerInv'
    <3>1. DataOf(Packet) = 0 /\ CreditOf(Packet) = 0
      BY <1>1 DEF DataOf, CreditOf
    <3>2. /\ rcvd' = rcvd + DataOf(Packet)
          /\ remotewindow' + ssent' = remotewindow + ssent + CreditOf(Packet)
      BY <3>1, TypeParts DEF ChanType
    <3> QED BY <1>1, <2>1, <3>2, TakeChain DEF LiveInv
  <2>5. ToClientInv'
    BY <2>1, TypeParts, ReplyChain DEF LiveInv, ServerTypes, ChanType
  <2>6. OpenInv' /\ NotStuckInv'
    BY <2>1, <2>2 DEF LiveInv, OpenInv, NotStuckInv
  <2>7. EofInv' BY <1>1, <2>1, TakeEof DEF LiveInv, EofInv, Ended
  <2>8. ChildInv' BY <2>1, <2>2 DEF LiveInv, ChildInv
  <2> QED BY <2>1, <2>3, <2>4, <2>5, <2>6, <2>7, <2>8 DEF LiveInv
<1> QED BY <1>2, <1>3 DEF WindowInv

(* OTHER, CLOSE and IGNORE: a packet without data or credit is taken and   *)
(* perhaps answered by one without.                                        *)
LEMMA PlainWindow ==
  ASSUME TypeInv, WindowInv, Alive, inbuf > 0,
         Packet.type \in {"OTHER", "CLOSE", "IGNORE"},
         toServer' = Tail(toServer), NoReply \/ Reply("REPLY", 0) \/ Reply("EOF", 0),
         UNCHANGED <<why, chanVars, totalVars, clientVars, childVars>>
  PROVE  WindowInv'
<1> USE DEF chanVars, totalVars, clientVars, childVars
<1>1. ASSUME Polite PROVE SafeInv' /\ LiveInv'
  <2>1. SafeInv /\ LiveInv BY <1>1 DEF WindowInv
  <2>2. maxpacket # 0 BY <2>1, TakeOpened DEF LiveInv
  <2>3. SafeInv' BY <2>1 DEF SafeInv
  <2>4. ToServerInv'
    <3>1. DataOf(Packet) = 0 /\ CreditOf(Packet) = 0 BY DEF DataOf, CreditOf
    <3>2. /\ rcvd' = rcvd + DataOf(Packet)
          /\ remotewindow' + ssent' = remotewindow + ssent + CreditOf(Packet)
      BY <3>1, TypeParts DEF ChanType
    <3> QED BY <2>1, <3>2, TakeChain DEF LiveInv
  <2>5. ToClientInv'
    <3>1. CASE NoReply
      BY <3>1, <2>1 DEF NoReply, LiveInv, ToClientInv
    <3>2. CASE Reply("REPLY", 0) \/ Reply("EOF", 0)
      BY <3>2, <2>1, TypeParts, ReplyChain DEF LiveInv, ServerTypes, ChanType
    <3> QED BY <3>1, <3>2
  <2>6. OpenInv' /\ NotStuckInv' /\ ChildInv'
    BY <2>1, <2>2 DEF LiveInv, OpenInv, NotStuckInv, ChildInv
  <2>7. EofInv' BY <2>1, TakeEof DEF LiveInv, EofInv, Ended
  <2> QED BY <2>1, <2>3, <2>4, <2>5, <2>6, <2>7 DEF LiveInv
<1> QED BY <1>1 DEF WindowInv

LEMMA ProcPlainWindow ==
  TypeInv /\ WindowInv /\ (ProcOther \/ ProcIgnore \/ ProcClose) => WindowInv'
<1>1. TypeInv /\ WindowInv /\ (ProcOther \/ ProcClose) => WindowInv'
  BY PlainWindow DEF ProcOther, ProcClose, Take, Done, Alive, sessVars
<1>2. TypeInv /\ WindowInv /\ ProcIgnore => WindowInv'
  BY PlainWindow DEF ProcIgnore, Take, Alive, NoReply
<1> QED BY <1>1, <1>2

LEMMA ProcDataWindow ==
  TypeInv /\ TypeInv' /\ WindowInv /\ ProcData => WindowInv'
<1> SUFFICES ASSUME TypeInv, TypeInv', WindowInv, ProcData PROVE WindowInv'
  OBVIOUS
<1>1. Alive /\ inbuf > 0 /\ Packet.type = "DATA" /\ pc = "process"
  BY DEF ProcData, Take, Alive
<1>2. CASE DieProcessing("proto")
  BY <1>1, <1>2, DieProcessingWindow DEF Deaths
<1>3. DataOf(Packet) = Packet.n /\ CreditOf(Packet) = 0 /\ Packet.n \in Nat
  BY <1>1, PacketFacts DEF DataOf, CreditOf
<1>n. /\ len0 \in Nat /\ localwindow \in Nat /\ rcvd \in Nat /\ csent \in Nat
      /\ cgot \in Nat /\ ssent \in Nat /\ remotewindow \in Nat
  BY TypeParts DEF ChanType, ClientType
<1>4. ASSUME Polite PROVE Packet.n <= localwindow /\ PutFits(Packet.n)
  <2>1. SafeInv /\ LiveInv BY <1>1, <1>4 DEF WindowInv
  <2>2. rcvd + Packet.n <= csent BY <1>1, <1>3, <2>1, HeadFacts DEF LiveInv
  <2>3. csent <= cgot /\ cgot <= localwindow + rcvd
    BY <2>1, Numbers DEF LiveInv
  <2>4. localwindow + len0 <= BufSize BY <2>1 DEF SafeInv
  <2> DEFINE n == Packet.n
  <2>5. n \in Nat /\ rcvd + n <= csent BY <1>3, <2>2
  <2> HIDE DEF n
  <2>6. n <= localwindow BY <2>5, <2>3, <1>n
  <2>7. len0 + n <= BufSize BY <2>5, <2>6, <2>4, <1>n
  <2> QED BY <2>6, <2>7 DEF PutFits, n
<1>5. ASSUME Polite, maxpacket # 0, pid > 0, fd0 = "open",
             len0' = len0 + Packet.n,
             localwindow' = Word(localwindow - Packet.n),
             rcvd' = rcvd + Packet.n,
             UNCHANGED <<maxpacket, pid, fd0, fd1, remoteeof, remotewindow,
                         flagVars, ssent, toClient, outbuf>>,
             Done
      PROVE  SafeInv' /\ LiveInv'
  <2> USE <1>5 DEF clientVars, childVars, sessVars, Done
  <2>1. SafeInv /\ LiveInv BY <1>1 DEF WindowInv
  <2> DEFINE n == Packet.n
  <2>2. /\ n \in Nat /\ n <= localwindow
        /\ len0' = len0 + n /\ rcvd' = rcvd + n
        /\ localwindow' = Word(localwindow - n)
    BY <1>3, <1>4
  <2>3. rcvd + n <= csent BY <1>1, <1>3, <2>1, HeadFacts DEF LiveInv
  <2> HIDE DEF n
  <2>4. localwindow' = localwindow - n
    <3>1. localwindow \in 0..MaxWindow BY TypeParts DEF ChanType
    <3> QED BY ONLY <2>2, <3>1, ClientAssumption DEF Word
  <2>5. /\ localwindow' + len0' = localwindow + len0
        /\ localwindow' + rcvd' = localwindow + rcvd
        /\ len0' = 0 => len0 = 0 /\ n = 0 /\ localwindow' = localwindow
    BY ONLY <2>2, <2>4, <1>n
  <2>6. SafeInv' BY <2>1, <2>5 DEF SafeInv
  <2>7. ToServerInv'
    <3>1. /\ rcvd' = rcvd + DataOf(Packet)
          /\ remotewindow' + ssent' = remotewindow + ssent + CreditOf(Packet)
      BY <1>3, <1>n
    <3> QED BY <1>1, <2>1, <3>1, TakeChain DEF LiveInv
  <2>8. ToClientInv' BY <2>1, <2>5 DEF LiveInv, ToClientInv
  <2>9. OpenInv' /\ NotStuckInv'
    BY <2>1, <2>5 DEF LiveInv, OpenInv, NotStuckInv
  <2>10. EofInv'
    <3>1. remoteeof = 1 => rcvd' = csent /\ Ended
      <4>1. remoteeof = 1 => rcvd = csent /\ Ended
        BY <2>1 DEF LiveInv, EofInv
      <4>2. rcvd = csent => rcvd' = csent
        BY ONLY <2>2, <2>3, <1>n
      <4> QED BY <4>1, <4>2
    <3> QED BY <1>1, <2>1, <3>1, TakeEof DEF LiveInv, EofInv, Ended
  <2>11. ChildInv'
    <3>1. rcvd = len0 + inpipe + consumed /\ inpipe \in Nat /\ consumed \in Nat
      BY <2>1, TypeParts DEF LiveInv, ChildInv, ChildType
    <3>2. rcvd' = len0' + inpipe + consumed
      BY ONLY <3>1, <2>2, <1>n
    <3> QED BY <3>2, <2>1 DEF LiveInv, ChildInv
  <2> QED BY <2>1, <2>6, <2>7, <2>8, <2>9, <2>10, <2>11 DEF LiveInv
<1>6. CASE ~PutFits(Packet.n) /\ DieProcessing("nomem")
  BY <1>6, <1>4 DEF WindowInv
<1> QED BY <1>2, <1>5, <1>6 DEF ProcData, WindowInv

LEMMA ProcAdjustWindow ==
  TypeInv /\ TypeInv' /\ WindowInv /\ ProcAdjust => WindowInv'
<1> SUFFICES ASSUME TypeInv, TypeInv', WindowInv, ProcAdjust, Polite
             PROVE  SafeInv' /\ LiveInv'
  BY DEF WindowInv
<1> USE DEF ProcAdjust, flagVars, totalVars, clientVars, childVars, sessVars,
        Done
<1>1. Alive /\ inbuf > 0 /\ Packet.type = "ADJUST" BY DEF Take, Alive
<1>2. SafeInv /\ LiveInv BY <1>1 DEF WindowInv
<1>3. DataOf(Packet) = 0 /\ CreditOf(Packet) = Packet.n /\ Packet.n \in Nat
  BY <1>1, PacketFacts DEF DataOf, CreditOf
<1>4. remotewindow' + ssent' = remotewindow + ssent + Packet.n
  <2> DEFINE n == Packet.n
  <2>1. n \in Nat /\ remotewindow + ssent + n <= cgrant
    BY <1>1, <1>2, <1>3, HeadFacts DEF LiveInv
  <2>2. crcvd <= ssent /\ cgrant - crcvd <= MaxWindow
    BY <1>2, Numbers DEF LiveInv, SafeInv
  <2>3. /\ remotewindow \in Nat /\ ssent \in Nat /\ crcvd \in Nat
        /\ cgrant \in Nat
    BY TypeParts DEF ChanType, ClientType
  <2>4. remotewindow' = Word(remotewindow + n) /\ ssent' = ssent OBVIOUS
  <2> HIDE DEF n
  <2>5. remotewindow + n <= MaxWindow
    BY ONLY <2>1, <2>2, <2>3, ClientAssumption
  <2>6. remotewindow' = remotewindow + n
    BY ONLY <2>1, <2>3, <2>4, <2>5, ClientAssumption DEF Word
  <2>7. remotewindow' + ssent' = remotewindow + ssent + n
    BY ONLY <2>1, <2>3, <2>4, <2>6
  <2> QED BY <2>7 DEF n
<1>5. rcvd' = rcvd + DataOf(Packet) BY <1>3, TypeParts DEF ChanType
<1>6. ToServerInv' BY <1>1, <1>2, <1>3, <1>4, <1>5, TakeChain DEF LiveInv
<1>7. ToClientInv' BY <1>2 DEF LiveInv, ToClientInv
<1>8. maxpacket # 0 BY <1>1, <1>2, TakeOpened DEF LiveInv
<1>9. OpenInv' /\ NotStuckInv' /\ ChildInv'
  BY <1>2, <1>8 DEF LiveInv, OpenInv, NotStuckInv, ChildInv
<1>10. EofInv' BY <1>1, <1>2, TakeEof DEF LiveInv, EofInv, Ended
<1>11. SafeInv' BY <1>2 DEF SafeInv
<1> QED BY <1>2, <1>6, <1>7, <1>9, <1>10, <1>11 DEF LiveInv

LEMMA ProcEofWindow ==
  TypeInv /\ TypeInv' /\ WindowInv /\ ProcEof => WindowInv'
<1> SUFFICES ASSUME TypeInv, TypeInv', WindowInv, ProcEof PROVE WindowInv'
  OBVIOUS
<1>1. Alive /\ inbuf > 0 /\ Packet.type = "EOF" /\ pc = "process"
  BY DEF ProcEof, Take, Alive
<1>2. CASE DieProcessing("proto")
  BY <1>1, <1>2, DieProcessingWindow DEF Deaths
<1>3. ASSUME Polite, ~DieProcessing("proto") PROVE SafeInv' /\ LiveInv'
  <2> USE <1>3 DEF ProcEof, flagVars, totalVars, clientVars, childVars,
          sessVars, Done
  <2>1. SafeInv /\ LiveInv BY <1>1 DEF WindowInv
  <2>2. SafeInv' BY <2>1 DEF SafeInv
  <2>3. DataOf(Packet) = 0 /\ CreditOf(Packet) = 0
    BY <1>1 DEF DataOf, CreditOf
  <2>4. ToServerInv'
    <3>1. /\ rcvd' = rcvd + DataOf(Packet)
          /\ remotewindow' + ssent' = remotewindow + ssent + CreditOf(Packet)
      BY <2>3, TypeParts DEF ChanType
    <3> QED BY <1>1, <2>1, <3>1, TakeChain DEF LiveInv
  <2>5. ToClientInv' BY <2>1 DEF LiveInv, ToClientInv
  <2>6. OpenInv' /\ NotStuckInv' BY <2>1 DEF LiveInv, OpenInv, NotStuckInv
  <2>7. ChildInv' BY <2>1 DEF LiveInv, ChildInv
  <2>8. rcvd = csent /\ Ended
    <3>1. Packet = toServer[1] /\ 1 \in 1..Len(toServer)
      BY <1>1, PacketFacts, TypeParts DEF InType
    <3>2. Packet.sent = csent /\ Ended BY <1>1, <2>1, <3>1 DEF LiveInv, EofInv
    <3>3. Packet.sent = rcvd + 0 BY <1>1, <2>1, <2>3, HeadFacts DEF LiveInv
    <3> QED BY <3>2, <3>3, TypeParts DEF ChanType
  <2>9. EofInv'
    BY <1>1, <2>1, <2>8, TakeEof DEF LiveInv, EofInv, Ended, FdAfter
  <2> QED BY <2>1, <2>2, <2>4, <2>5, <2>6, <2>7, <2>9 DEF LiveInv
<1> QED BY <1>2, <1>3 DEF WindowInv

LEMMA SessionWindow == TypeInv /\ TypeInv' /\ WindowInv /\ Session => WindowInv'
  BY PollWindow, NetWindow, WriteToChildWindow, ReadFromChildWindow,
     ProcOpenWindow, ProcExecWindow, ProcPlainWindow, ProcDataWindow,
     ProcAdjustWindow, ProcEofWindow
     DEF Session, Process

----------------------------------------------------------------------------
(* The client and the interpreter.                                         *)

(* What the client appends keeps the conditions on the packets in flight:  *)
(* nothing but OPEN before the channel is open, nothing before EOF's total.*)
LEMMA SendRest ==
  ASSUME TypeInv, OpenInv, EofInv, NEW t \in ClientTypes, NEW n \in Nat,
         Send(t, n), UNCHANGED <<chanVars, toClient, totalVars>>,
         t # "OPEN" => maxpacket # 0,
         maxpacket = 0 => cstate' \in {"start", "opening", "gone"},
         csent' = csent \/ ~Ended, t = "EOF" => csent' = csent /\ Ended',
         Ended => Ended'
  PROVE  OpenInv' /\ EofInv'
<1> DEFINE m == [type |-> t, n |-> n, sent |-> csent', granted |-> cgrant']
<1>1. toServer \in Seq(Message(ClientTypes)) BY TypeParts DEF InType
<1>2. toServer' = Append(toServer, m) /\ m.type = t /\ m.sent = csent'
  BY DEF Send
<1> HIDE DEF m
<1>3. /\ Len(toServer) \in Nat /\ Len(toServer') = Len(toServer) + 1
      /\ \A i \in 1..Len(toServer) : toServer'[i] = toServer[i]
      /\ toServer'[Len(toServer) + 1] = m
  BY <1>1, <1>2
<1>4. \A i \in 1..Len(toServer') :
        i \in 1..Len(toServer) \/ i = Len(toServer) + 1
  BY <1>3
<1> USE DEF chanVars, totalVars
<1>5. OpenInv' BY <1>2, <1>3, <1>4 DEF OpenInv
<1>6. \A i \in 1..Len(toServer') :
        toServer'[i].type = "EOF" => toServer'[i].sent = csent' /\ Ended'
  BY <1>2, <1>3, <1>4 DEF EofInv
<1>7. remoteeof = 1 => rcvd = csent' /\ Ended' BY DEF EofInv
<1> QED BY <1>5, <1>6, <1>7 DEF EofInv

(* A packet of the client that carries no data and no credit.              *)
LEMMA SendPlain ==
  ASSUME TypeInv, SafeInv, LiveInv, NEW t \in ClientTypes,
         t \notin {"OPEN", "ADJUST", "DATA"}, Send(t, 0),
         UNCHANGED <<chanVars, toClient, totalVars, childVars, why>>,
         UNCHANGED <<csent, cgrant, cgot, crcvd>>,
         maxpacket # 0, t = "EOF" => Ended', Ended => Ended'
  PROVE  SafeInv' /\ LiveInv'
<1> USE DEF chanVars, totalVars, childVars
<1>0. csent \in Nat /\ cgrant \in Nat BY TypeParts DEF ClientType
<1>1. csent' = csent + 0 /\ cgrant' = cgrant + 0 BY <1>0
<1>2. ToServerInv' BY <1>1, SendChain DEF LiveInv
<1>3. ToClientInv' BY DEF LiveInv, ToClientInv
<1>4. OpenInv' /\ EofInv' BY SendRest DEF LiveInv
<1>5. NotStuckInv' /\ ChildInv' BY DEF LiveInv, NotStuckInv, ChildInv
<1>6. SafeInv' BY DEF SafeInv
<1> QED BY <1>2, <1>3, <1>4, <1>5, <1>6 DEF LiveInv

LEMMA ClientSendWindow == TypeInv /\ WindowInv /\ ClientSend => WindowInv'
<1> SUFFICES ASSUME TypeInv, WindowInv, ClientSend, Polite
             PROVE  SafeInv' /\ LiveInv'
  BY DEF WindowInv
<1> USE DEF sessVars, chanVars, flagVars, totalVars, childVars
<1>1. SafeInv /\ LiveInv BY DEF ClientSend, WindowInv, Alive
<1>2. /\ csent \in Nat /\ cgrant \in Nat /\ crcvd \in Nat /\ ssent \in Nat
      /\ cgot \in Nat
  BY TypeParts DEF ClientType, ChanType
<1>3. /\ UNCHANGED <<chanVars, toClient, totalVars, childVars, why>>
      /\ cgot' = cgot /\ crcvd' = crcvd
  BY DEF ClientSend, ClientOpen, ClientExec, ClientOther, ClientData,
         ClientAdjust, ClientEof, ClientClose, ClientLeave
<1>4. ToClientInv' /\ NotStuckInv' /\ ChildInv'
  BY <1>1, <1>3 DEF LiveInv, ToClientInv, NotStuckInv, ChildInv
<1>5. cstate \in {"open", "running", "eof", "closed"} => maxpacket # 0
  BY <1>1 DEF LiveInv, OpenInv
<1>6. CASE ClientOpen
  <2>1. PICK w \in FirstWindows : /\ cgrant + w <= MaxWindow
                                  /\ cgrant' = cgrant + w /\ csent' = csent
                                  /\ Send("OPEN", w)
    BY <1>6 DEF ClientOpen
  <2>2. w \in Nat /\ cstate \in {"start", "open", "running"}
    BY <1>6 DEF ClientOpen, ClientAct
  <2>3. cstate' = (IF cstate = "start" THEN "opening" ELSE cstate)
    BY <1>6 DEF ClientOpen
  <2>4. csent' = csent + 0 BY <2>1, <1>2
  <2>5. ToServerInv'
    BY <1>1, <1>3, <2>1, <2>2, <2>4, SendChain DEF LiveInv, ClientTypes
  <2>6. OpenInv' /\ EofInv'
    BY <1>1, <1>3, <1>5, <2>1, <2>2, <2>3, SendRest
       DEF LiveInv, ClientTypes, Ended
  <2>7. SafeInv' BY <1>1, <1>2, <1>3, <2>1, <2>2 DEF SafeInv
  <2> QED BY <1>1, <1>3, <1>4, <2>1, <2>5, <2>6, <2>7 DEF LiveInv
<1>7. CASE ClientExec \/ ClientOther
  <2>1. /\ cstate \in {"open", "running"} /\ cstate' \in {cstate, "running"}
        /\ csent' = csent /\ cgrant' = cgrant
        /\ \E t \in {"SHELL", "EXEC", "OTHER", "IGNORE"} : Send(t, 0)
    BY <1>7 DEF ClientExec, ClientOther, ClientAct
  <2> QED BY <1>1, <1>3, <1>5, <2>1, SendPlain DEF ClientTypes, Ended
<1>8. CASE ClientData
  <2>1. PICK n \in 1..(PacketLimit - DataHeader) :
          /\ csent + n <= cgot /\ csent' = csent + n /\ cgrant' = cgrant
          /\ Send("DATA", n)
    BY <1>8 DEF ClientData
  <2>2. n \in Nat /\ cstate = "running" /\ cstate' = cstate
    BY <1>8 DEF ClientData, ClientAct
  <2>3. cgrant' = cgrant + 0 BY <2>1, <1>2
  <2>4. ToServerInv'
    BY <1>1, <1>3, <2>1, <2>2, <2>3, SendChain DEF LiveInv, ClientTypes
  <2>5. OpenInv' /\ EofInv'
    BY <1>1, <1>3, <1>5, <2>1, <2>2, SendRest DEF LiveInv, ClientTypes, Ended
  <2>6. SafeInv' BY <1>1, <1>3, <2>1 DEF SafeInv
  <2>7. csent' <= cgot' BY <1>3, <2>1
  <2> QED BY <1>4, <2>4, <2>5, <2>6, <2>7 DEF LiveInv
<1>9. CASE ClientAdjust
  <2>1. PICK n \in 1..MaxWindow :
          /\ cgrant + n - crcvd <= MaxWindow
          /\ cgrant' = cgrant + n /\ csent' = csent /\ Send("ADJUST", n)
    BY <1>9 DEF ClientAdjust
  <2>2. n \in Nat /\ cstate \in {"open", "running", "eof"} /\ cstate' = cstate
    BY <1>9 DEF ClientAdjust, ClientAct
  <2>3. csent' = csent + 0 BY <2>1, <1>2
  <2>4. ToServerInv'
    BY <1>1, <1>3, <2>1, <2>2, <2>3, SendChain DEF LiveInv, ClientTypes
  <2>5. OpenInv' /\ EofInv'
    BY <1>1, <1>3, <1>5, <2>1, <2>2, SendRest DEF LiveInv, ClientTypes, Ended
  <2>6. SafeInv' BY <1>1, <1>2, <1>3, <2>1, <2>2 DEF SafeInv
  <2> QED BY <1>1, <1>3, <1>4, <2>1, <2>4, <2>5, <2>6 DEF LiveInv
<1>10. CASE ClientEof \/ ClientClose
  <2>1. /\ cstate \in {"running", "eof"} /\ cstate' \in {"eof", "closed"}
        /\ csent' = csent /\ cgrant' = cgrant
        /\ \E t \in {"EOF", "CLOSE"} : Send(t, 0)
    BY <1>10 DEF ClientEof, ClientClose, ClientAct
  <2> QED BY <1>1, <1>3, <1>5, <2>1, SendPlain DEF ClientTypes, Ended
<1>11. CASE ClientLeave
  <2>1. /\ cstate' = "gone"
        /\ UNCHANGED <<csent, cgrant, opens, others, cgot, crcvd, toServer>>
    BY <1>11 DEF ClientLeave
  <2>2. ToServerInv' BY <1>1, <1>3, <2>1 DEF LiveInv, ToServerInv
  <2>3. OpenInv' /\ EofInv'
    BY <1>1, <1>3, <2>1 DEF LiveInv, OpenInv, EofInv, Ended
  <2>4. SafeInv' BY <1>1, <1>3, <2>1 DEF SafeInv
  <2> QED BY <1>1, <1>3, <1>4, <2>1, <2>2, <2>3, <2>4 DEF LiveInv
<1> QED BY <1>6, <1>7, <1>8, <1>9, <1>10, <1>11 DEF ClientSend

LEMMA ClientReceiveWindow == TypeInv /\ WindowInv /\ ClientReceive => WindowInv'
<1> SUFFICES ASSUME TypeInv, WindowInv, ClientReceive, Polite
             PROVE  SafeInv' /\ (Alive => LiveInv')
  BY DEF WindowInv, ClientReceive, sessVars, Alive
<1> USE DEF sessVars, chanVars, flagVars, totalVars, childVars
<1> DEFINE m == Head(toClient)
<1>1. /\ toClient \in Seq(Message(ServerTypes)) /\ Len(toClient) > 0
      /\ toClient' = Tail(toClient)
  BY TypeParts DEF ClientReceive, OutType
<1>2. m.n \in Nat /\ m.type \in ServerTypes
  <2>1. m \in Message(ServerTypes) BY <1>1, TailFacts
  <2> QED BY <2>1 DEF Message
<1>3. /\ crcvd' = crcvd + DataOf(m) /\ cgot' = cgot + CreditOf(m)
      /\ DataOf(m) \in Nat /\ CreditOf(m) \in Nat
      /\ crcvd \in Nat /\ cgot \in Nat /\ cgrant \in Nat /\ csent \in Nat
  BY <1>2, TypeParts DEF ClientReceive, ClientType, DataOf, CreditOf,
                         ServerTypes
<1> HIDE DEF m
<1>4. SafeInv' BY SMTT(30), <1>3 DEF ClientReceive, WindowInv, SafeInv
<1>5. ASSUME Alive PROVE LiveInv'
  <2>1. LiveInv BY <1>5 DEF WindowInv
  <2>2. maxpacket # 0 BY <1>1, <2>1 DEF LiveInv, OpenInv
  <2>3. ToServerInv' BY <2>1 DEF ClientReceive, LiveInv, ToServerInv
  <2>4. ToClientInv'
    <3>1. Chain(toClient, crcvd, ssent, cgot, localwindow + rcvd)
      BY <2>1 DEF LiveInv, ToClientInv
    <3>2. ssent \in Int /\ localwindow + rcvd \in Int
      BY TypeParts DEF ChanType
    <3>3. Chain(Tail(toClient), crcvd + DataOf(m), ssent, cgot + CreditOf(m),
                localwindow + rcvd)
      BY <1>1, <1>3, <3>1, <3>2, ChainTail DEF m
    <3>4. ssent' = ssent /\ localwindow' = localwindow /\ rcvd' = rcvd
      BY DEF ClientReceive
    <3> QED BY <1>1, <1>3, <3>3, <3>4 DEF ToClientInv
  <2>5. OpenInv' /\ NotStuckInv' /\ ChildInv'
    BY <2>1, <2>2 DEF ClientReceive, LiveInv, OpenInv, NotStuckInv, ChildInv
  <2>6. EofInv' BY <2>1 DEF ClientReceive, LiveInv, EofInv, Ended
  <2>7. csent' <= cgot'
    <3>1. csent <= cgot /\ csent' = csent BY <2>1 DEF LiveInv, ClientReceive
    <3> QED BY <1>3, <3>1
  <2> QED BY <2>3, <2>4, <2>5, <2>6, <2>7 DEF LiveInv
<1> QED BY <1>4, <1>5

LEMMA InterpreterWindow == TypeInv /\ WindowInv /\ Interpreter => WindowInv'
<1> SUFFICES ASSUME TypeInv, WindowInv, Interpreter, Polite
             PROVE  SafeInv' /\ (Alive => LiveInv')
  BY DEF WindowInv, Interpreter, sessVars, Alive
<1> USE DEF Interpreter, sessVars, chanVars, flagVars, netVars, totalVars,
        clientVars
<1>1. SafeInv' BY DEF WindowInv, SafeInv
<1>2. ASSUME Alive PROVE LiveInv'
  <2>1. LiveInv BY <1>2 DEF WindowInv
  <2>2. ToServerInv' /\ ToClientInv'
    BY <2>1 DEF LiveInv, ToServerInv, ToClientInv
  <2>3. OpenInv' /\ NotStuckInv' BY <2>1 DEF LiveInv, OpenInv, NotStuckInv
  <2>4. EofInv' BY <2>1 DEF LiveInv, EofInv, Ended
  <2>5. ChildInv'
    BY <2>1, TypeParts
       DEF LiveInv, ChildInv, ChildEcho, ChildPrint, ChildLeave,
           ChildSeesEof, ChildClose, ChildType, ChanType
  <2> QED BY <2>1, <2>2, <2>3, <2>4, <2>5 DEF LiveInv
<1> QED BY <1>1, <1>2

LEMMA WindowStutter == TypeInv /\ WindowInv /\ UNCHANGED vars => WindowInv'
<1> SUFFICES ASSUME TypeInv, WindowInv, UNCHANGED vars PROVE WindowInv'
  OBVIOUS
<1> USE DEF vars, sessVars, chanVars, netVars, totalVars, childVars
<1>1. CASE Alive BY <1>1, Frame
<1>2. CASE ~Alive BY <1>2 DEF WindowInv, SafeInv, Alive, clientVars
<1> QED BY <1>1, <1>2

(* The windows invariant: for a client that keeps to RFC 4254, what each   *)
(* end of the channel has counted and what is in flight always add up to   *)
(* what the other end has counted, through every handler of                *)
(* packet_channel_*.c, until the session ends.                             *)
THEOREM WindowInvariance == Spec => []WindowInv
<1>1. TypeInv /\ TypeInv' /\ WindowInv /\ [Next]_vars => WindowInv'
  BY SessionWindow, ClientSendWindow, ClientReceiveWindow, InterpreterWindow,
     WindowStutter
     DEF Next
<1> QED BY <1>1, WindowInit, TypeInvariance, PTL DEF Spec

----------------------------------------------------------------------------
(* The properties.                                                         *)

(* A client that keeps to its window is never killed by the bug_nomem of   *)
(* channel_put, because the local window never promises more than buf0 has *)
(* room for, and never has more in flight than the server still allows.    *)
THEOREM PoliteSafe == Spec => []PoliteClientSafe
<1>1. TypeInv /\ WindowInv => PoliteClientSafe
  <2> SUFFICES ASSUME TypeInv, WindowInv, Polite PROVE PoliteClientSafe
    BY DEF PoliteClientSafe
  <2>1. SafeInv BY DEF WindowInv
  <2>2. ASSUME Opened PROVE csent - rcvd <= localwindow
    <3>1. LiveInv BY <2>2 DEF WindowInv, Opened
    <3>2. csent <= cgot /\ cgot <= localwindow + rcvd
      BY <3>1, Numbers DEF LiveInv
    <3> QED BY <3>2, TypeParts DEF ChanType, ClientType
  <2> QED BY <2>1, <2>2 DEF SafeInv, PoliteClientSafe
<1> QED BY <1>1, WindowInvariance, TypeInvariance, PTL

(* channel_read never sends more than the client's window allows, and the  *)
(* sum in channel_incrementremotewindow never wraps around.                *)
THEOREM ClientSafe == Spec => []ClientNotOverrun
<1>1. TypeInv /\ WindowInv => ClientNotOverrun
  BY Numbers DEF WindowInv, SafeInv, LiveInv, Opened, ClientNotOverrun
<1> QED BY <1>1, WindowInvariance, TypeInvariance, PTL

(* With nothing in flight both ends agree on both windows: channel_open,   *)
(* channel_read and the adjustments lose no credit and invent none.        *)
THEOREM Agreement == Spec => []WindowsAgree
<1>1. TypeInv /\ WindowInv => WindowsAgree
  <2> SUFFICES ASSUME TypeInv, WindowInv, Polite, Opened,
                      toServer = <<>>, toClient = <<>>
               PROVE  /\ localwindow = cgot - csent
                      /\ remotewindow = cgrant - ssent
    BY DEF WindowsAgree
  <2>1. LiveInv BY DEF WindowInv, Opened
  <2>2. /\ rcvd \in Int /\ csent \in Int /\ remotewindow \in Int
        /\ ssent \in Int /\ cgrant \in Int /\ crcvd \in Int /\ cgot \in Int
        /\ localwindow \in Int
    BY TypeParts DEF ChanType, ClientType
  <2>3. rcvd = csent /\ remotewindow + ssent = cgrant
    BY <2>1, <2>2, ChainEmpty DEF LiveInv, ToServerInv
  <2>4. cgot = localwindow + rcvd
    BY <2>1, <2>2, ChainEmpty DEF LiveInv, ToClientInv
  <2> QED BY <2>2, <2>3, <2>4
<1> QED BY <1>1, WindowInvariance, TypeInvariance, PTL

(* packet_channel_send_windowadjust runs only after a write to the child;  *)
(* it never leaves the window low once buf0 is empty.                      *)
THEOREM NeverStuck == Spec => []WindowNotStuck
<1>1. WindowInv => WindowNotStuck
  BY DEF WindowInv, LiveInv, NotStuckInv, Opened, WindowNotStuck
<1> QED BY <1>1, WindowInvariance, PTL

(* A shell sees the end of its input only after every byte the client sent *)
(* before its EOF, because channel_puteof and channel_write close fd0 only *)
(* with buf0 empty.                                                        *)
THEOREM EofLast == Spec => []EofAfterInput
<1>1. TypeInv /\ WindowInv => EofAfterInput
  <2> SUFFICES ASSUME TypeInv, WindowInv, Polite, child = "sawEof", Alive
               PROVE  consumed = csent
    BY DEF EofAfterInput
  <2>1. LiveInv BY DEF WindowInv
  <2>2. inpipe = 0 /\ len0 = 0 /\ rcvd = csent
    BY <2>1 DEF LiveInv, ChildInv, EofInv
  <2> QED BY <2>1, <2>2, TypeParts DEF LiveInv, ChildInv, ChildType
<1> QED BY <1>1, WindowInvariance, TypeInvariance, PTL

----------------------------------------------------------------------------
(* Channel with a polite client implements CreditFlow.                     *)

(* The far end of a chain, and its near end from the first packet.         *)
LEMMA ChainLast ==
  ASSUME NEW q, NEW s0, NEW s1, NEW g0, NEW g1, Chain(q, s0, s1, g0, g1)
  PROVE  GrantedAt(q, g0, Len(q)) = g1
  BY DEF Chain

LEMMA ChainFirst ==
  ASSUME NEW T, NEW q \in Seq(Message(T)), NEW g0 \in Int, NEW g1 \in Int,
         NEW s0, NEW s1, Chain(q, s0, s1, g0, g1)
  PROVE  (IF q = <<>> THEN g1 ELSE Head(q).granted - CreditOf(Head(q))) = g0
<1>1. CASE q = <<>> BY <1>1, Len(q) = 0 DEF Chain, GrantedAt
<1>2. CASE q # <<>>
  <2>1. 1 \in 1..Len(q) /\ Head(q) = q[1] BY <1>2
  <2>2. q[1] \in Message(T) BY <2>1
  <2>3. CreditOf(q[1]) \in Nat BY <2>2 DEF CreditOf, Message
  <2>4. q[1].granted = g0 + CreditOf(q[1]) BY <2>1 DEF Chain, GrantedAt
  <2> QED BY <1>2, <2>1, <2>3, <2>4
<1> QED BY <1>1, <1>2

----------------------------------------------------------------------------
(* The packets to the client still lead from what it has seen to what was  *)
(* granted when the session has died and its windows are gone.             *)
FlowInv == Polite => Chain(toClient, crcvd, ssent, cgot, LastGranted)

FlowFacts == /\ LastGranted = localwindow + rcvd
             /\ FirstKnown = remotewindow + ssent
             /\ Chain(toClient, crcvd, ssent, cgot, LastGranted)

LEMMA FlowAlive == TypeInv /\ LiveInv => FlowFacts
<1> SUFFICES ASSUME TypeInv, LiveInv PROVE FlowFacts
  OBVIOUS
<1>1. LastGranted = localwindow + rcvd
  BY ChainLast DEF LiveInv, ToClientInv, LastGranted
<1>2. FirstKnown = remotewindow + ssent
  <2> DEFINE known == remotewindow + ssent
  <2>1. /\ toServer \in Seq(Message(ClientTypes))
        /\ remotewindow \in 0..MaxWindow /\ ssent \in Nat /\ cgrant \in Nat
    BY TypeParts DEF InType, ChanType, ClientType
  <2>2. known \in Int /\ cgrant \in Int BY <2>1, ClientAssumption
  <2>3. Chain(toServer, rcvd, csent, known, cgrant)
    BY DEF LiveInv, ToServerInv
  <2> HIDE DEF known
  <2>4. (IF toServer = <<>> THEN cgrant
         ELSE Head(toServer).granted - CreditOf(Head(toServer))) = known
    BY <2>1, <2>2, <2>3, ChainFirst
  <2> QED BY <2>4 DEF FirstKnown, known
<1> QED BY <1>1, <1>2 DEF LiveInv, ToClientInv, FlowFacts

LEMMA FlowAliveNext == TypeInv' /\ LiveInv' => FlowFacts'
  BY FlowAlive, PTL

(* A client that takes a packet from the queue, of a session alive or not. *)
LEMMA ReceiveFlow ==
  ASSUME TypeInv, Polite, FlowInv, ClientReceive
  PROVE  /\ Chain(toClient, crcvd, ssent, cgot, LastGranted)'
         /\ LastGranted' = LastGranted /\ cgot <= cgot' /\ cgot' <= LastGranted
         /\ crcvd <= crcvd' /\ crcvd' <= ssent
         /\ cgot' \in Nat /\ crcvd' \in Nat
<1> DEFINE m == Head(toClient)
<1>1. /\ toClient \in Seq(Message(ServerTypes)) /\ Len(toClient) > 0
      /\ toClient' = Tail(toClient) /\ ssent' = ssent
  BY TypeParts DEF ClientReceive, OutType, totalVars
<1>2. m.n \in Nat /\ m.type \in ServerTypes
  <2>1. m \in Message(ServerTypes) BY <1>1, TailFacts
  <2> QED BY <2>1 DEF Message
<1>3. /\ crcvd' = crcvd + DataOf(m) /\ cgot' = cgot + CreditOf(m)
      /\ DataOf(m) \in Nat /\ CreditOf(m) \in Nat
      /\ crcvd \in Nat /\ cgot \in Nat /\ ssent \in Nat
  <2>1. crcvd \in Nat /\ cgot \in Nat /\ ssent \in Nat
    BY TypeParts DEF ClientType, ChanType
  <2>2. DataOf(m) \in Nat /\ CreditOf(m) \in Nat
    BY <1>2 DEF DataOf, CreditOf
  <2>3. crcvd' = crcvd + DataOf(m) /\ cgot' = cgot + CreditOf(m)
    BY <1>2, <2>1 DEF ClientReceive, DataOf, CreditOf, ServerTypes
  <2> QED BY <2>1, <2>2, <2>3
<1>4. LastGranted \in Nat
  <2>1. CASE Len(toClient) = 0
    BY <2>1, TypeParts DEF LastGranted, GrantedAt, ClientType
  <2>2. CASE Len(toClient) # 0
    <3>1. toClient[Len(toClient)] \in Message(ServerTypes) BY <1>1, <2>2
    <3> QED BY <2>2, <3>1 DEF LastGranted, GrantedAt, Message
  <2> QED BY <2>1, <2>2
<1>5. Chain(toClient, crcvd, ssent, cgot, LastGranted) BY DEF FlowInv
<1> HIDE DEF m
<1>6. /\ m.sent = crcvd + DataOf(m) /\ m.granted = cgot + CreditOf(m)
      /\ m.sent <= ssent /\ m.granted <= LastGranted
      /\ Chain(Tail(toClient), crcvd + DataOf(m), ssent, cgot + CreditOf(m),
               LastGranted)
  BY <1>1, <1>3, <1>4, <1>5, ChainTail DEF m
<1>7. LastGranted' = LastGranted
  <2>1. GrantedAt(toClient', cgot', Len(toClient')) = LastGranted
    BY <1>1, <1>3, <1>6, ChainLast
  <2> QED BY <2>1 DEF LastGranted
<1> QED BY <1>1, <1>3, <1>6, <1>7

LEMMA FlowStep ==
  TypeInv /\ TypeInv' /\ WindowInv /\ WindowInv' /\ FlowInv /\ [Next]_vars
    => FlowInv'
<1> SUFFICES ASSUME TypeInv, TypeInv', WindowInv, WindowInv', FlowInv, Polite,
                    [Next]_vars
             PROVE  Chain(toClient, crcvd, ssent, cgot, LastGranted)'
  BY DEF FlowInv
<1>1. CASE Alive' BY <1>1, FlowAliveNext DEF WindowInv, FlowFacts
<1>2. CASE ClientReceive BY <1>2, ReceiveFlow
<1>3. CASE UNCHANGED <<toClient, crcvd, ssent, cgot>>
  BY <1>3 DEF FlowInv, LastGranted
<1>4. CASE ~Alive' /\ ~ClientReceive
  <2>1. CASE Session
    <3>1. \E r \in Deaths : Die(r) /\ UNCHANGED clientVars
      BY <1>4, <2>1
         DEF Session, Process, Poll, PollTimeout, WriteToChild, ReadFromChild,
             SendToNet, RecvFromNet, ProcOpen, ProcExec, ProcOther, ProcIgnore,
             ProcData, ProcAdjust, ProcEof, ProcClose, ProcDone, Done,
             Continue, PhaseAfter, DieProcessing, Alive, Take, sessVars,
             Deaths
    <3> QED BY <1>3, <3>1 DEF Die, netVars, totalVars, clientVars
  <2>2. CASE ClientSend
    BY <1>4, <2>2 DEF ClientSend, Alive, sessVars
  <2>3. CASE Interpreter \/ UNCHANGED vars
    BY <1>3, <2>3 DEF Interpreter, vars, netVars, totalVars, clientVars
  <2> QED BY <1>4, <2>1, <2>2, <2>3 DEF Next
<1> QED BY <1>1, <1>2, <1>4

LEMMA FlowInvariance == Spec => []FlowInv
<1>1. Init => FlowInv
  <2> SUFFICES ASSUME Init PROVE FlowInv
    OBVIOUS
  <2>1. Chain(<<>>, 0, 0, 0, 0) BY ChainEmpty
  <2> QED BY <2>1 DEF Init, FlowInv, LastGranted, GrantedAt
<1> QED BY <1>1, FlowStep, TypeInvariance, WindowInvariance, PTL DEF Spec

----------------------------------------------------------------------------
(* What each action does to the counters of the two flows.                 *)

FlowInvs == TypeInv /\ WindowInv /\ FlowInv

ToShellStep == [ToShell!Next]_(ToShell!vars)
ToUserStep  == [ToUser!Next]_(ToUser!vars)

(* The session took nothing, sent nothing and died of it, or another task  *)
(* moved: the counters are where they were.                                *)
LEMMA FlowSame ==
  ASSUME UNCHANGED <<toServer, toClient, ssent, csent, cgot, crcvd, cgrant>>,
         inpipe' + consumed' = inpipe + consumed
  PROVE  ToShellStep /\ ToUserStep
  BY DEF ToShellStep, ToUserStep, ToShell!vars, ToUser!vars, LastGranted,
         FirstKnown

(* A handler of a live session that leaves both windows' totals alone.     *)
LEMMA FlowKept ==
  ASSUME FlowInvs, FlowInvs', Polite, Alive, Alive',
         UNCHANGED <<cgot, crcvd, cgrant>>
  PROVE  /\ localwindow' + rcvd' = localwindow + rcvd
             => LastGranted' = LastGranted
         /\ remotewindow' + ssent' = remotewindow + ssent
             => FirstKnown' = FirstKnown
  BY FlowAlive, FlowAliveNext DEF FlowInvs, WindowInv, FlowFacts
(* packet_get removes a packet: the session learns of the credit in it.    *)
LEMMA TakeFlow ==
  ASSUME TypeInv, LiveInv, Len(toServer) > 0, toServer' = Tail(toServer),
         UNCHANGED <<cgrant, ssent, crcvd>>
  PROVE  ToUserStep
<1> DEFINE h == Head(toServer)
           g == FirstKnown + CreditOf(h)
<1>1. /\ toServer \in Seq(Message(ClientTypes)) /\ cgrant \in Nat
      /\ csent \in Nat /\ rcvd \in Nat
      /\ remotewindow \in Nat /\ ssent \in Nat
  BY TypeParts DEF InType, ClientType, ChanType
<1>2. FirstKnown = remotewindow + ssent /\ FirstKnown \in Nat
  BY <1>1, FlowAlive DEF FlowFacts
<1>3. Chain(toServer, rcvd, csent, FirstKnown, cgrant)
  BY <1>2 DEF LiveInv, ToServerInv
<1>4. h \in Message(ClientTypes) /\ Tail(toServer) \in Seq(Message(ClientTypes))
  BY <1>1, TailFacts
<1>5. CreditOf(h) \in Nat BY <1>4 DEF CreditOf, Message
<1>6. /\ Chain(Tail(toServer), rcvd + DataOf(h), csent, g, cgrant)
      /\ FirstKnown <= g /\ g <= cgrant /\ g \in Nat
  <2>1. h.granted = g /\ h.granted <= cgrant
    BY <1>1, <1>2, <1>3, ChainTail
  <2>2. Chain(Tail(toServer), rcvd + DataOf(h), csent, g, cgrant)
    BY <1>1, <1>2, <1>3, ChainTail
  <2> QED BY <2>1, <2>2, <1>2, <1>5
<1> HIDE DEF h, g
<1>7. FirstKnown' = g
  <2> DEFINE q == Tail(toServer)
  <2>1. q \in Seq(Message(ClientTypes)) /\ g \in Int /\ cgrant \in Int
    BY <1>1, <1>4, <1>6
  <2>2. Chain(q, rcvd + DataOf(h), csent, g, cgrant) BY <1>6
  <2>3. (IF q = <<>> THEN cgrant ELSE Head(q).granted - CreditOf(Head(q))) = g
    BY ONLY <2>1, <2>2, ChainFirst
  <2> QED BY <2>3 DEF FirstKnown
<1>8. ToUser!Learn
  BY <1>6, <1>7 DEF ToUser!Learn
<1> QED BY <1>8 DEF ToUserStep, ToUser!Next

LEMMA RoomFacts ==
  ASSUME NEW a \in Nat, NEW b \in Nat, NEW c \in Nat, b + c <= BufSize
  PROVE  b + a <= (a - c) + BufSize
  OBVIOUS

LEMMA SumFacts ==
  ASSUME NEW a \in Nat, NEW b \in Nat, NEW c \in Nat, b <= c
  PROVE  c + a \in Nat /\ b + a <= c + a
  OBVIOUS

LEMMA DiffFacts ==
  ASSUME NEW a \in Nat, NEW b \in Nat, a - b <= MaxWindow
  PROVE  a <= b + MaxWindow
  OBVIOUS

LEMMA WriteToChildFlow ==
  FlowInvs /\ FlowInvs' /\ Polite /\ WriteToChild => ToShellStep /\ ToUserStep
<1> SUFFICES ASSUME FlowInvs, FlowInvs', Polite, WriteToChild
             PROVE  ToShellStep /\ ToUserStep
  OBVIOUS
<1>1. CASE Die("write") /\ inpipe' = inpipe
  BY <1>1, FlowSame DEF WriteToChild, Die, netVars, totalVars, clientVars
<1>2. ASSUME NEW w \in 1..len0,
             len0' = len0 - w, inpipe' = inpipe + w, rcvd' = rcvd,
             ssent' = ssent, SendWindowAdjust(len0', localwindow), Continue,
             toServer' = toServer, clientVars' = clientVars,
             consumed' = consumed
      PROVE  ToShellStep /\ ToUserStep
  <2> USE <1>2 DEF clientVars
  <2>1. Alive /\ Alive'
    BY DEF WriteToChild, Alive, Continue, PhaseAfter
  <2>2. SafeInv /\ LiveInv /\ SafeInv' /\ LiveInv'
    BY <2>1 DEF FlowInvs, WindowInv
  <2>3. /\ LastGranted = localwindow + rcvd /\ LastGranted' = localwindow' + rcvd
        /\ rcvd = len0 + inpipe + consumed
        /\ rcvd = len0' + inpipe' + consumed
        /\ rcvd <= csent
    <3>1. FlowFacts /\ FlowFacts' BY <2>2, FlowAlive, FlowAliveNext DEF FlowInvs
    <3>2. rcvd <= csent BY <2>2, Numbers DEF FlowInvs, LiveInv
    <3> QED BY <2>2, <3>1, <3>2 DEF FlowFacts, LiveInv, ChildInv
  <2>4. /\ len0 \in Nat /\ localwindow \in Nat /\ rcvd \in Nat /\ csent \in Nat
        /\ inpipe \in Nat /\ consumed \in Nat
    BY TypeParts DEF FlowInvs, ChanType, ChildType, ClientType
  <2>5. localwindow' \in Nat /\ localwindow <= localwindow'
    <3>1. CASE len0' > Half \/ localwindow > Half
      BY <2>4, <3>1 DEF SendWindowAdjust
    <3>2. CASE ~(len0' > Half \/ localwindow > Half)
      <4> DEFINE plus == BufSize - len0' - localwindow
      <4>1. /\ plus \in Nat /\ plus <= MaxWindow
            /\ localwindow + plus \in Nat /\ localwindow + plus <= BufSize
        BY <3>2, <2>2, <2>4, HalfFacts DEF SafeInv
      <4>2. Word(plus) = plus /\ Word(localwindow + plus) = localwindow + plus
        BY <4>1 DEF Word
      <4>3. localwindow' = localwindow + plus
        BY <3>2, <4>2 DEF SendWindowAdjust
      <4> QED BY <4>1, <4>3, <2>4
    <3> QED BY <3>1, <3>2
  <2>6. localwindow' + len0' <= BufSize BY <2>2 DEF SafeInv
  <2>7. ToShell!Release
    <3> DEFINE t == inpipe + consumed
    <3>1. t' = t + w /\ t \in Nat /\ w \in Nat BY <2>4
    <3>2. t' \in Nat /\ t <= t' BY <3>1
    <3>3. t' = rcvd - len0' /\ len0' \in Nat BY <2>3, <2>4
    <3> HIDE DEF t
    <3>4. t' <= csent BY ONLY <2>3, <2>4, <3>3
    <3>5. LastGranted' <= t' + BufSize
      <4>1. LastGranted' = localwindow' + rcvd BY <2>3
      <4>2. localwindow' \in Nat /\ rcvd \in Nat /\ len0' \in Nat
        BY <2>4, <2>5, <3>3
      <4>3. t' = rcvd - len0' BY <3>3
      <4> QED BY ONLY <4>1, <4>2, <4>3, <2>6, RoomFacts
    <3>6. LastGranted' \in Nat /\ LastGranted <= LastGranted'
      <4>1. LastGranted = localwindow + rcvd /\ LastGranted' = localwindow' + rcvd
        BY <2>3
      <4> QED BY ONLY <4>1, <2>4, <2>5, SumFacts
    <3>7. cgot' = cgot /\ csent' = csent OBVIOUS
    <3> QED BY ONLY <3>2, <3>4, <3>5, <3>6, <3>7 DEF ToShell!Release, t
  <2>8. FirstKnown' = FirstKnown BY DEF FirstKnown
  <2> QED BY <2>7, <2>8
          DEF ToShellStep, ToShell!Next, ToUserStep, ToUser!vars
<1> QED BY <1>1, <1>2 DEF WriteToChild
LEMMA ReadFromChildFlow ==
  FlowInvs /\ FlowInvs' /\ Polite /\ ReadFromChild => ToShellStep /\ ToUserStep
<1> SUFFICES ASSUME FlowInvs, FlowInvs', Polite, ReadFromChild
             PROVE  ToShellStep /\ ToUserStep
  OBVIOUS
<1>1. ASSUME UNCHANGED <<netVars, totalVars>> PROVE ToShellStep /\ ToUserStep
  BY <1>1, FlowSame DEF ReadFromChild, netVars, totalVars, clientVars
<1>2. CASE Die("pipe") \/ Die("inval") BY <1>1, <1>2 DEF Die
<1>3. ASSUME NEW r \in ReadSizes, Continue,
             remotewindow' = remotewindow - r, ssent' = ssent + r,
             rcvd' = rcvd, localwindow' = localwindow, toServer' = toServer,
             UNCHANGED <<clientVars, child, inpipe, consumed, printed>>
      PROVE  ToShellStep /\ ToUserStep
  <2> USE <1>3 DEF clientVars
  <2>1. Alive /\ Alive' BY DEF ReadFromChild, Alive, Continue, PhaseAfter
  <2>2. LastGranted' = LastGranted
    <3>1. localwindow' + rcvd' = localwindow + rcvd OBVIOUS
    <3> QED BY <2>1, <3>1, FlowKept
  <2>3. FirstKnown' = FirstKnown BY DEF FirstKnown
  <2>4. FirstKnown' = remotewindow' + ssent'
    BY <2>1, FlowAliveNext DEF FlowInvs, WindowInv, FlowFacts
  <2>5. r \in Nat /\ remotewindow' \in Nat /\ ssent \in Nat
    <3>1. r \in Nat /\ r <= remotewindow BY DEF ReadSizes
    <3> QED BY <3>1, TypeParts DEF FlowInvs, ChanType
  <2>6. ssent' \in Nat /\ ssent <= ssent' /\ ssent' <= FirstKnown
    BY <2>3, <2>4, <2>5
  <2>7. ToUser!Transmit BY <2>3, <2>6 DEF ToUser!Transmit
  <2> QED BY <2>2, <2>7
          DEF ToUserStep, ToUser!Next, ToShellStep, ToShell!vars
<1> QED BY <1>1, <1>2, <1>3 DEF ReadFromChild, Reply

(* The handlers after which the session lives on, but for CHANNEL_OPEN.    *)
LEMMA HandleFlow ==
  ASSUME FlowInvs, FlowInvs', Polite, Alive, Alive', inbuf > 0,
         toServer' = Tail(toServer), ssent' = ssent,
         UNCHANGED <<clientVars, inpipe, consumed>>,
         toClient' = toClient \/ localwindow' + rcvd' = localwindow + rcvd
  PROVE  ToShellStep /\ ToUserStep
<1> USE DEF clientVars
<1>1. LastGranted' = LastGranted BY FlowKept DEF LastGranted
<1>2. ToShellStep BY <1>1 DEF ToShellStep, ToShell!vars
<1>3. Len(toServer) > 0 BY TypeParts DEF FlowInvs, InType
<1> QED BY <1>2, <1>3, TakeFlow DEF FlowInvs, WindowInv

LEMMA ProcOpenFlow ==
  FlowInvs /\ FlowInvs' /\ Polite /\ ProcOpen /\ Alive'
    => ToShellStep /\ ToUserStep
<1> SUFFICES ASSUME FlowInvs, FlowInvs', Polite, ProcOpen, Alive'
             PROVE  ToShellStep /\ ToUserStep
  OBVIOUS
<1>1. /\ Alive /\ inbuf > 0 /\ maxpacket = 0 /\ pid = NoPid /\ Done
      /\ localwindow' = BufSize /\ rcvd' = rcvd /\ ssent' = ssent
  BY DEF ProcOpen, Take, Alive, DieProcessing, Die
<1> USE <1>1 DEF Done, clientVars, childVars
<1>2. FlowFacts /\ FlowFacts' /\ LiveInv
  BY FlowAlive, FlowAliveNext DEF FlowInvs, WindowInv
<1>3. localwindow = 0 /\ rcvd = 0 /\ len0 = 0
  BY <1>2, TypeParts DEF LiveInv, OpenInv, FlowInvs, BufferSafe, ChanType
<1>4. LastGranted = 0 /\ LastGranted' = BufSize
  BY <1>2, <1>3 DEF FlowFacts
<1>5. inpipe \in Nat /\ consumed \in Nat /\ csent \in Nat
  BY TypeParts DEF FlowInvs, ChildType, ClientType
<1>6. inpipe + consumed = 0 /\ (inpipe + consumed)' = 0
  BY <1>2, <1>3, <1>5 DEF LiveInv, ChildInv
<1>7. ToShell!Release BY <1>4, <1>5, <1>6 DEF ToShell!Release
<1>8. Len(toServer) > 0 BY TypeParts DEF FlowInvs, InType
<1> QED BY <1>2, <1>7, <1>8, TakeFlow DEF ToShellStep, ToShell!Next, FlowInvs

LEMMA ProcessFlow ==
  FlowInvs /\ FlowInvs' /\ Polite /\ Process => ToShellStep /\ ToUserStep
<1> SUFFICES ASSUME FlowInvs, FlowInvs', Polite, Process
             PROVE  ToShellStep /\ ToUserStep
  OBVIOUS
<1> USE DEF flagVars, chanVars, totalVars, clientVars, childVars, sessVars
<1>1. pc = "process" /\ Alive BY DEF Process, ProcOpen, ProcExec, ProcOther,
       ProcIgnore, ProcData, ProcAdjust, ProcEof, ProcClose, ProcDone, Take,
       Alive
<1>2. CASE \E r \in Deaths : DieProcessing(r)
  BY <1>2, FlowSame DEF DieProcessing, Die, netVars
<1>3. CASE ProcDone BY <1>3, FlowSame DEF ProcDone, netVars
<1>4. CASE ProcOpen
  <2>1. CASE Alive' BY <1>4, <2>1, ProcOpenFlow
  <2>2. CASE ~Alive'
    BY <1>1, <1>2, <1>4, <2>2 DEF ProcOpen, Done, Alive, Deaths
  <2> QED BY <2>1, <2>2
<1>5. CASE ProcExec
  <2>1. CASE pid' = DummyPid /\ ~\E r \in Deaths : DieProcessing(r)
    BY <1>1, <1>5, <2>1, HandleFlow DEF ProcExec, Take, Alive, Deaths
  <2>2. CASE \E r \in Deaths : DieProcessing(r) BY <1>2, <2>2
  <2>3. \/ pid' = DummyPid
        \/ \E r \in {"exec", "proto"} : DieProcessing(r)
    BY <1>5 DEF ProcExec
  <2>4. {"exec", "proto"} \subseteq Deaths BY DEF Deaths
  <2> QED BY <2>1, <2>2, <2>3, <2>4
<1>6. CASE ProcOther \/ ProcClose
  BY <1>1, <1>6, HandleFlow DEF ProcOther, ProcClose, Take, Done, Alive
<1>7. CASE ProcIgnore
  BY <1>1, <1>7, HandleFlow DEF ProcIgnore, Take, Alive
<1>8. CASE ProcData /\ ~\E r \in Deaths : DieProcessing(r)
  BY <1>1, <1>8, HandleFlow DEF ProcData, Take, Done, Alive, Deaths
<1>9. CASE ProcAdjust
  BY <1>1, <1>9, HandleFlow DEF ProcAdjust, Take, Done, Alive
<1>10. CASE ProcEof /\ ~\E r \in Deaths : DieProcessing(r)
  BY <1>1, <1>10, HandleFlow DEF ProcEof, Take, Done, Alive, Deaths
<1> QED BY <1>2, <1>3, <1>4, <1>5, <1>6, <1>7, <1>8, <1>9, <1>10 DEF Process
LEMMA SessionFlow ==
  FlowInvs /\ FlowInvs' /\ Polite /\ Session => ToShellStep /\ ToUserStep
<1> SUFFICES ASSUME FlowInvs, FlowInvs', Polite, Session
             PROVE  ToShellStep /\ ToUserStep
  OBVIOUS
<1>1. CASE Poll \/ PollTimeout
  BY <1>1, FlowSame DEF Poll, PollTimeout, netVars, totalVars, clientVars,
                       childVars
<1>2. CASE SendToNet \/ RecvFromNet
  BY <1>2, FlowSame DEF SendToNet, RecvFromNet, Die, netVars, totalVars,
                       clientVars, childVars
<1> QED BY <1>1, <1>2, WriteToChildFlow, ReadFromChildFlow, ProcessFlow
        DEF Session

LEMMA ClientSendFlow ==
  FlowInvs /\ FlowInvs' /\ Polite /\ ClientSend => ToShellStep /\ ToUserStep
<1> SUFFICES ASSUME FlowInvs, FlowInvs', Polite, ClientSend
             PROVE  ToShellStep /\ ToUserStep
  OBVIOUS
<1> USE DEF sessVars, chanVars, totalVars, childVars
<1>1. /\ Alive /\ Alive' /\ UNCHANGED <<toClient, cgot, crcvd, ssent>>
      /\ UNCHANGED <<inpipe, consumed, remotewindow>>
  BY DEF ClientSend, Alive, ClientOpen, ClientExec, ClientOther, ClientData,
         ClientAdjust, ClientEof, ClientClose, ClientLeave
<1>2. SafeInv' /\ LiveInv' /\ FlowFacts /\ FlowFacts'
  BY <1>1, FlowAlive, FlowAliveNext DEF FlowInvs, WindowInv
<1>3. LastGranted' = LastGranted /\ FirstKnown' = FirstKnown
  BY <1>1, <1>2 DEF FlowFacts, LastGranted
<1>4. /\ csent \in Nat /\ cgrant \in Nat /\ crcvd \in Nat /\ ssent \in Nat
      /\ crcvd <= ssent
  BY <1>1, Numbers, TypeParts
     DEF FlowInvs, WindowInv, LiveInv, ClientType, ChanType
<1>5. CASE csent' = csent
  <2>1. ToShellStep BY <1>1, <1>3, <1>5 DEF ToShellStep, ToShell!vars
  <2>2. cgrant' \in Nat /\ cgrant <= cgrant'
    <3>1. cgrant' = cgrant \/ \E n \in Nat : cgrant' = cgrant + n
      BY DEF ClientSend, ClientOpen, ClientExec, ClientOther, ClientData,
             ClientAdjust, ClientEof, ClientClose, ClientLeave
    <3> QED BY <3>1, <1>4
  <2>3. cgrant' <= crcvd + MaxWindow
    <3>1. cgrant' - crcvd <= MaxWindow BY <1>1, <1>2 DEF SafeInv
    <3> QED BY <3>1, <1>4, <1>1, <2>2, DiffFacts
  <2>4. ToUser!Release
    BY <1>1, <1>3, <1>4, <2>2, <2>3 DEF ToUser!Release
  <2> QED BY <2>1, <2>4 DEF ToUserStep, ToUser!Next
<1>6. CASE csent' # csent
  <2>1. PICK n \in 1..(PacketLimit - DataHeader) :
          csent + n <= cgot /\ csent' = csent + n /\ cgrant' = cgrant
    BY <1>6 DEF ClientSend, ClientOpen, ClientExec, ClientOther, ClientData,
           ClientAdjust, ClientEof, ClientClose, ClientLeave
  <2>2. ToShell!Transmit BY <1>1, <1>3, <1>4, <2>1 DEF ToShell!Transmit
  <2>3. ToUserStep BY <1>1, <1>3, <2>1 DEF ToUserStep, ToUser!vars
  <2> QED BY <2>2, <2>3 DEF ToShellStep, ToShell!Next
<1> QED BY <1>5, <1>6

LEMMA ClientReceiveFlow ==
  FlowInvs /\ FlowInvs' /\ Polite /\ ClientReceive => ToShellStep /\ ToUserStep
<1> SUFFICES ASSUME FlowInvs, FlowInvs', Polite, ClientReceive
             PROVE  ToShellStep /\ ToUserStep
  OBVIOUS
<1>1. /\ LastGranted' = LastGranted /\ cgot <= cgot' /\ cgot' <= LastGranted
      /\ crcvd <= crcvd' /\ crcvd' <= ssent /\ cgot' \in Nat /\ crcvd' \in Nat
  BY ReceiveFlow DEF FlowInvs
<1>2. /\ UNCHANGED <<toServer, ssent, csent, cgrant, inpipe, consumed>>
      /\ FirstKnown' = FirstKnown
  BY DEF ClientReceive, totalVars, childVars, FirstKnown
<1>3. ToShell!Learn BY <1>1, <1>2 DEF ToShell!Learn
<1>4. cgrant \in Nat /\ cgrant' <= crcvd' + MaxWindow
  <2>1. cgrant - crcvd' <= MaxWindow BY <1>2 DEF FlowInvs, WindowInv, SafeInv
  <2>2. cgrant \in Nat BY TypeParts DEF FlowInvs, ClientType
  <2> QED BY <1>1, <1>2, <2>1, <2>2, DiffFacts
<1>5. ToUser!Release
  <2>1. cgrant' \in Nat /\ cgrant <= cgrant' BY <1>2, <1>4
  <2>2. FirstKnown' = FirstKnown /\ ssent' = ssent BY <1>2
  <2> QED BY <1>1, <1>4, <2>1, <2>2 DEF ToUser!Release
<1> QED BY <1>3, <1>5
        DEF ToShellStep, ToShell!Next, ToUserStep, ToUser!Next

LEMMA InterpreterFlow ==
  FlowInvs /\ Interpreter => ToShellStep /\ ToUserStep
<1> SUFFICES ASSUME FlowInvs, Interpreter PROVE ToShellStep /\ ToUserStep
  OBVIOUS
<1>1. inpipe \in Nat /\ consumed \in Nat
  BY TypeParts DEF FlowInvs, ChildType
<1>2. inpipe' + consumed' = inpipe + consumed
  BY <1>1 DEF Interpreter, ChildEcho, ChildPrint, ChildLeave, ChildSeesEof,
              ChildClose
<1> QED BY <1>2, FlowSame DEF Interpreter, netVars, totalVars, clientVars

----------------------------------------------------------------------------
LEMMA FlowInvsInvariance == Spec => []FlowInvs
  BY TypeInvariance, WindowInvariance, FlowInvariance, PTL DEF FlowInvs

LEMMA FlowNext ==
  FlowInvs /\ FlowInvs' /\ Polite /\ [Next]_vars => ToShellStep /\ ToUserStep
<1>1. ASSUME UNCHANGED vars PROVE ToShellStep /\ ToUserStep
  BY <1>1, FlowSame DEF vars, netVars, totalVars, clientVars, childVars
<1> QED BY <1>1, SessionFlow, ClientSendFlow, ClientReceiveFlow,
           InterpreterFlow DEF Next

(* With a polite client, channel_open, channel_put, channel_write and      *)
(* packet_channel_send_windowadjust give credit for free room of buf0 only *)
(* and count each byte once, through every step of the loop and the death  *)
(* of the session.                                                         *)
THEOREM InputImplements == ASSUME Polite PROVE Spec => InputFlow
<1>1. Init => ToShell!Init
  BY DEF Init, ToShell!Init, LastGranted, GrantedAt
<1>2. FlowInvs /\ FlowInvs' /\ [Next]_vars => ToShellStep BY FlowNext
<1> QED BY <1>1, <1>2, FlowInvsInvariance, PTL
        DEF Spec, InputFlow, ToShell!Spec, ToShellStep

(* The same for channel_read and channel_incrementremotewindow towards the *)
(* client.                                                                 *)
THEOREM OutputImplements == ASSUME Polite PROVE Spec => OutputFlow
<1>1. Init => ToUser!Init
  BY DEF Init, ToUser!Init, FirstKnown
<1>2. FlowInvs /\ FlowInvs' /\ [Next]_vars => ToUserStep BY FlowNext
<1> QED BY <1>1, <1>2, FlowInvsInvariance, PTL
        DEF Spec, OutputFlow, ToUser!Spec, ToUserStep

=============================================================================
