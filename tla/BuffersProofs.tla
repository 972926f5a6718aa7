--------------------------- MODULE BuffersProofs ---------------------------
(***************************************************************************)
(* For every size of packets, buffers and reads: type correctness of       *)
(* PacketBuffers, that no packet of the client is ever checked with the    *)
(* wrong number, keys or length, that sendbuf has room for the answers a   *)
(* client may wait for, and that compaction stays inside recvbuf.          *)
(***************************************************************************)
EXTENDS PacketBuffers, FiniteSetTheorems, TLAPS

PacketTypes == {"kex", "newkeys", "auth", "request", "data", "other", "ignore"}

\* Types without sendbuf, which Verified does not depend on.
ReceiveType ==
  /\ pc \in {"getall", "poll", "child", "data", "send", "recv", "process",
             "dead"}
  /\ fill \in Nat /\ plen \in Nat /\ recvid \in Nat /\ keys \in BOOLEAN
  /\ inq \in Seq(Packets) /\ unread \in Nat
  /\ phase \in {"kex", "auth", "open"} /\ csent \in Nat

\* The packets that have not been taken are numbered from receivepacketid on.
Numbered == /\ csent = recvid + Len(inq)
            /\ \A i \in 1..Len(inq) : inq[i].number = recvid + i - 1

\* Encrypted are those behind NEWKEYS, whether it has been taken or not.
Sealing ==
  /\ phase = "kex" <=> ~keys /\ \A i \in 1..Len(inq) : inq[i].type # "newkeys"
  /\ \A i \in 1..Len(inq) :
       /\ inq[i].sealed <=>
            keys \/ \E j \in 1..Len(inq) : j < i /\ inq[j].type = "newkeys"
       /\ inq[i].type = "newkeys" => ~inq[i].sealed
       /\ inq[i].type = "auth" => inq[i].sealed
  /\ pc \notin {"getall", "dead"} => keys

ReceiveInv == ReceiveType /\ Numbered /\ Sealing /\ FrontKnown /\ Verified

LEMMA Sizes ==
  /\ PacketLimit \in Nat /\ FullLimit \in Nat /\ RecvSlots \in Nat
  /\ LenBytes \in Nat /\ LenBytes > 0 /\ AuthBytes \in Nat
  /\ \A n \in Lengths : n \in Nat /\ n > 0
  /\ \A n \in ReadSizes : n \in Nat
<1>1. /\ PacketLimit \in Nat /\ FullLimit \in Nat /\ RecvSlots \in Nat
      /\ LenBytes \in Nat /\ AuthBytes \in Nat
  BY Zenon, SizeAssumption
<1> QED BY <1>1, SizeAssumption

LEMMA AppendFacts ==
  ASSUME NEW S, NEW s \in Seq(S), NEW e \in S
  PROVE  /\ Append(s, e) \in Seq(S)
         /\ Len(Append(s, e)) = Len(s) + 1
         /\ \A i \in 1..Len(s) : Append(s, e)[i] = s[i]
         /\ Append(s, e)[Len(s) + 1] = e
  OBVIOUS

LEMMA TailFacts ==
  ASSUME NEW S, NEW s \in Seq(S), s # <<>>
  PROVE  /\ Tail(s) \in Seq(S) /\ Head(s) = s[1] /\ s[1] \in S
         /\ Len(s) \in Nat /\ Len(s) > 0 /\ Len(Tail(s)) = Len(s) - 1
         /\ \A i \in 1..(Len(s) - 1) : Tail(s)[i] = s[i + 1]
         /\ \A i \in 1..Len(s) : i # 1 => /\ i - 1 \in 1..(Len(s) - 1)
                                         /\ Tail(s)[i - 1] = s[i]
<1>1. /\ Tail(s) \in Seq(S) /\ Head(s) = s[1] /\ s[1] \in S
      /\ Len(s) \in Nat /\ Len(s) > 0 /\ Len(Tail(s)) = Len(s) - 1
      /\ \A i \in 1..(Len(s) - 1) : Tail(s)[i] = s[i + 1]
  OBVIOUS
<1>2. ASSUME NEW i \in 1..Len(s), i # 1
      PROVE  i - 1 \in 1..(Len(s) - 1) /\ Tail(s)[i - 1] = s[i]
  <2>1. i - 1 \in 1..(Len(s) - 1) /\ (i - 1) + 1 = i BY <1>1, <1>2
  <2>2. Tail(s)[i - 1] = s[(i - 1) + 1] BY <1>1, <2>1
  <2> QED BY <2>1, <2>2
<1> QED BY <1>1, <1>2

\* What packet_get takes is what the client has made: the branch of
\* crypto_verify_16 is never taken.
LEMMA FrontAuthentic ==
  ASSUME ReceiveInv, HasPacket
  PROVE  /\ Authentic /\ Length = Head(inq).length /\ Length \in Nat
         /\ inq # <<>> /\ Head(inq) \in Packets
         /\ Head(inq).sealed = keys
<1>1. inq # <<>> /\ inq \in Seq(Packets)
  BY DEF HasPacket, HasLength, ReceiveInv, ReceiveType
<1>2. /\ Head(inq) = inq[1] /\ inq[1] \in Packets /\ Len(inq) \in Nat
      /\ Len(inq) > 0
  BY <1>1, TailFacts
<1>3. Head(inq).number = recvid
  BY <1>2 DEF ReceiveInv, Numbered, ReceiveType
<1>4. Head(inq).sealed = keys
  <2>1. inq[1].sealed \in BOOLEAN BY <1>2 DEF Packets
  <2>2. 1 \in 1..Len(inq) BY <1>2
  <2>3. ~\E j \in 1..Len(inq) : j < 1 BY <1>2
  <2>4. inq[1].sealed <=> keys BY <2>2, <2>3 DEF ReceiveInv, Sealing
  <2> QED BY <1>2, <2>1, <2>4 DEF ReceiveInv, ReceiveType
<1>5. Length = Head(inq).length
  BY DEF Length, ReceiveInv, FrontKnown
<1>6. Head(inq).length \in Nat BY <1>2 DEF Packets
<1> QED BY <1>1, <1>2, <1>3, <1>4, <1>5, <1>6 DEF Authentic

LEMMA ReceiveInit == Init => ReceiveInv
<1> SUFFICES ASSUME Init PROVE ReceiveInv
  OBVIOUS
<1>1. inq \in Seq(Packets) /\ Len(inq) = 0 /\ 1..Len(inq) = {}
  BY DEF Init
<1>2. ReceiveType BY <1>1 DEF Init, ReceiveType
<1>3. Numbered BY <1>1 DEF Init, Numbered
<1>4. Sealing BY <1>1 DEF Init, Sealing
<1> QED BY <1>2, <1>3, <1>4 DEF Init, ReceiveInv, FrontKnown, Verified

\* Taking the packet in front, with the keys the loop goes on with.
LEMMA TakeKeeps ==
  ASSUME ReceiveInv, HasPacket, Take, why' = why,
         UNCHANGED <<unread, phase, csent>>,
         keys' = (keys \/ Head(inq).type = "newkeys"),
         pc' \in {"getall", "poll", "process"},
         pc' # "getall" => keys \/ Head(inq).type = "auth"
  PROVE  ReceiveInv'
<1>1. /\ Length = Head(inq).length /\ Length \in Nat /\ inq # <<>>
      /\ Head(inq) \in Packets /\ Head(inq).sealed = keys
  BY FrontAuthentic
<1>2. /\ inq' = Tail(inq) /\ inq \in Seq(Packets) /\ recvid \in Nat
      /\ recvid' = recvid + 1 /\ keys \in BOOLEAN
  BY DEF Take, ReceiveInv, ReceiveType
<1>3. /\ inq' \in Seq(Packets) /\ Head(inq) = inq[1] /\ Len(inq) \in Nat
      /\ Len(inq) > 0 /\ Len(inq') = Len(inq) - 1
      /\ \A i \in 1..(Len(inq) - 1) : inq'[i] = inq[i + 1]
      /\ \A i \in 1..Len(inq) : i # 1 => /\ i - 1 \in 1..(Len(inq) - 1)
                                         /\ inq'[i - 1] = inq[i]
  BY <1>1, <1>2, TailFacts
<1>4. plen' = 0
  BY DEF Take, LengthAfter, ReceiveInv, FrontKnown, ReceiveType
<1>5. ReceiveType'
  <2>1. fill' \in Nat
    BY <1>1, Sizes
    DEF Take, HasPacket, HasLength, Overhead, ReceiveInv, ReceiveType
  <2>2. keys' \in BOOLEAN BY <1>2
  <2> QED BY <1>2, <1>3, <1>4, <2>1, <2>2 DEF ReceiveInv, ReceiveType
<1>6. Numbered'
  <2>1. csent' = recvid' + Len(inq')
    BY <1>2, <1>3 DEF ReceiveInv, Numbered, ReceiveType
  <2>2. ASSUME NEW i \in 1..Len(inq')
        PROVE  inq'[i].number = recvid' + i - 1
    <3>1. i \in 1..(Len(inq) - 1) /\ i + 1 \in 1..Len(inq) BY <1>3
    <3>2. inq[i + 1].number = recvid + (i + 1) - 1
      BY <3>1 DEF ReceiveInv, Numbered
    <3> QED BY <3>1, <3>2, <1>2, <1>3
  <2> QED BY <2>1, <2>2 DEF Numbered
<1>7. Sealing'
  <2>1. phase' = "kex" <=>
          ~keys' /\ \A i \in 1..Len(inq') : inq'[i].type # "newkeys"
    <3>1. (\A i \in 1..Len(inq) : inq[i].type # "newkeys") <=>
            /\ inq[1].type # "newkeys"
            /\ \A i \in 1..Len(inq') : inq'[i].type # "newkeys"
      <4>1. ASSUME NEW i \in 1..Len(inq), i # 1
            PROVE  i - 1 \in 1..Len(inq') /\ inq'[i - 1] = inq[i]
        BY <1>3, <4>1
      <4>2. ASSUME NEW i \in 1..Len(inq')
            PROVE  i + 1 \in 1..Len(inq) /\ inq'[i] = inq[i + 1]
        BY <1>3
      <4>3. 1 \in 1..Len(inq) BY <1>3
      <4> QED BY <4>1, <4>2, <4>3
    <3> QED BY <3>1, <1>3 DEF ReceiveInv, Sealing
  <2>2. ASSUME NEW i \in 1..Len(inq')
        PROVE  /\ inq'[i].sealed <=>
                    keys' \/ \E j \in 1..Len(inq') :
                               j < i /\ inq'[j].type = "newkeys"
               /\ inq'[i].type = "newkeys" => ~inq'[i].sealed
               /\ inq'[i].type = "auth" => inq'[i].sealed
    <3>1. i \in 1..(Len(inq) - 1) /\ i + 1 \in 1..Len(inq) BY <1>3
    <3>2. inq'[i] = inq[i + 1] BY <3>1, <1>3
    <3>3. (\E j \in 1..Len(inq) : j < i + 1 /\ inq[j].type = "newkeys") <=>
            \/ inq[1].type = "newkeys"
            \/ \E j \in 1..Len(inq') : j < i /\ inq'[j].type = "newkeys"
      <4>1. ASSUME NEW j \in 1..Len(inq), j < i + 1, j # 1
            PROVE  /\ j - 1 \in 1..Len(inq') /\ inq'[j - 1] = inq[j]
                   /\ j - 1 < i
        <5>1. j - 1 \in 1..(Len(inq) - 1) /\ inq'[j - 1] = inq[j]
          BY <1>3, <4>1
        <5> QED BY <5>1, <1>3, <3>1, <4>1
      <4>2. ASSUME NEW j \in 1..Len(inq'), j < i
            PROVE  /\ j + 1 \in 1..Len(inq) /\ inq'[j] = inq[j + 1]
                   /\ j + 1 < i + 1
        <5>1. j \in 1..(Len(inq) - 1) BY <1>3
        <5> QED BY <5>1, <1>3, <3>1, <4>2
      <4>3. 1 \in 1..Len(inq) /\ 1 < i + 1 BY <1>3, <3>1
      <4>4. ASSUME NEW j \in 1..Len(inq), j < i + 1, inq[j].type = "newkeys"
            PROVE  \/ inq[1].type = "newkeys"
                   \/ \E l \in 1..Len(inq') : l < i /\ inq'[l].type = "newkeys"
        <5>1. CASE j = 1 BY <4>4, <5>1
        <5>2. CASE j # 1
          <6>1. /\ j - 1 \in 1..Len(inq') /\ inq'[j - 1] = inq[j] /\ j - 1 < i
            BY <4>1, <4>4, <5>2
          <6>2. inq'[j - 1].type = "newkeys" BY <4>4, <6>1
          <6> QED BY <6>1, <6>2
        <5> QED BY <5>1, <5>2
      <4>5. ASSUME NEW j \in 1..Len(inq'), j < i, inq'[j].type = "newkeys"
            PROVE  \E l \in 1..Len(inq) : l < i + 1 /\ inq[l].type = "newkeys"
        <5>1. /\ j + 1 \in 1..Len(inq) /\ inq'[j] = inq[j + 1] /\ j + 1 < i + 1
          BY <4>2, <4>5
        <5>2. inq[j + 1].type = "newkeys" BY <4>5, <5>1
        <5> QED BY <5>1, <5>2
      <4> QED BY <4>3, <4>4, <4>5, Zenon
    <3>4. inq[i + 1].sealed <=>
            keys \/ \E j \in 1..Len(inq) : j < i + 1 /\ inq[j].type = "newkeys"
      BY <3>1 DEF ReceiveInv, Sealing
    <3>5. /\ inq[i + 1].type = "newkeys" => ~inq[i + 1].sealed
          /\ inq[i + 1].type = "auth" => inq[i + 1].sealed
      BY <3>1 DEF ReceiveInv, Sealing
    <3> QED BY <3>2, <3>3, <3>4, <3>5, <1>3
  <2>3. pc' # "getall" => keys'
    <3>1. Head(inq).type = "auth" => Head(inq).sealed
      BY <1>3 DEF ReceiveInv, Sealing
    <3> QED BY <3>1, <1>1
  <2> QED BY <2>1, <2>2, <2>3 DEF Sealing
<1>8. FrontKnown' BY <1>4 DEF FrontKnown
<1>9. Verified' BY DEF ReceiveInv, Verified
<1> QED BY <1>5, <1>6, <1>7, <1>8, <1>9 DEF ReceiveInv

\* A step that leaves the packets alone, but may read more of their bytes.
LEMMA ReadKeeps ==
  ASSUME ReceiveInv, UNCHANGED <<recvid, keys, inq, phase, csent>>,
         why' = why \/ why' \in {"length", "nomem"},
         fill' \in Nat, fill' >= fill, unread' \in Nat,
         \/ plen' = plen
         \/ NoPacket /\ plen' = KeptLength,
         pc' \in {"getall", "poll", "child", "data", "send", "recv",
                  "process", "dead"},
         pc = "getall" => pc' \in {"getall", "dead"},
         pc = "dead" => pc' = "dead"
  PROVE  ReceiveInv'
<1>1. inq # <<>> => Head(inq).length \in Nat
  <2>1. ASSUME inq # <<>> PROVE Head(inq) \in Packets
    BY <2>1, TailFacts DEF ReceiveInv, ReceiveType
  <2> QED BY <2>1 DEF Packets
<1>2. plen' \in Nat /\ FrontKnown'
  <2>1. CASE plen' = plen
    BY <2>1, Sizes
    DEF ReceiveInv, ReceiveType, FrontKnown, HasLength
  <2>2. CASE NoPacket /\ plen' = KeptLength
    BY <2>2, <1>1, Sizes
    DEF ReceiveInv, ReceiveType, FrontKnown, HasLength, KeptLength, Length,
        NoPacket, TooLong
  <2> QED BY <2>1, <2>2
<1>3. ReceiveType' BY <1>2 DEF ReceiveInv, ReceiveType
<1>4. Numbered' BY DEF ReceiveInv, Numbered
<1>5. Sealing' BY DEF ReceiveInv, ReceiveType, Sealing
<1>6. Verified' BY DEF ReceiveInv, Verified
<1> QED BY <1>2, <1>3, <1>4, <1>5, <1>6 DEF ReceiveInv

\* read() takes what is there.
LEMMA RecvFacts ==
  ASSUME ReceiveType, Recv
  PROVE  fill' \in Nat /\ fill' >= fill /\ unread' \in Nat
<1>1. PICK n \in ReadSizes \cup {unread, FullLimit} :
        /\ 0 < n /\ n <= unread
        /\ fill' = fill + n /\ unread' = unread - n
  BY DEF Recv
<1>2. n \in Nat BY Sizes DEF ReceiveType
<1> QED BY <1>1, <1>2 DEF ReceiveType

LEMMA SendKeeps == ReceiveInv /\ ClientSend => ReceiveInv'
<1> SUFFICES ASSUME ReceiveInv, ClientSend PROVE ReceiveInv'
  OBVIOUS
<1>1. PICK type \in Types(phase), n \in Lengths :
        /\ inq' = Append(inq, [type |-> type, length |-> n, number |-> csent,
                               sealed |-> phase # "kex"])
        /\ unread' = unread + LenBytes + n
                       + (IF phase = "kex" THEN 0 ELSE AuthBytes)
        /\ phase' = PhaseAfter(type)
  BY DEF ClientSend
<1> DEFINE p == [type |-> type, length |-> n, number |-> csent,
                 sealed |-> phase # "kex"]
<1>2. /\ csent' = csent + 1
      /\ UNCHANGED <<pc, why, fill, plen, recvid, keys>>
  BY DEF ClientSend
<1>3. /\ phase = "kex" => type \in {"kex", "newkeys"}
      /\ phase # "kex" => type \in PacketTypes \ {"kex", "newkeys"}
      /\ type = "auth" => phase = "auth"
  BY DEF ReceiveInv, ReceiveType, Types, PacketTypes
<1>4. p \in Packets /\ inq \in Seq(Packets)
  BY <1>3, Sizes
  DEF Packets, PacketTypes, ReceiveInv, ReceiveType
<1>5. /\ inq' \in Seq(Packets) /\ Len(inq') = Len(inq) + 1 /\ Len(inq) \in Nat
      /\ \A i \in 1..Len(inq) : inq'[i] = inq[i]
      /\ inq'[Len(inq) + 1] = p
  BY <1>1, <1>4, AppendFacts
<1>6. phase' = (IF type = "newkeys" THEN "auth"
                ELSE IF type = "auth" THEN "open" ELSE phase)
  BY <1>1 DEF PhaseAfter
<1>7. ReceiveType'
  <2>1. unread' \in Nat
    BY <1>1, Sizes DEF ReceiveInv, ReceiveType
  <2> QED BY <1>2, <1>5, <1>6, <2>1 DEF ReceiveInv, ReceiveType
<1>8. Numbered'
  BY <1>2, <1>5 DEF ReceiveInv, ReceiveType, Numbered
<1>9. Sealing'
  <2>1. (\A i \in 1..Len(inq') : inq'[i].type # "newkeys") <=>
          /\ \A i \in 1..Len(inq) : inq[i].type # "newkeys"
          /\ type # "newkeys"
    <3>1. Len(inq) + 1 \in 1..Len(inq') BY <1>5
    <3>2. ASSUME NEW i \in 1..Len(inq')
          PROVE  i \in 1..Len(inq) \/ i = Len(inq) + 1
      BY <1>5
    <3>3. \A i \in 1..Len(inq) : i \in 1..Len(inq') BY <1>5
    <3> QED BY <3>1, <3>2, <3>3, <1>5
  <2>2. phase' = "kex" <=>
          ~keys' /\ \A i \in 1..Len(inq') : inq'[i].type # "newkeys"
    BY <2>1, <1>2, <1>3, <1>6 DEF ReceiveInv, ReceiveType, Sealing
  <2>3. ASSUME NEW i \in 1..Len(inq')
        PROVE  /\ inq'[i].sealed <=>
                    keys' \/ \E j \in 1..Len(inq') :
                               j < i /\ inq'[j].type = "newkeys"
               /\ inq'[i].type = "newkeys" => ~inq'[i].sealed
               /\ inq'[i].type = "auth" => inq'[i].sealed
    <3>1. (\E j \in 1..Len(inq') : j < i /\ inq'[j].type = "newkeys") <=>
            \E j \in 1..Len(inq) : j < i /\ inq[j].type = "newkeys"
      <4>1. ASSUME NEW j \in 1..Len(inq'), j < i
            PROVE  j \in 1..Len(inq) /\ inq'[j] = inq[j]
        <5>1. j \in 1..Len(inq) BY <1>5, <4>1
        <5> QED BY <5>1, <1>5
      <4>2. \A j \in 1..Len(inq) : j \in 1..Len(inq') /\ inq'[j] = inq[j]
        BY <1>5
      <4> QED BY <4>1, <4>2
    <3>2. CASE i \in 1..Len(inq)
      <4>1. inq'[i] = inq[i] BY <3>2, <1>5
      <4>2. /\ inq[i].sealed <=>
                 keys \/ \E j \in 1..Len(inq) :
                            j < i /\ inq[j].type = "newkeys"
            /\ inq[i].type = "newkeys" => ~inq[i].sealed
            /\ inq[i].type = "auth" => inq[i].sealed
        BY <3>2 DEF ReceiveInv, Sealing
      <4> QED BY <4>1, <4>2, <3>1, <1>2
    <3>3. CASE i = Len(inq) + 1
      <4>1. inq'[i] = p BY <3>3, <1>5
      <4>2. \A j \in 1..Len(inq) : j < i BY <3>3, <1>5
      <4>3. phase # "kex" <=> keys \/ \E j \in 1..Len(inq) :
                                       inq[j].type = "newkeys"
        BY DEF ReceiveInv, Sealing
      <4>4. inq'[i].sealed = (phase # "kex") /\ inq'[i].type = type
        BY <4>1
      <4>5. inq'[i].sealed <=>
              keys' \/ \E j \in 1..Len(inq') : j < i /\ inq'[j].type = "newkeys"
        BY <4>2, <4>3, <4>4, <3>1, <1>2
      <4> QED BY <4>4, <4>5, <1>3
    <3> QED BY <3>2, <3>3, <1>5
  <2>4. pc' \notin {"getall", "dead"} => keys'
    BY <1>2 DEF ReceiveInv, Sealing
  <2> QED BY <2>2, <2>3, <2>4 DEF Sealing
<1>10. FrontKnown'
  <2>1. ASSUME inq # <<>>
        PROVE  inq' # <<>> /\ Head(inq') = Head(inq)
    BY <2>1, <1>1, <1>4, <1>5, TailFacts
  <2> QED BY <2>1, <1>2 DEF ReceiveInv, FrontKnown, HasLength
<1>11. Verified' BY <1>2 DEF ReceiveInv, Verified
<1> QED BY <1>7, <1>8, <1>9, <1>10, <1>11 DEF ReceiveInv

LEMMA ReceiveStep == ReceiveInv /\ [Next]_vars => ReceiveInv'
<1> SUFFICES ASSUME ReceiveInv, [Next]_vars PROVE ReceiveInv'
  OBVIOUS
<1> USE DEF ReceiveInv, ReceiveType, received, client
<1>1. CASE GetAllWait
  <2>1. fill' \in Nat /\ fill' >= fill /\ unread' \in Nat
    BY <1>1, RecvFacts DEF GetAllWait
  <2> QED BY <1>1, <2>1, ReadKeeps DEF GetAllWait
<1>2. CASE GetAll
  <2>1. CASE TooLong
    BY <1>2, <2>1, ReadKeeps DEF GetAll, Get, Die
  <2>2. CASE ~TooLong
    <3>1. HasPacket BY <1>2, <2>2 DEF GetAll, Get, NoPacket
    <3>2. Authentic BY <3>1, FrontAuthentic
    <3>3. GetAllTake BY <1>2, <2>2, <3>2 DEF GetAll, Get
    <3> QED BY <1>2, <3>1, <3>3, TakeKeeps DEF GetAll, GetAllTake
  <2> QED BY <2>1, <2>2
<1>3. CASE Poll
  BY <1>3, ReadKeeps DEF Poll
<1>4. CASE ToChild
  <2>1. /\ UNCHANGED <<recvid, keys, inq, phase, csent, fill, plen, unread>>
        /\ pc' \in {"data", "dead"} /\ pc # "getall" /\ pc # "dead"
        /\ why' = why \/ why' \in {"length", "nomem"}
    BY <1>4 DEF ToChild, Die
  <2> QED BY <2>1, ReadKeeps
<1>5. CASE Data
  <2>1. /\ UNCHANGED <<recvid, keys, inq, phase, csent, fill, plen, unread>>
        /\ pc' \in {"send", "dead"} /\ pc # "getall" /\ pc # "dead"
        /\ why' = why \/ why' \in {"length", "nomem"}
    BY <1>5 DEF Data, Die
  <2> QED BY <2>1, ReadKeeps
<1>6. CASE SendStep
  BY <1>6, ReadKeeps DEF SendStep
<1>7. CASE RecvStep
  <2>1. fill' \in Nat /\ fill' >= fill /\ unread' \in Nat
    BY <1>7, RecvFacts DEF RecvStep
  <2> QED BY <1>7, <2>1, ReadKeeps DEF RecvStep
<1>8. CASE Process
  <2>1. CASE TooLong
    BY <1>8, <2>1, ReadKeeps DEF Process, Get, Die
  <2>2. CASE ~TooLong
    <3>1. HasPacket BY <1>8, <2>2 DEF Process, Get, NoPacket
    <3>2. Authentic /\ Head(inq).sealed = keys /\ inq # <<>>
      BY <3>1, FrontAuthentic
    <3>3. Handle BY <1>8, <2>2, <3>2 DEF Process, Get
    <3>4. CASE Head(inq).type = "request" /\ ~PutFits(AnswerSize)
      BY <1>8, <3>3, <3>4, ReadKeeps DEF Process, Handle, Die
    <3>5. CASE ~(Head(inq).type = "request" /\ ~PutFits(AnswerSize))
      <4>1. keys BY <1>8 DEF Process, Sealing
      <4>2. Take /\ why' = why /\ pc' = AfterPacket(Head(inq)) /\ keys' = keys
        BY <3>3, <3>5 DEF Handle
      <4>3. pc' \in {"poll", "process"} BY <4>2 DEF AfterPacket
      <4>4. UNCHANGED <<unread, phase, csent>> BY <1>8 DEF Process
      <4> QED BY <3>1, <4>1, <4>2, <4>3, <4>4, TakeKeeps
    <3> QED BY <3>4, <3>5
  <2> QED BY <2>1, <2>2
<1>9. CASE ProcessEnd
  BY <1>9, ReadKeeps DEF ProcessEnd
<1>10. CASE ClientSend
  BY <1>10, SendKeeps
<1>11. CASE UNCHANGED vars
  BY <1>11, ReadKeeps DEF vars
<1> QED BY <1>1, <1>2, <1>3, <1>4, <1>5, <1>6, <1>7, <1>8, <1>9, <1>10, <1>11
        DEF Next, Server

(* packet_get reads every packet with the number, the keys and the length  *)
(* it was made with, however its bytes are split over read() and whatever  *)
(* is sent behind NEWKEYS: verification never fails for this client.       *)
THEOREM ReadsAsMade == Spec => []Verified
<1>1. ReceiveInv => Verified BY DEF ReceiveInv
<1> QED BY <1>1, ReceiveInit, ReceiveStep, PTL DEF Spec

(* The length kept in packet_length is always that of the packet in front. *)
THEOREM LengthKept == Spec => []FrontKnown
<1>1. ReceiveInv => FrontKnown BY DEF ReceiveInv
<1> QED BY <1>1, ReceiveInit, ReceiveStep, PTL DEF Spec

----------------------------------------------------------------------------
(* The rest of the types.                                                  *)

Outgoing == [end : Nat, answer : BOOLEAN]

\* The packets in sendbuf lie one behind the other.
Ordered == \A i, j \in 1..Len(outq) : i <= j => outq[i].end <= outq[j].end

SendType ==
  /\ why \in {"none", "length", "mac", "nomem"}
  /\ watch \subseteq {"recv", "send", "child", "data"}
  /\ outq \in Seq(Outgoing) /\ Ordered /\ data \in Nat
  /\ tochild \in BOOLEAN /\ left \in BOOLEAN

LEMMA SendLenFacts ==
  ASSUME outq \in Seq(Outgoing), Ordered
  PROVE  /\ Len(outq) \in Nat /\ SendLen \in Nat
         /\ \A i \in 1..Len(outq) : /\ outq[i] \in Outgoing /\ outq[i].end \in Nat
                                    /\ outq[i].answer \in BOOLEAN
                                    /\ outq[i].end <= SendLen
         /\ Len(outq) = 0 => SendLen = 0
         /\ Len(outq) > 0 => SendLen = outq[Len(outq)].end
<1>1. Len(outq) \in Nat /\ (outq = <<>> <=> Len(outq) = 0)
  OBVIOUS
<1>2. ASSUME NEW i \in 1..Len(outq)
      PROVE  /\ outq[i] \in Outgoing /\ outq[i].end \in Nat
             /\ outq[i].answer \in BOOLEAN
  <2>1. outq[i] \in Outgoing OBVIOUS
  <2> QED BY <2>1 DEF Outgoing
<1>3. CASE Len(outq) = 0
  BY <1>1, <1>3 DEF SendLen
<1>4. CASE Len(outq) > 0
  <2>1. SendLen = outq[Len(outq)].end /\ Len(outq) \in 1..Len(outq)
    BY <1>1, <1>4 DEF SendLen
  <2>2. \A i \in 1..Len(outq) : i <= Len(outq) BY <1>1
  <2> QED BY <1>1, <1>2, <1>4, <2>1, <2>2 DEF Ordered
<1> QED BY <1>1, <1>3, <1>4

\* A packet is put behind the others.
LEMMA PutFacts ==
  ASSUME NEW n \in Nat, NEW a \in BOOLEAN,
         outq \in Seq(Outgoing), Ordered, Put(n, a)
  PROVE  /\ outq' \in Seq(Outgoing) /\ Ordered'
         /\ Len(outq') = Len(outq) + 1 /\ SendLen' = SendLen + n
         /\ \A i \in 1..Len(outq) : outq'[i] = outq[i]
         /\ outq'[Len(outq) + 1].end = SendLen + n
         /\ outq'[Len(outq) + 1].answer = a
<1> DEFINE p == [end |-> SendLen + n, answer |-> a]
<1>1. p \in Outgoing BY SendLenFacts DEF Outgoing
<1>2. /\ outq' \in Seq(Outgoing) /\ Len(outq') = Len(outq) + 1
      /\ \A i \in 1..Len(outq) : outq'[i] = outq[i]
      /\ outq'[Len(outq) + 1] = p
  BY <1>1, AppendFacts DEF Put
<1>3. outq'[Len(outq) + 1].end = SendLen + n /\ outq'[Len(outq) + 1].answer = a
  BY <1>2
<1>4. Len(outq) \in Nat /\ Len(outq') = Len(outq) + 1 BY <1>2
<1>5. SendLen' = SendLen + n
  <2>1. outq' # <<>> BY <1>2, <1>4
  <2> QED BY <1>3, <1>4, <2>1 DEF SendLen
<1>6. Ordered'
  <2>1. ASSUME NEW i \in 1..Len(outq'), NEW j \in 1..Len(outq'), i <= j
        PROVE  outq'[i].end <= outq'[j].end
    <3>1. CASE j \in 1..Len(outq)
      <4>1. i \in 1..Len(outq) BY <2>1, <3>1, <1>4
      <4> QED BY <4>1, <3>1, <2>1, <1>2 DEF Ordered
    <3>2. CASE j = Len(outq) + 1
      <4>1. CASE i \in 1..Len(outq)
        <5>1. outq'[i].end = outq[i].end BY <4>1, <1>2
        <5>2. outq[i].end \in Nat /\ outq[i].end <= SendLen /\ SendLen \in Nat
          BY <4>1, SendLenFacts
        <5> QED BY <3>2, <5>1, <5>2, <1>3
      <4>2. CASE i = Len(outq) + 1
        <5>1. SendLen \in Nat BY SendLenFacts
        <5> QED BY <3>2, <4>2, <1>3, <5>1
      <4> QED BY <4>1, <4>2, <1>4
    <3> QED BY <3>1, <3>2, <1>4
  <2> QED BY <2>1 DEF Ordered
<1> QED BY <1>2, <1>3, <1>4, <1>5, <1>6

\* n bytes and k packets leave, and the rest moves to the front.
LEMMA SentFacts ==
  ASSUME outq \in Seq(Outgoing), Ordered,
         NEW k \in Nat, k <= Len(outq), NEW n \in Nat, Sent(n, k),
         \A i \in 1..Len(outq) : i > k => n <= outq[i].end
  PROVE  /\ outq' \in Seq(Outgoing) /\ Ordered'
         /\ Len(outq') = Len(outq) - k
         /\ \A i \in 1..Len(outq') : /\ i + k \in 1..Len(outq)
                                     /\ outq'[i].end = outq[i + k].end - n
                                     /\ outq'[i].answer = outq[i + k].answer
<1>1. Len(outq) \in Nat /\ Len(outq) - k \in Nat
  OBVIOUS
<1>2. ASSUME NEW i \in 1..(Len(outq) - k)
      PROVE  /\ i + k \in 1..Len(outq) /\ i + k > k
             /\ outq[i + k] \in Outgoing
             /\ outq[i + k].end \in Nat /\ outq[i + k].end - n \in Nat
             /\ [outq[i + k] EXCEPT !.end = @ - n]
                  = [end |-> outq[i + k].end - n, answer |-> outq[i + k].answer]
  <2>1. i + k \in 1..Len(outq) /\ i + k > k BY <1>1
  <2>2. outq[i + k] \in Outgoing /\ n <= outq[i + k].end BY <2>1
  <2>3. \A o \in Outgoing : /\ o.end \in Nat
                            /\ [o EXCEPT !.end = @ - n] = [end |-> o.end - n, answer |-> o.answer]
    BY SMTT(30) DEF Outgoing
  <2> DEFINE o == outq[i + k]
  <2>4. o \in Outgoing /\ n <= o.end BY <2>2
  <2> HIDE DEF o
  <2>5. /\ o.end \in Nat /\ o.end - n \in Nat
        /\ [o EXCEPT !.end = @ - n] = [end |-> o.end - n, answer |-> o.answer]
    BY <2>3, <2>4
  <2> QED BY <2>1, <2>4, <2>5 DEF o
<1>3. outq' = [i \in 1..(Len(outq) - k) |->
                 [end |-> outq[i + k].end - n, answer |-> outq[i + k].answer]]
  BY <1>2, Zenon DEF Sent
<1>4. ASSUME NEW i \in 1..(Len(outq) - k)
      PROVE  [end |-> outq[i + k].end - n, answer |-> outq[i + k].answer]
               \in Outgoing
  BY <1>2 DEF Outgoing
<1>5. outq' \in Seq(Outgoing) /\ Len(outq') = Len(outq) - k
  <2>1. outq' \in [1..(Len(outq) - k) -> Outgoing] BY <1>3, <1>4, Zenon
  <2> QED BY <1>1, <2>1
<1>6. ASSUME NEW i \in 1..Len(outq')
      PROVE  /\ i + k \in 1..Len(outq)
             /\ outq'[i].end = outq[i + k].end - n
             /\ outq'[i].answer = outq[i + k].answer
  BY <1>2, <1>3, <1>5
<1>7. ASSUME NEW i \in 1..Len(outq'), NEW j \in 1..Len(outq'), i <= j
      PROVE  outq'[i].end <= outq'[j].end
  <2>1. i + k <= j + k BY <1>5, <1>1, <1>7
  <2>2. i + k \in 1..Len(outq) /\ j + k \in 1..Len(outq) BY <1>6
  <2>3. outq[i + k].end <= outq[j + k].end BY <2>1, <2>2 DEF Ordered
  <2>4. outq[i + k].end \in Nat /\ outq[j + k].end \in Nat BY <1>2, <1>5
  <2>5. /\ outq'[i].end = outq[i + k].end - n
        /\ outq'[j].end = outq[j + k].end - n
    BY <1>6
  <2> DEFINE x == outq[i + k].end
             y == outq[j + k].end
  <2>6. x \in Nat /\ y \in Nat /\ x <= y BY <2>3, <2>4
  <2> HIDE DEF x, y
  <2>7. x - n <= y - n BY <2>6
  <2> QED BY <2>5, <2>7, Zenon DEF x, y
<1> QED BY <1>5, <1>6, <1>7 DEF Ordered

\* What write() may take: k packets and perhaps a part of the next.
LEMMA SendIsSent ==
  ASSUME outq \in Seq(Outgoing), Ordered, Send
  PROVE  \E k \in Nat, n \in Nat :
           /\ k <= Len(outq) /\ Sent(n, k)
           /\ \A i \in 1..Len(outq) : i > k => n <= outq[i].end
           /\ k > 0 => outq[k].end <= n
<1>1. PICK n \in WriteSizes \cup {SendLen}, k \in 0..Len(outq) :
        /\ \A i \in 1..Len(outq) : outq[i].end <= n <=> i <= k
        /\ Sent(n, k)
  BY DEF Send
<1>2. n \in Nat /\ Len(outq) \in Nat /\ k \in Nat /\ k <= Len(outq)
  <2>1. WriteSizes \subseteq Nat BY SizeAssumption
  <2> QED BY <2>1, SendLenFacts
<1>3. ASSUME NEW i \in 1..Len(outq), i > k PROVE n <= outq[i].end
  <2>1. ~(i <= k) BY <1>2, <1>3
  <2>2. ~(outq[i].end <= n) /\ outq[i].end \in Nat BY <1>1, <2>1, SendLenFacts
  <2> QED BY <1>2, <2>2
<1>4. k > 0 => outq[k].end <= n
  <2>1. k > 0 => k \in 1..Len(outq) /\ k <= k BY <1>2
  <2> QED BY <1>1, <2>1
<1> QED BY <1>1, <1>2, <1>3, <1>4

LEMMA SendKeepsType ==
  ASSUME outq \in Seq(Outgoing), Ordered, Send
  PROVE  outq' \in Seq(Outgoing) /\ Ordered'
<1>1. PICK k \in Nat, n \in Nat :
        /\ k <= Len(outq) /\ Sent(n, k)
        /\ \A i \in 1..Len(outq) : i > k => n <= outq[i].end
  BY SendIsSent
<1> QED BY <1>1, SentFacts

LEMMA SendTypeStep == SendType /\ ReceiveInv /\ [Next]_vars => SendType'
<1> SUFFICES ASSUME SendType, ReceiveInv, [Next]_vars PROVE SendType'
  OBVIOUS
<1>0. AnswerSize \in Nat /\ DataSize \in Nat
  BY Zenon, SizeAssumption
<1> USE DEF SendType, queues
<1>12. outq' = outq => Ordered'
  BY DEF Ordered
<1>1. CASE GetAllWait
  BY <1>1, <1>12 DEF GetAllWait
<1>2. CASE GetAll
  BY <1>2, <1>12 DEF GetAll, Get, Die, GetAllTake
<1>3. CASE Poll
  <2>1. watch' \subseteq Ready BY <1>3 DEF Poll, Reports
  <2>2. Ready \subseteq {"recv", "send", "child", "data"} BY DEF Ready
  <2> QED BY <1>3, <1>12, <2>1, <2>2 DEF Poll
<1>4. CASE ToChild
  <2>1. outq' \in Seq(Outgoing) /\ Ordered'
    BY <1>4, <1>0, <1>12, PutFacts DEF ToChild, Die
  <2>2. tochild' \in BOOLEAN BY <1>4 DEF ToChild, Die
  <2>3. UNCHANGED <<watch, data, left>> /\ (why' = why \/ why' = "nomem")
    BY <1>4 DEF ToChild, Die
  <2> QED BY <2>1, <2>2, <2>3
<1>5. CASE Data
  <2>1. outq' \in Seq(Outgoing) /\ Ordered'
    BY <1>5, <1>0, <1>12, PutFacts DEF Data, Die
  <2>2. data' = data \/ data' = data + 1
    BY <1>5 DEF Data, Die
  <2>3. /\ UNCHANGED <<watch, tochild, left>>
        /\ why' = why \/ why' = "nomem"
    BY <1>5 DEF Data, Die
  <2> QED BY <2>1, <2>2, <2>3
<1>6. CASE SendStep
  <2>1. outq' \in Seq(Outgoing) /\ Ordered' BY <1>6, <1>12, SendKeepsType DEF SendStep
  <2> QED BY <1>6, <2>1 DEF SendStep
<1>7. CASE RecvStep
  BY <1>7, <1>12 DEF RecvStep
<1>8. CASE Process
  <2>1. left' \in BOOLEAN BY <1>8 DEF Process
  <2>2. CASE Die("length") \/ Die("mac") \/ Die("nomem")
    BY <2>1, <2>2, <1>12 DEF Die
  <2>3. CASE ~(Die("length") \/ Die("mac") \/ Die("nomem"))
    <3>1. Handle BY <1>8, <2>3 DEF Process, Get
    <3>2. /\ tochild' = (tochild \/ Head(inq).type = "data")
          /\ Put(AnswerSize, TRUE) \/ UNCHANGED outq
          /\ UNCHANGED <<why, watch, data>>
      BY <2>3, <3>1 DEF Handle
    <3>3. outq' \in Seq(Outgoing) /\ Ordered' BY <1>0, <1>12, <3>2, PutFacts
    <3>4. tochild' \in BOOLEAN
      <4>1. CASE tochild \/ Head(inq).type = "data"
        BY <3>2, <4>1
      <4>2. CASE ~(tochild \/ Head(inq).type = "data")
        BY <3>2, <4>2
      <4> QED BY <4>1, <4>2
    <3> QED BY <2>1, <3>2, <3>3, <3>4
  <2> QED BY <2>2, <2>3
<1>9. CASE ProcessEnd
  BY <1>9, <1>12 DEF ProcessEnd
<1>10. CASE ClientSend
  BY <1>10, <1>12 DEF ClientSend
<1>11. CASE UNCHANGED vars
  BY <1>11, <1>12 DEF vars
<1> QED BY <1>1, <1>2, <1>3, <1>4, <1>5, <1>6, <1>7, <1>8, <1>9, <1>10, <1>11
        DEF Next, Server

LEMMA SendTypeInit == Init => SendType
<1> SUFFICES ASSUME Init PROVE SendType
  OBVIOUS
<1>1. outq \in Seq(Outgoing) /\ watch = {} /\ Ordered BY DEF Init, Ordered
<1> QED BY <1>1 DEF Init, SendType

(* The types of every variable: the buffers hold packets of their          *)
(* direction, and no count of bytes becomes negative.                      *)
THEOREM TypeCorrect == Spec => []TypeOK
<1>1. ReceiveInv /\ SendType => TypeOK
  BY DEF ReceiveInv, ReceiveType, SendType, TypeOK, Outgoing
<1> QED BY <1>1, SendTypeInit, ReceiveInit, ReceiveStep, SendTypeStep, PTL DEF Spec

----------------------------------------------------------------------------
(* Room in sendbuf for the answers a client waits for.                     *)

LEMMA Positions ==
  ASSUME NEW n \in Nat, NEW k \in Nat, NEW S \in SUBSET ((k + 1)..n)
  PROVE  IsFiniteSet(S) /\ Cardinality(S) \in Nat
<1>1. IsFiniteSet((k + 1)..n) BY FS_Interval
<1>2. IsFiniteSet(S) BY <1>1, FS_Subset
<1> QED BY <1>2, FS_CardinalityType

\* The last position taken off.
LEMMA OneLess ==
  ASSUME NEW T, IsFiniteSet(T), NEW m
  PROVE  /\ Cardinality(T \ {m}) \in Nat
         /\ Cardinality(T) = Cardinality(T \ {m}) + (IF m \in T THEN 1 ELSE 0)
<1>1. /\ IsFiniteSet(T \ {m})
      /\ Cardinality(T \ {m}) = IF m \in T THEN Cardinality(T) - 1
                                           ELSE Cardinality(T)
  BY FS_RemoveElement
<1>2. Cardinality(T) \in Nat /\ Cardinality(T \ {m}) \in Nat
  BY <1>1, FS_CardinalityType
<1> QED BY <1>1, <1>2

\* Positions that move k to the front.
LEMMA Shifted ==
  ASSUME NEW T \in SUBSET Nat, IsFiniteSet(T), NEW k \in Nat
  PROVE  Cardinality({i + k : i \in T}) = Cardinality(T)
<1> DEFINE S == {i + k : i \in T}
           f == [i \in T |-> i + k]
<1>1. f \in [T -> S] OBVIOUS
<1>2. ASSUME NEW x \in T, NEW y \in T, f[x] = f[y] PROVE x = y
  <2>1. x \in Nat /\ y \in Nat OBVIOUS
  <2> QED BY <1>2, <2>1
<1>3. ASSUME NEW m \in S PROVE \E i \in T : f[i] = m
  OBVIOUS
<1> HIDE DEF f
<1>4. f \in Bijection(T, S)
  <2>1. f \in Injection(T, S) BY <1>1, <1>2 DEF Injection, IsInjective
  <2>2. f \in Surjection(T, S) BY <1>1, <1>3 DEF Surjection
  <2> QED BY <2>1, <2>2 DEF Bijection
<1>5. ExistsBijection(T, S) BY <1>4 DEF ExistsBijection
<1> QED BY <1>5, FS_Bijection

LEMMA Products ==
  ASSUME NEW a \in Nat, NEW c \in Nat
  PROVE  /\ a * c \in Nat /\ a * (c + 1) = a * c + a
         /\ \A d \in Nat : c <= d => a * c <= a * d
  OBVIOUS

\* The answers behind the first i packets, and where these end.
After(i) == {m \in (i + 1)..Len(outq) : outq[m].answer}
EndOf(i) == IF i = 0 THEN 0 ELSE outq[i].end

\* What packet_putisready leaves of sendbuf to the output of the child.
DataEnd == (SendSlots - 1) * FullLimit + DataSize

\* Whatever is written away, answers are all that may lie behind DataEnd.
Room == \A i \in 0..Len(outq) :
          SendLen - EndOf(i) <= DataEnd + AnswerSize * Cardinality(After(i))

\* The client waits for no more answers than it may, and a window adjustment
\* that is about to be put into sendbuf is one of them.
Waits == /\ Waiting <= MaxWaiting
         /\ pc = "child" /\ "child" \in watch => tochild

LEMMA AfterFacts ==
  ASSUME SendType, NEW i \in 0..Len(outq)
  PROVE  /\ IsFiniteSet(After(i)) /\ Cardinality(After(i)) \in Nat
         /\ Cardinality(After(i)) <= Cardinality(Answers)
         /\ Cardinality(Answers) \in Nat /\ After(0) = Answers
         /\ EndOf(i) \in Nat /\ EndOf(i) <= SendLen
<1>1. Len(outq) \in Nat /\ i \in Nat BY DEF SendType
<1>2. After(i) \subseteq (i + 1)..Len(outq) /\ Answers \subseteq (0 + 1)..Len(outq)
  BY DEF After, Answers
<1>3. /\ IsFiniteSet(After(i)) /\ Cardinality(After(i)) \in Nat
      /\ IsFiniteSet(Answers) /\ Cardinality(Answers) \in Nat
  BY <1>1, <1>2, Positions
<1>4. After(i) \subseteq Answers BY <1>1 DEF After, Answers
<1>5. Cardinality(After(i)) <= Cardinality(Answers) BY <1>3, <1>4, FS_Subset
<1>6. After(0) = Answers BY DEF After, Answers
<1>7. EndOf(i) \in Nat /\ EndOf(i) <= SendLen
  BY <1>1, SendLenFacts DEF EndOf, SendType
<1> QED BY <1>3, <1>5, <1>6, <1>7

LEMMA PutAfter ==
  ASSUME SendType, NEW n \in Nat, NEW a \in BOOLEAN, Put(n, a),
         NEW i \in 0..Len(outq)
  PROVE  /\ Cardinality(After(i))' = Cardinality(After(i)) + (IF a THEN 1 ELSE 0)
         /\ EndOf(i)' = EndOf(i)
<1>1. /\ Len(outq) \in Nat /\ i \in Nat /\ i <= Len(outq)
      /\ Len(outq') = Len(outq) + 1
      /\ \A m \in 1..Len(outq) : outq'[m] = outq[m]
      /\ outq'[Len(outq) + 1].answer = a
  BY PutFacts DEF SendType
<1>2. After(i) = After(i)' \ {Len(outq) + 1}
  <2>1. ASSUME NEW m PROVE m \in After(i) <=> m \in After(i)' \ {Len(outq) + 1}
    <3>1. m \in (i + 1)..Len(outq') /\ m # Len(outq) + 1
            <=> m \in (i + 1)..Len(outq)
      BY <1>1
    <3>2. m \in (i + 1)..Len(outq) => outq'[m] = outq[m] BY <1>1
    <3> QED BY <3>1, <3>2 DEF After
  <2> QED BY <2>1
<1>3. IsFiniteSet(After(i)')
  <2>1. After(i)' \subseteq (i + 1)..Len(outq') /\ Len(outq') \in Nat
    BY <1>1 DEF After
  <2> QED BY <1>1, <2>1, Positions
<1>4. Len(outq) + 1 \in After(i)' <=> a
  BY <1>1 DEF After
<1>5. Cardinality(After(i)') = Cardinality(After(i))
                + (IF Len(outq) + 1 \in After(i)' THEN 1 ELSE 0)
  BY <1>2, <1>3, OneLess
<1>6. EndOf(i)' = EndOf(i) BY <1>1 DEF EndOf
<1> QED BY <1>4, <1>5, <1>6

LEMMA SentAfter ==
  ASSUME SendType, NEW k \in Nat, NEW n \in Nat, k <= Len(outq), Sent(n, k),
         \A i \in 1..Len(outq) : i > k => n <= outq[i].end,
         NEW i \in 0..Len(outq')
  PROVE  /\ i + k \in 0..Len(outq)
         /\ Cardinality(After(i))' = Cardinality(After(i + k))
<1>1. /\ Len(outq) \in Nat /\ i \in Nat /\ Len(outq') = Len(outq) - k
      /\ \A m \in 1..Len(outq') : /\ m + k \in 1..Len(outq)
                                  /\ outq'[m].answer = outq[m + k].answer
  <2>1. outq \in Seq(Outgoing) /\ Ordered BY DEF SendType
  <2>2. /\ Len(outq') = Len(outq) - k
        /\ \A m \in 1..Len(outq') : /\ m + k \in 1..Len(outq)
                                    /\ outq'[m].answer = outq[m + k].answer
    BY <2>1, SentFacts
  <2>3. Len(outq) \in Nat /\ i \in Nat BY <2>1
  <2> QED BY <2>2, <2>3
<1>2. After(i + k) = {m + k : m \in After(i)'}
  <2>1. ASSUME NEW m \in After(i)' PROVE m + k \in After(i + k)
    <3>1. m \in 1..Len(outq') /\ m >= i + 1 /\ outq'[m].answer
      BY <1>1 DEF After
    <3>2. m + k \in (i + k + 1)..Len(outq) BY <1>1, <3>1
    <3> QED BY <1>1, <3>1, <3>2 DEF After
  <2>2. ASSUME NEW x \in After(i + k)
        PROVE  x - k \in After(i)' /\ x = (x - k) + k
    <3>1. x \in Nat /\ x >= i + k + 1 /\ x <= Len(outq) /\ outq[x].answer
      BY <1>1 DEF After
    <3>2. /\ x - k \in 1..Len(outq') /\ x - k \in (i + 1)..Len(outq')
          /\ x = (x - k) + k
      BY <1>1, <3>1
    <3>3. outq'[x - k].answer = outq[(x - k) + k].answer BY <1>1, <3>2
    <3> QED BY <3>1, <3>2, <3>3 DEF After
  <2> QED BY <2>1, <2>2
<1>3. After(i)' \subseteq Nat /\ IsFiniteSet(After(i)')
  <2>1. After(i)' \subseteq (i + 1)..Len(outq') /\ Len(outq') \in Nat
    BY <1>1 DEF After
  <2>2. After(i)' \subseteq Nat BY <1>1 DEF After
  <2> QED BY <1>1, <2>1, <2>2, Positions
<1>4. Cardinality(After(i)') = Cardinality(After(i + k))
  BY <1>2, <1>3, Shifted
<1> QED BY <1>1, <1>4

\* The request or the data that is taken is awaited no more.
LEMMA TakeAwaited ==
  ASSUME ReceiveInv, inq # <<>>, inq' = Tail(inq)
  PROVE  /\ Cardinality(Awaited) \in Nat /\ Cardinality(Awaited)' \in Nat
         /\ Cardinality(Awaited)'
              + (IF Head(inq).type \in {"request", "data"} THEN 1 ELSE 0)
              = Cardinality(Awaited)
<1> DEFINE Rest == Awaited \ {1}
<1>1. /\ inq' \in Seq(Packets) /\ Head(inq) = inq[1] /\ Len(inq) \in Nat
      /\ Len(inq) > 0 /\ Len(inq') = Len(inq) - 1
      /\ \A i \in 1..(Len(inq) - 1) : inq'[i] = inq[i + 1]
  BY TailFacts DEF ReceiveInv, ReceiveType
<1>2. Awaited \subseteq (0 + 1)..Len(inq) BY DEF Awaited
<1>3. IsFiniteSet(Awaited) /\ Cardinality(Awaited) \in Nat
  BY <1>1, <1>2, Positions
<1>4. Rest = {i + 1 : i \in Awaited'}
  <2>1. ASSUME NEW i \in Awaited' PROVE i + 1 \in Rest
    <3>1. i \in 1..(Len(inq) - 1) /\ inq'[i].type \in {"request", "data"}
      BY <1>1 DEF Awaited
    <3>2. i + 1 \in 1..Len(inq) /\ i + 1 # 1 BY <1>1, <3>1
    <3> QED BY <1>1, <3>1, <3>2 DEF Awaited
  <2>2. ASSUME NEW x \in Rest PROVE x - 1 \in Awaited' /\ x = (x - 1) + 1
    <3>1. x \in 1..Len(inq) /\ x # 1 /\ inq[x].type \in {"request", "data"}
      BY DEF Awaited
    <3>2. x - 1 \in 1..(Len(inq) - 1) /\ x = (x - 1) + 1 BY <1>1, <3>1
    <3>3. inq'[x - 1] = inq[(x - 1) + 1] BY <1>1, <3>2
    <3> QED BY <1>1, <3>1, <3>2, <3>3 DEF Awaited
  <2> QED BY <2>1, <2>2
<1>5. /\ Awaited' \subseteq Nat /\ IsFiniteSet(Awaited')
      /\ Cardinality(Awaited') \in Nat
  <2>1. Awaited' \subseteq (0 + 1)..Len(inq') /\ Len(inq') \in Nat
    BY <1>1 DEF Awaited
  <2>2. Awaited' \subseteq Nat BY <1>1 DEF Awaited
  <2> QED BY <1>1, <2>1, <2>2, Positions
<1> HIDE DEF Rest
<1>6. Cardinality(Awaited') = Cardinality(Rest)
  BY <1>4, <1>5, Shifted
<1>7. 1 \in Awaited <=> Head(inq).type \in {"request", "data"}
  BY <1>1 DEF Awaited
<1>8. Cardinality(Awaited) = Cardinality(Rest) + (IF 1 \in Awaited THEN 1 ELSE 0)
  BY <1>3, OneLess DEF Rest
<1> QED BY <1>3, <1>5, <1>6, <1>7, <1>8

LEMMA SendAwaited ==
  ASSUME ReceiveInv, ClientSend, Waiting <= MaxWaiting, SendType
  PROVE  Waiting' <= MaxWaiting
<1>1. PICK type \in Types(phase), n \in Lengths :
        /\ type \in {"request", "data"} => Waiting < MaxWaiting
        /\ inq' = Append(inq, [type |-> type, length |-> n, number |-> csent,
                               sealed |-> phase # "kex"])
  BY DEF ClientSend
<1>2. inq' \in Seq(Packets) BY SendKeeps DEF ReceiveInv, ReceiveType
<1>3. /\ Len(inq) \in Nat /\ Len(inq') = Len(inq) + 1
      /\ \A i \in 1..Len(inq) : inq'[i] = inq[i]
      /\ inq'[Len(inq) + 1].type = type
  BY <1>1 DEF ReceiveInv, ReceiveType
<1>4. Awaited = Awaited' \ {Len(inq) + 1}
  <2>1. ASSUME NEW m
        PROVE  m \in Awaited <=> m \in Awaited' \ {Len(inq) + 1}
    <3>1. m \in 1..Len(inq') /\ m # Len(inq) + 1 <=> m \in 1..Len(inq)
      BY <1>3
    <3>2. m \in 1..Len(inq) => inq'[m] = inq[m] BY <1>3
    <3> QED BY <3>1, <3>2 DEF Awaited
  <2> QED BY <2>1
<1>5. IsFiniteSet(Awaited')
  <2>1. Awaited' \subseteq (0 + 1)..Len(inq') /\ Len(inq') \in Nat
    BY <1>3 DEF Awaited
  <2> QED BY <2>1, Positions
<1>6. Len(inq) + 1 \in Awaited' <=> type \in {"request", "data"}
  BY <1>3 DEF Awaited
<1>7. /\ Cardinality(Awaited) \in Nat
      /\ Cardinality(Awaited')
           = Cardinality(Awaited) + (IF type \in {"request", "data"} THEN 1 ELSE 0)
  BY <1>4, <1>5, <1>6, OneLess
<1>8. UNCHANGED <<tochild, outq>> BY DEF ClientSend, queues
<1>9. Cardinality(Answers) \in Nat /\ Answers' = Answers /\ MaxWaiting \in Nat
  <2>1. Answers \subseteq (0 + 1)..Len(outq) BY DEF Answers
  <2>2. Len(outq) \in Nat /\ 0 \in Nat BY DEF SendType
  <2>4. Cardinality(Answers) \in Nat BY <2>1, <2>2, Positions
  <2>3. MaxWaiting \in Nat BY Zenon, SizeAssumption
  <2> QED BY <1>8, <2>3, <2>4 DEF Answers
<1> QED BY <1>1, <1>7, <1>8, <1>9 DEF Waiting

LEMMA Numbers ==
  /\ AnswerSize \in Nat /\ DataSize \in Nat /\ FullLimit \in Nat
  /\ SendSlots \in Nat /\ MaxWaiting \in Nat /\ CipherBytes \in Nat
  /\ DataEnd \in Nat
  /\ SendAlloc = (SendSlots - 1) * FullLimit + FullLimit + 1
<1>1. /\ AnswerSize \in Nat /\ DataSize \in Nat /\ FullLimit \in Nat
      /\ SendSlots \in Nat /\ MaxWaiting \in Nat /\ CipherBytes \in Nat
  BY Zenon, SizeAssumption
<1>2. SendSlots > 0 BY SizeAssumption
<1>3. SendSlots - 1 \in Nat /\ (SendSlots - 1) + 1 = SendSlots BY <1>1, <1>2
<1>4. /\ (SendSlots - 1) * FullLimit \in Nat
      /\ SendSlots * FullLimit = (SendSlots - 1) * FullLimit + FullLimit
  <2>1. ASSUME NEW c \in Nat
        PROVE  c * FullLimit \in Nat /\ (c + 1) * FullLimit = c * FullLimit + FullLimit
    BY <1>1
  <2> QED BY <1>3, <2>1
<1> QED BY <1>1, <1>4 DEF DataEnd, SendAlloc

\* A packet put into sendbuf: an answer, or output before DataEnd.
LEMMA PutRoom ==
  ASSUME SendType, Room, NEW n \in Nat, NEW a \in BOOLEAN, Put(n, a),
         IF a THEN n = AnswerSize ELSE SendLen + n <= DataEnd
  PROVE  /\ Room'
         /\ Cardinality(Answers) \in Nat
         /\ Cardinality(Answers)' = Cardinality(Answers) + (IF a THEN 1 ELSE 0)
<1>1. /\ Len(outq) \in Nat /\ Len(outq') = Len(outq) + 1
      /\ SendLen \in Nat /\ SendLen' = SendLen + n
      /\ outq'[Len(outq) + 1].end = SendLen + n
  BY PutFacts, SendLenFacts DEF SendType
<1>2. ASSUME NEW i \in 0..Len(outq)
      PROVE  SendLen' - EndOf(i)' <= DataEnd + AnswerSize * Cardinality(After(i))'
  <2>1. /\ Cardinality(After(i)) \in Nat /\ EndOf(i) \in Nat
        /\ EndOf(i) <= SendLen /\ EndOf(i)' = EndOf(i)
        /\ Cardinality(After(i))'
             = Cardinality(After(i)) + (IF a THEN 1 ELSE 0)
    BY AfterFacts, PutAfter
  <2> DEFINE c == Cardinality(After(i))
  <2>2. /\ AnswerSize * c \in Nat
        /\ AnswerSize * (c + 1) = AnswerSize * c + AnswerSize
    BY <2>1, Numbers, Products
  <2>3. SendLen - EndOf(i) <= DataEnd + AnswerSize * c BY DEF Room
  <2> HIDE DEF c
  <2>4. CASE a
    <3>1. Cardinality(After(i))' = c + 1 BY <2>1, <2>4 DEF c
    <3>2. AnswerSize * Cardinality(After(i))' = AnswerSize * c + AnswerSize
      BY <2>2, <3>1
    <3>3. SendLen' = SendLen + AnswerSize BY <1>1, <2>4
    <3> DEFINE x == AnswerSize * c  y == EndOf(i)
    <3>4. /\ SendLen - y <= DataEnd + x /\ x \in Nat /\ y \in Nat
          /\ SendLen \in Nat /\ AnswerSize \in Nat /\ DataEnd \in Int
      BY <1>1, <2>1, <2>2, <2>3, Numbers
    <3> HIDE DEF x, y
    <3>5. (SendLen + AnswerSize) - y <= DataEnd + (x + AnswerSize)
      BY ONLY <3>4
    <3> QED BY <2>1, <3>2, <3>3, <3>5 DEF x, y
  <2>5. CASE ~a
    <3>1. Cardinality(After(i))' = c BY <2>1, <2>5 DEF c
    <3>2. AnswerSize * Cardinality(After(i))' = AnswerSize * c BY <3>1
    <3>3. SendLen' <= DataEnd BY <1>1, <2>5
    <3> DEFINE x == AnswerSize * c  y == EndOf(i)  z == SendLen'
    <3>4. /\ z \in Nat /\ DataEnd \in Nat /\ x \in Nat /\ y \in Nat
          /\ z <= DataEnd
      BY <1>1, <2>1, <2>2, <3>3, Numbers
    <3> HIDE DEF x, y, z
    <3>5. z - y <= DataEnd + x
      BY ONLY <3>4
    <3>6. EndOf(i)' = EndOf(i) BY <2>1
    <3> QED BY <3>2, <3>5, <3>6, Zenon DEF x, y, z
  <2> QED BY <2>4, <2>5
<1>3. ASSUME NEW m \in Nat, m = Len(outq) + 1
      PROVE  SendLen' - EndOf(m)' <= DataEnd + AnswerSize * Cardinality(After(m))'
  <2>1. EndOf(m)' = SendLen' BY <1>1, <1>3 DEF EndOf
  <2>2. After(m)' = {} BY <1>1, <1>3 DEF After
  <2>3. Cardinality(After(m)') = 0 BY <2>2, FS_EmptySet
  <2>4. AnswerSize * 0 = 0 BY Numbers
  <2> QED BY <1>1, <2>1, <2>3, <2>4, Numbers
<1>4. Room'
  <2>1. ASSUME NEW i \in 0..Len(outq')
        PROVE  i \in 0..Len(outq) \/ (i \in Nat /\ i = Len(outq) + 1)
    BY <1>1
  <2> QED BY <1>2, <1>3, <2>1 DEF Room
<1>5. /\ Cardinality(After(0))' = Cardinality(After(0)) + (IF a THEN 1 ELSE 0)
      /\ Cardinality(After(0)) \in Nat
  BY <1>1, PutAfter, AfterFacts
<1>6. After(0) = Answers /\ After(0)' = Answers' BY DEF After, Answers
<1> QED BY <1>4, <1>5, <1>6

\* What is written leaves no more behind any packet than there was.
LEMMA SendRoom ==
  ASSUME SendType, Room, Send
  PROVE  /\ Room' /\ Cardinality(Answers) \in Nat
         /\ Cardinality(Answers)' \in Nat
         /\ Cardinality(Answers)' <= Cardinality(Answers)
<1>1. PICK k \in Nat, n \in Nat :
        /\ k <= Len(outq) /\ Sent(n, k)
        /\ \A i \in 1..Len(outq) : i > k => n <= outq[i].end
        /\ k > 0 => outq[k].end <= n
  BY SendIsSent DEF SendType
<1>2. /\ Len(outq) \in Nat /\ Len(outq') = Len(outq) - k
      /\ outq' \in Seq(Outgoing) /\ Ordered'
      /\ \A i \in 1..Len(outq') : /\ i + k \in 1..Len(outq)
                                  /\ outq'[i].end = outq[i + k].end - n
  BY <1>1, SentFacts DEF SendType
<1>3. ASSUME NEW i \in 0..Len(outq')
      PROVE  /\ SendLen' - EndOf(i)' <= DataEnd + AnswerSize * Cardinality(After(i))'
             /\ i + k \in 0..Len(outq)
             /\ Cardinality(After(i))' = Cardinality(After(i + k))
             /\ Cardinality(After(i + k)) \in Nat
             /\ Cardinality(After(i + k)) <= Cardinality(Answers)
             /\ Cardinality(Answers) \in Nat
  <2>1. /\ i + k \in 0..Len(outq)
        /\ Cardinality(After(i))' = Cardinality(After(i + k))
    BY <1>1, SentAfter
  <2>2. /\ Cardinality(After(i + k)) \in Nat
        /\ Cardinality(After(i + k)) <= Cardinality(Answers)
        /\ Cardinality(Answers) \in Nat
        /\ EndOf(i + k) \in Nat /\ EndOf(i + k) <= SendLen
    BY <2>1, AfterFacts
  <2>3. /\ SendLen - EndOf(i + k)
            <= DataEnd + AnswerSize * Cardinality(After(i + k))
        /\ SendLen - EndOf(0) <= DataEnd + AnswerSize * Cardinality(After(0))
    BY <1>2, <2>1 DEF Room
  <2>4. SendLen \in Nat BY SendLenFacts DEF SendType
  <2>5. /\ SendLen' - EndOf(i)' \in Int
        /\ SendLen' - EndOf(i)' <= SendLen - EndOf(i + k)
    <3>1. CASE Len(outq') = 0
      <4>1. SendLen' = 0 /\ i = 0 BY <1>2, <3>1 DEF SendLen
      <4>2. EndOf(i)' = 0 BY <4>1 DEF EndOf
      <4> QED BY <2>2, <2>4, <4>1, <4>2
    <3>2. CASE Len(outq') > 0
      <4>1. SendLen' = outq'[Len(outq')].end BY <1>2, <3>2 DEF SendLen
      <4>2. Len(outq') \in 1..Len(outq') /\ Len(outq') + k = Len(outq)
        BY <1>2, <3>2
      <4>3. Len(outq) > 0 BY <1>2, <3>2
      <4>4. SendLen = outq[Len(outq)].end BY <4>3, SendLenFacts DEF SendType
      <4>5. SendLen' = SendLen - n BY <1>2, <4>1, <4>2, <4>4
      <4>6. CASE i = 0
        <5>1. EndOf(i)' = 0 BY <4>6 DEF EndOf
        <5>2. EndOf(i + k) <= n BY <1>1, <4>6 DEF EndOf
        <5> QED BY <2>2, <2>4, <4>5, <5>1, <5>2
      <4>7. CASE i # 0
        <5>1. i \in 1..Len(outq') /\ i + k # 0 BY <1>2, <4>7
        <5>2. EndOf(i)' = outq'[i].end BY <4>7 DEF EndOf
        <5>3. EndOf(i + k) = outq[i + k].end BY <5>1 DEF EndOf
        <5>4. EndOf(i)' = EndOf(i + k) - n BY <1>2, <5>1, <5>2, <5>3
        <5> QED BY <2>2, <2>4, <4>5, <5>4
      <4> QED BY <4>6, <4>7
    <3>3. Len(outq') \in Nat BY <1>2
    <3> QED BY <3>1, <3>2, <3>3
  <2> DEFINE c == Cardinality(After(i + k))
  <2>6. AnswerSize * c \in Nat BY <2>2, Numbers, Products
  <2>7. SendLen' - EndOf(i)' <= DataEnd + AnswerSize * c
    BY <2>2, <2>3, <2>4, <2>5, <2>6, Numbers
  <2> QED BY <2>1, <2>2, <2>7
<1>4. Room' BY <1>3 DEF Room
<1>5. 0 \in 0..Len(outq') BY <1>2
<1>6. After(0)' = Answers' BY DEF After, Answers
<1> QED BY <1>3, <1>4, <1>5, <1>6

AnswerInv == Room /\ Waits /\ AnswersFit

\* With sendbuf no fuller than this there is always room for one answer more.
LEMMA AnswerFits ==
  ASSUME SendType, Room, Cardinality(Answers) + 1 <= MaxWaiting,
         DataSize + MaxWaiting * AnswerSize + CipherBytes <= FullLimit
  PROVE  PutFits(AnswerSize)
<1>1. 0 \in 0..Len(outq) /\ SendLen \in Nat
  BY SendLenFacts DEF SendType
<1>2. Cardinality(Answers) \in Nat /\ After(0) = Answers /\ EndOf(0) = 0
  BY <1>1, AfterFacts DEF EndOf
<1> DEFINE c == Cardinality(Answers)
<1>3. SendLen <= DataEnd + AnswerSize * c
  BY <1>1, <1>2 DEF Room
<1>4. c \in Nat /\ c + 1 <= MaxWaiting BY <1>2
<1> HIDE DEF c
<1>5. /\ AnswerSize * c \in Nat /\ c + 1 \in Nat
      /\ AnswerSize * (c + 1) = AnswerSize * c + AnswerSize
      /\ AnswerSize * (c + 1) <= AnswerSize * MaxWaiting
      /\ AnswerSize * MaxWaiting = MaxWaiting * AnswerSize
  BY <1>4, Numbers, Products
<1>6. MaxWaiting * AnswerSize \in Nat BY Numbers, Products
<1>7. (SendSlots - 1) * FullLimit \in Int BY Numbers
<1> QED BY <1>1, <1>3, <1>5, <1>6, <1>7, Numbers DEF PutFits, DataEnd

\* Output finds room whenever packet_putisready has said so.
LEMMA DataFits ==
  ASSUME SendType, PutIsReady,
         DataSize + MaxWaiting * AnswerSize + CipherBytes <= FullLimit
  PROVE  PutFits(DataSize)
<1>1. SendLen \in Nat BY SendLenFacts DEF SendType
<1>2. MaxWaiting * AnswerSize \in Nat BY Numbers, Products
<1>3. (SendSlots - 1) * FullLimit \in Int BY Numbers
<1> QED BY <1>1, <1>2, <1>3, Numbers DEF PutFits, PutIsReady

LEMMA DataBeforeEnd ==
  ASSUME SendType, PutIsReady
  PROVE  SendLen + DataSize <= DataEnd
<1>1. SendLen \in Nat BY SendLenFacts DEF SendType
<1>2. (SendSlots - 1) * FullLimit \in Int BY Numbers
<1> QED BY <1>1, <1>2, Numbers DEF PutIsReady, DataEnd

\* A step that puts nothing into sendbuf, takes no packet and waits for no
\* answer more.
LEMMA Unanswered ==
  ASSUME AnswerInv, UNCHANGED <<outq, inq, tochild>>,
         why' # "nomem" \/ why' = why,
         (pc' = "child" /\ "child" \in watch') => tochild
  PROVE  AnswerInv'
<1>1. Room'
  <2>1. /\ SendLen' = SendLen
        /\ \A i \in 0..Len(outq) : EndOf(i)' = EndOf(i) /\ After(i)' = After(i)
    BY DEF SendLen, EndOf, After
  <2> QED BY <2>1 DEF AnswerInv, Room
<1>2. Waits' BY DEF AnswerInv, Waits, Waiting, Awaited, Answers
<1>3. AnswersFit' BY DEF AnswerInv, AnswersFit
<1> QED BY <1>1, <1>2, <1>3 DEF AnswerInv

LEMMA AnswerStep ==
  AnswerInv /\ SendType /\ ReceiveInv /\ [Next]_vars => AnswerInv'
<1> SUFFICES ASSUME AnswerInv, SendType, ReceiveInv, [Next]_vars
             PROVE  AnswerInv'
  OBVIOUS
<1> USE DEF queues, received
<1>0. /\ Cardinality(Awaited) \in Nat /\ Cardinality(Answers) \in Nat
      /\ MaxWaiting \in Nat /\ tochild \in BOOLEAN
  <2>1. Awaited \subseteq (0 + 1)..Len(inq) /\ Answers \subseteq (0 + 1)..Len(outq)
    BY DEF Awaited, Answers
  <2>2. Len(inq) \in Nat /\ Len(outq) \in Nat /\ 0 \in Nat
    BY DEF ReceiveInv, ReceiveType, SendType
  <2> QED BY <2>1, <2>2, Positions, Numbers DEF SendType
<1>1. CASE GetAllWait
  BY <1>1, Unanswered DEF GetAllWait
<1>2. CASE GetAll
  <2>1. CASE Die("length") \/ Die("mac")
    BY <2>1, Unanswered DEF Die
  <2>2. CASE ~(Die("length") \/ Die("mac"))
    <3>1. GetAllTake /\ ~TooLong BY <1>2, <2>2 DEF GetAll, Get
    <3>2. HasPacket BY <1>2, <3>1 DEF GetAll, Get, NoPacket
    <3>3. /\ inq' = Tail(inq) /\ UNCHANGED <<why, outq, tochild>>
          /\ pc' # "child"
      BY <3>1 DEF GetAllTake, Take
    <3>4. inq # <<>> BY <3>2 DEF HasPacket, HasLength
    <3>5. /\ Cardinality(Awaited)' \in Nat
          /\ Cardinality(Awaited)' <= Cardinality(Awaited)
      BY <3>3, <3>4, TakeAwaited
    <3>6. Waits'
      BY <1>0, <3>3, <3>5 DEF AnswerInv, Waits, Waiting, Answers
    <3>7. Room'
      <4>1. /\ SendLen' = SendLen
            /\ \A i \in 0..Len(outq) :
                 EndOf(i)' = EndOf(i) /\ After(i)' = After(i)
        BY <3>3 DEF SendLen, EndOf, After
      <4> QED BY <3>3, <4>1 DEF AnswerInv, Room
    <3> QED BY <3>3, <3>6, <3>7 DEF AnswerInv, AnswersFit
  <2> QED BY <2>1, <2>2
<1>3. CASE Poll
  <2>1. "child" \in watch' => tochild BY <1>3 DEF Poll, Reports, Ready
  <2> QED BY <1>3, <2>1, Unanswered DEF Poll
<1>4. CASE ToChild
  <2>1. CASE "child" \in watch /\ PutFits(AnswerSize) /\ Put(AnswerSize, TRUE)
               /\ tochild' = FALSE /\ pc' = "data" /\ UNCHANGED <<why, inq>>
    <3>1. /\ Room'
          /\ Cardinality(Answers)' = Cardinality(Answers) + 1
      BY <2>1, PutRoom, Numbers DEF AnswerInv
    <3>2. tochild BY <1>4, <2>1 DEF ToChild, AnswerInv, Waits
    <3>3. Waiting' <= MaxWaiting
      BY <1>0, <2>1, <3>1, <3>2 DEF AnswerInv, Waits, Waiting, Awaited
    <3> QED BY <2>1, <3>1, <3>3 DEF AnswerInv, Waits, AnswersFit
  <2>2. CASE "child" \in watch /\ ~PutFits(AnswerSize) /\ Die("nomem")
    <3>1. tochild BY <1>4, <2>2 DEF ToChild, AnswerInv, Waits
    <3>2. Cardinality(Answers) + 1 <= MaxWaiting
      BY <1>0, <3>1 DEF AnswerInv, Waits, Waiting
    <3>3. ~(DataSize + MaxWaiting * AnswerSize + CipherBytes <= FullLimit)
      BY <2>2, <3>2, AnswerFits DEF AnswerInv
    <3>4. AnswersFit' BY <3>3 DEF AnswersFit
    <3>5. UNCHANGED <<outq, inq, tochild>> /\ pc' = "dead"
      BY <2>2 DEF Die
    <3>6. Room' /\ Waits'
      <4>1. /\ SendLen' = SendLen
            /\ \A i \in 0..Len(outq) :
                 EndOf(i)' = EndOf(i) /\ After(i)' = After(i)
        BY <3>5 DEF SendLen, EndOf, After
      <4>2. Room' BY <3>5, <4>1 DEF AnswerInv, Room
      <4> QED BY <3>5, <4>2 DEF AnswerInv, Waits, Waiting, Awaited, Answers
    <3> QED BY <3>4, <3>6 DEF AnswerInv
  <2>3. CASE tochild' \in {tochild, tochild /\ "child" \notin watch}
               /\ pc' = "data" /\ UNCHANGED <<why, outq, inq>>
    <3>1. tochild' \in BOOLEAN /\ (tochild' => tochild)
      BY <2>3, <1>0
    <3>2. Waiting' <= MaxWaiting
      BY <1>0, <2>3, <3>1 DEF AnswerInv, Waits, Waiting, Awaited, Answers
    <3>3. Room'
      <4>1. /\ SendLen' = SendLen
            /\ \A i \in 0..Len(outq) :
                 EndOf(i)' = EndOf(i) /\ After(i)' = After(i)
        BY <2>3 DEF SendLen, EndOf, After
      <4> QED BY <2>3, <4>1 DEF AnswerInv, Room
    <3> QED BY <2>3, <3>2, <3>3 DEF AnswerInv, Waits, AnswersFit
  <2> QED BY <1>4, <2>1, <2>2, <2>3 DEF ToChild
<1>5. CASE Data
  <2>1. CASE "data" \in watch /\ PutIsReady /\ ~PutFits(DataSize)
    <3>1. ~(DataSize + MaxWaiting * AnswerSize + CipherBytes <= FullLimit)
      BY <2>1, DataFits
    <3>2. AnswersFit' BY <3>1 DEF AnswersFit
    <3>3. UNCHANGED <<outq, inq, tochild>> /\ pc' = "dead"
      BY <1>5, <2>1 DEF Data, Die
    <3>4. Room' /\ Waits'
      <4>1. /\ SendLen' = SendLen
            /\ \A i \in 0..Len(outq) :
                 EndOf(i)' = EndOf(i) /\ After(i)' = After(i)
        BY <3>3 DEF SendLen, EndOf, After
      <4>2. Room' BY <3>3, <4>1 DEF AnswerInv, Room
      <4> QED BY <3>3, <4>2 DEF AnswerInv, Waits, Waiting, Awaited, Answers
    <3> QED BY <3>2, <3>4 DEF AnswerInv
  <2>2. CASE "data" \in watch /\ PutIsReady /\ PutFits(DataSize)
    <3>1. /\ Put(DataSize, FALSE) /\ pc' = "send"
          /\ UNCHANGED <<why, inq, tochild>>
      BY <1>5, <2>2 DEF Data
    <3>2. SendLen + DataSize <= DataEnd BY <2>2, DataBeforeEnd
    <3>3. Room' /\ Cardinality(Answers)' = Cardinality(Answers) + 0
      BY <3>1, <3>2, PutRoom, Numbers DEF AnswerInv
    <3>4. Waiting' <= MaxWaiting
      BY <1>0, <3>1, <3>3 DEF AnswerInv, Waits, Waiting, Awaited
    <3> QED BY <3>1, <3>3, <3>4 DEF AnswerInv, Waits, AnswersFit
  <2>3. CASE ~("data" \in watch /\ PutIsReady)
    BY <1>5, <2>3, Unanswered DEF Data
  <2> QED BY <2>1, <2>2, <2>3
<1>6. CASE SendStep
  <2>1. CASE "send" \in watch
    <3>1. Send /\ pc' = "recv" /\ UNCHANGED <<why, inq, tochild>>
      BY <1>6, <2>1 DEF SendStep
    <3>2. /\ Room' /\ Cardinality(Answers)' \in Nat
          /\ Cardinality(Answers)' <= Cardinality(Answers)
      BY <3>1, SendRoom DEF AnswerInv
    <3>3. Waiting' <= MaxWaiting
      BY <1>0, <3>1, <3>2 DEF AnswerInv, Waits, Waiting, Awaited
    <3> QED BY <3>1, <3>2, <3>3 DEF AnswerInv, Waits, AnswersFit
  <2>2. CASE "send" \notin watch
    BY <1>6, <2>2, Unanswered DEF SendStep
  <2> QED BY <2>1, <2>2
<1>7. CASE RecvStep
  BY <1>7, Unanswered DEF RecvStep
<1>8. CASE Process
  <2>1. CASE Die("length") \/ Die("mac")
    BY <2>1, Unanswered DEF Die
  <2>2. CASE ~(Die("length") \/ Die("mac"))
    <3>1. Handle /\ ~TooLong BY <1>8, <2>2 DEF Process, Get
    <3>2. HasPacket BY <1>8, <3>1 DEF Process, Get, NoPacket
    <3>3. inq # <<>> BY <3>2 DEF HasPacket, HasLength
    <3> DEFINE type == Head(inq).type
    <3>4. CASE type = "request" /\ ~PutFits(AnswerSize)
      <4>1. Die("nomem") BY <3>1, <3>4 DEF Handle
      <4>2. UNCHANGED <<outq, inq, tochild>> /\ pc' = "dead"
        BY <4>1 DEF Die
      <4>3. Cardinality(Awaited) > 0
        <5>1. inq' \in Seq(Packets) /\ inq[1] = Head(inq) /\ 1 \in 1..Len(inq)
          BY <3>3, <4>2, TailFacts DEF ReceiveInv, ReceiveType
        <5>2. Awaited # {} BY <3>4, <5>1 DEF Awaited
        <5>3. IsFiniteSet(Awaited)
          <6>1. Awaited \subseteq (0 + 1)..Len(inq) BY DEF Awaited
          <6>2. Len(inq) \in Nat /\ 0 \in Nat BY DEF ReceiveInv, ReceiveType
          <6> QED BY <6>1, <6>2, Positions
        <5> QED BY <1>0, <5>2, <5>3, FS_EmptySet
      <4>4. Cardinality(Answers) + 1 <= MaxWaiting
        BY <1>0, <4>3 DEF AnswerInv, Waits, Waiting
      <4>5. ~(DataSize + MaxWaiting * AnswerSize + CipherBytes <= FullLimit)
        BY <3>4, <4>4, AnswerFits DEF AnswerInv
      <4>6. AnswersFit' BY <4>5 DEF AnswersFit
      <4>7. Room' /\ Waits'
        <5>1. /\ SendLen' = SendLen
              /\ \A i \in 0..Len(outq) :
                   EndOf(i)' = EndOf(i) /\ After(i)' = After(i)
          BY <4>2 DEF SendLen, EndOf, After
        <5>2. Room' BY <4>2, <5>1 DEF AnswerInv, Room
        <5> QED BY <4>2, <5>2 DEF AnswerInv, Waits, Waiting, Awaited, Answers
      <4> QED BY <4>6, <4>7 DEF AnswerInv
    <3>5. CASE ~(type = "request" /\ ~PutFits(AnswerSize))
      <4>1. /\ inq' = Tail(inq) /\ why' = why /\ pc' # "child"
            /\ tochild' = (tochild \/ type = "data")
            /\ IF type = "request" THEN Put(AnswerSize, TRUE)
                                   ELSE UNCHANGED outq
        BY <3>1, <3>5 DEF Handle, Take, AfterPacket
      <4>2. /\ Cardinality(Awaited)' \in Nat
            /\ Cardinality(Awaited)'
                 + (IF type \in {"request", "data"} THEN 1 ELSE 0)
                 = Cardinality(Awaited)
        BY <3>3, <4>1, TakeAwaited
      <4>3. /\ Room'
            /\ Cardinality(Answers)'
                 = Cardinality(Answers) + (IF type = "request" THEN 1 ELSE 0)
        <5>1. CASE type = "request"
          <6>1. Put(AnswerSize, TRUE) BY <4>1, <5>1
          <6> QED BY <5>1, <6>1, PutRoom, Numbers DEF AnswerInv
        <5>2. CASE type # "request"
          <6>1. outq' = outq BY <4>1, <5>2
          <6>2. /\ SendLen' = SendLen /\ Answers' = Answers
                /\ \A i \in 0..Len(outq) :
                     EndOf(i)' = EndOf(i) /\ After(i)' = After(i)
            BY <6>1 DEF SendLen, EndOf, After, Answers
          <6>3. Room' BY <6>1, <6>2 DEF AnswerInv, Room
          <6> QED BY <1>0, <5>2, <6>2, <6>3
        <5> QED BY <5>1, <5>2
      <4>4. (IF tochild' THEN 1 ELSE 0)
              <= (IF tochild THEN 1 ELSE 0) + (IF type = "data" THEN 1 ELSE 0)
        <5>1. tochild' => tochild \/ type = "data" BY <4>1
        <5> QED BY <5>1
      <4> HIDE DEF type
      <4>5. Waiting' <= MaxWaiting
        BY <1>0, <4>2, <4>3, <4>4 DEF AnswerInv, Waits, Waiting
      <4> QED BY <4>1, <4>3, <4>5 DEF AnswerInv, Waits, AnswersFit
    <3> QED BY <3>4, <3>5
  <2> QED BY <2>1, <2>2
<1>9. CASE ProcessEnd
  BY <1>9, Unanswered DEF ProcessEnd
<1>10. CASE ClientSend
  <2>1. UNCHANGED <<pc, why, watch, outq, tochild>> BY <1>10 DEF ClientSend
  <2>2. Waiting' <= MaxWaiting
    BY <1>10, SendAwaited DEF AnswerInv, Waits
  <2>3. Room'
    <3>1. /\ SendLen' = SendLen
          /\ \A i \in 0..Len(outq) : EndOf(i)' = EndOf(i) /\ After(i)' = After(i)
      BY <2>1 DEF SendLen, EndOf, After
    <3> QED BY <2>1, <3>1 DEF AnswerInv, Room
  <2> QED BY <2>1, <2>2, <2>3 DEF AnswerInv, Waits, AnswersFit
<1>11. CASE UNCHANGED vars
  BY <1>11, Unanswered DEF vars, AnswerInv, Waits
<1> QED BY <1>1, <1>2, <1>3, <1>4, <1>5, <1>6, <1>7, <1>8, <1>9, <1>10, <1>11
        DEF Next, Server

LEMMA AnswerInit == Init => AnswerInv
<1> SUFFICES ASSUME Init PROVE AnswerInv
  OBVIOUS
<1>1. outq = <<>> /\ inq = <<>> /\ ~tochild /\ why = "none" /\ pc = "getall"
  BY DEF Init
<1>2. Awaited = {} /\ Answers = {} /\ Len(outq) = 0
  BY <1>1 DEF Awaited, Answers
<1>3. Waits
  BY <1>1, <1>2, FS_EmptySet, Numbers DEF Waits, Waiting
<1>4. Room
  <2>1. SendLen = 0 /\ EndOf(0) = 0 /\ After(0) = {}
    BY <1>1, <1>2 DEF SendLen, EndOf, After
  <2>2. Cardinality(After(0)) = 0 /\ AnswerSize * 0 = 0
    BY <2>1, FS_EmptySet, Numbers
  <2>3. \A i \in 0..Len(outq) : i = 0 BY <1>2
  <2> QED BY <2>1, <2>2, <2>3, Numbers DEF Room
<1> QED BY <1>1, <1>3, <1>4 DEF AnswerInv, AnswersFit

(* Requests are answered and windows adjusted without packet_putisready,   *)
(* and the buffer never lacks the room for it, however little write()      *)
(* takes at a time: the reserve that packet_putisready keeps for the       *)
(* output of the child covers every answer this client may wait for.       *)
THEOREM ReserveIsEnough == Spec => []AnswersFit
<1>1. AnswerInv => AnswersFit BY DEF AnswerInv
<1> QED BY <1>1, SendTypeInit, ReceiveInit, ReceiveStep, SendTypeStep, AnswerInit,
           AnswerStep, PTL DEF Spec

----------------------------------------------------------------------------
(* The compaction of recvbuf.                                              *)

\* The greatest packet, and what it takes in the stream.
Part == LenBytes + PacketLimit + AuthBytes
Size(p) == LenBytes + p.length + (IF p.sealed THEN AuthBytes ELSE 0)

\* off[i] is where packet i begins in the stream, and the last where the
\* client has come to.
Layout(off) ==
  /\ off \in Seq(Int) /\ Len(off) = Len(inq) + 1
  /\ \A i \in 1..Len(inq) : off[i + 1] = off[i] + Size(inq[i])
  /\ off[Len(inq) + 1] - off[1] = fill + unread

\* Nothing but packets is in recvbuf and on the way.
Bytes == \E off : Layout(off)

\* After the packet of the handshake that is its last the client waits.
AuthLast == pc = "getall" =>
              \A i \in 1..Len(inq) :
                inq[i].type = "auth" => i = Len(inq) /\ phase = "open"

\* Only a part of a packet is in recvbuf when more is read.
Filled == ~left => /\ fill <= Part - 1 + FullLimit
                   /\ pc \in {"poll", "child", "data", "send", "recv"}
                        => fill <= Part - 1

FillInv == Bytes /\ AuthLast /\ Filled

LEMMA Receiving ==
  /\ PacketLimit \in Nat /\ FullLimit \in Nat /\ LenBytes \in Nat
  /\ AuthBytes \in Nat /\ ZeroBytes \in Nat /\ RecvSlots \in Nat
  /\ LenBytes > 0 /\ Part \in Nat /\ Part > 0
<1>1. /\ PacketLimit \in Nat /\ FullLimit \in Nat /\ LenBytes \in Nat
      /\ AuthBytes \in Nat /\ ZeroBytes \in Nat /\ RecvSlots \in Nat
  BY Zenon, SizeAssumption
<1>2. LenBytes > 0 BY SizeAssumption
<1> QED BY <1>1, <1>2 DEF Part

LEMMA SizeFacts ==
  ASSUME NEW p \in Packets
  PROVE  Size(p) \in Nat /\ Size(p) > 0
  BY Receiving DEF Size, Packets

\* packet_get returns nothing only when less than a packet is left.
LEMMA PartLeft ==
  ASSUME ReceiveInv, Bytes, NoPacket
  PROVE  fill <= Part - 1
<1>1. fill \in Nat /\ unread \in Nat /\ keys \in BOOLEAN /\ inq \in Seq(Packets)
  BY DEF ReceiveInv, ReceiveType
<1>2. CASE inq = <<>>
  <2>1. PICK off : Layout(off) BY DEF Bytes
  <2>2. Len(inq) = 0 BY <1>2
  <2>3. off[1] \in Int BY <2>1, <2>2 DEF Layout
  <2>4. fill + unread = 0 BY <2>1, <2>2, <2>3 DEF Layout
  <2> QED BY <1>1, <2>4, Receiving
<1>3. CASE inq # <<>> /\ fill < LenBytes
  BY <1>1, <1>3, Receiving DEF Part
<1>4. CASE inq # <<>> /\ fill >= LenBytes
  <2>1. HasLength BY <1>4 DEF HasLength
  <2>2. Head(inq) \in Packets BY <1>1, <1>4, TailFacts
  <2>3. Length = Head(inq).length /\ Length \in Nat
    BY <2>2 DEF Length, ReceiveInv, FrontKnown, Packets
  <2>4. Length <= PacketLimit
    BY <2>1, <2>3, Receiving DEF NoPacket, TooLong
  <2>5. Length + Overhead > fill
    BY <1>1, <2>1, <2>3, <2>4, Receiving DEF NoPacket, HasPacket, Overhead
  <2> QED BY <1>1, <2>3, <2>4, <2>5, Receiving DEF Overhead, Part
<1> QED BY <1>1, <1>2, <1>3, <1>4, Receiving

\* A packet is taken with all its bytes; with the only one go all that are left.
LEMMA TakeBytes ==
  ASSUME ReceiveInv, Bytes, HasPacket, Take, unread' = unread, fill' \in Nat
  PROVE  /\ Bytes' /\ fill' <= fill
         /\ Len(inq) = 1 => fill' = 0
<1>1. /\ Length = Head(inq).length /\ Length \in Nat /\ inq # <<>>
      /\ Head(inq) \in Packets /\ Head(inq).sealed = keys
  BY FrontAuthentic
<1>2. /\ inq' = Tail(inq) /\ inq \in Seq(Packets) /\ keys \in BOOLEAN
      /\ fill \in Nat /\ unread \in Nat /\ fill' = fill - (Length + Overhead)
  BY DEF Take, ReceiveInv, ReceiveType
<1>3. /\ Head(inq) = inq[1] /\ Len(inq) \in Nat
      /\ Len(inq) > 0 /\ Len(inq') = Len(inq) - 1
      /\ \A i \in 1..(Len(inq) - 1) : inq'[i] = inq[i + 1]
  BY <1>1, <1>2, TailFacts
<1>4. Size(inq[1]) \in Nat /\ fill' = fill - Size(inq[1])
  <2>1. inq[1].length = Length /\ inq[1].sealed = keys
    BY <1>1, <1>3
  <2>2. Size(inq[1]) = Length + Overhead /\ Overhead \in Nat
    <3>1. CASE keys BY <1>1, <2>1, <3>1, Receiving DEF Size, Overhead
    <3>2. CASE ~keys BY <1>1, <2>1, <3>2, Receiving DEF Size, Overhead
    <3> QED BY <3>1, <3>2
  <2> QED BY <1>1, <1>2, <2>2
<1>5. PICK off : Layout(off) BY DEF Bytes
<1>6. /\ off \in Seq(Int) /\ Len(off) = Len(inq) + 1 /\ off # <<>>
      /\ off[1] \in Int /\ off[2] \in Int /\ off[Len(inq) + 1] \in Int
      /\ off[2] = off[1] + Size(inq[1])
      /\ off[Len(inq) + 1] - off[1] = fill + unread
  <2>1. /\ off \in Seq(Int) /\ Len(off) = Len(inq) + 1
        /\ off[Len(inq) + 1] - off[1] = fill + unread
    BY <1>5 DEF Layout
  <2>2. /\ 1 \in 1..Len(off) /\ 2 \in 1..Len(off)
        /\ Len(inq) + 1 \in 1..Len(off) /\ 1 \in 1..Len(inq) /\ 1 + 1 = 2
    BY <1>3, <2>1
  <2>3. off[1 + 1] = off[1] + Size(inq[1]) BY <1>5, <2>2 DEF Layout
  <2> QED BY <2>1, <2>2, <2>3
<1> DEFINE new == Tail(off)
<1>7. /\ new \in Seq(Int) /\ Len(new) = Len(inq)
      /\ \A i \in 1..Len(inq) : new[i] = off[i + 1]
  BY <1>3, <1>6, TailFacts
<1> HIDE DEF new
<1>8. \A i \in 1..Len(inq') : new[i + 1] = new[i] + Size(inq'[i])
  <2>1. ASSUME NEW i \in 1..Len(inq')
        PROVE  new[i + 1] = new[i] + Size(inq'[i])
    <3>1. /\ i \in 1..(Len(inq) - 1) /\ i \in 1..Len(inq)
          /\ i + 1 \in 1..Len(inq)
      BY <1>3
    <3>2. /\ new[i] = off[i + 1] /\ new[i + 1] = off[(i + 1) + 1]
          /\ inq'[i] = inq[i + 1]
      BY <1>3, <1>7, <3>1
    <3>3. off[(i + 1) + 1] = off[i + 1] + Size(inq[i + 1])
      BY <1>5, <3>1 DEF Layout
    <3> QED BY <3>2, <3>3
  <2> QED BY <2>1
<1>9. new[Len(inq') + 1] - new[1] = fill' + unread'
  <2>1. 1 \in 1..Len(inq) /\ Len(inq) \in 1..Len(inq) BY <1>3
  <2>2. new[1] = off[2] /\ new[Len(inq)] = off[Len(inq) + 1]
    BY <1>7, <2>1
  <2>3. Len(inq') + 1 = Len(inq) BY <1>3
  <2>4. new[Len(inq') + 1] = off[Len(inq) + 1] BY <2>2, <2>3
  <2> DEFINE first == off[1]  last == off[Len(inq) + 1]  size == Size(inq[1])
  <2>5. /\ first \in Int /\ last \in Int /\ size \in Nat
        /\ fill \in Nat /\ unread \in Nat /\ last - first = fill + unread
        /\ new[1] = first + size /\ new[Len(inq') + 1] = last
        /\ fill' = fill - size /\ unread' = unread
    BY <1>2, <1>4, <1>6, <2>2, <2>4, Zenon
  <2> HIDE DEF first, last, size
  <2>6. last - (first + size) = (fill - size) + unread
    BY ONLY <2>5
  <2> QED BY <2>5, <2>6, Zenon
<1>10. Bytes'
  <2>1. Len(new) = Len(inq') + 1 BY <1>3, <1>7
  <2> QED BY <1>7, <1>8, <1>9, <2>1 DEF Bytes, Layout
<1>11. Len(inq) = 1 => fill' = 0
  BY <1>2, <1>4, <1>6
<1> QED BY <1>2, <1>4, <1>10, <1>11

\* The bytes of a packet that is sent are on the way.
LEMMA SendBytes ==
  ASSUME ReceiveInv, Bytes, ClientSend
  PROVE  Bytes'
<1>1. PICK type \in Types(phase), n \in Lengths :
        /\ inq' = Append(inq, [type |-> type, length |-> n, number |-> csent,
                               sealed |-> phase # "kex"])
        /\ unread' = unread + LenBytes + n
                       + (IF phase = "kex" THEN 0 ELSE AuthBytes)
  BY DEF ClientSend
<1> DEFINE p == [type |-> type, length |-> n, number |-> csent,
                 sealed |-> phase # "kex"]
<1>2. /\ Len(inq) \in Nat /\ Len(inq') = Len(inq) + 1
      /\ \A i \in 1..Len(inq) : inq'[i] = inq[i]
      /\ inq'[Len(inq) + 1] = p
  BY <1>1 DEF ReceiveInv, ReceiveType
<1>3. /\ fill' = fill /\ fill \in Nat /\ unread \in Nat /\ n \in Nat
  BY Sizes DEF ClientSend, ReceiveInv, ReceiveType
<1>4. Size(p) \in Nat /\ unread' = unread + Size(p)
  <2>1. /\ p.length = n
        /\ IF phase = "kex" THEN p.sealed = FALSE ELSE p.sealed = TRUE
    OBVIOUS
  <2> HIDE DEF p
  <2>2. Size(p) = LenBytes + n + (IF phase = "kex" THEN 0 ELSE AuthBytes)
    BY <2>1 DEF Size
  <2> QED BY <1>1, <1>3, <2>2, Receiving
<1>5. PICK off : Layout(off) BY DEF Bytes
<1>6. /\ off \in Seq(Int) /\ Len(off) = Len(inq) + 1
      /\ off[1] \in Int /\ off[Len(inq) + 1] \in Int
      /\ off[Len(inq) + 1] - off[1] = fill + unread
  <2>1. /\ off \in Seq(Int) /\ Len(off) = Len(inq) + 1
        /\ off[Len(inq) + 1] - off[1] = fill + unread
    BY <1>5 DEF Layout
  <2>2. 1 \in 1..Len(off) /\ Len(inq) + 1 \in 1..Len(off) BY <1>2, <2>1
  <2> QED BY <2>1, <2>2
<1> DEFINE new == Append(off, off[Len(inq) + 1] + Size(p))
<1> HIDE DEF p
<1>7. /\ new \in Seq(Int) /\ Len(new) = Len(inq) + 2
      /\ \A i \in 1..(Len(inq) + 1) : new[i] = off[i]
      /\ new[Len(inq) + 2] = off[Len(inq) + 1] + Size(p)
  BY <1>2, <1>4, <1>6, AppendFacts
<1> HIDE DEF new
<1>8. ASSUME NEW i \in 1..Len(inq')
      PROVE  new[i + 1] = new[i] + Size(inq'[i])
  <2>1. CASE i \in 1..Len(inq)
    <3>1. i \in 1..(Len(inq) + 1) /\ i + 1 \in 1..(Len(inq) + 1)
      BY <1>2, <2>1
    <3>2. /\ new[i] = off[i] /\ new[i + 1] = off[i + 1] /\ inq'[i] = inq[i]
      BY <1>2, <1>7, <2>1, <3>1
    <3>3. off[i + 1] = off[i] + Size(inq[i]) BY <1>5, <2>1 DEF Layout
    <3> QED BY <3>2, <3>3
  <2>2. CASE i = Len(inq) + 1
    <3>1. i \in 1..(Len(inq) + 1) /\ i + 1 = Len(inq) + 2 BY <1>2, <2>2
    <3> QED BY <1>2, <1>7, <2>2, <3>1
  <2> QED BY <1>2, <2>1, <2>2
<1>9. new[Len(inq') + 1] - new[1] = fill' + unread'
  <2>1. 1 \in 1..(Len(inq) + 1) /\ Len(inq') + 1 = Len(inq) + 2 BY <1>2
  <2>2. new[1] = off[1] BY <1>7, <2>1
  <2>3. new[Len(inq') + 1] = off[Len(inq) + 1] + Size(p) BY <1>7, <2>1
  <2> DEFINE first == off[1]  last == off[Len(inq) + 1]  size == Size(p)
  <2>4. /\ first \in Int /\ last \in Int /\ size \in Nat
        /\ fill \in Nat /\ unread \in Nat /\ last - first = fill + unread
        /\ new[1] = first /\ new[Len(inq') + 1] = last + size
        /\ fill' = fill /\ unread' = unread + size
    BY <1>3, <1>4, <1>6, <2>2, <2>3, Zenon
  <2> HIDE DEF first, last, size
  <2>5. (last + size) - first = fill + (unread + size)
    BY ONLY <2>4
  <2> QED BY <2>4, <2>5, Zenon
<1>10. Len(new) = Len(inq') + 1 BY <1>2, <1>7
<1> QED BY <1>7, <1>8, <1>9, <1>10 DEF Bytes, Layout

\* A step that leaves packets and bytes alone, and goes on only with a part.
LEMMA FillStays ==
  ASSUME FillInv, UNCHANGED <<fill, inq, unread, phase, left>>,
         pc' = "getall" => pc = "getall",
         ~left /\ pc' \in {"poll", "child", "data", "send", "recv"}
           => fill <= Part - 1
  PROVE  FillInv'
<1>1. Bytes' BY DEF FillInv, Bytes, Layout
<1>2. AuthLast' BY DEF FillInv, AuthLast
<1>3. Filled' BY DEF FillInv, Filled, Part
<1> QED BY <1>1, <1>2, <1>3 DEF FillInv

\* A read() with less than a packet in recvbuf.
LEMMA ReadFills ==
  ASSUME FillInv, ReceiveInv, Recv, UNCHANGED <<inq, phase, left>>,
         ~left => fill <= Part - 1,
         pc' \in {"getall", "process"}, pc' = "getall" => pc = "getall"
  PROVE  FillInv'
<1>1. PICK n \in ReadSizes \cup {unread, FullLimit} :
        /\ 0 < n /\ n <= unread /\ n <= FullLimit
        /\ fill' = fill + n /\ unread' = unread - n
  BY DEF Recv
<1>2. n \in Nat /\ fill \in Nat /\ unread \in Nat
  BY Sizes DEF ReceiveInv, ReceiveType
<1>3. fill' + unread' = fill + unread BY <1>1, <1>2
<1>4. Bytes' BY <1>3 DEF FillInv, Bytes, Layout
<1>5. AuthLast' BY DEF FillInv, AuthLast
<1>6. Filled'
  <2>1. ~left' => fill' <= Part - 1 + FullLimit BY <1>1, <1>2, Receiving
  <2> QED BY <2>1 DEF Filled, Part
<1> QED BY <1>4, <1>5, <1>6 DEF FillInv

LEMMA FillStep == FillInv /\ ReceiveInv /\ [Next]_vars => FillInv'
<1> SUFFICES ASSUME FillInv, ReceiveInv, [Next]_vars PROVE FillInv'
  OBVIOUS
<1> USE DEF queues, received, client
<1>0. fill' \in Nat /\ fill \in Nat
  BY ReceiveStep DEF ReceiveInv, ReceiveType
<1>1. CASE GetAllWait
  <2>1. fill <= Part - 1 BY <1>1, PartLeft DEF GetAllWait, FillInv
  <2> QED BY <1>1, <2>1, ReadFills DEF GetAllWait
<1>2. CASE GetAll
  <2>1. CASE Die("length") \/ Die("mac")
    BY <1>2, <2>1, FillStays DEF GetAll, Die
  <2>2. CASE ~(Die("length") \/ Die("mac"))
    <3>1. GetAllTake /\ ~TooLong /\ UNCHANGED <<unread, phase, left>> /\ pc = "getall"
      BY <1>2, <2>2 DEF GetAll, Get
    <3>2. HasPacket BY <1>2, <3>1 DEF GetAll, Get, NoPacket
    <3>3. /\ Take
          /\ pc' = IF Head(inq).type = "auth" THEN "poll" ELSE "getall"
      BY <3>1 DEF GetAllTake
    <3>4. Bytes' /\ fill' <= fill /\ (Len(inq) = 1 => fill' = 0)
      BY <1>0, <3>1, <3>2, <3>3, TakeBytes DEF FillInv
    <3>5. /\ inq' = Tail(inq) /\ inq \in Seq(Packets) /\ inq # <<>>
      BY <3>2, <3>3
      DEF Take, HasPacket, HasLength, ReceiveInv, ReceiveType
    <3>6. /\ Head(inq) = inq[1] /\ Len(inq) \in Nat /\ 1 \in 1..Len(inq)
          /\ Len(inq') = Len(inq) - 1
          /\ \A i \in 1..(Len(inq) - 1) : inq'[i] = inq[i + 1]
      BY <3>5, TailFacts
    <3>7. AuthLast'
      <4>1. ASSUME NEW i \in 1..Len(inq'), inq'[i].type = "auth"
            PROVE  i = Len(inq') /\ phase' = "open"
        <5>1. /\ i + 1 \in 1..Len(inq) /\ inq'[i] = inq[i + 1] BY <3>6
        <5>2. i + 1 = Len(inq) /\ phase = "open"
          BY <3>1, <4>1, <5>1 DEF FillInv, AuthLast
        <5> QED BY <3>1, <3>6, <5>2
      <4> QED BY <4>1 DEF AuthLast
    <3>8. Head(inq).type = "auth" => fill' = 0
      <4>1. Head(inq).type = "auth" => Len(inq) = 1
        BY <3>1, <3>6 DEF FillInv, AuthLast
      <4> QED BY <3>4, <4>1
    <3>9. Filled'
      <4>1. ~left' => fill' <= Part - 1 + FullLimit
        BY <1>0, <3>1, <3>4, Receiving DEF FillInv, Filled
      <4>2. pc' # "getall" => fill' <= Part - 1
        BY <3>3, <3>8, Receiving
      <4> QED BY <3>3, <4>1, <4>2 DEF Filled, Part
    <3> QED BY <3>4, <3>7, <3>9 DEF FillInv
  <2> QED BY <2>1, <2>2
<1>3. CASE Poll
  BY <1>3, FillStays DEF Poll, FillInv, Filled
<1>4. CASE ToChild
  <2>1. /\ UNCHANGED <<fill, inq, unread, phase, left>>
        /\ pc = "child" /\ pc' \in {"data", "dead"}
    BY <1>4 DEF ToChild, Die
  <2> QED BY <2>1, FillStays DEF FillInv, Filled
<1>5. CASE Data
  <2>1. /\ UNCHANGED <<fill, inq, unread, phase, left>>
        /\ pc = "data" /\ pc' \in {"send", "dead"}
    BY <1>5 DEF Data, Die
  <2> QED BY <2>1, FillStays DEF FillInv, Filled
<1>6. CASE SendStep
  BY <1>6, FillStays DEF SendStep, FillInv, Filled
<1>7. CASE RecvStep
  <2>1. /\ pc = "recv" /\ pc' = "process"
        /\ UNCHANGED <<inq, phase, left>>
    BY <1>7 DEF RecvStep
  <2>2. ~left => fill <= Part - 1 BY <2>1 DEF FillInv, Filled
  <2>3. CASE "recv" \in watch
    BY <1>7, <2>1, <2>2, <2>3, ReadFills DEF RecvStep
  <2>4. CASE "recv" \notin watch
    <3>1. UNCHANGED <<fill, unread>> BY <1>7, <2>4 DEF RecvStep
    <3> QED BY <2>1, <2>2, <3>1, FillStays
  <2> QED BY <2>3, <2>4
<1>8. CASE Process
  <2>1. CASE Die("length") \/ Die("mac") \/ Die("nomem")
    <3>1. /\ UNCHANGED <<fill, inq, unread, phase>> /\ pc' = "dead"
          /\ left' = (left \/ Head(inq).type = "ignore")
      BY <1>8, <2>1 DEF Process, Die
    <3>2. Bytes' /\ AuthLast'
      BY <3>1 DEF FillInv, Bytes, Layout, AuthLast
    <3>3. ~left' => ~left BY <3>1
    <3>4. Filled' BY <3>1, <3>3 DEF FillInv, Filled, Part
    <3> QED BY <3>2, <3>4 DEF FillInv
  <2>2. CASE ~(Die("length") \/ Die("mac") \/ Die("nomem"))
    <3>1. /\ Handle /\ ~TooLong /\ UNCHANGED <<unread, phase>>
          /\ left' = (left \/ Head(inq).type = "ignore")
      BY <1>8, <2>2 DEF Process, Get
    <3>2. HasPacket BY <1>8, <3>1 DEF Process, Get, NoPacket
    <3>3. Take /\ pc' = AfterPacket(Head(inq))
      BY <2>2, <3>1 DEF Handle
    <3>4. Bytes' /\ fill' <= fill
      BY <1>0, <3>1, <3>2, <3>3, TakeBytes DEF FillInv
    <3>5. ~left' => ~left /\ pc' = "process"
      BY <3>1, <3>3 DEF AfterPacket
    <3>6. pc' # "getall" BY <3>3 DEF AfterPacket
    <3>7. ~left' => fill' <= Part - 1 + FullLimit
      BY <1>0, <3>4, <3>5, Receiving DEF FillInv, Filled
    <3>8. Filled' BY <3>5, <3>7 DEF Filled, Part
    <3> QED BY <3>4, <3>6, <3>8 DEF FillInv, AuthLast
  <2> QED BY <2>1, <2>2
<1>9. CASE ProcessEnd
  <2>1. fill <= Part - 1 BY <1>9, PartLeft DEF ProcessEnd, FillInv
  <2>2. UNCHANGED <<fill, inq, unread, phase>> /\ pc' = "poll"
    BY <1>9 DEF ProcessEnd
  <2>3. Bytes' /\ AuthLast' BY <2>2 DEF FillInv, Bytes, Layout, AuthLast
  <2>4. Filled'
    <3>1. fill' <= Part - 1 /\ fill' <= Part - 1 + FullLimit
      BY <1>0, <2>1, <2>2, Receiving
    <3> QED BY <3>1 DEF Filled, Part
  <2> QED BY <2>3, <2>4 DEF FillInv
<1>10. CASE ClientSend
  <2>1. UNCHANGED <<pc, fill, left>> BY <1>10 DEF ClientSend
  <2>2. Bytes' BY <1>10, SendBytes DEF FillInv
  <2>3. Filled' BY <2>1 DEF FillInv, Filled, Part
  <2>4. AuthLast'
    <3>1. PICK type \in Types(phase), n \in Lengths :
            /\ phase = "open" => pc # "getall"
            /\ inq' = Append(inq, [type |-> type, length |-> n, number |-> csent,
                                   sealed |-> phase # "kex"])
            /\ phase' = PhaseAfter(type)
      BY <1>10 DEF ClientSend
    <3>2. /\ Len(inq) \in Nat /\ Len(inq') = Len(inq) + 1
          /\ \A i \in 1..Len(inq) : inq'[i] = inq[i]
          /\ inq'[Len(inq) + 1].type = type
      BY <3>1 DEF ReceiveInv, ReceiveType
    <3>3. ASSUME pc' = "getall", NEW i \in 1..Len(inq'), inq'[i].type = "auth"
          PROVE  i = Len(inq') /\ phase' = "open"
      <4>1. phase # "open" /\ pc = "getall" BY <2>1, <3>1, <3>3
      <4>2. \A m \in 1..Len(inq) : inq[m].type # "auth"
        BY <4>1 DEF FillInv, AuthLast
      <4>3. i \notin 1..Len(inq) BY <3>2, <3>3, <4>2
      <4>4. i = Len(inq) + 1 BY <3>2, <4>3
      <4>5. type = "auth" BY <3>2, <3>3, <4>4
      <4>6. phase' = "open" BY <3>1, <4>5 DEF PhaseAfter
      <4> QED BY <3>2, <4>4, <4>6
    <3> QED BY <3>3 DEF AuthLast
  <2> QED BY <2>2, <2>3, <2>4 DEF FillInv
<1>11. CASE UNCHANGED vars
  BY <1>11, FillStays DEF vars, FillInv, Filled
<1> QED BY <1>1, <1>2, <1>3, <1>4, <1>5, <1>6, <1>7, <1>8, <1>9, <1>10, <1>11
        DEF Next, Server

LEMMA FillInit == Init => FillInv
<1> SUFFICES ASSUME Init PROVE FillInv
  OBVIOUS
<1>1. /\ inq = <<>> /\ fill = 0 /\ unread = 0 /\ pc = "getall" /\ Len(inq) = 0
  BY DEF Init
<1>2. Layout(<<0>>)
  <2>1. <<0>> \in Seq(Int) /\ Len(<<0>>) = 1 /\ <<0>>[1] = 0 OBVIOUS
  <2> QED BY <1>1, <2>1 DEF Layout
<1>3. Bytes BY <1>2 DEF Bytes
<1>4. AuthLast BY <1>1 DEF AuthLast
<1>5. Filled BY <1>1, Receiving DEF Filled
<1> QED BY <1>3, <1>4, <1>5 DEF FillInv

\* packet_recvisready: read() never fills recvbuf to its last byte.
InRecvbuf == ZeroBytes + fill < RecvAlloc

LEMMA RecvbufInit == Init => InRecvbuf
<1>1. RecvSlots * FullLimit \in Nat BY Receiving, Products
<1> QED BY <1>1, Receiving DEF Init, InRecvbuf, RecvAlloc

LEMMA RecvInside ==
  ASSUME ReceiveInv, Recv
  PROVE  InRecvbuf'
<1>1. PICK n \in ReadSizes \cup {unread, FullLimit} :
        0 < n /\ n <= unread /\ n <= FullLimit /\ fill' = fill + n
  BY DEF Recv
<1>2. n \in Nat /\ fill \in Nat /\ unread \in Nat
  BY Sizes DEF ReceiveInv, ReceiveType
<1>3. RecvSlots * FullLimit \in Nat BY Receiving, Products
<1>4. ZeroBytes + fill + FullLimit < RecvAlloc BY DEF Recv, RecvIsReady
<1> QED BY <1>1, <1>2, <1>3, <1>4, Receiving DEF InRecvbuf, RecvAlloc

LEMMA AllocFacts == RecvAlloc \in Nat /\ ZeroBytes \in Nat
<1>1. RecvSlots * FullLimit \in Nat BY Receiving, Products
<1> QED BY <1>1, Receiving DEF RecvAlloc

LEMMA Less ==
  ASSUME NEW z \in Nat, NEW x \in Nat, NEW y \in Nat, NEW w \in Nat,
         z + x < w, y <= x
  PROVE  z + y < w
  OBVIOUS

LEMMA LessInside ==
  ASSUME InRecvbuf, fill \in Nat, fill' \in Nat, fill' <= fill
  PROVE  InRecvbuf'
<1>1. ZeroBytes + fill < RecvAlloc BY DEF InRecvbuf
<1>2. ZeroBytes + fill' < RecvAlloc BY <1>1, AllocFacts, Less
<1> QED BY <1>2 DEF InRecvbuf, RecvAlloc

LEMMA RecvbufStep ==
  ASSUME InRecvbuf, FillInv, ReceiveInv, [Next]_vars
  PROVE  InRecvbuf'
<1> USE DEF queues, received, client
<1>0. fill' \in Nat /\ fill \in Nat
  BY ReceiveStep DEF ReceiveInv, ReceiveType
<1>1. ASSUME fill' <= fill PROVE InRecvbuf'
  BY <1>0, <1>1, LessInside
<1>2. ASSUME fill' = fill PROVE InRecvbuf'
  BY <1>2 DEF InRecvbuf, RecvAlloc
<1>3. CASE GetAllWait
  BY <1>3, RecvInside DEF GetAllWait
<1>4. CASE GetAll
  <2>1. CASE Die("length") \/ Die("mac")
    BY <1>2, <2>1 DEF Die
  <2>2. CASE ~(Die("length") \/ Die("mac"))
    <3>1. GetAllTake /\ ~TooLong /\ UNCHANGED unread
      BY <1>4, <2>2 DEF GetAll, Get
    <3>2. HasPacket BY <1>4, <3>1 DEF GetAll, Get, NoPacket
    <3>3. Take BY <3>1 DEF GetAllTake
    <3> QED BY <1>0, <1>1, <3>1, <3>2, <3>3, TakeBytes DEF FillInv
  <2> QED BY <2>1, <2>2
<1>5. CASE Process
  <2>1. CASE Die("length") \/ Die("mac") \/ Die("nomem")
    BY <1>2, <2>1 DEF Die
  <2>2. CASE ~(Die("length") \/ Die("mac") \/ Die("nomem"))
    <3>1. Handle /\ ~TooLong /\ UNCHANGED unread
      BY <1>5, <2>2 DEF Process, Get
    <3>2. HasPacket BY <1>5, <3>1 DEF Process, Get, NoPacket
    <3>3. Take BY <2>2, <3>1 DEF Handle
    <3> QED BY <1>0, <1>1, <3>1, <3>2, <3>3, TakeBytes DEF FillInv
  <2> QED BY <2>1, <2>2
<1>6. CASE RecvStep
  BY <1>2, <1>6, RecvInside DEF RecvStep
<1>7. CASE ToChild \/ Data
  BY <1>2, <1>7 DEF ToChild, Data, Die
<1>8. CASE Poll \/ SendStep \/ ProcessEnd \/ ClientSend \/ UNCHANGED vars
  BY <1>2, <1>8 DEF Poll, SendStep, ProcessEnd, ClientSend, vars
<1> QED BY <1>3, <1>4, <1>5, <1>6, <1>7, <1>8 DEF Next, Server

(* The compaction of packet_get writes behind what is left of recvbuf.     *)
(* Behind recvbuf it comes only when an IGNORE has left packets there, for *)
(* otherwise the loop reads on with less than one packet; and then by less *)
(* than the header and authenticator that it counts twice, for every size, *)
(* every stream of packets and every split of it over read().              *)
THEOREM CompactionStaysClose == Spec => []CompactionReach
<1>1. FillInv /\ ReceiveInv /\ ~left => CompactionEnd <= RecvAlloc
  <2> SUFFICES ASSUME FillInv, ReceiveInv, ~left
               PROVE  CompactionEnd <= RecvAlloc
    OBVIOUS
  <2>1. fill <= Part - 1 + FullLimit /\ fill \in Nat /\ keys \in BOOLEAN
    BY DEF FillInv, Filled, ReceiveInv, ReceiveType
  <2>2. Overhead \in Nat /\ Overhead <= LenBytes + AuthBytes
    BY <2>1, Receiving DEF Overhead
  <2>3. RecvSlots * FullLimit \in Nat BY Receiving, Products
  <2>4. Part + FullLimit + 2 * (LenBytes + AuthBytes)
          <= RecvSlots * FullLimit + 2
    BY RecvAssumption DEF Part
  <2> QED BY <2>1, <2>2, <2>3, <2>4, Receiving DEF CompactionEnd, RecvAlloc
<1>2. ReceiveInv /\ InRecvbuf => CompactionEnd < RecvAlloc + 2 * Overhead
  <2> SUFFICES ASSUME ReceiveInv, InRecvbuf
               PROVE  CompactionEnd < RecvAlloc + 2 * Overhead
    OBVIOUS
  <2>1. fill \in Nat /\ keys \in BOOLEAN BY DEF ReceiveInv, ReceiveType
  <2>2. Overhead \in Nat BY <2>1, Receiving DEF Overhead
  <2>3. RecvSlots * FullLimit \in Nat BY Receiving, Products
  <2> QED BY <2>1, <2>2, <2>3, Receiving DEF InRecvbuf, CompactionEnd, RecvAlloc
<1>3. FillInv /\ ReceiveInv /\ InRecvbuf => CompactionReach
  <2>1. ASSUME FillInv, ReceiveInv, InRecvbuf PROVE CompactionReach
    <3>1. CompactionEnd > RecvAlloc => left
      <4>1. fill \in Nat /\ keys \in BOOLEAN BY <2>1 DEF ReceiveInv, ReceiveType
      <4>2. Overhead \in Nat BY <4>1, Receiving DEF Overhead
      <4>3. RecvSlots * FullLimit \in Nat BY Receiving, Products
      <4>4. CompactionEnd \in Nat /\ RecvAlloc \in Nat
        BY <4>1, <4>2, <4>3, Receiving DEF CompactionEnd, RecvAlloc
      <4>5. ~left => CompactionEnd <= RecvAlloc BY <1>1, <2>1
      <4> HIDE DEF CompactionEnd, RecvAlloc
      <4> QED BY <4>4, <4>5
    <3>2. CompactionEnd < RecvAlloc + 2 * Overhead BY <1>2, <2>1
    <3> QED BY <3>1, <3>2 DEF CompactionReach
  <2> QED BY <2>1
<1>4. ReceiveInv /\ FillInv /\ InRecvbuf /\ [Next]_vars => InRecvbuf'
  BY RecvbufStep
<1> QED BY <1>3, <1>4, ReceiveInit, ReceiveStep, FillInit, FillStep, RecvbufInit,
           PTL DEF Spec

============================================================================
