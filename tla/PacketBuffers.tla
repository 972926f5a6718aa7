--------------------------- MODULE PacketBuffers ---------------------------
(***************************************************************************)
(* packet.recvbuf and packet.sendbuf, their bytes counted: what read() and *)
(* write() take at a time, packets that have arrived in part, their length *)
(* decrypted once and kept (packet_length), the numbers that serve as      *)
(* nonces, and the loops that call packet_get: packet_getall during the    *)
(* handshake, the inner loop of main_tinysshd after it.                    *)
(*                                                                         *)
(* A packet records how the client made it: its number, whether it is      *)
(* encrypted, its length.  The server knows none of this before it has     *)
(* read it, and reads it right only if its own idea is the client's.       *)
(***************************************************************************)
EXTENDS Integers, Sequences, FiniteSets

CONSTANTS
  PacketLimit, \* PACKET_LIMIT: the greatest packet_length
  FullLimit,   \* PACKET_FULLLIMIT: the most bytes read() is asked for
  RecvSlots,   \* recvbuf has room for 4 times that,
  SendSlots,   \* and so has sendbuf
  ZeroBytes,   \* PACKET_ZEROBYTES in front of what has been received
  LenBytes,    \* 4, the length of a packet's length
  AuthBytes,   \* AB: the authenticator behind an encrypted packet
  CipherBytes, \* ZB: room chachapoly_packet_put uses for a moment
  AnswerSize,  \* an encrypted reply or window adjustment
  DataSize,    \* the greatest encrypted packet of the child's output
  Lengths,     \* packet lengths the client uses
  ReadSizes,   \* what read() may return, besides all that is there
  WriteSizes,  \* what write() may take, besides all that is there
  MaxWaiting,  \* answers the client may be waiting for
  MaxKex,      \* bound: packets of the client before its NEWKEYS
  MaxSent,     \* bound: packets of the client
  MaxData      \* bound: packets of the child's output

ASSUME SizeAssumption ==
  /\ {PacketLimit, FullLimit, RecvSlots, SendSlots, ZeroBytes, LenBytes,
      AuthBytes, CipherBytes, AnswerSize, DataSize, MaxWaiting, MaxKex,
      MaxSent, MaxData} \subseteq Nat
  /\ LenBytes > 0 /\ FullLimit > 0 /\ RecvSlots > 0 /\ SendSlots > 0
  /\ LenBytes + PacketLimit + AuthBytes <= FullLimit
  /\ Lengths \subseteq Nat \ {0} /\ ReadSizes \subseteq Nat \ {0}
  /\ WriteSizes \subseteq Nat \ {0}

\* recvbuf holds a packet that has arrived in part, a full read() and what
\* the compaction of packet_get touches behind them; 4 slots do.  Complete
\* packets that an IGNORE has left there are not counted.
ASSUME RecvAssumption ==
  (LenBytes + PacketLimit + AuthBytes) + FullLimit + 2 * (LenBytes + AuthBytes)
    <= RecvSlots * FullLimit + 2

VARIABLES
  pc,      \* "getall", or a step of the main loop, or "dead"
  why,     \* how the session ended
  watch,   \* what poll() reported
  keys,    \* packet.flagkeys
  fill,    \* recvbuf.len - PACKET_ZEROBYTES
  plen,    \* packet.packet_length
  recvid,  \* packet.receivepacketid
  tochild, \* is there data in buf0, so that the window may be adjusted?
  outq,    \* the packets in sendbuf: where each ends, is it an answer?
  data,    \* packets of output put into sendbuf
  \* the client and the connection
  inq,     \* its packets that packet_get has not taken, `fill' bytes of
           \* them in recvbuf
  unread,  \* and so many not
  phase,   \* what the client sends: up to its NEWKEYS, up to its last
           \* packet of the handshake, after that
  csent,   \* the packets it has sent
  left     \* history: has an IGNORE ended the inner loop since it last found
           \* less than a packet in recvbuf?

queues   == <<outq, data, tochild>>
received == <<fill, plen, recvid, keys, inq>>
client   == <<phase, csent>>
vars     == <<pc, why, watch, queues, received, unread, client, left>>

RecvAlloc == RecvSlots * FullLimit + 1 + ZeroBytes
SendAlloc == SendSlots * FullLimit + 1

\* sendbuf.len.
SendLen == IF outq = <<>> THEN 0 ELSE outq[Len(outq)].end

Answers == {i \in 1..Len(outq) : outq[i].answer}

\* packet_recvisready and packet_putisready (buf_ready).
RecvIsReady == ZeroBytes + fill + FullLimit < RecvAlloc
PutIsReadyMutant == SendLen + DataSize < SendAlloc
PutIsReady  == SendLen + FullLimit < SendAlloc

Init == /\ pc = "getall" /\ why = "none" /\ watch = {}
        /\ fill = 0 /\ plen = 0 /\ recvid = 0 /\ keys = FALSE /\ inq = <<>>
        /\ outq = <<>> /\ data = 0 /\ tochild = FALSE
        /\ unread = 0 /\ phase = "kex" /\ csent = 0 /\ left = FALSE

Die(reason) == /\ pc' = "dead" /\ why' = reason
               /\ UNCHANGED <<watch, queues, received>>

----------------------------------------------------------------------------
(* packet_recv, packet_send and packet_put.                                *)

\* read() of at most FullLimit bytes, if there is room for that many.
Recv == /\ RecvIsReady
        /\ \E n \in ReadSizes \cup {unread, FullLimit} :
             /\ 0 < n /\ n <= unread /\ n <= FullLimit
             /\ fill' = fill + n /\ unread' = unread - n

\* n bytes leave, k packets among them; the rest is moved to the front.
Sent(n, k) == outq' = [i \in 1..(Len(outq) - k) |->
                         [outq[i + k] EXCEPT !.end = @ - n]]

\* write() of some of the bytes.
Send == \E n \in WriteSizes \cup {SendLen}, k \in 0..Len(outq) :
          /\ 0 < n /\ n <= SendLen
          /\ \A i \in 1..Len(outq) : outq[i].end <= n <=> i <= k
          /\ Sent(n, k)

\* chachapoly_packet_put needs more room than the packet takes.
PutFits(n) == SendLen + CipherBytes + n < SendAlloc
Put(n, answer) == outq' = Append(outq, [end |-> SendLen + n, answer |-> answer])

----------------------------------------------------------------------------
(* packet_get: packet_get_plain_ and chachapoly_packet_get.                *)

\* What the server takes for the length of the first packet: that of an
\* encrypted one is decrypted once.
Length == IF keys /\ plen # 0 THEN plen ELSE Head(inq).length

Overhead == LenBytes + (IF keys THEN AuthBytes ELSE 0)

HasLength == inq # <<>> /\ fill >= LenBytes
HasPacket == HasLength /\ Length <= PacketLimit /\ Length + Overhead <= fill
TooLong   == HasLength /\ Length > PacketLimit

\* The nonce is the number of the packet, the authenticator covers it all.
Authentic == LET p == Head(inq) IN /\ keys = p.sealed
                                   /\ keys => p.number = recvid
                                   /\ Length = p.length

\* The length is kept while the rest of the packet is missing.
KeptLength == IF ~keys THEN plen ELSE IF HasLength THEN Length ELSE 0

NoPacket == ~TooLong /\ ~HasPacket

LengthStays == plen
LengthAfter == IF keys THEN 0 ELSE plen

\* The packet is handed on and the rest of recvbuf moved to the front.
Take == /\ fill' = fill - (Length + Overhead)
        /\ recvid' = recvid + 1
        /\ plen' = LengthAfter
        /\ inq' = Tail(inq)

\* packet_get with a packet in recvbuf: bug_proto, or the packet is handled.
Get(Handle) == /\ ~NoPacket
               /\ IF TooLong THEN Die("length")
                  ELSE IF ~Authentic THEN Die("mac") ELSE Handle

\* The end of what this touches in recvbuf: header and authenticator are
\* added to the bytes left where they should be subtracted, and as many
\* bytes as the packet had are cleared behind them.
CompactionEnd == ZeroBytes + fill + 2 * Overhead

----------------------------------------------------------------------------
(* The handshake: packet_getall waits for one packet after the other; its  *)
(* answers leave with packet_sendall.                                      *)

GetAllWait == /\ pc = "getall" /\ NoPacket
              /\ Recv
              /\ plen' = KeptLength
              /\ UNCHANGED <<pc, why, watch, queues, recvid, keys, inq, client, left>>

GetAllTake == /\ Take
              /\ keys' = (keys \/ Head(inq).type = "newkeys")
              /\ pc' = IF Head(inq).type = "auth" THEN "poll" ELSE "getall"
              /\ UNCHANGED <<why, watch, queues>>

GetAll == /\ pc = "getall" /\ Get(GetAllTake)
          /\ UNCHANGED <<unread, client, left>>

----------------------------------------------------------------------------
(* The main loop.                                                          *)

Ready == {x \in {"recv"}  : RecvIsReady /\ unread > 0}
    \cup {x \in {"send"}  : outq # <<>>}
    \cup {x \in {"child"} : tochild}
    \cup {x \in {"data"}  : PutIsReady /\ data < MaxData}

\* The client may not read, the child neither read nor write; when nothing
\* happens poll() returns after a minute.
ReportsMutant == {w \in SUBSET Ready : w # {}}
Reports == {w \in SUBSET Ready : "recv" \in Ready => "recv" \in w}

Poll == /\ pc = "poll" /\ pc' = "child"
        /\ watch' \in Reports
        /\ UNCHANGED <<why, queues, received, unread, client, left>>

\* channel_write, and packet_channel_send_windowadjust when the window has
\* become small.
ToChild ==
  /\ pc = "child"
  /\ \/ /\ "child" \in watch
        /\ IF PutFits(AnswerSize)
           THEN /\ Put(AnswerSize, TRUE) /\ tochild' = FALSE
                /\ pc' = "data"
                /\ UNCHANGED <<why, watch, data, received>>
           ELSE Die("nomem")
     \/ /\ pc' = "data"
        /\ tochild' \in {tochild, tochild /\ "child" \notin watch}
        /\ UNCHANGED <<why, watch, outq, data, received>>
  /\ UNCHANGED <<unread, client, left>>

\* packet_channel_send_data.
Data ==
  /\ pc = "data"
  /\ IF "data" \in watch /\ PutIsReady /\ ~PutFits(DataSize)
     THEN Die("nomem")
     ELSE /\ pc' = "send"
          /\ IF "data" \in watch /\ PutIsReady
             THEN Put(DataSize, FALSE) /\ data' = data + 1
             ELSE UNCHANGED <<outq, data>>
          /\ UNCHANGED <<why, watch, tochild, received>>
  /\ UNCHANGED <<unread, client, left>>

SendStep == /\ pc = "send" /\ pc' = "recv"
            /\ IF "send" \in watch THEN Send ELSE UNCHANGED outq
            /\ UNCHANGED <<why, watch, data, tochild, received, unread, client, left>>

RecvStep == /\ pc = "recv" /\ pc' = "process"
            /\ IF "recv" \in watch THEN Recv ELSE UNCHANGED <<fill, unread>>
            /\ UNCHANGED <<why, watch, queues, plen, recvid, keys, inq, client, left>>

\* IGNORE and DEBUG leave an empty buffer, at which the inner loop ends.
AfterPacketMutant(p) == "poll"
AfterPacket(p) == IF p.type = "ignore" THEN "poll" ELSE "process"

\* A packet is handled; a request is answered without asking
\* packet_putisready.
Handle ==
  LET p == Head(inq) IN
  IF p.type = "request" /\ ~PutFits(AnswerSize) THEN Die("nomem")
  ELSE /\ Take
       /\ tochild' = (tochild \/ p.type = "data")
       /\ IF p.type = "request" THEN Put(AnswerSize, TRUE) ELSE UNCHANGED outq
       /\ pc' = AfterPacket(p)
       /\ UNCHANGED <<why, watch, keys, data>>

Process == /\ pc = "process" /\ Get(Handle)
           /\ left' = (left \/ Head(inq).type = "ignore")
           /\ UNCHANGED <<unread, client>>

\* packet_get returns an empty buffer: back to poll().
ProcessEnd == /\ pc = "process" /\ NoPacket
              /\ pc' = "poll" /\ plen' = KeptLength /\ left' = FALSE
              /\ UNCHANGED <<why, watch, queues, fill, recvid, keys, inq,
                             unread, client>>

Server == \/ GetAllWait \/ GetAll
          \/ Poll \/ ToChild \/ Data \/ SendStep \/ RecvStep
          \/ Process \/ ProcessEnd

----------------------------------------------------------------------------
(* The client numbers its packets, encrypts those after its NEWKEYS, and   *)
(* waits for USERAUTH_SUCCESS before it goes on.                           *)

\* The answers it waits for: a reply to each request, the window that each
\* packet of data may have reopened.
Awaited == {i \in 1..Len(inq) : inq[i].type \in {"request", "data"}}
Waiting == Cardinality(Awaited) + (IF tochild THEN 1 ELSE 0) + Cardinality(Answers)

Types(ph) == CASE ph = "kex"  -> {"kex", "newkeys"}
               [] ph = "auth" -> {"ignore", "auth"}
               [] ph = "open" -> {"request", "data", "other", "ignore"}

PhaseAfter(type) == CASE type = "newkeys" -> "auth"
                      [] type = "auth"    -> "open"
                      [] OTHER            -> phase

ClientSend ==
  /\ csent < MaxSent
  /\ \E type \in Types(phase), n \in Lengths :
       /\ type = "kex" => csent < MaxKex
       /\ phase = "open" => pc # "getall"
       /\ type \in {"request", "data"} => Waiting < MaxWaiting
       /\ LET p == [type |-> type, length |-> n, number |-> csent,
                    sealed |-> phase # "kex"]
          IN inq' = Append(inq, p)
       /\ unread' = unread + LenBytes + n
                      + (IF phase = "kex" THEN 0 ELSE AuthBytes)
       /\ phase' = PhaseAfter(type)
  /\ csent' = csent + 1
  /\ UNCHANGED <<pc, why, watch, queues, fill, plen, recvid, keys, left>>

Next == Server \/ ClientSend

Spec == Init /\ [][Next]_vars

\* The session task is scheduled, the client reads and the shell too: a
\* socket that can be written again and again is.
FairSpec == Spec /\ WF_vars(Server)

----------------------------------------------------------------------------
(* Properties.                                                             *)

Packets == [type : {"kex", "newkeys", "auth", "request", "data", "other",
                    "ignore"},
            length : Nat, number : Nat, sealed : BOOLEAN]

TypeOK ==
  /\ pc \in {"getall", "poll", "child", "data", "send", "recv", "process",
             "dead"}
  /\ why \in {"none", "length", "mac", "nomem"}
  /\ watch \subseteq {"recv", "send", "child", "data"}
  /\ fill \in Nat /\ plen \in Nat /\ recvid \in Nat /\ keys \in BOOLEAN
  /\ inq \in Seq(Packets) /\ unread \in Nat
  /\ outq \in Seq([end : Nat, answer : BOOLEAN])
  /\ data \in Nat /\ tochild \in BOOLEAN
  /\ phase \in {"kex", "auth", "open"} /\ csent \in Nat /\ left \in BOOLEAN

\* A length that is kept is that of the packet in front, also when the keys
\* have just come into use or the packet before it was taken in between
\* (packet_length in chachapoly_packet_get).
FrontKnown == plen # 0 => /\ keys /\ HasLength
                          /\ plen = Head(inq).length /\ plen <= PacketLimit

\* However the bytes arrive, no packet of the client is checked with another
\* number, other keys or another length than it was made with: the session
\* never ends in crypto_verify_16.
Verified == why # "mac"

\* Requests are answered without packet_putisready; the reserve it keeps for
\* the output of the child is enough for a client that waits for its answers.
AnswersFit == DataSize + MaxWaiting * AnswerSize + CipherBytes <= FullLimit
                => why # "nomem"

\* How far packet_get gets: not out of recvbuf as long as the inner loop has
\* taken every complete packet before the next read(); behind an IGNORE that
\* has left some there, out of it by less than the 2 * Overhead bytes that
\* are moved and cleared too much.
CompactionReach == /\ CompactionEnd > RecvAlloc => left
                   /\ CompactionEnd < RecvAlloc + 2 * Overhead

\* Every packet that has been sent is handled, also one that waits in recvbuf
\* behind an IGNORE while the client is silent: the timeout of poll().
EverythingHandled == inq # <<>> ~> inq = <<>> \/ pc = "dead"

============================================================================
