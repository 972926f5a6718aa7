-------------------------- MODULE HandshakeProofs --------------------------
(***************************************************************************)
(* That the limit of packets ends a session before the limit of tries;     *)
(* that both ends keep the hash of the first exchange as the session id;   *)
(* and that both ends change keys at the same packet and neither gets one  *)
(* it cannot decrypt or does not expect; and that the whole connection     *)
(* changes its keys as KeyChange says: for every set of algorithms, every  *)
(* client list and any number of re-keyings and packets.                   *)
(***************************************************************************)
EXTENDS HandshakeInvariant, SequenceTheorems, TLAPS

----------------------------------------------------------------------------
(* Queues, of whatever packets.                                            *)

Queue(q) == \E S : q \in Seq(S)
PacketsIn(q) == {q[i] : i \in DOMAIN q}

LEMMA EmptyQueue == Queue(<<>>) /\ PacketsIn(<<>>) = {}
  BY DEF Queue, PacketsIn

LEMMA OneQueue == ASSUME NEW e PROVE Queue(<<e>>) /\ PacketsIn(<<e>>) = {e}
<1>1. <<e>> \in Seq({e})
  OBVIOUS
<1>2. DOMAIN <<e>> = {1} /\ <<e>>[1] = e
  OBVIOUS
<1> QED BY <1>1, <1>2 DEF Queue, PacketsIn

LEMMA TwoQueue ==
  ASSUME NEW e, NEW f PROVE Queue(<<e, f>>) /\ PacketsIn(<<e, f>>) = {e, f}
<1>1. <<e, f>> \in Seq({e, f})
  OBVIOUS
<1>2. DOMAIN <<e, f>> = {1, 2} /\ <<e, f>>[1] = e /\ <<e, f>>[2] = f
  OBVIOUS
<1> QED BY <1>1, <1>2 DEF Queue, PacketsIn

LEMMA TailQueue ==
  ASSUME NEW q, Queue(q), q # <<>>
  PROVE  /\ Queue(Tail(q)) /\ PacketsIn(Tail(q)) \subseteq PacketsIn(q)
         /\ Head(q) \in PacketsIn(q)
<1>1. PICK S : q \in Seq(S)
  BY DEF Queue
<1>2. Tail(q) \in Seq(S) /\ Head(q) = q[1] /\ 1 \in DOMAIN q
  BY <1>1
<1>3. \A i \in DOMAIN Tail(q) : i + 1 \in DOMAIN q /\ Tail(q)[i] = q[i + 1]
  BY <1>1
<1> QED BY <1>2, <1>3 DEF Queue, PacketsIn

LEMMA JoinQueue ==
  ASSUME NEW q, NEW r, Queue(q), Queue(r)
  PROVE  /\ Queue(q \o r)
         /\ \A m \in PacketsIn(q \o r) : m \in PacketsIn(q) \cup PacketsIn(r)
<1>1. PICK S : q \in Seq(S)
  BY DEF Queue
<1>2. PICK T : r \in Seq(T)
  BY DEF Queue
<1>3. q \in Seq(S \cup T) /\ r \in Seq(S \cup T)
  BY <1>1, <1>2
<1>4. q \o r \in Seq(S \cup T)
  BY <1>3
<1>5. \A i \in DOMAIN (q \o r) : \/ i \in DOMAIN q /\ (q \o r)[i] = q[i]
                                 \/ i - Len(q) \in DOMAIN r /\ (q \o r)[i] = r[i - Len(q)]
  BY <1>3
<1> QED BY <1>4, <1>5 DEF Queue, PacketsIn

LEMMA AppendQueue ==
  ASSUME NEW q, NEW e, Queue(q)
  PROVE  /\ Queue(Append(q, e))
         /\ \A m \in PacketsIn(Append(q, e)) : m \in PacketsIn(q) \/ m = e
<1>1. PICK S : q \in Seq(S)
  BY DEF Queue
<1>2. q \in Seq(S \cup {e})
  BY <1>1
<1>3. Append(q, e) \in Seq(S \cup {e})
  BY <1>2
<1>4. \A i \in DOMAIN Append(q, e) : \/ i \in DOMAIN q /\ Append(q, e)[i] = q[i]
                                     \/ Append(q, e)[i] = e
  BY <1>2
<1> QED BY <1>3, <1>4 DEF Queue, PacketsIn

----------------------------------------------------------------------------
(* The limit of packets.                                                   *)

\* Every try was a packet, and a try is read only from a client that is not
\* authorised and has not used up its packets.
LimitInv ==
  /\ recvid \in Nat /\ count \in Nat /\ count <= recvid
  /\ authorized \in BOOLEAN
  /\ spc \in {"service", "auth"} => ~authorized
  /\ PacketLimitFirst

LEMMA LimitInit == ASSUME Init PROVE LimitInv
<1>1. spc = "kexinit" /\ why = "none" /\ authorized = FALSE /\ recvid = 0 /\ count = 0
  BY Zenon DEF Init
<1>2. UnauthLimit \in Nat
  BY LimitAssumption
<1>3. recvid \in Nat /\ count \in Nat /\ count <= recvid /\ recvid <= UnauthLimit
  BY <1>1, <1>2
<1>4. authorized \in BOOLEAN /\ spc \notin {"service", "auth"} /\ why # "tries"
  BY <1>1
<1> QED BY <1>3, <1>4 DEF LimitInv, PacketLimitFirst

\* What the client does and what the loop sends leaves the limits alone.
LEMMA LimitClient ==
  ASSUME LimitInv, Client \/ Output \/ UNCHANGED vars
  PROVE  LimitInv'
<1>1. UNCHANGED <<spc, why, authorized, recvid, count>>
  <2>1. CASE Output
    BY <2>1 DEF Output
  <2>2. CASE CStartKex \/ CSend \/ CDisconnect
    BY <2>2 DEF CStartKex, CSend, CDisconnect, serverVars
  <2>3. CASE Reading
    BY <2>3 DEF Reading, CKexInit, CReply, CNewKeys, CAuth, CSuccess, CChannel, CGet,
                serverVars
  <2>4. CASE UNCHANGED vars
    BY <2>4 DEF vars, serverVars
  <2> QED BY <2>1, <2>2, <2>3, <2>4 DEF Client
<1> QED BY <1>1 DEF LimitInv, PacketLimitFirst

\* A packet that is taken keeps the session within the limit; one that ends it
\* may be the one too many.
LEMMA LimitServer ==
  ASSUME LimitInv, Server, UnauthLimit < TryLimit
  PROVE  LimitInv'
<1> USE LimitAssumption DEF LimitInv, PacketLimitFirst
<1>1. \A types : Get(types) => recvid' = recvid + 1 /\ (authorized \/ recvid' <= UnauthLimit)
  BY DEF Get, TooMany
<1>2. ASSUME spc' = "dead", recvid' \in {recvid, recvid + 1}, UNCHANGED <<authorized, count>>,
             why' # "tries"
      PROVE  LimitInv'
  BY <1>2
<1>3. ASSUME NEW types, Get(types), UNCHANGED <<why, authorized, count>>,
             spc' \in {"service", "auth"} => ~authorized
      PROVE  LimitInv'
  BY <1>1, <1>3
<1>4. CASE Refuse
  BY <1>2, <1>4 DEF Refuse, Die
<1>5. CASE Disconnect
  <2>1. Get({"DISCONNECT"})
    BY <1>5 DEF Disconnect
  <2>2. CASE spc # "loop" /\ Die("gone")
    BY <1>1, <1>2, <2>1, <2>2 DEF Die
  <2>3. CASE spc = "loop" /\ UNCHANGED <<spc, why, authorized, count>>
    BY <1>3, <2>1, <2>3
  <2> QED BY <1>5, <2>2, <2>3 DEF Disconnect
<1>6. CASE Hangup
  BY <1>2, <1>6 DEF Hangup, Die
<1>7. CASE Ignore
  BY <1>3, <1>7 DEF Ignore
<1>8. CASE KexReceive
  <2>1. Get({"KEXINIT"})
    BY <1>8 DEF KexReceive
  <2>2. CASE Die("kex")
    BY <1>1, <1>2, <2>1, <2>2 DEF Die
  <2>3. CASE ~Die("kex")
    BY <1>3, <1>8, <2>1, <2>3 DEF KexReceive, AfterKex
  <2> QED BY <2>2, <2>3
<1>9. CASE SkipGuess
  BY <1>3, <1>9 DEF SkipGuess
<1>10. CASE KexDh
  <2>1. Get({"KEXDH"})
    BY <1>10 DEF KexDh
  <2>2. CASE Die("sign") \/ Die("proto")
    BY <1>1, <1>2, <2>1, <2>2 DEF Die
  <2>3. CASE ~(Die("sign") \/ Die("proto"))
    BY <1>3, <1>10, <2>1, <2>3 DEF KexDh
  <2> QED BY <2>2, <2>3
<1>11. CASE NewKeys
  BY <1>3, <1>11 DEF NewKeys, AfterNewKeys
<1>12. CASE DropBeforeNewKeys
  BY <1>3, <1>12 DEF DropBeforeNewKeys
<1>13. CASE Service
  BY <1>3, <1>13 DEF Service
<1>14. CASE AuthRejected
  <2>1. /\ spc = "auth" /\ ~authorized /\ authorized' = authorized /\ count' = count + 1
        /\ recvid' = recvid + 1 /\ recvid' <= UnauthLimit
    BY <1>1, <1>14 DEF AuthRejected
  <2>2. count' < TryLimit
    BY <2>1
  <2>3. UNCHANGED <<spc, why>>
    BY <1>14, <2>2 DEF AuthRejected
  <2> QED BY <2>1, <2>3
<1>15. CASE AuthSigned
  <2>1. Get({"SIGNED"})
    BY <1>15 DEF AuthSigned
  <2>2. CASE Die("signature")
    BY <1>1, <1>2, <2>1, <2>2 DEF Die
  <2>3. CASE ~Die("signature")
    <3>1. authorized' = TRUE /\ spc' = "loop" /\ UNCHANGED <<why, count>>
      BY <1>15, <2>3 DEF AuthSigned
    <3>2. recvid' = recvid + 1
      BY <1>1, <2>1
    <3> QED BY <3>1, <3>2
  <2> QED BY <2>2, <2>3
<1>16. CASE Rekey
  BY <1>3, <1>16 DEF Rekey, Rejoin, AfterKex
<1>17. CASE Channel
  BY <1>3, <1>17 DEF Channel, Rejoin
<1>18. CASE Unimplemented
  BY <1>3, <1>18 DEF Unimplemented, Rejoin
<1> QED BY <1>4, <1>5, <1>6, <1>7, <1>8, <1>9, <1>10, <1>11, <1>12, <1>13, <1>14, <1>15,
           <1>16, <1>17, <1>18 DEF Server

\* packet_auth.c:52 and packet_get.c: as long as the limit of packets is the
\* smaller one, no session ends for 32 tries, and no client that is not
\* authorised has more packets read than the limit.
THEOREM LimitOrder ==
  ASSUME UnauthLimit < TryLimit
  PROVE  Spec => []PacketLimitFirst
<1>1. LimitInv /\ [Next]_vars => LimitInv'
  BY LimitClient, LimitServer DEF Next
<1>2. LimitInv => PacketLimitFirst
  BY DEF LimitInv
<1> QED BY <1>1, <1>2, LimitInit, PTL DEF Spec

----------------------------------------------------------------------------
(* The session id.                                                         *)

\* Until the client has a session id, the server has come no further than to
\* wait for the client's first NEWKEYS.
FirstExchange == \/ spc \in {"kexinit", "skip", "dh"} /\ ~rekeying
                 \/ spc \in {"newkeys", "dead"}

SessionIdInv ==
  /\ rekeying \in BOOLEAN
  /\ csid # <<>> => csid = sessionid /\ rekeying
  /\ csid = <<>> => /\ FirstExchange
                    /\ \A m \in PacketsIn(toServer) : m.type # "NEWKEYS"
  /\ \A m \in PacketsIn(toClient) :
       m.type = "REPLY" => rekeying /\ (csid = <<>> => m.id = sessionid)
  /\ cpc = "reply" => chash # <<>>

Queues == Queue(toServer) /\ Queue(toClient)

LEMMA SessionIdInit == ASSUME Init PROVE SessionIdInv /\ Queues
<1>1. /\ spc = "kexinit" /\ rekeying = FALSE /\ csid = <<>> /\ cpc = "start"
      /\ toServer = <<>> /\ toClient = <<Packet("KEXINIT", NoName, <<1>>, Plain)>>
  BY Zenon DEF Init
<1>2. Queues /\ PacketsIn(toServer) = {}
             /\ PacketsIn(toClient) = {Packet("KEXINIT", NoName, <<1>>, Plain)}
  BY <1>1, EmptyQueue, OneQueue DEF Queues
<1>3. Packet("KEXINIT", NoName, <<1>>, Plain).type # "REPLY"
  BY DEF Packet
<1>4. FirstExchange
  BY <1>1 DEF FirstExchange
<1> QED BY <1>1, <1>2, <1>3, <1>4 DEF SessionIdInv

\* A step that leaves the session ids alone, answers no exchange, and is not
\* the client's NEWKEYS.
LEMMA Routine ==
  ASSUME SessionIdInv, UNCHANGED <<csid, sessionid, rekeying>>,
         \A m \in PacketsIn(toServer)' : m \in PacketsIn(toServer) \/ m.type # "NEWKEYS",
         \A m \in PacketsIn(toClient)' : m \in PacketsIn(toClient) \/ m.type # "REPLY",
         csid = <<>> => FirstExchange',
         cpc' = "reply" => chash' # <<>>
  PROVE  SessionIdInv'
  BY DEF SessionIdInv

LEMMA Taken ==
  ASSUME Queues, NEW types, Get(types)
  PROVE  /\ Queue(toServer)' /\ PacketsIn(toServer)' \subseteq PacketsIn(toServer)
         /\ Got \in PacketsIn(toServer) /\ Got.type \in types
         /\ UNCHANGED <<csid, cpc, chash>>
<1>1. toServer # <<>> /\ toServer' = Tail(toServer) /\ Got.type \in types
      /\ UNCHANGED <<csid, cpc, chash>>
  BY DEF Get, clientVars
<1> QED BY <1>1, TailQueue DEF Queues, Got

LEMMA Answered ==
  ASSUME Queues, NEW type, NEW id, Answer(type, id)
  PROVE  /\ Queue(toClient)'
         /\ \A m \in PacketsIn(toClient)' : m \in PacketsIn(toClient) \/ m.type = type
<1>1. toClient' = Append(toClient, Packet(type, NoName, id, skey))
  BY DEF Answer
<1>2. Packet(type, NoName, id, skey).type = type
  BY DEF Packet
<1> QED BY <1>1, <1>2, AppendQueue DEF Queues

LEMMA ClientTook ==
  ASSUME Queues, NEW type, CGet(type)
  PROVE  /\ Queue(toClient)' /\ PacketsIn(toClient)' \subseteq PacketsIn(toClient)
         /\ Head(toClient) \in PacketsIn(toClient) /\ Head(toClient).type = type
         /\ UNCHANGED <<spc, sessionid, rekeying>>
<1>1. /\ toClient # <<>> /\ toClient' = Tail(toClient) /\ Head(toClient).type = type
      /\ UNCHANGED <<spc, sessionid, rekeying>>
  BY DEF CGet, serverVars
<1> QED BY <1>1, TailQueue DEF Queues

LEMMA ClientSent ==
  ASSUME Queues, NEW q, Send(q), Queue(q)
  PROVE  /\ Queue(toServer)'
         /\ \A m \in PacketsIn(toServer)' : m \in PacketsIn(toServer) \/ m \in PacketsIn(q)
  BY JoinQueue DEF Queues, Send

LEMMA SessionIdDies ==
  ASSUME SessionIdInv, Queues, NEW reason, Die(reason), UNCHANGED <<csid, cpc, chash>>,
         Queue(toServer)', PacketsIn(toServer)' \subseteq PacketsIn(toServer)
  PROVE  SessionIdInv' /\ Queues'
<1>1. spc' = "dead" /\ UNCHANGED <<sessionid, rekeying, toClient>>
  BY DEF Die
<1>2. FirstExchange' /\ (cpc' = "reply" => chash' # <<>>)
  BY <1>1 DEF FirstExchange, SessionIdInv
<1>3. SessionIdInv'
  BY <1>1, <1>2, Routine
<1> QED BY <1>1, <1>3 DEF Queues

\* A packet is taken and nothing but replies of other kinds comes of it.
LEMMA SessionIdTaken ==
  ASSUME SessionIdInv, Queues, NEW types, Get(types), UNCHANGED <<sessionid, rekeying>>,
         Queue(toClient)',
         \A m \in PacketsIn(toClient)' : m \in PacketsIn(toClient) \/ m.type # "REPLY",
         csid = <<>> => FirstExchange'
  PROVE  SessionIdInv' /\ Queues'
<1>1. SessionIdInv'
  BY Taken, Routine DEF SessionIdInv
<1> QED BY <1>1, Taken DEF Queues

LEMMA SessionIdRefuse ==
  ASSUME SessionIdInv, Queues, Refuse \/ Hangup PROVE SessionIdInv' /\ Queues'
<1>1. CASE Refuse
  <2>1. toServer # <<>> /\ toServer' = Tail(toServer) /\ UNCHANGED <<csid, cpc, chash>>
    BY <1>1 DEF Refuse, clientVars
  <2>2. PICK reason \in {"mac", "unauthenticated", "proto"} : Die(reason)
    BY <1>1 DEF Refuse
  <2> QED BY <2>1, <2>2, SessionIdDies, TailQueue DEF Queues
<1>2. CASE Hangup
  <2>1. Die("gone") /\ UNCHANGED <<toServer, csid, cpc, chash>>
    BY <1>2 DEF Hangup, clientVars
  <2> QED BY <2>1, SessionIdDies DEF Queues
<1> QED BY <1>1, <1>2

\* The places where a packet may end the session or be passed over.
LEMMA SessionIdDisconnect ==
  ASSUME SessionIdInv, Queues, Disconnect \/ Ignore \/ DropBeforeNewKeys
  PROVE  SessionIdInv' /\ Queues'
<1>1. CASE UNCHANGED <<spc, sessionid, rekeying, toClient>>
  <2>1. PICK types : Get(types)
    BY Zenon DEF Disconnect, Ignore, DropBeforeNewKeys
  <2>2. csid = <<>> => FirstExchange'
    BY <1>1 DEF SessionIdInv, FirstExchange
  <2> QED BY <1>1, <2>1, <2>2, SessionIdTaken DEF Queues
<1>2. CASE ~UNCHANGED <<spc, sessionid, rekeying, toClient>>
  <2>1. Get({"DISCONNECT"}) /\ Die("gone")
    BY <1>2 DEF Disconnect, Ignore, DropBeforeNewKeys
  <2> QED BY <2>1, Taken, SessionIdDies
<1> QED BY <1>1, <1>2

LEMMA SessionIdKexReceive ==
  ASSUME SessionIdInv, Queues, KexReceive \/ SkipGuess PROVE SessionIdInv' /\ Queues'
<1>1. PICK types : Get(types)
  BY Zenon DEF KexReceive, SkipGuess
<1>2. CASE Die("kex")
  BY <1>1, <1>2, Taken, SessionIdDies
<1>3. CASE ~Die("kex")
  <2>1. /\ spc \in {"kexinit", "skip"} /\ spc' \in {"skip", "dh"}
        /\ UNCHANGED <<sessionid, rekeying, toClient>>
    BY <1>3 DEF KexReceive, SkipGuess, AfterKex
  <2>2. csid = <<>> => FirstExchange'
    BY <2>1 DEF SessionIdInv, FirstExchange
  <2> QED BY <1>1, <2>1, <2>2, SessionIdTaken DEF Queues
<1> QED BY <1>2, <1>3

\* The one step that makes a session id.
LEMMA SessionIdKexDh ==
  ASSUME SessionIdInv, Queues, KexDh PROVE SessionIdInv' /\ Queues'
<1>1. spc = "dh" /\ Get({"KEXDH"})
  BY DEF KexDh
<1>2. CASE Die("sign") \/ Die("proto")
  BY <1>1, <1>2, Taken, SessionIdDies
<1>3. CASE ~(Die("sign") \/ Die("proto"))
  <2> DEFINE reply == Packet("REPLY", NoName, hash', skey)
             news  == Packet("NEWKEYS", NoName, <<>>, skey)
  <2>1. /\ sessionid' = SessionId(hash') /\ rekeying' = TRUE /\ spc' = "newkeys"
        /\ toClient' = toClient \o <<reply, news>>
    BY <1>3 DEF KexDh
  <2>2. reply.type = "REPLY" /\ reply.id = hash' /\ news.type = "NEWKEYS"
    BY DEF Packet
  <2>3. Queue(toClient)' /\ \A m \in PacketsIn(toClient)' :
                              m \in PacketsIn(toClient) \/ m = reply \/ m = news
    <3> HIDE DEF reply, news
    <3> QED BY <2>1, JoinQueue, TwoQueue DEF Queues
  <2>4. Queue(toServer)' /\ PacketsIn(toServer)' \subseteq PacketsIn(toServer)
        /\ UNCHANGED <<csid, cpc, chash>>
    BY <1>1, Taken
  <2>5. csid = <<>> => ~rekeying /\ sessionid' = hash'
    BY <1>1, <2>1 DEF SessionIdInv, FirstExchange, SessionId
  <2>6. csid # <<>> => rekeying /\ sessionid' = sessionid
    BY <2>1 DEF SessionIdInv, SessionId
  <2>7. FirstExchange'
    BY <2>1 DEF FirstExchange
  <2>8. SessionIdInv'
    <3>1. \A m \in PacketsIn(toClient)' :
            m.type = "REPLY" => rekeying' /\ (csid' = <<>> => m.id = sessionid')
      <4> HIDE DEF reply, news
      <4> SUFFICES ASSUME NEW m \in PacketsIn(toClient)', m.type = "REPLY", csid = <<>>
                   PROVE  m.id = sessionid'
        BY <2>1, <2>4
      <4>1. m = reply
        BY <2>2, <2>3, <2>5 DEF SessionIdInv
      <4> QED BY <2>2, <2>5, <4>1
    <3>2. rekeying' \in BOOLEAN /\ (csid' # <<>> => csid' = sessionid' /\ rekeying')
      BY <2>1, <2>4, <2>6 DEF SessionIdInv
    <3>3. csid' = <<>> => \A m \in PacketsIn(toServer)' : m.type # "NEWKEYS"
      BY <2>4 DEF SessionIdInv
    <3>4. cpc' = "reply" => chash' # <<>>
      BY <2>4 DEF SessionIdInv
    <3> QED BY <2>7, <3>1, <3>2, <3>3, <3>4 DEF SessionIdInv
  <2> QED BY <2>3, <2>4, <2>8 DEF Queues
<1> QED BY <1>2, <1>3

\* Everything behind NEWKEYS: the client has its session id.
LEMMA SessionIdBehind ==
  ASSUME SessionIdInv, Queues,
         NewKeys \/ Service \/ AuthRejected \/ AuthSigned \/ Rekey \/ Channel \/ Unimplemented
  PROVE  SessionIdInv' /\ Queues'
<1>1. PICK types : Get(types) /\ (NewKeys => types = {"NEWKEYS"})
  BY Zenon DEF NewKeys, Service, AuthRejected, AuthSigned, Rekey, Channel, Unimplemented
<1>2. csid # <<>>
  <2>1. CASE NewKeys
    BY <1>1, <2>1, Taken DEF SessionIdInv
  <2>2. CASE ~NewKeys
    <3>1. spc \in {"service", "auth", "loop"}
      BY <2>2 DEF Service, AuthRejected, AuthSigned, Rekey, Channel, Unimplemented
    <3> QED BY <3>1 DEF SessionIdInv, FirstExchange
  <2> QED BY <2>1, <2>2
<1>3. CASE Die("signature")
  BY <1>1, <1>3, Taken, SessionIdDies
<1>4. CASE ~Die("signature")
  <2>1. UNCHANGED <<sessionid, rekeying>>
    BY <1>4 DEF NewKeys, Service, AuthRejected, AuthSigned, Rekey, Channel, Unimplemented, Rejoin
  <2>2. \/ UNCHANGED toClient
        \/ \E type, id : type # "REPLY" /\ Answer(type, id)
    <3>1. CASE NewKeys \/ Channel
      BY <3>1 DEF NewKeys, Channel
    <3>2. CASE Service
      BY Zenon, <3>2 DEF Service
    <3>3. CASE AuthRejected
      <4>1. Answer(IF Got.type = "QUERY" THEN "PK_OK" ELSE "FAILURE", <<>>)
        BY <3>3 DEF AuthRejected
      <4>2. (IF Got.type = "QUERY" THEN "PK_OK" ELSE "FAILURE") # "REPLY"
        OBVIOUS
      <4> QED BY Zenon, <4>1, <4>2
    <3>4. CASE AuthSigned
      <4>1. Answer("SUCCESS", <<>>)
        BY <1>4, <3>4 DEF AuthSigned
      <4> QED BY <4>1
    <3>5. CASE Rekey
      <4>1. Answer("KEXINIT", <<kexsend'>>)
        BY <3>5 DEF Rekey
      <4> QED BY <4>1
    <3>6. CASE Unimplemented
      <4>1. Answer("UNIMPLEMENTED", <<recvid'>>)
        BY <3>6 DEF Unimplemented
      <4> QED BY <4>1
    <3> QED BY <3>1, <3>2, <3>3, <3>4, <3>5, <3>6
  <2>3. /\ Queue(toClient)'
        /\ \A m \in PacketsIn(toClient)' : m \in PacketsIn(toClient) \/ m.type # "REPLY"
    <3>1. CASE UNCHANGED toClient
      BY <3>1 DEF Queues
    <3>2. CASE \E type, id : type # "REPLY" /\ Answer(type, id)
      <4>1. PICK type, id : type # "REPLY" /\ Answer(type, id)
        BY <3>2
      <4> QED BY <4>1, Answered
    <3> QED BY <2>2, <3>1, <3>2
  <2> QED BY <1>1, <1>2, <2>1, <2>3, SessionIdTaken
<1> QED BY <1>3, <1>4

LEMMA SessionIdOutput ==
  ASSUME SessionIdInv, Queues, Output PROVE SessionIdInv' /\ Queues'
<1>1. Answer("CHANNEL", <<>>) /\ UNCHANGED <<spc, rekeying, sessionid, toServer, csid, cpc, chash>>
  BY DEF Output, clientVars
<1>2. FirstExchange' <=> FirstExchange
  BY <1>1 DEF FirstExchange
<1>3. /\ Queue(toClient)'
      /\ \A m \in PacketsIn(toClient)' : m \in PacketsIn(toClient) \/ m.type = "CHANNEL"
  BY <1>1, Answered
<1>4. SessionIdInv'
  BY <1>1, <1>2, <1>3, Routine DEF SessionIdInv
<1> QED BY <1>1, <1>3, <1>4 DEF Queues

\* The client: what it sends before it has a session id is not NEWKEYS.
LEMMA SessionIdSends ==
  ASSUME SessionIdInv, Queues, UNCHANGED <<csid, spc, sessionid, rekeying>>,
         Queue(toServer)', Queue(toClient)',
         PacketsIn(toClient)' \subseteq PacketsIn(toClient),
         \A m \in PacketsIn(toServer)' : m \in PacketsIn(toServer) \/ m.type # "NEWKEYS",
         cpc' = "reply" => chash' # <<>>
  PROVE  SessionIdInv' /\ Queues'
<1>1. FirstExchange' <=> FirstExchange
  BY DEF FirstExchange
<1>2. SessionIdInv'
  BY <1>1, Routine DEF SessionIdInv
<1> QED BY <1>2 DEF Queues

LEMMA SessionIdStart ==
  ASSUME SessionIdInv, Queues, CStartKex PROVE SessionIdInv' /\ Queues'
<1>1. /\ UNCHANGED <<csid, toClient, spc, sessionid, rekeying>> /\ cpc' = "kexwait"
      /\ \E p, g : Send(IF g THEN <<KexInit(p, g, ckexsend'), KexDhInit(p[1], ckexsend')>>
                            ELSE <<KexInit(p, g, ckexsend')>>)
  BY DEF CStartKex, serverVars
<1>2. PICK p, g : Send(IF g THEN <<KexInit(p, g, ckexsend'), KexDhInit(p[1], ckexsend')>>
                            ELSE <<KexInit(p, g, ckexsend')>>)
  BY <1>1
<1> DEFINE init  == KexInit(p, g, ckexsend')
           guessing == KexDhInit(p[1], ckexsend')
<1>3. init.type = "KEXINIT" /\ guessing.type = "KEXDH"
  BY DEF KexInit, KexDhInit, Packet
<1>4. PICK q : Send(q) /\ Queue(q) /\ PacketsIn(q) \subseteq {init, guessing}
  <2> HIDE DEF init, guessing
  <2>1. CASE g
    <3>1. Send(<<init, guessing>>)
      BY <1>2, <2>1 DEF init, guessing
    <3> QED BY <3>1, TwoQueue
  <2>2. CASE ~g
    <3>1. Send(<<init>>)
      BY <1>2, <2>2 DEF init
    <3> QED BY <3>1, OneQueue
  <2> QED BY <2>1, <2>2
<1>5. /\ Queue(toServer)'
      /\ \A m \in PacketsIn(toServer)' : m \in PacketsIn(toServer) \/ m.type # "NEWKEYS"
  <2> HIDE DEF init, guessing
  <2> QED BY <1>3, <1>4, ClientSent
<1> QED BY <1>1, <1>5, SessionIdSends DEF Queues

LEMMA SessionIdSendOne ==
  ASSUME SessionIdInv, Queues, UNCHANGED <<csid, spc, sessionid, rekeying>>,
         NEW m, Send(<<m>>), m.type # "NEWKEYS",
         Queue(toClient)', PacketsIn(toClient)' \subseteq PacketsIn(toClient),
         cpc' = "reply" => chash' # <<>>
  PROVE  SessionIdInv' /\ Queues'
<1>1. /\ Queue(toServer)'
      /\ \A x \in PacketsIn(toServer)' : x \in PacketsIn(toServer) \/ x.type # "NEWKEYS"
  BY OneQueue, ClientSent
<1> QED BY <1>1, SessionIdSends

LEMMA SessionIdCKexInit ==
  ASSUME SessionIdInv, Queues, CKexInit PROVE SessionIdInv' /\ Queues'
<1>1. CGet("KEXINIT") /\ csid' = csid
  BY DEF CKexInit
<1>2. CASE UNCHANGED toServer
  <2>1. cpc' = "reply" => chash' # <<>>
    BY DEF CKexInit
  <2> QED BY <1>1, <1>2, <2>1, ClientTook, SessionIdSends DEF Queues
<1>3. CASE ~UNCHANGED toServer
  <2>1. PICK dh : Send(<<KexDhInit(cname', dh)>>)
    BY Zenon, <1>3 DEF CKexInit
  <2>2. KexDhInit(cname', dh).type # "NEWKEYS"
    BY DEF KexDhInit, Packet
  <2>3. chash' # <<>>
    BY <1>3 DEF CKexInit
  <2> QED BY <1>1, <2>1, <2>2, <2>3, ClientTook, SessionIdSendOne
<1> QED BY <1>2, <1>3

\* The one step that gives the client a session id.
LEMMA SessionIdCReply ==
  ASSUME SessionIdInv, Queues, CReply PROVE SessionIdInv' /\ Queues'
<1>1. cpc = "reply" /\ CGet("REPLY") /\ chash' = chash /\ chash # <<>>
  BY DEF CReply, SessionIdInv
<1>2. CASE Head(toClient).id # chash
  <2>1. cpc' = "badhash" /\ UNCHANGED <<csid, toServer>>
    BY <1>2 DEF CReply
  <2> QED BY <1>1, <2>1, ClientTook, SessionIdSends DEF Queues
<1>3. CASE Head(toClient).id = chash
  <2> DEFINE news == Packet("NEWKEYS", NoName, <<>>, keyOut)
  <2>1. csid' = (IF csid = <<>> THEN chash ELSE csid) /\ Send(<<news>>) /\ cpc' = "newkeys"
    BY <1>3 DEF CReply
  <2>2. /\ Queue(toClient)' /\ PacketsIn(toClient)' \subseteq PacketsIn(toClient)
        /\ Head(toClient) \in PacketsIn(toClient) /\ Head(toClient).type = "REPLY"
        /\ UNCHANGED <<spc, sessionid, rekeying>>
    BY <1>1, ClientTook
  <2>3. rekeying /\ (csid = <<>> => chash = sessionid)
    BY <1>3, <2>2 DEF SessionIdInv
  <2>4. csid' # <<>> /\ csid' = sessionid'
    BY <1>1, <2>1, <2>2, <2>3 DEF SessionIdInv
  <2>5. Queue(toServer)'
    <3> HIDE DEF news
    <3> QED BY <2>1, OneQueue, ClientSent
  <2>6. \A m \in PacketsIn(toClient)' :
          m.type = "REPLY" => rekeying' /\ (csid' = <<>> => m.id = sessionid')
    BY <2>2, <2>3, <2>4
  <2>7. SessionIdInv'
    BY <2>1, <2>2, <2>3, <2>4, <2>6 DEF SessionIdInv
  <2> QED BY <2>2, <2>5, <2>7 DEF Queues
<1> QED BY <1>2, <1>3

LEMMA SessionIdCNewKeys ==
  ASSUME SessionIdInv, Queues, CNewKeys PROVE SessionIdInv' /\ Queues'
<1>1. CGet("NEWKEYS") /\ csid' = csid /\ cpc' \in {"service", "ready"}
  BY DEF CNewKeys
<1>2. CASE UNCHANGED toServer
  BY <1>1, <1>2, ClientTook, SessionIdSends DEF Queues
<1>3. CASE ~UNCHANGED toServer
  <2>1. Send(<<Packet("SERVICE", NoName, <<>>, keyOut)>>)
    BY <1>3 DEF CNewKeys
  <2>2. Packet("SERVICE", NoName, <<>>, keyOut).type # "NEWKEYS"
    BY DEF Packet
  <2> QED BY <1>1, <2>1, <2>2, ClientTook, SessionIdSendOne
<1> QED BY <1>2, <1>3

LEMMA SessionIdCAuth ==
  ASSUME SessionIdInv, Queues, CAuth PROVE SessionIdInv' /\ Queues'
<1>1. PICK type : CGet(type)
  BY Zenon DEF CAuth
<1>2. PICK t \in AuthTypes : Send(<<Packet(t, NoName, csid, keyOut)>>)
  BY Zenon DEF CAuth
<1>3. Packet(t, NoName, csid, keyOut).type # "NEWKEYS"
  BY DEF Packet, AuthTypes
<1>4. cpc' = "auth" /\ csid' = csid
  BY DEF CAuth
<1> QED BY <1>1, <1>2, <1>3, <1>4, ClientTook, SessionIdSendOne

LEMMA SessionIdCReads ==
  ASSUME SessionIdInv, Queues, CSuccess \/ CChannel PROVE SessionIdInv' /\ Queues'
<1>1. PICK type : CGet(type)
  BY Zenon DEF CSuccess, CChannel
<1>2. UNCHANGED <<toServer, csid, chash>> /\ cpc' \in {"ready", cpc}
  BY DEF CSuccess, CChannel, clientVars
<1>3. cpc' = "reply" => chash' # <<>>
  BY <1>2 DEF SessionIdInv
<1> QED BY <1>1, <1>2, <1>3, ClientTook, SessionIdSends DEF Queues

LEMMA SessionIdCSend ==
  ASSUME SessionIdInv, Queues, CSend \/ CDisconnect PROVE SessionIdInv' /\ Queues'
<1>1. PICK t \in LoopTypes \cup {"DISCONNECT"} : Send(<<Packet(t, NoName, <<>>, keyOut)>>)
  BY Zenon DEF CSend, CDisconnect
<1>2. Packet(t, NoName, <<>>, keyOut).type # "NEWKEYS"
  BY DEF Packet, LoopTypes
<1>3. /\ UNCHANGED <<csid, spc, sessionid, rekeying, toClient, chash>>
      /\ cpc' \in {"gone", cpc}
  BY DEF CSend, CDisconnect, serverVars
<1>4. cpc' = "reply" => chash' # <<>>
  BY <1>3 DEF SessionIdInv
<1> QED BY <1>1, <1>2, <1>3, <1>4, SessionIdSendOne DEF Queues

LEMMA SessionIdNext ==
  ASSUME SessionIdInv, Queues, [Next]_vars PROVE SessionIdInv' /\ Queues'
<1>1. CASE Server
  BY <1>1, SessionIdRefuse, SessionIdDisconnect, SessionIdKexReceive, SessionIdKexDh,
     SessionIdBehind DEF Server
<1>2. CASE Output
  BY <1>2, SessionIdOutput
<1>3. CASE Client
  BY <1>3, SessionIdStart, SessionIdCKexInit, SessionIdCReply, SessionIdCNewKeys,
     SessionIdCAuth, SessionIdCReads, SessionIdCSend DEF Client, Reading
<1>4. CASE UNCHANGED vars
  BY <1>4 DEF vars, serverVars, clientVars, SessionIdInv, FirstExchange, Queues
<1> QED BY <1>1, <1>2, <1>3, <1>4 DEF Next

\* packet_kexdh.c:67: the hash of the first exchange is the session id of both
\* ends, whatever the client prefers and guesses and however often it re-keys.
THEOREM OneSessionId == Spec => []SameSessionId
<1>1. SessionIdInv => SameSessionId
  BY DEF SessionIdInv, SameSessionId
<1> QED BY <1>1, SessionIdInit, SessionIdNext, PTL DEF Spec

----------------------------------------------------------------------------
(* Chains.                                                                 *)

\* No step leads back.
LEMMA LeadsSame == ASSUME NEW s \in Stages PROVE Leads(s, s)
BY DEF Leads, Rank, Stages

LEMMA LeadsOn ==
  ASSUME NEW s \in Stages, NEW t \in Stages, NEW u \in Stages, Leads(s, t), Leads(t, u)
  PROVE  Leads(s, u)
<1>1. Rank(s) \in Nat /\ Rank(t) \in Nat /\ Rank(u) \in Nat
  BY DEF Rank, Stages
<1>2. Rank(s) <= Rank(u)
  BY <1>1 DEF Leads
<1> QED BY <1>2 DEF Leads

LEMMA KexStage ==
  ASSUME NEW c, NEW n \in Nat
  PROVE  /\ Kex(c, n) \in {Stage("skip", n), Stage("dh", n)}
         /\ Kex(c, n) = Stage("skip", n) <=> c.first /\ ~FirstChoice(c)
BY DEF Kex, AfterKex, Stage

LEMMA LeadsByRank ==
  ASSUME NEW s \in Stages, NEW at \in {"skip", "dh", "newkeys", "service", "auth", "loop", "dead",
                                      "kex", "reply", "accept", "answer"},
         NEW n \in Nat, s.at # "dead",
         s.n < n \/ (s.n = n /\ (s.at \in {"skip", "dh"} \/ at \notin {"skip", "dh", "dead"}))
  PROVE  Leads(s, Stage(at, n))
<1>1. s.n \in Nat /\ Rank(s) \in {2 * s.n, 2 * s.n + 1}
      /\ (s.at \in {"skip", "dh"} => Rank(s) = 2 * s.n)
  BY DEF Stages, Rank
<1>2. /\ Rank(Stage(at, n)) \in {2 * n, 2 * n + 1}
      /\ at \notin {"skip", "dh", "dead"} => Rank(Stage(at, n)) = 2 * n + 1
  BY DEF Stage, Rank
<1>3. Rank(s) <= Rank(Stage(at, n))
  BY <1>1, <1>2
<1> QED BY <1>3 DEF Leads

LEMMA ServerLeads ==
  ASSUME NEW c, NEW s \in Stages, NEW m, NEW t \in Stages, ServerReads(c, s, m, t)
  PROVE  Leads(s, t)
<1>1. s.n \in Nat /\ s.n + 1 \in Nat /\ s.n < s.n + 1
  BY DEF Stages
<1>2. CASE t = s
  BY <1>2, LeadsSame
<1>3. CASE s.at = "kexinit" /\ s.n = 0 /\ t = FirstKex(c)
  <2>1. t \in {Stage("skip", 1), Stage("dh", 1), Stage("dead", 1)}
    BY <1>3, KexStage DEF FirstKex
  <2> QED BY <1>3, <2>1, LeadsByRank
<1>4. CASE s.at = "loop" /\ t = Kex(c, s.n + 1)
  BY <1>1, <1>4, KexStage, LeadsByRank
<1>5. CASE s.at = "skip" /\ t = Stage("dh", s.n)
  BY <1>1, <1>5, LeadsByRank
<1>6. CASE s.at = "dh" /\ t \in {Stage("newkeys", s.n), Stage("dead", s.n)}
  BY <1>1, <1>6, LeadsByRank
<1>7. CASE s.at = "newkeys" /\ t \in {Stage("service", s.n), Stage("loop", s.n)}
  BY <1>1, <1>7, LeadsByRank
<1>8. CASE s.at = "service" /\ t = Stage("auth", s.n)
  BY <1>1, <1>8, LeadsByRank
<1> QED BY <1>2, <1>3, <1>4, <1>5, <1>6, <1>7, <1>8 DEF ServerReads

LEMMA ClientLeads ==
  ASSUME NEW c, NEW s \in Stages, NEW m, NEW t \in Stages, ClientReads(c, s, m, t)
  PROVE  Leads(s, t)
<1>1. s.n \in Nat /\ s.n + 1 \in Nat /\ s.n < s.n + 1
  BY DEF Stages
<1>2. CASE t = s
  BY <1>2, LeadsSame
<1>3. CASE s.at = "kex" /\ t = Stage("reply", s.n + 1)
  BY <1>1, <1>3, LeadsByRank
<1>4. CASE s.at = "reply" /\ t = Stage("newkeys", s.n)
  BY <1>1, <1>4, LeadsByRank
<1>5. CASE s.at = "newkeys" /\ t \in {Stage("accept", s.n), Stage("kex", s.n)}
  BY <1>1, <1>5, LeadsByRank
<1>6. CASE s.at = "accept" /\ t = Stage("answer", s.n)
  BY <1>1, <1>6, LeadsByRank
<1>7. CASE s.at = "answer" /\ t = Stage("kex", s.n)
  BY <1>1, <1>7, LeadsByRank
<1> QED BY <1>2, <1>3, <1>4, <1>5, <1>6, <1>7 DEF ClientReads

LEMMA ReadLeads ==
  ASSUME NEW c, NEW end, NEW s \in Stages, NEW m, NEW t \in Stages, Reads(c, end, s, m, t)
  PROVE  Leads(s, t)
BY ServerLeads, ClientLeads DEF Reads

LEMMA ChainEnds ==
  ASSUME NEW c, NEW end, NEW q, Queue(q), NEW a, NEW b, Chain(c, end, q, a, b)
  PROVE  a \in Stages /\ b \in Stages
<1>1. Len(q) \in Nat
  BY DEF Queue
<1>2. 1 \in 1..(Len(q) + 1) /\ Len(q) + 1 \in 1..(Len(q) + 1)
  BY <1>1
<1> QED BY <1>2 DEF Chain

LEMMA ChainEmpty ==
  ASSUME NEW c, NEW end, NEW a \in Stages PROVE Chain(c, end, <<>>, a, a)
<1> DEFINE st == [i \in 1..1 |-> a]
<1>1. st \in [1..(Len(<<>>) + 1) -> Stages] /\ st[1] = a /\ st[Len(<<>>) + 1] = a
  OBVIOUS
<1>2. 1..Len(<<>>) = {}
  OBVIOUS
<1> QED BY <1>1, <1>2 DEF Chain

LEMMA ChainNothing ==
  ASSUME NEW c, NEW end, NEW a, NEW b, Chain(c, end, <<>>, a, b) PROVE a = b
  BY DEF Chain

\* Reading a packet takes a step off the chain.
LEMMA ChainTake ==
  ASSUME NEW c, NEW end, NEW q, Queue(q), q # <<>>, NEW a, NEW b, Chain(c, end, q, a, b)
  PROVE  \E t \in Stages : /\ Reads(c, end, a, Head(q), t) /\ Leads(t, b)
                           /\ Chain(c, end, Tail(q), t, b)
<1>1. PICK st \in [1..(Len(q) + 1) -> Stages] :
           /\ st[1] = a /\ st[Len(q) + 1] = b
           /\ \A i \in 1..Len(q) : Reads(c, end, st[i], q[i], st[i + 1]) /\ Leads(st[i], b)
  BY DEF Chain
<1>2. PICK S : q \in Seq(S)
  BY DEF Queue
<1>3. /\ Len(q) \in Nat \ {0} /\ Head(q) = q[1] /\ Len(Tail(q)) = Len(q) - 1
      /\ \A i \in 1..(Len(q) - 1) : Tail(q)[i] = q[i + 1]
  BY <1>2
<1> DEFINE n  == Len(q)
           us == [i \in 1..n |-> st[i + 1]]
<1>4. us \in [1..(Len(Tail(q)) + 1) -> Stages] /\ us[1] = st[2] /\ us[Len(Tail(q)) + 1] = b
  BY <1>1, <1>3
<1>5. ASSUME NEW i \in 1..Len(Tail(q))
      PROVE  Reads(c, end, us[i], Tail(q)[i], us[i + 1]) /\ Leads(us[i], b)
  <2>1. i + 1 \in 1..n /\ i \in 1..n /\ i \in 1..(n - 1)
    BY <1>3
  <2>2. us[i] = st[i + 1] /\ us[i + 1] = st[(i + 1) + 1] /\ Tail(q)[i] = q[i + 1]
    BY <1>3, <2>1
  <2>3. Reads(c, end, st[i + 1], q[i + 1], st[(i + 1) + 1]) /\ Leads(st[i + 1], b)
    BY <1>1, <2>1
  <2> QED BY <2>2, <2>3
<1>6. Chain(c, end, Tail(q), st[2], b)
  BY <1>4, <1>5 DEF Chain
<1>7. Reads(c, end, a, Head(q), st[2]) /\ st[2] \in Stages
  BY <1>1, <1>3
<1>8. Leads(st[2], b)
  <2>1. CASE n = 1
    BY <1>1, <1>7, <2>1, LeadsSame
  <2>2. CASE n # 1
    <3>1. 2 \in 1..n
      BY <1>3, <2>2
    <3> QED BY <1>1, <3>1
  <2> QED BY <2>1, <2>2
<1> QED BY <1>6, <1>7, <1>8

\* Sending a packet adds one.
LEMMA ChainSend ==
  ASSUME NEW c, NEW end, NEW q, Queue(q), NEW a, NEW b, Chain(c, end, q, a, b),
         NEW m, NEW t \in Stages, Reads(c, end, b, m, t)
  PROVE  Chain(c, end, Append(q, m), a, t)
<1>1. PICK st \in [1..(Len(q) + 1) -> Stages] :
           /\ st[1] = a /\ st[Len(q) + 1] = b
           /\ \A i \in 1..Len(q) : Reads(c, end, st[i], q[i], st[i + 1]) /\ Leads(st[i], b)
  BY DEF Chain
<1>2. PICK S : q \in Seq(S)
  BY DEF Queue
<1>3. q \in Seq(S \cup {m})
  BY <1>2
<1> DEFINE n  == Len(q)
           us == [i \in 1..(n + 2) |-> IF i = n + 2 THEN t ELSE st[i]]
<1>4. n \in Nat /\ Len(Append(q, m)) = n + 1 /\ Append(q, m)[n + 1] = m
      /\ \A i \in 1..n : Append(q, m)[i] = q[i]
  BY <1>3
<1>5. us \in [1..(Len(Append(q, m)) + 1) -> Stages]
      /\ us[1] = a /\ us[Len(Append(q, m)) + 1] = t
  BY <1>1, <1>4
<1>6. b \in Stages /\ Leads(b, t)
  BY ChainEnds, ReadLeads
<1>7. ASSUME NEW i \in 1..(n + 1)
      PROVE  Reads(c, end, us[i], Append(q, m)[i], us[i + 1]) /\ Leads(us[i], t)
  <2>1. CASE i = n + 1
    <3>1. us[i] = b /\ us[i + 1] = t /\ Append(q, m)[i] = m
      BY <1>1, <1>4, <2>1
    <3> QED BY <1>6, <3>1
  <2>2. CASE i # n + 1
    <3>1. i \in 1..n
      BY <1>4, <2>2
    <3>2. us[i] = st[i] /\ us[i + 1] = st[i + 1] /\ Append(q, m)[i] = q[i]
      BY <1>4, <3>1
    <3>3. Reads(c, end, st[i], q[i], st[i + 1]) /\ Leads(st[i], b)
      BY <1>1, <3>1
    <3>4. st[i] \in Stages
      BY <1>1, <1>4, <3>1
    <3>5. Leads(st[i], t)
      BY <1>6, <3>3, <3>4, LeadsOn
    <3> QED BY <3>2, <3>3, <3>5
  <2> QED BY <2>1, <2>2
<1> QED BY <1>4, <1>5, <1>7 DEF Chain

LEMMA ChainSame ==
  ASSUME NEW c, NEW end, NEW q, Queue(q), NEW s \in Stages,
         \A i \in DOMAIN q : Reads(c, end, s, q[i], s)
  PROVE  Chain(c, end, q, s, s)
<1> DEFINE st == [i \in 1..(Len(q) + 1) |-> s]
<1>1. Len(q) \in Nat /\ DOMAIN q = 1..Len(q)
  BY DEF Queue
<1>2. st \in [1..(Len(q) + 1) -> Stages] /\ st[1] = s /\ st[Len(q) + 1] = s
  BY <1>1
<1>3. \A i \in 1..Len(q) : Reads(c, end, st[i], q[i], st[i + 1]) /\ Leads(st[i], s)
  BY <1>1, LeadsSame
<1> QED BY <1>2, <1>3 DEF Chain

LEMMA ChainOne ==
  ASSUME NEW c, NEW end, NEW a \in Stages, NEW b \in Stages, NEW m, Reads(c, end, a, m, b)
  PROVE  Chain(c, end, <<m>>, a, b)
<1>1. Chain(c, end, <<>>, a, a)
  BY ChainEmpty
<1>2. Append(<<>>, m) = <<m>>
  OBVIOUS
<1> QED BY <1>1, <1>2, ChainSend, EmptyQueue

LEMMA ChainTwo ==
  ASSUME NEW c, NEW end, NEW a \in Stages, NEW b \in Stages, NEW d \in Stages, NEW m, NEW n,
         Reads(c, end, a, m, b), Reads(c, end, b, n, d)
  PROVE  Chain(c, end, <<m, n>>, a, d)
<1>1. Chain(c, end, <<m>>, a, b)
  BY ChainOne
<1>2. Append(<<m>>, n) = <<m, n>>
  <2> DEFINE S == {m, n}
  <2>1. <<m>> \in Seq(S) /\ <<m, n>> \in Seq(S) /\ n \in S
    OBVIOUS
  <2>2. Append(<<m>>, n) \in Seq(S) /\ Len(Append(<<m>>, n)) = 2
    BY <2>1
  <2>3. \A i \in 1..2 : Append(<<m>>, n)[i] = <<m, n>>[i]
    BY <2>1
  <2> QED BY <2>1, <2>2, <2>3, SeqEqual
<1>3. Queue(<<m>>)
  BY OneQueue
<1> QED BY <1>1, <1>2, <1>3, ChainSend

----------------------------------------------------------------------------
(* What both kinds of steps have in common.                                *)

\* A step of the server leaves the client's side of the invariant alone.
LEMMA ClientFrame ==
  ASSUME UNCHANGED clientVars
  PROVE  /\ Terms' = Terms /\ ClientStage' = ClientStage /\ ClientKeeps' = ClientKeeps
         /\ cpc' = cpc /\ ckexsend' = ckexsend /\ Misled' = Misled
<1>1. UNCHANGED <<cpc, prefs, first, guessed, ckexsend, chash, csid, keyIn, keyOut>>
  BY DEF clientVars
<1>2. Terms' = Terms /\ ClientStage' = ClientStage /\ Misled' = Misled
  BY <1>1 DEF Terms, ClientStage, Stage, Misled
<1> QED BY <1>1, <1>2 DEF ClientKeeps

\* As long as the client does not start another exchange, it is misled or not.
LEMMA MisledFrame ==
  ASSUME UNCHANGED <<prefs, first, guessed, ckexsend>>
  PROVE  Misled' = Misled /\ Terms' = Terms
BY DEF Misled, Terms

\* A step of the client leaves the server's side alone, as long as the terms stay.
LEMMA ServerFrame ==
  ASSUME UNCHANGED serverVars
  PROVE  /\ ServerStage' = ServerStage /\ Told' = Told /\ UNCHANGED <<spc, why, authorized>>
         /\ Terms' = Terms /\ UNCHANGED <<prefs, first>> => ServerKeeps' = ServerKeeps
<1>1. UNCHANGED <<spc, why, kexname, follows, guess, rekeying, authorized, kexrecv, kexsend,
                  hash, sessionid, skey>>
  BY DEF serverVars
<1>2. ServerStage' = ServerStage /\ Told' = Told
  BY <1>1 DEF ServerStage, Told, Stage
<1>3. Terms' = Terms /\ UNCHANGED <<prefs, first>> => ServerKeeps' = ServerKeeps
  BY <1>1, <1>2 DEF ServerKeeps
<1> QED BY <1>1, <1>2, <1>3

LEMMA StageTypes ==
  /\ ServerKeeps => ServerStage \in Stages /\ Told \in Stages
  /\ ClientKeeps /\ cpc # "gone" => ClientStage \in Stages /\ Asked \in Stages
<1>1. ASSUME ServerKeeps PROVE ServerStage \in Stages /\ Told \in Stages
  BY <1>1 DEF ServerKeeps, ServerStage, Told, Stage, Stages
<1>2. ASSUME ClientKeeps, cpc # "gone" PROVE ClientStage \in Stages /\ Asked \in Stages
  <2>1. /\ ckexsend \in Nat /\ (cpc = "kexwait" => ckexsend - 1 \in Nat)
        /\ cpc \in {"start", "kexwait", "reply", "newkeys", "service", "auth", "ready"}
    BY <1>2 DEF ClientKeeps
  <2>2. ClientStage \in Stages
    BY <2>1 DEF ClientStage, Stage, Stages
  <2>3. Asked \in Stages
    BY <2>1 DEF Asked, Stage, Stages
  <2> QED BY <2>2, <2>3
<1> QED BY <1>1, <1>2

----------------------------------------------------------------------------
(* Steps of the server.                                                    *)

\* The packet the server takes leads to a stage t; if it goes there, the rest
\* of its queue still leads to where the client has asked it to be.
LEMMA ServerTakes ==
  ASSUME Queues, ServerInv, spc # "dead", toServer # <<>>, toServer' = Tail(toServer)
  PROVE  \E t \in Stages :
           /\ ServerReads(Terms, ServerStage, Got, t)
           /\ \E b : Chain(Terms, "server", toServer', t, b) /\ Ends(b) /\ Leads(t, b)
<1>1. PICK b : Chain(Terms, "server", toServer, ServerStage, b) /\ Ends(b)
  BY DEF ServerInv, ServerChain
<1>2. PICK t \in Stages : /\ Reads(Terms, "server", ServerStage, Head(toServer), t)
                          /\ Leads(t, b) /\ Chain(Terms, "server", Tail(toServer), t, b)
  BY <1>1, ChainTake DEF Queues
<1>3. ServerReads(Terms, ServerStage, Got, t)
  BY <1>2 DEF Reads, Got
<1> QED BY <1>1, <1>2, <1>3

\* The client asks for the same stage as before.
LEMMA AskedFrame ==
  ASSUME UNCHANGED clientVars, authorized' = authorized
  PROVE  Asked' = Asked /\ \A b : Ends(b)' <=> Ends(b)
<1>1. UNCHANGED <<cpc, prefs, first, guessed, ckexsend, authorized>>
  BY DEF clientVars
<1>2. Terms' = Terms /\ Misled' = Misled
  BY <1>1, MisledFrame
<1>3. Asked' = Asked
  BY <1>1, <1>2 DEF Asked, Right
<1> QED BY <1>1, <1>2, <1>3 DEF Ends

\* The requests left in the queue after a packet has been taken.
LEMMA OneRequestTakes ==
  ASSUME Queues, OneRequest, toServer # <<>>, toServer' = Tail(toServer),
         UNCHANGED clientVars, authorized' = authorized
  PROVE  OneRequest'
<1>1. PICK S : toServer \in Seq(S)
  BY DEF Queues, Queue
<1>2. \A i \in DOMAIN Tail(toServer) : i + 1 \in DOMAIN toServer /\ i \in Nat
                                       /\ Tail(toServer)[i] = toServer[i + 1]
  BY <1>1
<1>3. Terms' = Terms /\ cpc' = cpc
  BY ClientFrame
<1> SUFFICES ASSUME NEW i \in DOMAIN toServer', toServer'[i].type \in Requests
             PROVE  /\ ~authorized' /\ cpc' \in {"service", "auth", "gone"}
                    /\ \A j \in DOMAIN toServer' :
                         i < j => /\ toServer'[j].type \in {"IGNORE", "DISCONNECT"}
                                  /\ toServer'[j].key = Key(Terms', 1)
  BY DEF OneRequest
<1>4. i + 1 \in DOMAIN toServer /\ toServer[i + 1].type \in Requests
  BY <1>2
<1>5. /\ ~authorized /\ cpc \in {"service", "auth", "gone"}
      /\ \A j \in DOMAIN toServer :
           i + 1 < j => /\ toServer[j].type \in {"IGNORE", "DISCONNECT"}
                        /\ toServer[j].key = Key(Terms, 1)
  BY <1>4 DEF OneRequest
<1>6. \A j \in DOMAIN toServer' : i < j => j + 1 \in DOMAIN toServer /\ i + 1 < j + 1
  BY <1>2
<1> QED BY <1>2, <1>3, <1>5, <1>6

\* The answers on the way when the server takes a packet and answers nothing.
LEMMA OneAnswerTakes ==
  ASSUME Queues, OneAnswer, toServer # <<>>, toServer' = Tail(toServer),
         UNCHANGED clientVars, authorized' = authorized,
         Queue(toClient'),
         \A i \in DOMAIN toClient' : (i \in DOMAIN toClient /\ toClient'[i] = toClient[i])
                                     \/ toClient'[i].type \notin Answers
  PROVE  OneAnswer'
<1>1. PICK S : toServer \in Seq(S)
  BY DEF Queues, Queue
<1>2. \A i \in DOMAIN Tail(toServer) : i + 1 \in DOMAIN toServer
                                       /\ Tail(toServer)[i] = toServer[i + 1]
  BY <1>1
<1>3. cpc' = cpc
  BY ClientFrame
<1> SUFFICES ASSUME NEW i \in DOMAIN toClient', toClient'[i].type \in Answers
             PROVE  /\ cpc' \in {"service", "auth"}
                    /\ toClient'[i].type = "SUCCESS" <=> authorized'
                    /\ \A j \in DOMAIN toClient' : toClient'[j].type \in Answers => j = i
                    /\ \A j \in DOMAIN toServer' : toServer'[j].type \notin Requests
  BY DEF OneAnswer
<1>4. i \in DOMAIN toClient /\ toClient'[i] = toClient[i] /\ toClient[i].type \in Answers
  OBVIOUS
<1>5. /\ cpc \in {"service", "auth"}
      /\ toClient[i].type = "SUCCESS" <=> authorized
      /\ \A j \in DOMAIN toClient : toClient[j].type \in Answers => j = i
      /\ \A j \in DOMAIN toServer : toServer[j].type \notin Requests
  BY <1>4 DEF OneAnswer
<1> QED BY <1>2, <1>3, <1>4, <1>5

\* The server's queue is empty until the client starts.
LEMMA StartedClient ==
  ASSUME ReadableInv, toServer # <<>> \/ spc \in {"loop", "dead"} \/ cpc = "gone"
  PROVE  cpc # "start"
BY DEF ReadableInv, ClientInv, NotStarted

LEMMA ServerStep ==
  ASSUME ReadableInv, UNCHANGED clientVars, cpc # "start",
         why' \notin {"mac", "signature"}, why' = "proto" => Misled,
         spc' # "dead" => ServerKeeps' /\ OneRequest' /\ ServerChain',
         cpc # "gone" => ClientChain',
         spc' # "dead" /\ cpc # "gone" => OneAnswer'
  PROVE  ReadableInv'
BY ClientFrame DEF ReadableInv, ServerInv, ClientInv

LEMMA ServerDies ==
  ASSUME ReadableInv, UNCHANGED clientVars, cpc # "start", NEW reason, Die(reason),
         reason \notin {"mac", "signature"}, reason = "proto" => Misled
  PROVE  ReadableInv'
<1>1. spc' = "dead" /\ why' = reason /\ toClient' = toClient
  BY DEF Die
<1>2. cpc # "gone" => ClientChain'
  <2> SUFFICES ASSUME cpc # "gone" PROVE ClientChain'
    OBVIOUS
  <2>1. PICK b : Chain(Terms, "client", toClient, ClientStage, b)
    BY DEF ReadableInv, ClientInv, ClientChain
  <2> QED BY <1>1, <2>1, ClientFrame DEF ClientChain
<1> QED BY <1>1, <1>2, ServerStep

\* A packet is taken and the server goes on, whatever it answers.
LEMMA ServerGoes ==
  ASSUME ReadableInv, Queues, spc # "dead", NEW types, Get(types),
         why' = why, authorized' = authorized, ServerKeeps',
         \A t \in Stages : ServerReads(Terms, ServerStage, Got, t) => ServerStage' = t,
         cpc # "gone" => ClientChain' /\ OneAnswer'
  PROVE  ReadableInv'
<1>1. toServer # <<>> /\ toServer' = Tail(toServer) /\ UNCHANGED clientVars
  BY DEF Get
<1>2. ServerInv
  BY DEF ReadableInv
<1>3. PICK t \in Stages :
           /\ ServerReads(Terms, ServerStage, Got, t)
           /\ \E b : Chain(Terms, "server", toServer', t, b) /\ Ends(b)
  BY <1>1, <1>2, ServerTakes
<1>4. ServerChain'
  BY <1>1, <1>3, AskedFrame, ClientFrame DEF ServerChain
<1>5. OneRequest'
  BY <1>1, <1>2, OneRequestTakes DEF ServerInv
<1>6. cpc # "start" /\ why' \notin {"mac", "signature"} /\ (why' = "proto" => Misled)
  BY <1>1, StartedClient DEF ReadableInv
<1> QED BY <1>1, <1>4, <1>5, <1>6, ServerStep

\* The client's chain and the answers when nothing is answered.
LEMMA ServerSilent ==
  ASSUME ReadableInv, Queues, spc # "dead", NEW types, Get(types),
         UNCHANGED <<authorized, toClient>>, Told' = Told
  PROVE  cpc # "gone" => ClientChain' /\ OneAnswer'
<1> SUFFICES ASSUME cpc # "gone" PROVE ClientChain' /\ OneAnswer'
  OBVIOUS
<1>1. toServer # <<>> /\ toServer' = Tail(toServer) /\ UNCHANGED clientVars
  BY DEF Get
<1>2. ClientChain /\ OneAnswer
  BY DEF ReadableInv, ClientInv
<1>3. ClientChain'
  BY <1>1, <1>2, ClientFrame DEF ClientChain
<1>4. Queue(toClient') /\ \A i \in DOMAIN toClient' :
                            (i \in DOMAIN toClient /\ toClient'[i] = toClient[i])
                            \/ toClient'[i].type \notin Answers
  BY DEF Queues
<1>5. OneAnswer'
  BY <1>1, <1>2, <1>4, OneAnswerTakes
<1> QED BY <1>3, <1>5

\* One more packet on its way to the client.
LEMMA ClientChainSend ==
  ASSUME ClientChain, Queues, UNCHANGED clientVars, spc # "dead",
         NEW m, toClient' = Append(toClient, m),
         NEW t \in Stages, ClientReads(Terms, Told, m, t), spc' # "dead" => Told' = t
  PROVE  ClientChain'
<1>1. Chain(Terms, "client", toClient, ClientStage, Told)
  BY DEF ClientChain
<1>2. Reads(Terms, "client", Told, m, t)
  BY DEF Reads
<1>3. Chain(Terms, "client", toClient', ClientStage, t)
  BY <1>1, <1>2, ChainSend DEF Queues
<1> QED BY <1>3, ClientFrame DEF ClientChain

LEMMA AppendElements ==
  ASSUME NEW q, Queue(q), NEW m
  PROVE  /\ DOMAIN Append(q, m) = DOMAIN q \cup {Len(q) + 1}
         /\ Len(q) \in Nat /\ DOMAIN q = 1..Len(q)
         /\ Append(q, m)[Len(q) + 1] = m
         /\ \A i \in DOMAIN q : Append(q, m)[i] = q[i]
<1>1. PICK S : q \in Seq(S)
  BY DEF Queue
<1>2. q \in Seq(S \cup {m})
  BY <1>1
<1> QED BY <1>2

\* One more packet that is not the answer to a request.
LEMMA ServerAnswers ==
  ASSUME ReadableInv, Queues, spc # "dead", NEW types, Get(types), authorized' = authorized,
         NEW type, NEW id, Answer(type, id), type \notin Answers,
         NEW t \in Stages, ClientReads(Terms, Told, Packet(type, NoName, id, skey), t),
         spc' # "dead" => Told' = t
  PROVE  cpc # "gone" => ClientChain' /\ OneAnswer'
<1> SUFFICES ASSUME cpc # "gone" PROVE ClientChain' /\ OneAnswer'
  OBVIOUS
<1> DEFINE m == Packet(type, NoName, id, skey)
<1>1. toServer # <<>> /\ toServer' = Tail(toServer) /\ UNCHANGED clientVars
  BY DEF Get
<1>2. ClientChain /\ OneAnswer
  BY DEF ReadableInv, ClientInv
<1>3. toClient' = Append(toClient, m) /\ m.type \notin Answers
  BY DEF Answer, Packet
<1>4. ClientReads(Terms, Told, m, t)
  OBVIOUS
<1> HIDE DEF m
<1>5. ClientChain'
  BY <1>1, <1>2, <1>3, <1>4, ClientChainSend
<1>6. Queue(toClient') /\ \A i \in DOMAIN toClient' :
                            (i \in DOMAIN toClient /\ toClient'[i] = toClient[i])
                            \/ toClient'[i].type \notin Answers
  BY <1>3, AppendElements, AppendQueue DEF Queues
<1>7. OneAnswer'
  BY <1>1, <1>2, <1>6, OneAnswerTakes
<1> QED BY <1>5, <1>7

\* The answer to a request; the request was the only one, and unanswered.
LEMMA ServerAnswersRequest ==
  ASSUME ReadableInv, Queues, spc # "dead", NEW types, Get(types), Got.type \in Requests,
         NEW type, NEW id, Answer(type, id), type \in Answers,
         type = "SUCCESS" <=> authorized',
         NEW t \in Stages, ClientReads(Terms, Told, Packet(type, NoName, id, skey), t),
         spc' # "dead" => Told' = t
  PROVE  cpc # "gone" => ClientChain' /\ OneAnswer'
<1> SUFFICES ASSUME cpc # "gone" PROVE ClientChain' /\ OneAnswer'
  OBVIOUS
<1> DEFINE m == Packet(type, NoName, id, skey)
<1>1. toServer # <<>> /\ toServer' = Tail(toServer) /\ UNCHANGED clientVars /\ cpc' = cpc
  BY ClientFrame DEF Get
<1>2. ClientChain /\ OneAnswer /\ OneRequest
  BY DEF ReadableInv, ClientInv, ServerInv
<1>3. toClient' = Append(toClient, m) /\ m.type = type
  BY DEF Answer, Packet
<1>4. ClientReads(Terms, Told, m, t)
  OBVIOUS
<1> HIDE DEF m
<1>5. ClientChain'
  BY <1>1, <1>2, <1>3, <1>4, ClientChainSend
<1>6. PICK S : toServer \in Seq(S)
  BY DEF Queues, Queue
<1>7. /\ 1 \in DOMAIN toServer /\ toServer[1] = Got
      /\ \A i \in DOMAIN toServer' : /\ i + 1 \in DOMAIN toServer /\ 1 < i + 1
                                     /\ toServer'[i] = toServer[i + 1]
  BY <1>1, <1>6 DEF Got
<1>8. /\ cpc \in {"service", "auth"}
      /\ \A j \in DOMAIN toServer : 1 < j => toServer[j].type \in {"IGNORE", "DISCONNECT"}
  BY <1>2, <1>7 DEF OneRequest
<1>9. \A i \in DOMAIN toServer' : toServer'[i].type \notin Requests
  BY <1>7, <1>8 DEF Requests, AuthTypes
<1>10. \A i \in DOMAIN toClient : toClient[i].type \notin Answers
  BY <1>2, <1>7 DEF OneAnswer
<1>11. \A i \in DOMAIN toClient' : toClient'[i].type \in Answers
                                     => i = Len(toClient) + 1 /\ toClient'[i] = m
  BY <1>3, <1>10, AppendElements DEF Queues
<1>12. OneAnswer'
  BY <1>1, <1>3, <1>8, <1>9, <1>11 DEF OneAnswer
<1> QED BY <1>5, <1>12

----------------------------------------------------------------------------
(* The actions of the server.                                              *)

\* What the head of the queue is; only a client that has misled the server sends
\* what ends an exchange.
LEMMA ServerHead ==
  ASSUME ReadableInv, Queues, spc # "dead", toServer # <<>>, toServer' = Tail(toServer)
  PROVE  \E t \in Stages : /\ ServerReads(Terms, ServerStage, Got, t)
                           /\ t.at = "dead" /\ spc # "kexinit" => Misled
<1>1. ServerInv
  BY DEF ReadableInv
<1>2. PICK t \in Stages :
           /\ ServerReads(Terms, ServerStage, Got, t)
           /\ \E b : Chain(Terms, "server", toServer', t, b) /\ Ends(b) /\ Leads(t, b)
  BY <1>1, ServerTakes
<1>3. ASSUME t.at = "dead", spc # "kexinit" PROVE Misled
  <2>1. Ends(t)
    BY <1>2, <1>3 DEF Leads
  <2>2. Agreed(Terms)
    BY <1>1, <1>3 DEF ServerInv, ServerKeeps
  <2> QED BY <1>3, <2>1, <2>2 DEF Ends
<1> QED BY <1>2, <1>3

\* Nothing the client sends is unreadable, or unexpected when it has not misled
\* the server.
LEMMA ReadableRefuse == ASSUME ReadableInv, Queues, Refuse \/ Hangup PROVE ReadableInv'
<1>1. CASE Refuse
  <2>1. spc # "dead" /\ toServer # <<>> /\ toServer' = Tail(toServer) /\ UNCHANGED clientVars
    BY <1>1 DEF Refuse
  <2>2. PICK t \in Stages : /\ ServerReads(Terms, ServerStage, Got, t)
                            /\ t.at = "dead" /\ spc # "kexinit" => Misled
    BY <2>1, ServerHead
  <2>3. ServerKeeps
    BY <2>1 DEF ReadableInv, ServerInv
  <2>4. CanRead
    BY <2>1, <2>2, <2>3 DEF ServerReads, ServerStage, Stage, CanRead, ServerKeeps
  <2>5. spc \notin {"newkeys", "loop"} =>
          Got.type \in Expected \cup {"IGNORE", "DISCONNECT"} \/ Misled
    <3>1. CASE spc = "kexinit"
      BY <2>2, <3>1 DEF ServerReads, ServerStage, Stage, Expected
    <3>2. CASE spc \in {"skip", "dh"}
      <4>1. Got.type \in {"KEXDH", "IGNORE", "DISCONNECT"} \/ t.at = "dead"
        BY <2>2, <3>2 DEF ServerReads, ServerStage, Stage
      <4> QED BY <2>2, <3>2, <4>1 DEF Expected
    <3>3. CASE spc = "service"
      BY <2>2, <3>3 DEF ServerReads, ServerStage, Stage, Expected
    <3>4. CASE spc = "auth"
      BY <2>2, <3>4 DEF ServerReads, ServerStage, Stage, Expected
    <3> QED BY <2>3, <3>1, <3>2, <3>3, <3>4 DEF ServerKeeps
  <2>6. Die("unauthenticated") \/ (Die("proto") /\ Misled)
    BY <1>1, <2>4, <2>5 DEF Refuse
  <2> QED BY <2>1, <2>6, ServerDies, StartedClient
<1>2. CASE Hangup
  <2>1. Die("gone") /\ cpc = "gone" /\ UNCHANGED clientVars
    BY <1>2 DEF Hangup
  <2> QED BY <2>1, ServerDies
<1> QED BY <1>1, <1>2

LEMMA ReadableDisconnect ==
  ASSUME ReadableInv, Queues, Disconnect \/ Ignore \/ DropBeforeNewKeys \/ Channel
  PROVE  ReadableInv'
<1>1. PICK types : Get(types)
  BY Zenon DEF Disconnect, Ignore, DropBeforeNewKeys, Channel
<1>2. spc # "dead" /\ toServer # <<>> /\ toServer' = Tail(toServer) /\ UNCHANGED clientVars
  BY <1>1 DEF Get
<1>3. CASE Die("gone")
  BY <1>2, <1>3, ServerDies, StartedClient
<1>4. CASE ~Die("gone")
  <2>1. /\ UNCHANGED <<spc, why, kexname, follows, guess, rekeying, authorized, kexrecv, kexsend,
                       hash, sessionid, skey, toClient>>
        /\ \/ Got.type \in {"DISCONNECT", "IGNORE"}
           \/ spc = "newkeys" /\ Got.type # "NEWKEYS"
           \/ spc = "loop" /\ Got.type = "CHANNEL"
    <3>1. CASE Disconnect
      BY <1>4, <3>1 DEF Disconnect, Get
    <3>2. CASE Ignore
      BY <3>2 DEF Ignore, Get
    <3>3. CASE DropBeforeNewKeys
      BY <3>3 DEF DropBeforeNewKeys
    <3>4. CASE Channel
      BY <3>4 DEF Channel, Get, Rejoin
    <3> QED BY <3>1, <3>2, <3>3, <3>4
  <2>2. ServerKeeps
    BY <1>2 DEF ReadableInv, ServerInv
  <2>3. ServerKeeps' /\ ServerStage' = ServerStage /\ Told' = Told
    <3>1. ServerStage' = ServerStage /\ Told' = Told
      BY <2>1 DEF ServerStage, Told, Stage
    <3>2. UNCHANGED <<prefs, first, guessed>> /\ Terms' = Terms
      BY <1>2 DEF clientVars, Terms
    <3> QED BY <2>1, <2>2, <3>1, <3>2 DEF ServerKeeps
  <2>4. ASSUME NEW t \in Stages, ServerReads(Terms, ServerStage, Got, t)
        PROVE  t = ServerStage
    <3>1. CASE Got.type \in {"DISCONNECT", "IGNORE"}
      BY <2>4, <3>1 DEF ServerReads, AuthTypes
    <3>2. CASE spc = "newkeys" /\ Got.type # "NEWKEYS"
      BY <2>4, <3>2 DEF ServerReads, ServerStage, Stage
    <3>3. CASE spc = "loop" /\ Got.type = "CHANNEL"
      BY <2>4, <3>3 DEF ServerReads, ServerStage, Stage
    <3> QED BY <2>1, <3>1, <3>2, <3>3
  <2>5. cpc # "gone" => ClientChain' /\ OneAnswer'
    BY <1>1, <1>2, <2>1, <2>3, ServerSilent
  <2> QED BY <1>1, <1>2, <2>1, <2>3, <2>4, <2>5, ServerGoes
<1> QED BY <1>3, <1>4

LEMMA ReadableKexReceive == ASSUME ReadableInv, Queues, KexReceive PROVE ReadableInv'
<1>1. spc = "kexinit" /\ Get({"KEXINIT"})
  BY DEF KexReceive
<1>2. spc # "dead" /\ toServer # <<>> /\ toServer' = Tail(toServer) /\ UNCHANGED clientVars
      /\ Got.type = "KEXINIT"
  BY <1>1 DEF Get
<1>3. CASE Die("kex")
  BY <1>2, <1>3, ServerDies, StartedClient
<1>4. CASE ~Die("kex")
  <2>1. /\ Common(Got.name) # {} /\ kexname' = Select(Got.name)
        /\ guess' = GuessRight(Got.name, kexname') /\ follows' = Got.id[2]
        /\ kexrecv' = Got.id[1] /\ spc' = AfterKex(follows', guess')
        /\ UNCHANGED <<why, rekeying, authorized, kexsend, hash, sessionid, skey, toClient>>
    BY <1>4 DEF KexReceive
  <2>2. ServerKeeps
    BY <1>2 DEF ReadableInv, ServerInv
  <2>3. ASSUME NEW t \in Stages, ServerReads(Terms, ServerStage, Got, t)
        PROVE  Got.name = prefs /\ Got.id = <<1, first>> /\ t = FirstKex(Terms)
    BY <1>1, <1>2, <2>3 DEF ServerReads, ServerStage, Stage, Terms, AuthTypes
  <2>4. Got.name = prefs /\ Got.id = <<1, first>>
    BY <1>2, <2>3, ServerHead
  <2>5. Terms' = Terms /\ Terms.prefs = prefs /\ Terms.first = first
        /\ UNCHANGED <<prefs, first, guessed>>
    BY <1>2 DEF clientVars, Terms
  <2>6. /\ Agreed(Terms) /\ kexname' = Name(Terms) /\ follows' = first /\ kexrecv' = 1
        /\ (guess' <=> FirstChoice(Terms)) /\ spc' = AfterKex(first, FirstChoice(Terms))
    <3>1. Agreed(Terms) /\ kexname' = Name(Terms) /\ follows' = first /\ kexrecv' = 1
      BY <2>1, <2>4, <2>5 DEF Agreed, Name
    <3>2. guess' = FirstChoice(Terms)
      BY <2>1, <2>4, <2>5, <3>1 DEF GuessRight, FirstChoice
    <3>3. spc' = AfterKex(first, FirstChoice(Terms))
      BY <2>1, <3>1, <3>2
    <3> QED BY <3>1, <3>2, <3>3
  <2>7. spc' \in {"skip", "dh"}
    BY <2>6 DEF AfterKex
  <2>8. ServerStage' = FirstKex(Terms)
    BY <2>5, <2>6 DEF ServerStage, FirstKex, Kex
  <2>9. ServerKeeps'
    <3>1. /\ kexsend = 1 /\ skey = Plain /\ ~rekeying /\ ~authorized
      BY <1>1, <2>2 DEF ServerKeeps, KeyAt, Key, ServerStage, Stage
    <3>2. skey' = KeyAt(Terms', ServerStage')
      BY <2>1, <2>6, <2>7, <3>1 DEF KeyAt, Key, ServerStage, Stage
    <3>3. authorized' \in BOOLEAN /\ rekeying' \in BOOLEAN /\ ~authorized' /\ ~rekeying'
      BY <2>1, <2>2, <3>1 DEF ServerKeeps
    <3>4. kexrecv' = 1 /\ kexsend' = 1
      BY <2>1, <2>6, <3>1
    <3> QED BY <2>5, <2>6, <2>7, <3>2, <3>3, <3>4 DEF ServerKeeps
  <2>10. Told' = Told
    BY <1>1, <2>6, <2>7 DEF Told, Stage
  <2>11. cpc # "gone" => ClientChain' /\ OneAnswer'
    BY <1>1, <1>2, <2>1, <2>10, ServerSilent
  <2> QED BY <1>1, <1>2, <2>1, <2>3, <2>8, <2>9, <2>11, ServerGoes
<1> QED BY <1>3, <1>4

LEMMA ReadableSkipGuess == ASSUME ReadableInv, Queues, SkipGuess PROVE ReadableInv'
<1>1. /\ spc = "skip" /\ Get({"KEXDH"}) /\ spc' = "dh"
      /\ UNCHANGED <<why, kexname, follows, guess, rekeying, authorized, kexrecv, kexsend, hash,
                     sessionid, skey, toClient>>
  BY DEF SkipGuess
<1>2. spc # "dead" /\ UNCHANGED clientVars /\ Got.type = "KEXDH"
  BY <1>1 DEF Get
<1>3. ServerKeeps
  BY <1>2 DEF ReadableInv, ServerInv
<1>4. Terms' = Terms /\ UNCHANGED <<prefs, first, guessed>>
  BY <1>2 DEF clientVars, Terms
<1>5. ASSUME NEW t \in Stages, ServerReads(Terms, ServerStage, Got, t)
      PROVE  ServerStage' = t
  BY <1>1, <1>2, <1>5 DEF ServerReads, ServerStage, Stage, AuthTypes
<1>6. ServerKeeps'
  BY <1>1, <1>3, <1>4 DEF ServerKeeps, ServerStage, Stage, KeyAt
<1>7. Told' = Told
  BY <1>1 DEF Told, Stage
<1>8. cpc # "gone" => ClientChain' /\ OneAnswer'
  BY <1>1, <1>2, <1>7, ServerSilent
<1> QED BY <1>1, <1>2, <1>5, <1>6, <1>8, ServerGoes

LEMMA ReadableNewKeys == ASSUME ReadableInv, Queues, NewKeys PROVE ReadableInv'
<1>1. /\ spc = "newkeys" /\ Get({"NEWKEYS"}) /\ spc' = AfterNewKeys
      /\ skey' = <<hash, sessionid>>
      /\ UNCHANGED <<why, kexname, follows, guess, rekeying, authorized, kexrecv, kexsend, hash,
                     sessionid, toClient>>
  BY DEF NewKeys
<1>2. spc # "dead" /\ UNCHANGED clientVars /\ Got.type = "NEWKEYS"
  BY <1>1 DEF Get
<1>3. ServerKeeps
  BY <1>2 DEF ReadableInv, ServerInv
<1>4. Terms' = Terms /\ UNCHANGED <<prefs, first, guessed>>
  BY <1>2 DEF clientVars, Terms
<1>5. /\ kexrecv \in Nat /\ kexrecv > 0 /\ (authorized <=> kexrecv > 1)
      /\ spc' = IF kexrecv = 1 THEN "service" ELSE "loop"
  BY <1>1, <1>3 DEF ServerKeeps, AfterNewKeys
<1>6. ASSUME NEW t \in Stages, ServerReads(Terms, ServerStage, Got, t)
      PROVE  ServerStage' = t
  BY <1>1, <1>2, <1>5, <1>6 DEF ServerReads, ServerStage, Stage, AuthTypes
<1>7. ServerKeeps'
  <2>1. skey' = KeyAt(Terms', ServerStage')
    BY <1>1, <1>3, <1>4, <1>5 DEF ServerKeeps, ServerStage, Stage, KeyAt, Key
  <2> QED BY <1>1, <1>3, <1>4, <1>5, <2>1 DEF ServerKeeps
<1>8. Told' = Told
  BY <1>1, <1>5 DEF Told, Stage
<1>9. cpc # "gone" => ClientChain' /\ OneAnswer'
  BY <1>1, <1>2, <1>8, ServerSilent
<1> QED BY <1>1, <1>2, <1>6, <1>7, <1>9, ServerGoes

\* Two packets, of which neither is the answer to a request.
LEMMA ReadableKexDh == ASSUME ReadableInv, Queues, KexDh PROVE ReadableInv'
<1>1. spc = "dh" /\ Get({"KEXDH"})
  BY DEF KexDh
<1>2. spc # "dead" /\ toServer # <<>> /\ toServer' = Tail(toServer) /\ UNCHANGED clientVars
      /\ Got.type = "KEXDH"
  BY <1>1 DEF Get
<1>3. ServerKeeps
  BY <1>2 DEF ReadableInv, ServerInv
<1>4. ASSUME NEW t \in Stages, ServerReads(Terms, ServerStage, Got, t)
      PROVE  IF Got.name = Name(Terms)
             THEN Got.id = <<kexrecv>> /\ t = Stage("newkeys", kexrecv)
             ELSE t.at = "dead"
  BY <1>1, <1>2, <1>4 DEF ServerReads, ServerStage, Stage, AuthTypes
<1>5. IF Got.name = Name(Terms) THEN Got.id = <<kexrecv>> ELSE Misled
  BY <1>1, <1>2, <1>4, ServerHead
<1>6. /\ kexname = Name(Terms) /\ kexsend = kexrecv /\ kexrecv \in Nat /\ kexrecv > 0
      /\ (rekeying <=> kexrecv > 1) /\ rekeying \in BOOLEAN
  BY <1>1, <1>3 DEF ServerKeeps
<1>7. CASE Die("sign") \/ Got.name # Name(Terms)
  <2>1. Die("sign") \/ (Die("proto") /\ Misled)
    BY <1>5, <1>6, <1>7 DEF KexDh
  <2> QED BY <1>2, <2>1, ServerDies, StartedClient
<1>8. CASE ~Die("sign") /\ Got.name = Name(Terms)
  <2> DEFINE reply == Packet("REPLY", NoName, hash', skey)
             news  == Packet("NEWKEYS", NoName, <<>>, skey)
  <2>1. /\ hash' = HashOf(Got) /\ sessionid' = SessionId(hash') /\ rekeying' = TRUE
        /\ toClient' = toClient \o <<reply, news>> /\ spc' = "newkeys"
        /\ UNCHANGED <<why, kexname, follows, guess, authorized, kexrecv, kexsend, skey>>
    BY <1>5, <1>6, <1>8 DEF KexDh
  <2>2. hash' = Hash(Terms, kexrecv)
    BY <1>5, <1>6, <1>8, <2>1 DEF HashOf, Hash
  <2>3. sessionid' = Hash(Terms, 1)
    <3>1. CASE kexrecv = 1
      BY <1>6, <2>1, <2>2, <3>1 DEF SessionId
    <3>2. CASE kexrecv > 1
      BY <1>3, <1>6, <2>1, <3>2 DEF SessionId, ServerKeeps
    <3> QED BY <1>6, <3>1, <3>2
  <2>4. Terms' = Terms /\ UNCHANGED <<prefs, first, cpc>>
    BY <1>2 DEF clientVars, Terms
  <2>5. skey = Key(Terms, kexrecv - 1)
    BY <1>1, <1>3 DEF ServerKeeps, KeyAt, ServerStage, Stage
  <2>6. ServerKeeps'
    <3>1. skey' = KeyAt(Terms', ServerStage')
      BY <2>1, <2>4, <2>5 DEF KeyAt, ServerStage, Stage
    <3> QED BY <1>1, <1>3, <1>6, <2>1, <2>2, <2>3, <2>4, <3>1 DEF ServerKeeps
  <2>7. ServerStage' = Stage("newkeys", kexrecv)
    BY <2>1 DEF ServerStage
  <2> DEFINE before == Stage("reply", kexrecv)
             between == Stage("newkeys", kexrecv)
             after  == Stage(IF kexrecv = 1 THEN "accept" ELSE "kex", kexrecv)
  <2>8. Told = before /\ Told' = after /\ between \in Stages /\ after \in Stages
    BY <1>1, <1>6, <2>1 DEF Told, Stage, Stages
  <2>9. ClientReads(Terms, before, reply, between)
    BY <2>2, <2>5 DEF ClientReads, Packet, Stage, KeyAt
  <2>10. ClientReads(Terms, between, news, after)
    BY <2>2, <2>5 DEF ClientReads, Packet, Stage, KeyAt
  <2>11. reply.type \notin Answers /\ news.type \notin Answers
    BY DEF Packet, Answers
  <2>12. cpc # "gone" => ClientChain' /\ OneAnswer'
    <3> HIDE DEF reply, news, before, between, after
    <3> SUFFICES ASSUME cpc # "gone" PROVE ClientChain' /\ OneAnswer'
      OBVIOUS
    <3> DEFINE one == Append(toClient, reply)
    <3>1. toClient' = Append(one, news)
      <4>1. PICK S : toClient \in Seq(S)
        BY DEF Queues, Queue
      <4>2. toClient \in Seq(S \cup {reply, news})
        BY <4>1
      <4> QED BY <2>1, <4>2
    <3>2. Queue(one)
      BY AppendQueue DEF Queues
    <3>3. ClientChain /\ OneAnswer
      BY <1>2 DEF ReadableInv, ClientInv
    <3>4. Chain(Terms, "client", toClient, ClientStage, before)
      BY <1>2, <2>8, <3>3 DEF ClientChain
    <3>5. Chain(Terms, "client", one, ClientStage, between)
      BY <2>8, <2>9, <3>4, ChainSend DEF Queues, Reads
    <3> HIDE DEF one
    <3>6. Chain(Terms, "client", toClient', ClientStage, after)
      BY <2>8, <2>10, <3>1, <3>2, <3>5, ChainSend DEF Reads
    <3>7. ClientChain'
      BY <1>2, <2>8, <3>6, ClientFrame DEF ClientChain
    <3>8. Queue(toClient') /\ \A i \in DOMAIN toClient' :
                                (i \in DOMAIN toClient /\ toClient'[i] = toClient[i])
                                \/ toClient'[i].type \notin Answers
      <4>1. Queue(toClient')
        BY <3>1, <3>2, AppendQueue
      <4>2. \A i \in DOMAIN one : (i \in DOMAIN toClient /\ one[i] = toClient[i])
                                  \/ one[i].type \notin Answers
        BY <2>11, AppendElements DEF one, Queues
      <4>3. \A i \in DOMAIN toClient' : (i \in DOMAIN one /\ toClient'[i] = one[i])
                                        \/ toClient'[i].type \notin Answers
        BY <2>11, <3>1, <3>2, AppendElements
      <4> QED BY <4>1, <4>2, <4>3
    <3>9. OneAnswer'
      BY <1>2, <2>1, <3>3, <3>8, OneAnswerTakes
    <3> QED BY <3>7, <3>9
  <2> QED BY <1>1, <1>2, <1>4, <1>8, <2>1, <2>6, <2>7, <2>12, ServerGoes
<1> QED BY <1>7, <1>8

LEMMA ReadableService == ASSUME ReadableInv, Queues, Service PROVE ReadableInv'
<1>1. /\ spc = "service" /\ Get({"SERVICE"}) /\ Answer("ACCEPT", <<>>) /\ spc' = "auth"
      /\ UNCHANGED <<why, kexname, follows, guess, rekeying, authorized, kexrecv, kexsend, hash,
                     sessionid, skey>>
  BY DEF Service
<1>2. spc # "dead" /\ UNCHANGED clientVars /\ Got.type = "SERVICE"
  BY <1>1 DEF Get
<1>3. ServerKeeps
  BY <1>2 DEF ReadableInv, ServerInv
<1>4. Terms' = Terms /\ UNCHANGED <<prefs, first, guessed>>
  BY <1>2 DEF clientVars, Terms
<1>5. ASSUME NEW t \in Stages, ServerReads(Terms, ServerStage, Got, t)
      PROVE  ServerStage' = t
  BY <1>1, <1>2, <1>5 DEF ServerReads, ServerStage, Stage, AuthTypes
<1>6. kexrecv = 1 /\ ~authorized /\ authorized' = authorized /\ skey = Key(Terms, 1)
  BY <1>1, <1>3 DEF ServerKeeps, ServerStage, Stage, KeyAt
<1>7. ServerKeeps'
  BY <1>1, <1>3, <1>4 DEF ServerKeeps, ServerStage, Stage, KeyAt
<1>8. Told = Stage("accept", 1) /\ Told' = Stage("answer", 1) /\ Stage("answer", 1) \in Stages
  BY <1>1, <1>6 DEF Told, Stage, Stages
<1>9. ClientReads(Terms, Told, Packet("ACCEPT", NoName, <<>>, skey), Stage("answer", 1))
  BY <1>6, <1>8 DEF ClientReads, Packet, Stage, KeyAt
<1>10. "ACCEPT" \in Answers /\ "ACCEPT" # "SUCCESS" /\ Got.type \in Requests
  BY <1>2 DEF Answers, Requests
<1>11. cpc # "gone" => ClientChain' /\ OneAnswer'
  BY <1>1, <1>2, <1>6, <1>8, <1>9, <1>10, ServerAnswersRequest
<1> QED BY <1>1, <1>2, <1>5, <1>7, <1>11, ServerGoes

LEMMA ReadableAuthRejected == ASSUME ReadableInv, Queues, AuthRejected PROVE ReadableInv'
<1> DEFINE type == IF Got.type = "QUERY" THEN "PK_OK" ELSE "FAILURE"
<1>1. /\ spc = "auth" /\ Get(AuthTypes) /\ Answer(type, <<>>)
      /\ UNCHANGED <<kexname, follows, guess, rekeying, authorized, kexrecv, kexsend, hash,
                     sessionid, skey>>
      /\ UNCHANGED <<spc, why>> \/ (spc' = "dead" /\ why' = "tries")
  BY DEF AuthRejected
<1>2. spc # "dead" /\ UNCHANGED clientVars /\ Got.type \in AuthTypes /\ toServer # <<>>
  BY <1>1 DEF Get
<1>3. ServerKeeps
  BY <1>2 DEF ReadableInv, ServerInv
<1>4. Terms' = Terms /\ UNCHANGED <<prefs, first, guessed>>
  BY <1>2 DEF clientVars, Terms
<1>5. ASSUME NEW t \in Stages, ServerReads(Terms, ServerStage, Got, t), spc' = spc
      PROVE  ServerStage' = t
  BY <1>1, <1>2, <1>5 DEF ServerReads, ServerStage, Stage, AuthTypes
<1>6. kexrecv = 1 /\ ~authorized /\ authorized' = authorized /\ skey = Key(Terms, 1)
  BY <1>1, <1>3 DEF ServerKeeps, ServerStage, Stage, KeyAt
<1>7. Told = Stage("answer", 1) /\ (spc' # "dead" => Told' = Stage("answer", 1))
      /\ Stage("answer", 1) \in Stages
  BY <1>1, <1>6 DEF Told, Stage, Stages
<1>8. ClientReads(Terms, Told, Packet(type, NoName, <<>>, skey), Stage("answer", 1))
  BY <1>6, <1>7 DEF ClientReads, Packet, Stage, KeyAt
<1>9. type \in Answers /\ type # "SUCCESS" /\ Got.type \in Requests
  BY <1>2 DEF Answers, Requests
<1>10. cpc # "gone" => ClientChain' /\ OneAnswer'
  <2> HIDE DEF type
  <2> QED BY <1>1, <1>2, <1>6, <1>7, <1>8, <1>9, ServerAnswersRequest
<1>11. CASE UNCHANGED <<spc, why>>
  <2>1. ServerKeeps'
    BY <1>1, <1>3, <1>4, <1>11 DEF ServerKeeps, ServerStage, Stage, KeyAt
  <2> QED BY <1>1, <1>2, <1>5, <1>10, <1>11, <2>1, ServerGoes
<1>12. CASE spc' = "dead" /\ why' = "tries"
  BY <1>2, <1>10, <1>12, ServerStep, StartedClient
<1> QED BY <1>1, <1>11, <1>12

\* From the stage where the client waits for ACCEPT nothing but ACCEPT leads on.
LEMMA AcceptLeads ==
  ASSUME NEW c, NEW q, Queue(q), NEW a, NEW b, Chain(c, "client", q, a, b),
         a.at = "accept", b.at # "accept"
  PROVE  \E i \in DOMAIN q : q[i].type \in Answers
<1>1. q # <<>>
  BY ChainNothing
<1>2. PICK t \in Stages : Reads(c, "client", a, Head(q), t)
  BY <1>1, ChainTake
<1>3. Head(q).type = "ACCEPT"
  BY <1>2 DEF Reads, ClientReads
<1>4. PICK S : q \in Seq(S)
  BY DEF Queue
<1>5. 1 \in DOMAIN q /\ Head(q) = q[1]
  BY <1>1, <1>4
<1> QED BY <1>3, <1>5 DEF Answers

\* A client that waits for ACCEPT has it coming when the server is past it.
LEMMA AcceptComes ==
  ASSUME Queues, ClientInv, cpc = "service", spc # "dead", Told.at # "accept"
  PROVE  \E i \in DOMAIN toClient : toClient[i].type \in Answers
<1>1. Chain(Terms, "client", toClient, ClientStage, Told)
  BY DEF ClientInv, ClientChain
<1>2. ClientStage.at = "accept"
  BY DEF ClientStage, Stage
<1> QED BY <1>1, <1>2, AcceptLeads DEF Queues

\* The server goes on to its loop although the client does not know: what is
\* behind the request can be read there as well.
LEMMA ReadableAuthSigned == ASSUME ReadableInv, Queues, AuthSigned PROVE ReadableInv'
<1>1. spc = "auth" /\ Get({"SIGNED"})
  BY DEF AuthSigned
<1>2. spc # "dead" /\ toServer # <<>> /\ toServer' = Tail(toServer) /\ UNCHANGED clientVars
      /\ Got.type = "SIGNED" /\ Got.type \in Requests
  BY <1>1 DEF Get, Requests, AuthTypes
<1>3. ServerKeeps /\ OneRequest
  BY <1>2 DEF ReadableInv, ServerInv
<1>4. /\ kexrecv = 1 /\ ~authorized /\ skey = Key(Terms, 1) /\ sessionid = Hash(Terms, 1)
  BY <1>1, <1>3 DEF ServerKeeps, ServerStage, Stage, KeyAt
<1>5. ASSUME NEW t \in Stages, ServerReads(Terms, ServerStage, Got, t)
      PROVE  Got.id = Hash(Terms, 1)
  BY <1>1, <1>2, <1>5 DEF ServerReads, ServerStage, Stage, AuthTypes
<1>6. Got.id = sessionid
  BY <1>2, <1>4, <1>5, ServerHead
<1>7. /\ Answer("SUCCESS", <<>>) /\ authorized' = TRUE /\ spc' = "loop"
      /\ UNCHANGED <<why, kexname, follows, guess, rekeying, kexrecv, kexsend, hash, sessionid,
                     skey, count, output>>
  BY <1>6 DEF AuthSigned
<1>8. Terms' = Terms /\ ckexsend' = ckexsend /\ UNCHANGED <<prefs, first, guessed, cpc>>
  BY <1>2 DEF clientVars, Terms
<1>9. ServerKeeps'
  BY <1>1, <1>3, <1>4, <1>7, <1>8 DEF ServerKeeps, ServerStage, Stage, KeyAt
<1>10. /\ Told = Stage("answer", 1) /\ Told' = Stage("kex", 1)
       /\ Stage("kex", 1) \in Stages /\ Told.at # "accept"
  BY <1>1, <1>4, <1>7 DEF Told, Stage, Stages
<1>11. ClientReads(Terms, Told, Packet("SUCCESS", NoName, <<>>, skey), Stage("kex", 1))
  BY <1>4, <1>10 DEF ClientReads, Packet, Stage, KeyAt
<1>12. "SUCCESS" \in Answers
  BY DEF Answers
<1>13. cpc # "gone" => ClientChain' /\ OneAnswer'
  BY <1>1, <1>2, <1>7, <1>10, <1>11, <1>12, ServerAnswersRequest
<1>14. PICK S : toServer \in Seq(S)
  BY DEF Queues, Queue
<1>15. /\ 1 \in DOMAIN toServer /\ toServer[1] = Got
       /\ \A i \in DOMAIN toServer' : /\ i + 1 \in DOMAIN toServer /\ 1 < i + 1
                                      /\ toServer'[i] = toServer[i + 1]
  BY <1>2, <1>14 DEF Got
<1>16. /\ cpc \in {"service", "auth", "gone"}
       /\ \A j \in DOMAIN toServer : 1 < j => /\ toServer[j].type \in {"IGNORE", "DISCONNECT"}
                                              /\ toServer[j].key = Key(Terms, 1)
  BY <1>2, <1>3, <1>15 DEF OneRequest
<1>17. \A i \in DOMAIN toServer' : /\ toServer'[i].type \in {"IGNORE", "DISCONNECT"}
                                   /\ toServer'[i].key = Key(Terms, 1)
  BY <1>15, <1>16
<1>18. OneRequest'
  BY <1>17 DEF OneRequest, Requests, AuthTypes
<1>19. ServerChain'
  <2> DEFINE s == Stage("loop", 1)
  <2>1. s \in Stages /\ ServerStage' = s
    BY <1>4, <1>7 DEF Stages, Stage, ServerStage
  <2>2. \A i \in DOMAIN toServer' : Reads(Terms, "server", s, toServer'[i], s)
    BY <1>17 DEF Reads, ServerReads, Stage, KeyAt
  <2>3. Queue(toServer')
    BY <1>2, TailQueue DEF Queues
  <2>4. Chain(Terms, "server", toServer', s, s)
    <3> HIDE DEF s
    <3> QED BY <2>1, <2>2, <2>3, ChainSame
  <2>5. cpc # "gone" => Asked' = s
    <3> SUFFICES ASSUME cpc # "gone" PROVE Asked' = s
      OBVIOUS
    <3>1. ClientInv /\ OneAnswer
      BY <1>2 DEF ReadableInv
    <3>2. cpc # "service"
      BY <1>2, <1>10, <1>15, <3>1, AcceptComes DEF OneAnswer
    <3>3. cpc = "auth" /\ ckexsend = 1
      BY <1>16, <3>1, <3>2 DEF ClientInv, ClientKeeps
    <3> QED BY <1>7, <1>8, <3>3 DEF Asked, Stage
  <2>6. PICK b : b = s
    OBVIOUS
  <2>7. b.at # "dead"
    BY <2>6 DEF Stage
  <2> HIDE DEF s
  <2>8. Ends(b)'
    BY <1>8, <2>5, <2>6, <2>7 DEF Ends
  <2> QED BY <1>8, <2>1, <2>4, <2>6, <2>8 DEF ServerChain
<1>20. cpc # "start" /\ why' \notin {"mac", "signature"} /\ (why' = "proto" => Misled)
  BY <1>2, <1>7, StartedClient DEF ReadableInv
<1> QED BY <1>2, <1>9, <1>13, <1>18, <1>19, <1>20, ServerStep

LEMMA ReadableRekey == ASSUME ReadableInv, Queues, Rekey PROVE ReadableInv'
<1>1. /\ spc = "loop" /\ Get({"KEXINIT"}) /\ kexrecv' = Got.id[1] /\ kexsend' = kexsend + 1
      /\ Answer("KEXINIT", <<kexsend'>>) /\ spc' = AfterKex(follows, guess)
      /\ UNCHANGED <<why, kexname, follows, guess, rekeying, authorized, hash, sessionid, skey>>
  BY DEF Rekey, Rejoin, KexRecv
<1>2. /\ spc # "dead" /\ UNCHANGED clientVars /\ Got.type = "KEXINIT" /\ toServer # <<>>
      /\ toServer' = Tail(toServer)
  BY <1>1 DEF Get
<1>3. ServerKeeps
  BY <1>2 DEF ReadableInv, ServerInv
<1>4. Terms' = Terms /\ UNCHANGED <<prefs, first>> /\ Terms.first = first
  BY <1>2 DEF clientVars, Terms
<1>5. ASSUME NEW t \in Stages, ServerReads(Terms, ServerStage, Got, t)
      PROVE  Got.id[1] = kexrecv + 1 /\ t = Kex(Terms, kexrecv + 1)
  BY <1>1, <1>2, <1>5 DEF ServerReads, ServerStage, Stage, AuthTypes
<1>6. Got.id[1] = kexrecv + 1
  BY <1>2, <1>5, ServerHead
<1>7. /\ kexrecv \in Nat /\ kexrecv > 0 /\ kexsend = kexrecv /\ follows = first
      /\ (guess <=> FirstChoice(Terms))
      /\ authorized /\ rekeying /\ skey = Key(Terms, kexrecv)
  BY <1>1, <1>3 DEF ServerKeeps, ServerStage, Stage, KeyAt
<1>8. /\ spc' \in {"skip", "dh"} /\ kexrecv' = kexrecv + 1 /\ kexsend' = kexrecv + 1
      /\ spc' = AfterKex(first, FirstChoice(Terms))
  BY <1>1, <1>6, <1>7 DEF AfterKex
<1>9. ServerStage' = Kex(Terms, kexrecv + 1) /\ ServerStage' = Stage(spc', kexrecv + 1)
  BY <1>4, <1>8 DEF ServerStage, Kex
<1>10. ServerKeeps'
  <2>1. skey' = KeyAt(Terms', ServerStage')
    BY <1>1, <1>4, <1>7, <1>8, <1>9 DEF Stage, KeyAt
  <2> QED BY <1>1, <1>3, <1>4, <1>6, <1>7, <1>8, <2>1 DEF ServerKeeps
<1>11. /\ Told = Stage("kex", kexrecv) /\ Told' = Stage("reply", kexrecv + 1)
       /\ Stage("reply", kexrecv + 1) \in Stages
  BY <1>1, <1>7, <1>8 DEF Told, Stage, Stages
<1>12. ClientReads(Terms, Told, Packet("KEXINIT", NoName, <<kexsend'>>, skey),
                   Stage("reply", kexrecv + 1))
  BY <1>7, <1>8, <1>11 DEF ClientReads, Packet, Stage, KeyAt
<1>13. "KEXINIT" \notin Answers
  BY DEF Answers
<1>14. cpc # "gone" => ClientChain' /\ OneAnswer'
  BY <1>1, <1>2, <1>11, <1>12, <1>13, ServerAnswers
<1> QED BY <1>1, <1>2, <1>5, <1>9, <1>10, <1>14, ServerGoes

LEMMA ReadableUnimplemented == ASSUME ReadableInv, Queues, Unimplemented PROVE ReadableInv'
<1>1. PICK types : /\ spc = "loop" /\ Get(types) /\ Answer("UNIMPLEMENTED", <<recvid'>>)
                   /\ Got.type \notin {"CHANNEL", "KEXINIT", "IGNORE", "DISCONNECT"}
                   /\ UNCHANGED <<spc, kexrecv, kexsend, why, kexname, follows, guess, rekeying,
                                  authorized, hash, sessionid, skey>>
  BY DEF Unimplemented, Rejoin
<1>2. spc # "dead" /\ UNCHANGED clientVars
  BY <1>1 DEF Get
<1>3. ServerKeeps
  BY <1>2 DEF ReadableInv, ServerInv
<1>4. Terms' = Terms /\ UNCHANGED <<prefs, first, guessed>>
  BY <1>2 DEF clientVars, Terms
<1>5. ASSUME NEW t \in Stages, ServerReads(Terms, ServerStage, Got, t)
      PROVE  ServerStage' = t
  BY <1>1, <1>2, <1>5 DEF ServerReads, ServerStage, Stage, AuthTypes
<1>6. ServerKeeps'
  BY <1>1, <1>3, <1>4 DEF ServerKeeps, ServerStage, Stage, KeyAt
<1>7. kexrecv \in Nat /\ kexrecv > 0 /\ skey = Key(Terms, kexrecv)
  BY <1>1, <1>3 DEF ServerKeeps, ServerStage, Stage, KeyAt
<1>8. /\ Told = Stage("kex", kexrecv) /\ Told' = Stage("kex", kexrecv)
      /\ Stage("kex", kexrecv) \in Stages
  BY <1>1, <1>7 DEF Told, Stage, Stages
<1>9. ClientReads(Terms, Told, Packet("UNIMPLEMENTED", NoName, <<recvid'>>, skey),
                  Stage("kex", kexrecv))
  BY <1>7, <1>8 DEF ClientReads, Packet, Stage, KeyAt
<1>10. "UNIMPLEMENTED" \notin Answers
  BY DEF Answers
<1>11. cpc # "gone" => ClientChain' /\ OneAnswer'
  BY <1>1, <1>2, <1>8, <1>9, <1>10, ServerAnswers
<1> QED BY <1>1, <1>2, <1>5, <1>6, <1>11, ServerGoes

LEMMA ReadableOutput == ASSUME ReadableInv, Queues, Output PROVE ReadableInv'
<1>1. /\ spc = "loop" /\ Answer("CHANNEL", <<>>) /\ UNCHANGED clientVars
      /\ UNCHANGED <<spc, kexrecv, kexsend, why, kexname, follows, guess, rekeying,
                     authorized, hash, sessionid, skey, toServer>>
  BY DEF Output
<1>2. ServerInv
  BY <1>1 DEF ReadableInv
<1>3. Terms' = Terms /\ UNCHANGED <<prefs, first, cpc>> /\ Misled' = Misled
      /\ (\A b : Ends(b)' <=> Ends(b)) /\ ServerStage' = ServerStage
  BY <1>1, AskedFrame, ClientFrame DEF clientVars, ServerStage
<1>4. ServerKeeps'
  BY <1>1, <1>2, <1>3 DEF ServerInv, ServerKeeps, ServerStage, Stage, KeyAt
<1>5. OneRequest' /\ ServerChain'
  BY <1>1, <1>2, <1>3 DEF ServerInv, OneRequest, ServerChain
<1>6. kexrecv \in Nat /\ kexrecv > 0 /\ skey = Key(Terms, kexrecv)
  BY <1>1, <1>2 DEF ServerInv, ServerKeeps, ServerStage, Stage, KeyAt
<1>7. Told = Stage("kex", kexrecv) /\ Told' = Told /\ Stage("kex", kexrecv) \in Stages
  BY <1>1, <1>6 DEF Told, Stage, Stages
<1> DEFINE m == Packet("CHANNEL", NoName, <<>>, skey)
<1>8. /\ ClientReads(Terms, Told, m, Stage("kex", kexrecv)) /\ m.type \notin Answers
      /\ toClient' = Append(toClient, m)
  BY <1>1, <1>6, <1>7 DEF ClientReads, Packet, Stage, KeyAt, Answers, Answer
<1> HIDE DEF m
<1>9. cpc # "gone" => ClientChain'
  BY <1>1, <1>7, <1>8, ClientChainSend DEF ReadableInv, ClientInv
<1>10. cpc # "gone" => OneAnswer'
  <2> SUFFICES ASSUME cpc # "gone" PROVE OneAnswer'
    OBVIOUS
  <2>1. OneAnswer
    BY <1>1 DEF ReadableInv
  <2>2. \A i \in DOMAIN toClient' : toClient'[i].type \in Answers
                                      => i \in DOMAIN toClient /\ toClient'[i] = toClient[i]
    BY <1>8, AppendElements DEF Queues
  <2> QED BY <1>1, <1>3, <2>1, <2>2 DEF OneAnswer
<1> QED BY <1>1, <1>4, <1>5, <1>9, <1>10, ServerStep, StartedClient DEF ReadableInv

\* Which types of packets a queue has when one is taken or added.
LEMMA HasTail ==
  ASSUME NEW q, Queue(q), q # <<>>, NEW type
  PROVE  /\ Has(Tail(q), type) => Has(q, type)
         /\ Only(q, type) => Only(Tail(q), type)
         /\ Only(q, type) /\ Head(q).type = type => ~Has(Tail(q), type)
         /\ Head(q).type = type => Has(q, type)
<1>1. PICK S : q \in Seq(S)
  BY DEF Queue
<1>2. /\ 1 \in DOMAIN q /\ Head(q) = q[1]
      /\ \A i \in DOMAIN Tail(q) : /\ i \in Int /\ i + 1 \in DOMAIN q /\ i + 1 # 1
                                   /\ Tail(q)[i] = q[i + 1]
  BY <1>1
<1>3. \A i, j \in Int : i + 1 = j + 1 => i = j
  OBVIOUS
<1> QED BY <1>2, <1>3 DEF Has, Only

LEMMA HasAppend ==
  ASSUME NEW q, Queue(q), NEW m, NEW type
  PROVE  /\ Has(Append(q, m), type) <=> Has(q, type) \/ m.type = type
         /\ Only(q, type) /\ (m.type = type => ~Has(q, type)) => Only(Append(q, m), type)
<1>1. /\ DOMAIN Append(q, m) = DOMAIN q \cup {Len(q) + 1}
      /\ Append(q, m)[Len(q) + 1] = m
      /\ \A i \in DOMAIN q : Append(q, m)[i] = q[i]
  BY AppendElements
<1> QED BY <1>1 DEF Has, Only

\* A packet that is sent is added to the queue.
LEMMA SendAppends ==
  ASSUME NEW q, Queue(q), NEW m PROVE q \o <<m>> = Append(q, m)
<1>1. PICK S : q \in Seq(S)
  BY DEF Queue
<1>2. q \in Seq(S \cup {m})
  BY <1>1
<1> QED BY <1>2

LEMMA SendAppendsTwo ==
  ASSUME NEW q, Queue(q), NEW m, NEW n
  PROVE  q \o <<m, n>> = Append(Append(q, m), n)
<1>1. PICK S : q \in Seq(S)
  BY DEF Queue
<1>2. q \in Seq(S \cup {m, n})
  BY <1>1
<1> QED BY <1>2

----------------------------------------------------------------------------
(* Steps of the client.                                                    *)

LEMMA ClientStep ==
  ASSUME ReadableInv, UNCHANGED <<serverVars, prefs, first>>, Misled => Misled', cpc' # "start",
         cpc' # "gone" => ClientKeeps' /\ ClientChain',
         spc # "dead" => OneRequest' /\ ServerChain',
         spc # "dead" /\ cpc' # "gone" => OneAnswer',
         cpc # "gone"
  PROVE  ReadableInv'
<1>1. Terms' = Terms /\ UNCHANGED <<spc, why>>
  BY DEF Terms, serverVars
<1>2. spc' # "dead" => ServerInv'
  BY <1>1, ServerFrame DEF ReadableInv, ServerInv
<1> QED BY <1>1, <1>2 DEF ReadableInv, ClientInv

\* The packet the client takes leads to a stage t, and the rest of its queue
\* from there to where the server has brought it.
LEMMA ClientTakes ==
  ASSUME ReadableInv, Queues, cpc # "gone", NEW type, CGet(type)
  PROVE  \E t \in Stages :
           /\ ClientReads(Terms, ClientStage, Head(toClient), t)
           /\ \E b : /\ Chain(Terms, "client", toClient', t, b)
                     /\ spc # "dead" => b = Told
<1>1. toClient # <<>> /\ toClient' = Tail(toClient)
  BY DEF CGet
<1>2. PICK b : Chain(Terms, "client", toClient, ClientStage, b) /\ (spc # "dead" => b = Told)
  BY DEF ReadableInv, ClientInv, ClientChain
<1>3. PICK t \in Stages : /\ Reads(Terms, "client", ClientStage, Head(toClient), t)
                          /\ Chain(Terms, "client", Tail(toClient), t, b)
  BY <1>1, <1>2, ChainTake DEF Queues
<1>4. ClientReads(Terms, ClientStage, Head(toClient), t)
  BY <1>3 DEF Reads
<1> QED BY <1>1, <1>2, <1>3, <1>4

LEMMA ClientGoes ==
  ASSUME ReadableInv, Queues, cpc # "gone", NEW type, CGet(type), UNCHANGED <<prefs, first>>,
         \A t \in Stages : ClientReads(Terms, ClientStage, Head(toClient), t)
                             => ClientStage' = t
  PROVE  ClientChain'
<1>1. UNCHANGED serverVars
  BY DEF CGet
<1>2. Terms' = Terms /\ spc' = spc /\ Told' = Told
  BY <1>1, ServerFrame DEF Terms
<1> QED BY <1>2, ClientTakes DEF ClientChain

\* One more packet on its way to the server.
LEMMA ServerChainSend ==
  ASSUME ServerChain, Queues, UNCHANGED <<serverVars, prefs, first, guessed, ckexsend>>,
         cpc # "gone", NEW m, Send(<<m>>),
         NEW t \in Stages, ServerReads(Terms, Asked, m, t), Ends(t)'
  PROVE  ServerChain'
<1>1. PICK b : Chain(Terms, "server", toServer, ServerStage, b) /\ Ends(b)
  BY DEF ServerChain
<1>2. toServer' = Append(toServer, m)
  <2>1. PICK S : toServer \in Seq(S)
    BY DEF Queues, Queue
  <2>2. toServer \in Seq(S \cup {m})
    BY <2>1
  <2> QED BY <2>2 DEF Send
<1>3. Terms' = Terms /\ Misled' = Misled /\ ServerStage' = ServerStage
  BY MisledFrame, ServerFrame
<1>4. CASE b = Asked
  <2>1. Reads(Terms, "server", b, m, t)
    BY <1>4 DEF Reads
  <2>2. Chain(Terms, "server", toServer', ServerStage, t)
    BY <1>1, <1>2, <2>1, ChainSend DEF Queues
  <2> QED BY <1>3, <2>2 DEF ServerChain
<1>5. CASE Misled /\ b = Stage("dead", ckexsend)
  <2>1. b \in Stages
    BY <1>1, ChainEnds DEF Queues
  <2>2. Reads(Terms, "server", b, m, b)
    BY <1>5 DEF Reads, ServerReads, Stage
  <2>3. Chain(Terms, "server", toServer', ServerStage, b)
    BY <1>1, <1>2, <2>1, <2>2, ChainSend DEF Queues
  <2>4. Ends(b)'
    BY <1>3, <1>5 DEF Ends, Stage
  <2> QED BY <1>3, <2>3, <2>4 DEF ServerChain
<1> QED BY <1>1, <1>4, <1>5 DEF Ends

\* What the server has still to read of a client that says no more.
LEMMA ServerChainSame ==
  ASSUME ServerChain, UNCHANGED <<serverVars, prefs, first, guessed, ckexsend, toServer>>,
         cpc # "gone", cpc' # "gone" => Asked' = Asked
  PROVE  ServerChain'
<1>1. PICK b : Chain(Terms, "server", toServer, ServerStage, b) /\ Ends(b)
  BY DEF ServerChain
<1>2. Terms' = Terms /\ Misled' = Misled /\ ServerStage' = ServerStage
  BY MisledFrame, ServerFrame
<1>3. Ends(b)'
  BY <1>1, <1>2 DEF Ends
<1> QED BY <1>1, <1>2, <1>3 DEF ServerChain

LEMMA SentElements ==
  ASSUME Queues, NEW m, Send(<<m>>)
  PROVE  /\ \A i \in DOMAIN toServer' :
              \/ i \in DOMAIN toServer /\ toServer'[i] = toServer[i]
              \/ i = Len(toServer) + 1 /\ toServer'[i] = m
         /\ DOMAIN toServer = 1..Len(toServer) /\ Len(toServer) \in Nat
<1>1. PICK S : toServer \in Seq(S)
  BY DEF Queues, Queue
<1>2. toServer \in Seq(S \cup {m})
  BY <1>1
<1>3. toServer' = Append(toServer, m)
  BY <1>2 DEF Send
<1> QED BY <1>3, AppendElements DEF Queues

NoRequests == \A i \in DOMAIN toServer : toServer[i].type \notin Requests
NoAnswers  == \A i \in DOMAIN toClient : toClient[i].type \notin Answers

LEMMA NothingAsked ==
  /\ OneRequest /\ cpc \notin {"service", "auth", "gone"} => NoRequests
  /\ OneAnswer /\ cpc \notin {"service", "auth"} => NoAnswers
  /\ NoRequests' => OneRequest'
  /\ NoAnswers' => OneAnswer'
BY DEF OneRequest, OneAnswer, NoRequests, NoAnswers

LEMMA NoRequestSent ==
  ASSUME Queues, NoRequests, NEW m, Send(<<m>>), m.type \notin Requests
  PROVE  NoRequests'
BY SentElements DEF NoRequests

\* The first answer is the only one.
LEMMA AnswerTaken ==
  ASSUME Queues, NEW type, CGet(type), NoAnswers \/ (OneAnswer /\ type \in Answers)
  PROVE  NoAnswers' /\ (type \in Answers => OneAnswer /\ NoRequests
                                              /\ (type = "SUCCESS" <=> authorized))
<1>1. toClient # <<>> /\ toClient' = Tail(toClient) /\ Head(toClient).type = type
  BY DEF CGet
<1>2. PICK S : toClient \in Seq(S)
  BY DEF Queues, Queue
<1>3. /\ 1 \in DOMAIN toClient /\ Head(toClient) = toClient[1]
      /\ \A i \in DOMAIN toClient' : /\ i + 1 \in DOMAIN toClient /\ i + 1 # 1
                                     /\ toClient'[i] = toClient[i + 1]
  BY <1>1, <1>2
<1>4. CASE NoAnswers
  BY <1>1, <1>3, <1>4 DEF NoAnswers
<1>5. CASE OneAnswer /\ type \in Answers
  <2>1. /\ type = "SUCCESS" <=> authorized
        /\ \A j \in DOMAIN toClient : toClient[j].type \in Answers => j = 1
        /\ \A j \in DOMAIN toServer : toServer[j].type \notin Requests
    BY <1>1, <1>3, <1>5 DEF OneAnswer
  <2>2. NoAnswers'
    BY <1>3, <2>1 DEF NoAnswers
  <2> QED BY <1>5, <2>1, <2>2 DEF NoRequests
<1> QED BY <1>4, <1>5

----------------------------------------------------------------------------
(* The actions of the client.                                              *)

\* A client that is not being authenticated has asked for nothing and has no
\* answer coming, and stays so when it reads or sends something else.
LEMMA Unasked ==
  ASSUME ReadableInv, Queues, spc # "dead", cpc \notin {"service", "auth", "gone"}
  PROVE  /\ NoRequests /\ NoAnswers /\ ServerChain
         /\ toServer' = toServer => OneRequest'
         /\ \A m : Send(<<m>>) /\ m.type \notin Requests => OneRequest'
         /\ toClient' = toClient => OneAnswer'
         /\ \A type : CGet(type) => OneAnswer'
<1>1. OneRequest /\ OneAnswer /\ ServerChain
  BY DEF ReadableInv, ServerInv
<1>2. NoRequests /\ NoAnswers
  BY <1>1, NothingAsked
<1>3. toServer' = toServer => OneRequest'
  BY <1>2, NothingAsked DEF NoRequests
<1>4. ASSUME NEW m, Send(<<m>>), m.type \notin Requests PROVE OneRequest'
  BY <1>2, <1>4, NoRequestSent, NothingAsked
<1>5. toClient' = toClient => OneAnswer'
  BY <1>2, NothingAsked DEF NoAnswers
<1>6. ASSUME NEW type, CGet(type) PROVE OneAnswer'
  BY <1>2, <1>6, AnswerTaken, NothingAsked
<1> QED BY <1>1, <1>2, <1>3, <1>4, <1>5, <1>6

LEMMA ReadableCKexInit == ASSUME ReadableInv, Queues, CKexInit PROVE ReadableInv'
<1>1. /\ cpc = "kexwait" /\ CGet("KEXINIT") /\ ckexrecv' = Head(toClient).id[1]
      /\ UNCHANGED <<prefs, first, guessed, ckexsend, csid, keyIn, keyOut, sent, rekeys>>
  BY DEF CKexInit
<1>2. Head(toClient).type = "KEXINIT" /\ UNCHANGED serverVars
  BY <1>1 DEF CGet
<1>3. ClientKeeps
  BY <1>1 DEF ReadableInv, ClientInv
<1>4. Terms' = Terms /\ Terms.prefs = prefs /\ Terms.first = first /\ Misled' = Misled
  BY <1>1, MisledFrame DEF Terms
<1>5. /\ ckexsend \in Nat /\ ckexsend > 0 /\ keyIn = Key(Terms, ckexsend - 1) /\ keyOut = keyIn
      /\ ClientStage = Stage("kex", ckexsend - 1)
  BY <1>1, <1>3 DEF ClientKeeps, ClientStage, Stage, KeyAt
<1>6. ASSUME NEW t \in Stages, ClientReads(Terms, ClientStage, Head(toClient), t)
      PROVE  Head(toClient).id = <<ckexsend>> /\ t = Stage("reply", ckexsend)
  BY <1>2, <1>5, <1>6 DEF ClientReads, Stage
<1>7. ckexrecv' = ckexsend
  BY <1>1, <1>6, ClientTakes
<1>8. CASE Common(prefs) = {}
  <2>1. cpc' = "gone" /\ toServer' = toServer
    BY <1>8 DEF CKexInit
  <2>2. spc # "dead" => OneRequest' /\ ServerChain'
    BY <1>1, <1>2, <2>1, Unasked, ServerChainSame
  <2> QED BY <1>1, <1>2, <1>4, <2>1, <2>2, ClientStep
<1>9. CASE Common(prefs) # {}
  <2> DEFINE m == KexDhInit(cname', ckexsend)
  <2>1. /\ cname' = Select(prefs) /\ cpc' = "reply"
        /\ chash' = <<ckexsend, ckexrecv', <<ckexsend>>, cname'>>
        /\ IF guessed /\ prefs[1] = cname' THEN toServer' = toServer ELSE Send(<<m>>)
    BY <1>9 DEF CKexInit, Select
  <2>2. cname' = Name(Terms) /\ Agreed(Terms)
    BY <1>4, <1>9, <2>1 DEF Name, Agreed
  <2>3. IF Right THEN toServer' = toServer ELSE Send(<<m>>)
    BY <2>1, <2>2 DEF Right
  <2>4. Right => ~Misled
    BY <1>4, <2>1, <2>2 DEF Right, Misled
  <2>5. chash' = Hash(Terms, ckexsend)
    BY <1>7, <2>1, <2>2 DEF Hash
  <2>6. ClientStage' = Stage("reply", ckexsend)
    BY <1>1, <2>1 DEF ClientStage
  <2>7. ClientKeeps'
    <3>1. keyIn' = KeyAt(Terms', ClientStage')
      BY <1>1, <1>4, <1>5, <2>6 DEF KeyAt, Stage
    <3> QED BY <1>1, <1>3, <1>4, <1>5, <2>1, <2>2, <2>5, <3>1 DEF ClientKeeps
  <2>8. ClientChain'
    BY <1>1, <1>6, <2>6, ClientGoes
  <2>9. /\ Asked = Stage(IF Misled THEN IF guessed THEN "dead" ELSE "skip"
                         ELSE IF Right THEN "newkeys" ELSE "dh", ckexsend)
        /\ Asked' = Stage(IF Misled THEN IF guessed THEN "dead" ELSE "dh" ELSE "newkeys",
                          ckexsend)
    <3>1. UNCHANGED <<prefs, guessed, ckexsend>>
      BY <1>1
    <3> QED BY <1>1, <1>4, <2>1, <2>2, <3>1 DEF Asked
  <2>10. m.type = "KEXDH" /\ m.name = Name(Terms) /\ m.id = <<ckexsend>>
         /\ m.key = Key(Terms, ckexsend - 1)
    BY <1>5, <2>2 DEF KexDhInit, Packet
  <2> HIDE DEF m
  <2>11. spc # "dead" => OneRequest' /\ ServerChain'
    <3> SUFFICES ASSUME spc # "dead" PROVE OneRequest' /\ ServerChain'
      OBVIOUS
    <3>1. CASE Right
      <4>1. Asked' = Asked
        BY <2>4, <2>9, <3>1
      <4> QED BY <1>1, <1>2, <2>3, <3>1, <4>1, Unasked, ServerChainSame
    <3>2. CASE ~Right
      <4> PICK t : t = Stage(IF Misled THEN IF guessed THEN "dead" ELSE "dh" ELSE "newkeys",
                             ckexsend)
        OBVIOUS
      <4>1. ServerReads(Terms, Asked, m, t)
        <5>1. CASE Misled /\ guessed
          <6>1. Asked = Stage("dead", ckexsend) /\ t = Asked
            BY <2>9, <5>1
          <6> QED BY <6>1 DEF ServerReads, Stage
        <5>2. CASE Misled /\ ~guessed
          <6>1. Asked = Stage("skip", ckexsend) /\ t = Stage("dh", ckexsend)
            BY <2>9, <5>2
          <6> QED BY <2>10, <6>1 DEF ServerReads, Stage, KeyAt
        <5>3. CASE ~Misled
          <6>1. Asked = Stage("dh", ckexsend) /\ t = Stage("newkeys", ckexsend)
            BY <2>9, <3>2, <5>3
          <6> QED BY <2>10, <6>1 DEF ServerReads, Stage, KeyAt
        <5> QED BY <5>1, <5>2, <5>3
      <4>2. m.type \notin Requests
        BY <2>10 DEF Requests, AuthTypes
      <4>3. OneRequest'
        BY <1>1, <2>3, <3>2, <4>2, Unasked
      <4>4. t \in Stages /\ Ends(t)'
        <5>1. t = Asked' /\ (t.at = "dead" => Misled')
          BY <1>4, <2>9 DEF Stage
        <5>2. t \in Stages
          BY <1>5 DEF Stage, Stages
        <5> QED BY <5>1, <5>2 DEF Ends
      <4>5. ServerChain'
        BY <1>1, <1>2, <2>3, <3>2, <4>1, <4>4, Unasked, ServerChainSend
      <4> QED BY <4>3, <4>5
    <3> QED BY <3>1, <3>2
  <2>12. spc # "dead" => OneAnswer'
    BY <1>1, Unasked
  <2> QED BY <1>1, <1>2, <1>4, <2>1, <2>7, <2>8, <2>11, <2>12, ClientStep
<1> QED BY <1>8, <1>9

LEMMA HashesDiffer ==
  ASSUME NEW c, NEW n \in Nat PROVE Hash(c, n) # <<>> /\ (Hash(c, n) = Hash(c, 1) <=> n = 1)
BY DEF Hash

\* A stage to send from and to, when no one has been misled.
LEMMA EndsAsked ==
  ASSUME NEW t, Asked' = t, t.at # "dead"
  PROVE  Ends(t)'
BY DEF Ends

LEMMA ReadableCReply == ASSUME ReadableInv, ReplyInv, Queues, CReply PROVE ReadableInv'
<1>1. /\ cpc = "reply" /\ CGet("REPLY")
      /\ UNCHANGED <<prefs, first, guessed, cname, ckexsend, ckexrecv, chash, keyIn, sent, rekeys>>
  BY DEF CReply
<1>2. Head(toClient).type = "REPLY" /\ UNCHANGED serverVars
  BY <1>1 DEF CGet
<1>3. ClientKeeps
  BY <1>1 DEF ReadableInv, ClientInv
<1>4. Terms' = Terms /\ ~Misled /\ ~Misled'
  <2>1. Has(toClient, "REPLY")
    BY <1>1, <1>2, HasTail DEF Queues, CGet
  <2> QED BY <1>1, <2>1, MisledFrame DEF ReplyInv
<1>5. /\ ckexsend \in Nat /\ ckexsend > 0 /\ keyIn = Key(Terms, ckexsend - 1) /\ keyOut = keyIn
      /\ ClientStage = Stage("reply", ckexsend) /\ chash = Hash(Terms, ckexsend)
      /\ csid = IF ckexsend = 1 THEN <<>> ELSE Hash(Terms, 1)
  BY <1>1, <1>3 DEF ClientKeeps, ClientStage, Stage, KeyAt
<1>6. ASSUME NEW t \in Stages, ClientReads(Terms, ClientStage, Head(toClient), t)
      PROVE  Head(toClient).id = Hash(Terms, ckexsend) /\ t = Stage("newkeys", ckexsend)
  BY <1>2, <1>5, <1>6 DEF ClientReads, Stage
<1>7. Head(toClient).id = chash
  BY <1>1, <1>5, <1>6, ClientTakes
<1> DEFINE m == Packet("NEWKEYS", NoName, <<>>, keyOut)
<1>8. /\ csid' = (IF csid = <<>> THEN chash ELSE csid) /\ Send(<<m>>)
      /\ keyOut' = <<chash, csid'>> /\ cpc' = "newkeys"
  BY <1>7 DEF CReply
<1>9. csid' = Hash(Terms, 1)
  BY <1>5, <1>8, HashesDiffer
<1>10. ClientStage' = Stage("newkeys", ckexsend)
  BY <1>1, <1>8 DEF ClientStage
<1>11. ClientKeeps'
  <2>1. keyIn' = KeyAt(Terms', ClientStage')
    BY <1>1, <1>4, <1>5, <1>10 DEF KeyAt, Stage
  <2>2. keyOut' = Key(Terms, ckexsend)
    BY <1>5, <1>8, <1>9 DEF Key
  <2> QED BY <1>1, <1>3, <1>4, <1>5, <1>8, <1>9, <2>1, <2>2 DEF ClientKeeps
<1>12. ClientChain'
  BY <1>1, <1>6, <1>10, ClientGoes
<1> PICK after : after = Stage(IF ckexsend = 1 THEN "service" ELSE "loop", ckexsend)
  OBVIOUS
<1>13. Asked = Stage("newkeys", ckexsend) /\ Asked' = after /\ after \in Stages
  BY <1>1, <1>4, <1>5, <1>8 DEF Asked, Stage, Stages
<1>14. ServerReads(Terms, Asked, m, after) /\ m.type \notin Requests /\ after.at # "dead"
  BY <1>5, <1>13 DEF ServerReads, Stage, KeyAt, Packet, Requests, AuthTypes
<1> HIDE DEF m
<1>15. Ends(after)'
  BY <1>13, <1>14, EndsAsked
<1>16. spc # "dead" => OneRequest' /\ ServerChain' /\ OneAnswer'
  BY <1>1, <1>2, <1>8, <1>13, <1>14, <1>15, Unasked, ServerChainSend
<1> QED BY <1>1, <1>2, <1>4, <1>8, <1>11, <1>12, <1>16, ClientStep

\* The client asks for authentication before the server has it authorised.
LEMMA ReadableCNewKeys == ASSUME ReadableInv, Queues, CNewKeys PROVE ReadableInv'
<1>1. /\ cpc = "newkeys" /\ CGet("NEWKEYS") /\ keyIn' = <<chash, csid>>
      /\ UNCHANGED <<prefs, first, guessed, cname, ckexsend, ckexrecv, chash, csid, keyOut>>
  BY DEF CNewKeys
<1>2. Head(toClient).type = "NEWKEYS" /\ UNCHANGED serverVars
  BY <1>1 DEF CGet
<1>3. ClientKeeps
  BY <1>1 DEF ReadableInv, ClientInv
<1>4. Terms' = Terms /\ Misled' = Misled
  BY <1>1, MisledFrame
<1>5. /\ ckexsend \in Nat /\ ckexsend > 0 /\ keyOut = Key(Terms, ckexsend)
      /\ ClientStage = Stage("newkeys", ckexsend) /\ chash = Hash(Terms, ckexsend)
      /\ csid = Hash(Terms, 1) /\ (chash = csid <=> ckexsend = 1)
  BY <1>1, <1>3, HashesDiffer DEF ClientKeeps, ClientStage, Stage
<1>6. ASSUME NEW t \in Stages, ClientReads(Terms, ClientStage, Head(toClient), t)
      PROVE  t = Stage(IF ckexsend = 1 THEN "accept" ELSE "kex", ckexsend)
  BY <1>2, <1>5, <1>6 DEF ClientReads, Stage
<1>7. keyIn' = Key(Terms, ckexsend)
  BY <1>1, <1>5 DEF Key
<1>8. cpc' = IF ckexsend = 1 THEN "service" ELSE "ready"
  BY <1>5 DEF CNewKeys
<1>9. ClientStage' = Stage(IF ckexsend = 1 THEN "accept" ELSE "kex", ckexsend)
  BY <1>1, <1>8 DEF ClientStage
<1>10. ClientChain'
  BY <1>1, <1>6, <1>9, ClientGoes
<1>11. ClientKeeps'
  <2>1. keyIn' = KeyAt(Terms', ClientStage')
    BY <1>4, <1>7, <1>9 DEF KeyAt, Stage
  <2> QED BY <1>1, <1>3, <1>4, <1>5, <1>7, <1>8, <2>1 DEF ClientKeeps
<1>12. CASE ckexsend = 1
  <2> DEFINE m == Packet("SERVICE", NoName, <<>>, keyOut)
  <2>1. Send(<<m>>) /\ cpc' = "service"
    BY <1>5, <1>8, <1>12 DEF CNewKeys
  <2>2. /\ Asked = Stage("service", 1) /\ Asked' = Stage("auth", 1)
        /\ Stage("auth", 1) \in Stages /\ Stage("auth", 1).at # "dead"
    BY <1>1, <1>12, <2>1 DEF Asked, Stage, Stages
  <2>3. ServerReads(Terms, Asked, m, Stage("auth", 1))
    BY <1>5, <1>12, <2>2 DEF ServerReads, Stage, KeyAt, Packet
  <2> HIDE DEF m
  <2>4. ASSUME spc # "dead" PROVE OneRequest' /\ ServerChain' /\ OneAnswer'
    <3>1. NoRequests /\ NoAnswers /\ ServerChain /\ OneAnswer'
      BY <1>1, <2>4, Unasked
    <3>2. ServerChain'
      BY <1>1, <1>2, <2>1, <2>2, <2>3, <3>1, EndsAsked, ServerChainSend
    <3>3. NoAnswers'
      BY <1>1, <3>1, AnswerTaken
    <3>4. ~authorized
      <4> SUFFICES ASSUME authorized PROVE FALSE
        OBVIOUS
      <4>1. Told.at # "accept"
        BY <2>4 DEF ReadableInv, ServerInv, ServerKeeps, Told, Stage
      <4>2. PICK t \in Stages : /\ ClientReads(Terms, ClientStage, Head(toClient), t)
                                /\ Chain(Terms, "client", toClient', t, Told)
        BY <1>1, <2>4, ClientTakes
      <4>3. t.at = "accept"
        BY <1>6, <1>12, <4>2 DEF Stage
      <4>4. Queue(toClient')
        BY <1>1, ClientTook
      <4> QED BY <3>3, <4>1, <4>2, <4>3, <4>4, AcceptLeads DEF NoAnswers
    <3>5. OneRequest'
      <4>1. UNCHANGED authorized
        BY <1>2 DEF serverVars
      <4>2. \A i \in DOMAIN toServer' : toServer'[i].type \in Requests => i = Len(toServer) + 1
        BY <2>1, <3>1, SentElements DEF NoRequests
      <4>3. \A i \in DOMAIN toServer' : i \in Nat /\ i <= Len(toServer) + 1
        BY <2>1, SentElements
      <4>4. Len(toServer) \in Nat
        BY <2>1, SentElements
      <4>5. \A i, j \in DOMAIN toServer' : toServer'[i].type \in Requests => ~(i < j)
        BY <4>2, <4>3, <4>4
      <4> QED BY <2>1, <3>4, <4>1, <4>5 DEF OneRequest
    <3> QED BY <3>1, <3>2, <3>5
  <2> QED BY <1>1, <1>2, <1>4, <1>10, <1>11, <2>1, <2>4, ClientStep
<1>13. CASE ckexsend # 1
  <2>1. toServer' = toServer /\ cpc' = "ready"
    BY <1>5, <1>8, <1>13 DEF CNewKeys
  <2>2. Asked' = Asked
    BY <1>1, <1>13, <2>1 DEF Asked, Stage
  <2>3. spc # "dead" => OneRequest' /\ ServerChain' /\ OneAnswer'
    BY <1>1, <1>2, <2>1, <2>2, Unasked, ServerChainSame
  <2> QED BY <1>1, <1>2, <1>4, <1>10, <1>11, <2>1, <2>3, ClientStep
<1> QED BY <1>12, <1>13

LEMMA ReadableCAuth == ASSUME ReadableInv, Queues, CAuth PROVE ReadableInv'
<1>1. /\ cpc \in {"service", "auth"} /\ cpc' = "auth"
      /\ UNCHANGED <<prefs, first, guessed, cname, ckexsend, ckexrecv, chash, csid, keyIn, keyOut>>
  BY DEF CAuth
<1>2. PICK type : /\ CGet(type) /\ type \in {"ACCEPT", "PK_OK", "FAILURE"}
                  /\ cpc = "service" <=> type = "ACCEPT"
  BY DEF CAuth
<1>3. PICK t \in AuthTypes : Send(<<Packet(t, NoName, csid, keyOut)>>)
  BY Zenon DEF CAuth
<1>4. Head(toClient).type = type /\ UNCHANGED serverVars
  BY <1>2 DEF CGet
<1>5. ClientKeeps
  BY <1>1 DEF ReadableInv, ClientInv
<1>6. Terms' = Terms /\ Misled' = Misled
  BY <1>1, MisledFrame
<1>7. /\ ckexsend = 1 /\ keyIn = Key(Terms, 1) /\ keyOut = keyIn /\ csid = Hash(Terms, 1)
      /\ ClientStage = Stage(IF cpc = "service" THEN "accept" ELSE "answer", 1)
  BY <1>1, <1>5 DEF ClientKeeps, ClientStage, Stage, KeyAt
<1>8. ClientStage' = Stage("answer", 1)
  BY <1>1, <1>7 DEF ClientStage
<1>9. ASSUME NEW s \in Stages, ClientReads(Terms, ClientStage, Head(toClient), s)
      PROVE  ClientStage' = s
  BY <1>2, <1>4, <1>7, <1>8, <1>9 DEF ClientReads, Stage
<1>10. ClientChain'
  BY <1>1, <1>2, <1>9, ClientGoes
<1>11. ClientKeeps'
  <2>1. keyIn' = KeyAt(Terms', ClientStage')
    BY <1>1, <1>6, <1>7, <1>8 DEF KeyAt, Stage
  <2> QED BY <1>1, <1>5, <1>6, <1>7, <2>1 DEF ClientKeeps
<1> DEFINE m == Packet(t, NoName, csid, keyOut)
<1>12. m.type = t /\ m.id = Hash(Terms, 1) /\ m.key = Key(Terms, 1) /\ m.type \in AuthTypes
  BY <1>7 DEF Packet
<1> HIDE DEF m
<1>13. ASSUME spc # "dead" PROVE OneRequest' /\ ServerChain' /\ OneAnswer'
  <2>1. OneRequest /\ OneAnswer /\ ServerChain
    BY <1>1, <1>13 DEF ReadableInv, ServerInv
  <2>2. NoAnswers' /\ NoRequests /\ ~authorized
    <3>1. type \in Answers /\ type # "SUCCESS"
      BY <1>2 DEF Answers
    <3> QED BY <1>2, <2>1, <3>1, AnswerTaken
  <2>3. UNCHANGED authorized
    BY <1>4 DEF serverVars
  <2>4. /\ Asked = Stage("auth", 1) /\ Asked' = Stage("auth", 1)
        /\ Stage("auth", 1) \in Stages /\ Stage("auth", 1).at # "dead"
    BY <1>1, <1>7, <2>2, <2>3 DEF Asked, Stage, Stages
  <2>5. ServerReads(Terms, Asked, m, Stage("auth", 1))
    BY <1>12, <2>4 DEF ServerReads, Stage, KeyAt
  <2>6. Send(<<m>>)
    BY <1>3 DEF m
  <2>7. ServerChain'
    BY <1>1, <1>4, <2>1, <2>4, <2>5, <2>6, EndsAsked, ServerChainSend
  <2>8. OneRequest'
    <3>1. \A i \in DOMAIN toServer' : toServer'[i].type \in Requests => i = Len(toServer) + 1
      BY <2>2, <2>6, SentElements DEF NoRequests
    <3>2. \A i \in DOMAIN toServer' : i \in Nat /\ i <= Len(toServer) + 1
      BY <2>6, SentElements
    <3>3. Len(toServer) \in Nat
      BY <2>6, SentElements
    <3>4. \A i, j \in DOMAIN toServer' : toServer'[i].type \in Requests => ~(i < j)
      BY <3>1, <3>2, <3>3
    <3> QED BY <1>1, <2>2, <2>3, <3>4 DEF OneRequest
  <2>9. OneAnswer'
    BY <2>2, NothingAsked
  <2> QED BY <2>7, <2>8, <2>9
<1> QED BY <1>1, <1>4, <1>6, <1>10, <1>11, <1>13, ClientStep

LEMMA ReadableCSuccess == ASSUME ReadableInv, Queues, CSuccess PROVE ReadableInv'
<1>1. /\ cpc = "auth" /\ cpc' = "ready" /\ CGet("SUCCESS")
      /\ UNCHANGED <<toServer, prefs, first, guessed, cname, ckexsend, ckexrecv, chash, csid,
                     keyIn, keyOut>>
  BY DEF CSuccess
<1>2. Head(toClient).type = "SUCCESS" /\ UNCHANGED serverVars
  BY <1>1 DEF CGet
<1>3. ClientKeeps
  BY <1>1 DEF ReadableInv, ClientInv
<1>4. Terms' = Terms /\ Misled' = Misled
  BY <1>1, MisledFrame
<1>5. /\ ckexsend = 1 /\ keyIn = Key(Terms, 1) /\ keyOut = keyIn
      /\ ClientStage = Stage("answer", 1)
  BY <1>1, <1>3 DEF ClientKeeps, ClientStage, Stage, KeyAt
<1>6. ClientStage' = Stage("kex", 1)
  BY <1>1, <1>5 DEF ClientStage
<1>7. ASSUME NEW s \in Stages, ClientReads(Terms, ClientStage, Head(toClient), s)
      PROVE  ClientStage' = s
  BY <1>2, <1>5, <1>6, <1>7 DEF ClientReads, Stage
<1>8. ClientChain'
  BY <1>1, <1>7, ClientGoes
<1>9. ClientKeeps'
  <2>1. keyIn' = KeyAt(Terms', ClientStage')
    BY <1>1, <1>4, <1>5, <1>6 DEF KeyAt, Stage
  <2> QED BY <1>1, <1>3, <1>4, <1>5, <2>1 DEF ClientKeeps
<1>10. ASSUME spc # "dead" PROVE OneRequest' /\ ServerChain' /\ OneAnswer'
  <2>1. OneAnswer /\ ServerChain
    BY <1>1, <1>10 DEF ReadableInv, ServerInv
  <2>2. NoAnswers' /\ NoRequests /\ authorized
    BY <1>1, <2>1, AnswerTaken DEF Answers
  <2>3. UNCHANGED authorized /\ NoRequests'
    BY <1>1, <1>2, <2>2 DEF serverVars, NoRequests
  <2>4. Asked' = Asked
    BY <1>1, <2>2, <2>3 DEF Asked, Stage
  <2> QED BY <1>1, <1>2, <2>1, <2>2, <2>3, <2>4, ServerChainSame, NothingAsked
<1> QED BY <1>1, <1>2, <1>4, <1>8, <1>9, <1>10, ClientStep

LEMMA ReadableCChannel == ASSUME ReadableInv, Queues, CChannel PROVE ReadableInv'
<1>1. /\ cpc \in {"kexwait", "ready"} /\ UNCHANGED <<toServer, clientVars>>
  BY DEF CChannel
<1>2. PICK type \in {"CHANNEL", "UNIMPLEMENTED"} : CGet(type)
  BY DEF CChannel
<1>3. Head(toClient).type = type /\ UNCHANGED <<serverVars, prefs, first, guessed, ckexsend, cpc>>
  BY <1>1, <1>2 DEF CGet, clientVars
<1>4. ClientKeeps /\ ClientStage' = ClientStage /\ ClientKeeps'
  BY <1>1, ClientFrame DEF ReadableInv, ClientInv
<1>5. ClientStage.at = "kex"
  BY <1>1 DEF ClientStage, Stage
<1>6. ASSUME NEW s \in Stages, ClientReads(Terms, ClientStage, Head(toClient), s)
      PROVE  ClientStage' = s
  BY <1>3, <1>4, <1>5, <1>6 DEF ClientReads
<1>7. ClientChain'
  BY <1>1, <1>2, <1>3, <1>6, ClientGoes
<1>8. Asked' = Asked
  BY <1>1, <1>3, AskedFrame DEF serverVars
<1>9. spc # "dead" => OneRequest' /\ ServerChain' /\ OneAnswer'
  BY <1>1, <1>2, <1>3, <1>8, Unasked, ServerChainSame
<1> QED BY <1>1, <1>3, <1>4, <1>7, <1>9, MisledFrame, ClientStep

\* What is ignored may follow a request.
LEMMA IgnoredBehind ==
  ASSUME Queues, OneRequest, UNCHANGED <<serverVars, prefs, first>>,
         cpc' \in {cpc, "gone"}, NEW m, Send(<<m>>),
         m.type \in {"IGNORE", "DISCONNECT"}, m.key = Key(Terms, 1)
  PROVE  OneRequest'
<1>1. Terms' = Terms /\ UNCHANGED authorized
  BY DEF Terms, serverVars
<1>2. m.type \notin Requests
  BY DEF Requests, AuthTypes
<1>3. /\ \A i \in DOMAIN toServer' :
           \/ i \in DOMAIN toServer /\ toServer'[i] = toServer[i]
           \/ i = Len(toServer) + 1 /\ toServer'[i] = m
  BY SentElements
<1> SUFFICES ASSUME NEW i \in DOMAIN toServer', toServer'[i].type \in Requests
             PROVE  /\ ~authorized' /\ cpc' \in {"service", "auth", "gone"}
                    /\ \A j \in DOMAIN toServer' :
                         i < j => /\ toServer'[j].type \in {"IGNORE", "DISCONNECT"}
                                  /\ toServer'[j].key = Key(Terms', 1)
  BY DEF OneRequest
<1>4. i \in DOMAIN toServer /\ toServer[i].type \in Requests
  BY <1>2, <1>3
<1>5. /\ ~authorized /\ cpc \in {"service", "auth", "gone"}
      /\ \A j \in DOMAIN toServer :
           i < j => /\ toServer[j].type \in {"IGNORE", "DISCONNECT"}
                    /\ toServer[j].key = Key(Terms, 1)
  BY <1>4 DEF OneRequest
<1> QED BY <1>1, <1>3, <1>5

LEMMA ReadableCSend == ASSUME ReadableInv, Queues, CSend PROVE ReadableInv'
<1>1. UNCHANGED <<serverVars, toClient, cpc, prefs, first, guessed, cname, ckexsend, ckexrecv,
                  chash, csid, keyIn, keyOut>>
  BY DEF CSend
<1>2. PICK t \in LoopTypes : /\ \/ cpc = "ready"
                                \/ t = "IGNORE" /\ cpc \in {"service", "auth"}
                                \/ t = "UNKNOWN" /\ cpc = "reply"
                             /\ Send(<<Packet(t, NoName, <<>>, keyOut)>>)
  BY Zenon DEF CSend
<1> DEFINE m == Packet(t, NoName, <<>>, keyOut)
<1>3. m.type = t /\ m.key = keyOut /\ Send(<<m>>) /\ t \in {"CHANNEL", "UNKNOWN", "IGNORE"}
  BY <1>2 DEF Packet, LoopTypes
<1> HIDE DEF m
<1>4. ClientInv /\ ClientKeeps /\ ClientChain
  BY <1>2 DEF ReadableInv, ClientInv
<1>5. /\ Terms' = Terms /\ Misled' = Misled /\ ClientStage' = ClientStage /\ Told' = Told
      /\ Asked' = Asked /\ spc' = spc
  <2>1. Terms' = Terms /\ Misled' = Misled /\ UNCHANGED <<spc, authorized>>
    BY <1>1, MisledFrame DEF serverVars
  <2> QED BY <1>1, <2>1, ServerFrame DEF ClientStage, Asked, Right
<1>6. ClientKeeps' /\ ClientChain'
  BY <1>1, <1>4, <1>5 DEF ClientKeeps, ClientChain
<1> DEFINE lost == t = "UNKNOWN" /\ cpc = "reply" /\ Misled /\ ~guessed
<1> PICK to : to = IF lost THEN Stage("dead", ckexsend) ELSE Asked
  OBVIOUS
<1>7. ckexsend \in Nat /\ Asked \in Stages
  BY <1>2, <1>4, StageTypes DEF ClientKeeps
<1>8. ASSUME spc # "dead" PROVE OneRequest' /\ ServerChain' /\ OneAnswer'
  <2>1. OneRequest /\ OneAnswer /\ ServerChain
    BY <1>2, <1>8 DEF ReadableInv, ServerInv
  <2>2. ServerReads(Terms, Asked, m, to)
    <3>1. CASE cpc = "ready"
      <4>1. Asked = Stage("loop", ckexsend) /\ keyOut = Key(Terms, ckexsend)
        BY <1>4, <3>1 DEF Asked, ClientKeeps, KeyAt, ClientStage, Stage
      <4> QED BY <1>3, <3>1, <4>1 DEF ServerReads, Stage, KeyAt
    <3>2. CASE t = "IGNORE" /\ cpc \in {"service", "auth"}
      <4>1. /\ Asked = Stage(IF cpc = "auth" /\ authorized THEN "loop" ELSE "auth", ckexsend)
            /\ keyOut = Key(Terms, ckexsend)
        BY <1>4, <3>2 DEF Asked, ClientKeeps, KeyAt, ClientStage, Stage
      <4> QED BY <1>3, <3>2, <4>1 DEF ServerReads, Stage, KeyAt
    <3>3. CASE t = "UNKNOWN" /\ cpc = "reply"
      <4>1. keyOut = Key(Terms, ckexsend - 1)
        BY <1>4, <3>3 DEF ClientKeeps, KeyAt, ClientStage, Stage
      <4>2. CASE ~Misled
        <5>1. Asked = Stage("newkeys", ckexsend) /\ to = Asked
          BY <3>3, <4>2 DEF Asked
        <5> QED BY <1>3, <3>3, <4>1, <5>1 DEF ServerReads, Stage, KeyAt
      <4>3. CASE Misled /\ guessed
        <5>1. Asked = Stage("dead", ckexsend) /\ to = Asked
          BY <3>3, <4>3 DEF Asked
        <5> QED BY <5>1 DEF ServerReads, Stage
      <4>4. CASE lost
        <5>1. Asked = Stage("dh", ckexsend) /\ to = Stage("dead", ckexsend)
          BY <4>4 DEF Asked
        <5>2. ckexsend > 1 /\ ~FirstChoice(Terms) /\ Terms.first
          BY <1>4, <4>4 DEF Misled, FirstChoice, Name, Terms, ClientKeeps
        <5> QED BY <1>3, <3>3, <4>1, <5>1, <5>2 DEF ServerReads, Stage, KeyAt
      <4> QED BY <3>3, <4>2, <4>3, <4>4
    <3> QED BY <1>2, <3>1, <3>2, <3>3
  <2>3. ServerChain'
    <3>1. to \in Stages
      BY <1>7 DEF Stage, Stages
    <3>2. Ends(to)'
      <4>1. CASE lost
        BY <1>1, <1>5, <4>1 DEF Ends, Stage
      <4>2. CASE ~lost
        <5>1. Asked.at = "dead" => Misled \/ ~Agreed(Terms)
          BY DEF Asked, Stage
        <5> QED BY <1>5, <4>2, <5>1 DEF Ends
      <4> QED BY <4>1, <4>2
    <3> QED BY <1>1, <1>2, <1>3, <2>1, <2>2, <3>1, <3>2, ServerChainSend
  <2>4. m.type \notin Requests
    BY <1>3 DEF Requests, AuthTypes
  <2>5. OneRequest'
    <3>1. CASE cpc \in {"service", "auth"}
      <4>1. t = "IGNORE" /\ keyOut = Key(Terms, 1)
        BY <1>2, <1>4, <3>1 DEF ClientKeeps, KeyAt, ClientStage, Stage
      <4> QED BY <1>1, <1>3, <2>1, <4>1, IgnoredBehind
    <3>2. CASE cpc \notin {"service", "auth"}
      BY <1>2, <1>3, <1>8, <2>4, <3>2, Unasked
    <3> QED BY <3>1, <3>2
  <2>6. OneAnswer'
    <3>1. \A i \in DOMAIN toServer' : toServer'[i].type \in Requests
                                        => i \in DOMAIN toServer /\ toServer'[i] = toServer[i]
      BY <1>3, <2>4, SentElements
    <3>2. UNCHANGED authorized
      BY <1>1 DEF serverVars
    <3> QED BY <1>1, <2>1, <3>1, <3>2 DEF OneAnswer
  <2> QED BY <2>3, <2>5, <2>6
<1> QED BY <1>1, <1>2, <1>5, <1>6, <1>8, ClientStep

LEMMA ReadableCDisconnect == ASSUME ReadableInv, Queues, CDisconnect PROVE ReadableInv'
<1> DEFINE m == Packet("DISCONNECT", NoName, <<>>, keyOut)
<1>1. /\ cpc \notin {"start", "gone", "badhash"} /\ cpc' = "gone" /\ Send(<<m>>)
      /\ UNCHANGED <<serverVars, prefs, first, guessed, ckexsend>>
  BY DEF CDisconnect
<1>2. m.type = "DISCONNECT" /\ m.key = keyOut
  BY DEF Packet
<1> HIDE DEF m
<1>3. ClientKeeps
  BY <1>1 DEF ReadableInv, ClientInv
<1>4. ckexsend \in Nat /\ Asked \in Stages
  BY <1>1, <1>3, StageTypes DEF ClientKeeps
<1>5. ServerReads(Terms, Asked, m, Asked)
  <2>1. CASE cpc = "kexwait" /\ ~Agreed(Terms)
    BY <2>1 DEF Asked, ServerReads, Stage
  <2>2. CASE cpc = "kexwait" /\ Agreed(Terms)
    <3>1. keyOut = Key(Terms, ckexsend - 1)
      BY <1>3, <2>2 DEF ClientKeeps, KeyAt, ClientStage, Stage
    <3>2. Asked.n = ckexsend /\ Asked.at \in {"newkeys", "dh", "skip", "dead"}
      BY <2>2 DEF Asked, Stage
    <3> QED BY <1>2, <3>1, <3>2 DEF ServerReads, KeyAt
  <2>3. CASE cpc = "reply"
    <3>1. keyOut = Key(Terms, ckexsend - 1)
      BY <1>3, <2>3 DEF ClientKeeps, KeyAt, ClientStage, Stage
    <3>2. Asked.n = ckexsend /\ Asked.at \in {"newkeys", "dh", "dead"}
      BY <2>3 DEF Asked, Stage
    <3> QED BY <1>2, <3>1, <3>2 DEF ServerReads, KeyAt
  <2>4. CASE cpc \in {"newkeys", "service", "auth", "ready"}
    <3>1. keyOut = Key(Terms, ckexsend)
      BY <1>3, <2>4 DEF ClientKeeps, KeyAt, ClientStage, Stage
    <3>2. Asked.n = ckexsend /\ Asked.at \in {"service", "auth", "loop"}
      BY <2>4 DEF Asked, Stage
    <3> QED BY <1>2, <3>1, <3>2 DEF ServerReads, KeyAt
  <2> QED BY <1>1, <1>3, <2>1, <2>2, <2>3, <2>4 DEF ClientKeeps
<1>6. ASSUME spc # "dead" PROVE OneRequest' /\ ServerChain'
  <2>1. OneRequest /\ ServerChain
    BY <1>6 DEF ReadableInv, ServerInv
  <2>2. ServerChain'
    <3>1. Asked.at = "dead" => Misled \/ ~Agreed(Terms)
      BY DEF Asked, Stage
    <3>2. PICK to : to = Asked
      OBVIOUS
    <3>3. Ends(to)'
      BY <1>1, <3>1, <3>2, MisledFrame DEF Ends
    <3> QED BY <1>1, <1>4, <1>5, <2>1, <3>2, <3>3, ServerChainSend
  <2>3. CASE cpc \in {"service", "auth"}
    <3>1. keyOut = Key(Terms, 1)
      BY <1>3, <2>3 DEF ClientKeeps, KeyAt, ClientStage, Stage
    <3> QED BY <1>1, <1>2, <2>1, <2>2, <3>1, IgnoredBehind
  <2>4. CASE cpc \notin {"service", "auth"}
    <3>1. m.type \notin Requests
      BY <1>2 DEF Requests, AuthTypes
    <3> QED BY <1>1, <1>6, <2>2, <2>4, <3>1, Unasked
  <2> QED BY <2>3, <2>4
<1> QED BY <1>1, <1>6, MisledFrame, ClientStep

\* The client re-keys: what was agreed on stays, and the server takes the guess
\* of the first exchange for the present one.
LEMMA Restarted ==
  ASSUME ckexsend \in Nat \ {0}, ckexsend' = ckexsend + 1, cpc' = "kexwait",
         UNCHANGED <<prefs, first>>, Agreed(Terms), first \in BOOLEAN, guessed' \in BOOLEAN
  PROVE  /\ Misled' <=> ~FirstChoice(Terms) /\ guessed' # first
         /\ Asked' = Stage(IF guessed' THEN IF FirstChoice(Terms) THEN "newkeys"
                                            ELSE IF first THEN "dh" ELSE "dead"
                           ELSE IF first /\ ~FirstChoice(Terms) THEN "skip" ELSE "dh",
                           ckexsend + 1)
<1>1. ckexsend' > 1 /\ prefs' = prefs /\ first' = first
  OBVIOUS
<1>2. Terms' = Terms /\ (FirstChoice(Terms) <=> prefs[1] = Select(prefs)) /\ Agreed(Terms')
  BY DEF Terms, FirstChoice, Name
<1>3. Misled' <=> ~FirstChoice(Terms) /\ guessed' # first
  BY <1>1, <1>2 DEF Misled
<1>4. Right' <=> guessed' /\ FirstChoice(Terms)
  BY <1>1, <1>2 DEF Right, Terms, Name
<1>5. Asked' = Stage(IF Misled' THEN IF guessed' THEN "dead" ELSE "skip"
                     ELSE IF ~Right' THEN "dh" ELSE "newkeys", ckexsend + 1)
  BY <1>2 DEF Asked
<1> QED BY <1>3, <1>4, <1>5

LEMMA NoneAppended ==
  ASSUME NEW q, Queue(q), \A i \in DOMAIN q : q[i].type \notin Requests,
         NEW m, m.type \notin Requests
  PROVE  \A i \in DOMAIN Append(q, m) : Append(q, m)[i].type \notin Requests
BY AppendElements

LEMMA ReadableRestart == ASSUME ReadableInv, Queues, CStartKex, cpc # "start" PROVE ReadableInv'
<1>1. /\ cpc = "ready" /\ cpc' = "kexwait" /\ ckexsend' = ckexsend + 1 /\ prefs' = prefs
      /\ first' = first
      /\ UNCHANGED <<serverVars, toClient, cname, ckexrecv, chash, csid, keyIn, keyOut>>
  BY DEF CStartKex
<1> DEFINE n     == ckexsend + 1
           start == Stage("loop", ckexsend)
           kex   == Kex(Terms, n)
<1> PICK next : next = Asked'
  OBVIOUS
<1>2. PICK g \in Guesses :
           /\ guessed' = g
           /\ Send(IF g THEN <<KexInit(prefs, g, n), KexDhInit(prefs[1], n)>>
                        ELSE <<KexInit(prefs, g, n)>>)
  BY <1>1 DEF CStartKex
<1>3. ClientKeeps /\ ClientChain /\ ~Misled /\ g \in BOOLEAN
  BY <1>1, GuessAssumption DEF ReadableInv, ClientInv, ClientKeeps
<1>4. /\ ckexsend \in Nat \ {0} /\ n \in Nat /\ n > 1
      /\ keyIn = Key(Terms, ckexsend) /\ keyOut = keyIn
      /\ csid = Hash(Terms, 1) /\ Agreed(Terms) /\ first \in BOOLEAN
  BY <1>1, <1>3 DEF ClientKeeps, KeyAt, ClientStage, Stage
<1>5. Terms' = Terms /\ Terms.prefs = prefs /\ Terms.first = first
  BY <1>1 DEF Terms
<1>6. ClientStage' = ClientStage /\ ClientStage = Stage("kex", ckexsend)
  BY <1>1, <1>4 DEF ClientStage, Stage
<1>7. ClientKeeps'
  <2>1. keyIn' = KeyAt(Terms', ClientStage')
    BY <1>1, <1>4, <1>5, <1>6 DEF KeyAt, Stage
  <2> QED BY <1>1, <1>2, <1>3, <1>4, <1>5, <2>1 DEF ClientKeeps
<1>8. ClientChain'
  BY <1>1, <1>3, <1>5, <1>6, ServerFrame DEF ClientChain
<1> DEFINE init == KexInit(prefs, g, n)
           dh   == KexDhInit(prefs[1], n)
<1>9. /\ init.type = "KEXINIT" /\ init.id = <<n, g>> /\ init.key = Key(Terms, ckexsend)
      /\ dh.type = "KEXDH" /\ dh.name = prefs[1] /\ dh.id = <<n>>
      /\ dh.key = Key(Terms, ckexsend)
  BY <1>4 DEF KexInit, KexDhInit, Packet
<1>10. /\ Misled' <=> ~FirstChoice(Terms) /\ g # first
       /\ next = Stage(IF g THEN IF FirstChoice(Terms) THEN "newkeys"
                                 ELSE IF first THEN "dh" ELSE "dead"
                       ELSE IF first /\ ~FirstChoice(Terms) THEN "skip" ELSE "dh", n)
  BY <1>1, <1>2, <1>3, <1>4, Restarted
<1>11. Asked = start /\ start \in Stages /\ kex \in Stages /\ next \in Stages
  <2>1. Asked = start
    BY <1>1, <1>4 DEF Asked
  <2>2. start \in Stages /\ next \in Stages
    BY <1>4, <1>10 DEF Stage, Stages
  <2>3. kex \in Stages
    BY <1>4, KexStage DEF Stage, Stages
  <2> QED BY <2>1, <2>2, <2>3
<1>12. ServerReads(Terms, start, init, kex)
  BY <1>4, <1>9 DEF ServerReads, KeyAt, Stage
<1>13. kex = Stage(IF first /\ ~FirstChoice(Terms) THEN "skip" ELSE "dh", n)
  BY <1>5 DEF Kex, AfterKex
<1>14. g => ServerReads(Terms, kex, dh, next)
  <2> SUFFICES ASSUME g PROVE ServerReads(Terms, kex, dh, next)
    OBVIOUS
  <2>1. kex.n = n /\ dh.key = KeyAt(Terms, kex) /\ (FirstChoice(Terms) <=> prefs[1] = Name(Terms))
    BY <1>4, <1>5, <1>9, <1>13 DEF KeyAt, Stage, FirstChoice
  <2>2. CASE FirstChoice(Terms)
    <3>1. kex = Stage("dh", n) /\ next = Stage("newkeys", n)
      BY <1>10, <1>13, <2>2
    <3> QED BY <1>9, <2>1, <2>2, <3>1 DEF ServerReads, Stage
  <2>3. CASE ~FirstChoice(Terms) /\ first
    <3>1. kex = Stage("skip", n) /\ next = Stage("dh", n)
      BY <1>10, <1>13, <2>3
    <3> QED BY <1>9, <2>1, <3>1 DEF ServerReads, Stage
  <2>4. CASE ~FirstChoice(Terms) /\ ~first
    <3>1. kex = Stage("dh", n) /\ next = Stage("dead", n)
      BY <1>10, <1>13, <2>4
    <3> QED BY <1>4, <1>5, <1>9, <2>1, <2>4, <3>1 DEF ServerReads, Stage
  <2> QED BY <2>2, <2>3, <2>4
<1>15. ~g => next = kex
  BY <1>10, <1>13
<1>16. Ends(next)'
  <2>1. next.at = "dead" => Misled'
    BY <1>3, <1>4, <1>10 DEF Stage
  <2> QED BY <2>1 DEF Ends
<1>17. init.type \notin Requests /\ dh.type \notin Requests
  BY <1>9 DEF Requests, AuthTypes
<1> HIDE DEF init, dh, n, kex, start
<1>18. toServer' = IF g THEN Append(Append(toServer, init), dh) ELSE Append(toServer, init)
  <2>1. Send(IF g THEN <<init, dh>> ELSE <<init>>)
    BY <1>2 DEF init, dh
  <2> QED BY <2>1, SendAppends, SendAppendsTwo DEF Send, Queues
<1>19. Queue(toServer) /\ Queue(Append(toServer, init))
  BY AppendQueue DEF Queues
<1>20. spc # "dead" => OneRequest' /\ ServerChain' /\ OneAnswer'
  <2> SUFFICES ASSUME spc # "dead" PROVE OneRequest' /\ ServerChain' /\ OneAnswer'
    OBVIOUS
  <2>1. NoRequests /\ ServerChain /\ OneAnswer'
    BY <1>1, Unasked
  <2>2. Chain(Terms, "server", toServer, ServerStage, start)
    BY <1>1, <1>3, <1>11, <2>1 DEF ServerChain, Ends
  <2>3. Chain(Terms, "server", Append(toServer, init), ServerStage, kex)
    BY <1>11, <1>12, <1>19, <2>2, ChainSend DEF Reads
  <2>4. Chain(Terms, "server", toServer', ServerStage, next)
    <3>1. CASE g
      BY <1>11, <1>14, <1>18, <1>19, <2>3, <3>1, ChainSend DEF Reads
    <3>2. CASE ~g
      BY <1>15, <1>18, <2>3, <3>2
    <3> QED BY <3>1, <3>2
  <2>5. ServerChain'
    BY <1>1, <1>5, <1>16, <2>4, ServerFrame DEF ServerChain
  <2>6. NoRequests'
    <3>1. \A i \in DOMAIN Append(toServer, init) : Append(toServer, init)[i].type \notin Requests
      BY <1>17, <1>19, <2>1, NoneAppended DEF NoRequests
    <3>2. \A i \in DOMAIN Append(Append(toServer, init), dh) :
             Append(Append(toServer, init), dh)[i].type \notin Requests
      BY <1>17, <1>19, <3>1, NoneAppended
    <3> QED BY <1>18, <3>1, <3>2 DEF NoRequests
  <2> QED BY <2>1, <2>5, <2>6, NothingAsked
<1> QED BY <1>1, <1>3, <1>7, <1>8, <1>20, ClientStep

\* The client's first KEXINIT, with or without a guess behind it, settles the
\* terms.
LEMMA ReadableStart ==
  ASSUME ReadableInv, Queues, CStartKex, cpc = "start" PROVE ReadableInv'
<1>1. /\ cpc' = "kexwait" /\ ckexsend' = ckexsend + 1
      /\ UNCHANGED <<serverVars, toClient, cname, ckexrecv, chash, csid, keyIn, keyOut>>
  BY DEF CStartKex
<1>2. PICK p \in Preferences, g \in Guesses :
           /\ prefs' = p /\ first' = g /\ guessed' = g
           /\ Send(IF g THEN <<KexInit(p, g, ckexsend'), KexDhInit(p[1], ckexsend')>>
                        ELSE <<KexInit(p, g, ckexsend')>>)
  BY DEF CStartKex
<1>3. ClientKeeps /\ NotStarted
  BY DEF ReadableInv, ClientInv
<1>4. /\ ckexsend = 0 /\ ckexsend' = 1 /\ keyIn = Plain /\ keyOut = Plain /\ csid = <<>>
      /\ spc = "kexinit" /\ toServer = <<>> /\ g \in BOOLEAN
      /\ toClient = <<Packet("KEXINIT", NoName, <<1>>, Plain)>>
  BY <1>1, <1>3, GuessAssumption DEF ClientKeeps, NotStarted, KeyAt, Key, ClientStage, Stage
<1>5. ServerKeeps
  BY <1>4 DEF ReadableInv, ServerInv
<1>6. UNCHANGED <<spc, why, kexname, follows, guess, rekeying, authorized, kexrecv, kexsend, hash,
                  sessionid, skey>>
  BY <1>1 DEF serverVars
<1> DEFINE c == Terms'
<1>7. c.prefs = p /\ c.first = g /\ ~Misled /\ ~Misled'
  BY <1>2, <1>4 DEF Terms, Misled
<1>8. ClientStage' = Stage("kex", 0) /\ ServerStage' = Stage("kexinit", 0)
      /\ Told' = Stage("reply", 1) /\ kexrecv = 0
  BY <1>1, <1>4, <1>5, <1>6 DEF ClientStage, ServerStage, Told, Stage, ServerKeeps
<1>9. ServerKeeps'
  <2>1. skey' = KeyAt(Terms', ServerStage') /\ ~rekeying /\ ~authorized /\ kexsend = 1
    BY <1>4, <1>5, <1>6, <1>8 DEF ServerKeeps, KeyAt, Key, ServerStage, Stage
  <2> QED BY <1>4, <1>5, <1>6, <1>8, <2>1 DEF ServerKeeps
<1>10. ClientKeeps'
  <2>1. keyIn' = KeyAt(Terms', ClientStage')
    BY <1>1, <1>4, <1>8 DEF KeyAt, Key, Stage
  <2> QED BY <1>1, <1>2, <1>4, <1>7, <2>1 DEF ClientKeeps
<1>11. ClientChain'
  <2> DEFINE m == Packet("KEXINIT", NoName, <<1>>, Plain)
  <2>1. Reads(c, "client", Stage("kex", 0), m, Stage("reply", 1))
    BY DEF Reads, ClientReads, Packet, Stage, KeyAt, Key
  <2>2. Stage("kex", 0) \in Stages /\ Stage("reply", 1) \in Stages
    BY DEF Stage, Stages
  <2>3. toClient' = <<m>>
    BY <1>1, <1>4
  <2> HIDE DEF m
  <2> QED BY <1>8, <2>1, <2>2, <2>3, ChainOne DEF ClientChain
<1> DEFINE init == KexInit(p, g, 1)
           dh   == KexDhInit(p[1], 1)
<1>12. /\ init.type = "KEXINIT" /\ init.name = p /\ init.id = <<1, g>> /\ init.key = Plain
       /\ dh.type = "KEXDH" /\ dh.name = p[1] /\ dh.id = <<1>> /\ dh.key = Plain
  BY <1>4 DEF KexInit, KexDhInit, Packet
<1>13. toServer' = IF g THEN <<init, dh>> ELSE <<init>>
  <2>1. Send(IF g THEN <<init, dh>> ELSE <<init>>)
    BY <1>2, <1>4
  <2>2. \A x : <<>> \o <<x>> = <<x>>
    OBVIOUS
  <2>3. \A x, y : <<>> \o <<x, y>> = <<x, y>>
    OBVIOUS
  <2> HIDE DEF init, dh
  <2> QED BY <1>4, <2>1, <2>2, <2>3 DEF Send
<1>14. ServerChain'
  <2> DEFINE kex  == FirstKex(c)
             a    == Stage("kexinit", 0)
  <2> PICK next : next = Asked'
    OBVIOUS
  <2>1. a \in Stages /\ kex \in Stages /\ next \in Stages
    <3>1. a \in Stages /\ kex \in Stages
      BY DEF FirstKex, Kex, AfterKex, Stage, Stages
    <3>2. next \in Stages
      BY <1>1, <1>4 DEF Asked, Stage, Stages
    <3> QED BY <3>1, <3>2
  <2>2. Reads(c, "server", a, init, kex)
    BY <1>7, <1>12 DEF Reads, ServerReads, Stage, KeyAt, Key
  <2>3. /\ Right' <=> g /\ FirstChoice(c)
        /\ FirstChoice(c) <=> p[1] = Name(c)
    BY <1>2, <1>7 DEF Right, FirstChoice
  <2>4. next = IF ~Agreed(c) THEN Stage("dead", 1)
               ELSE Stage(IF g /\ FirstChoice(c) THEN "newkeys" ELSE "dh", 1)
    BY <1>1, <1>4, <1>7, <2>3 DEF Asked
  <2>5. kex = IF ~Agreed(c) THEN Stage("dead", 1)
              ELSE Stage(IF g /\ ~FirstChoice(c) THEN "skip" ELSE "dh", 1)
    BY <1>7 DEF FirstKex, Kex, AfterKex
  <2>6. g => Reads(c, "server", kex, dh, next)
    <3>1. CASE ~Agreed(c)
      BY <2>4, <2>5, <3>1 DEF Reads, ServerReads, Stage
    <3>2. CASE g /\ Agreed(c) /\ FirstChoice(c)
      <4>1. kex = Stage("dh", 1) /\ next = Stage("newkeys", 1) /\ dh.name = Name(c)
        BY <1>12, <2>3, <2>4, <2>5, <3>2
      <4> QED BY <1>12, <4>1 DEF Reads, ServerReads, Stage, KeyAt, Key
    <3>3. CASE g /\ Agreed(c) /\ ~FirstChoice(c)
      <4>1. kex = Stage("skip", 1) /\ next = Stage("dh", 1)
        BY <2>4, <2>5, <3>3
      <4> QED BY <1>12, <4>1 DEF Reads, ServerReads, Stage, KeyAt, Key
    <3> QED BY <3>1, <3>2, <3>3
  <2>7. ~g => next = kex
    BY <2>4, <2>5
  <2>8. Ends(next)'
    <3>1. next.at = "dead" => ~Agreed(c)
      BY <2>4 DEF Stage
    <3> QED BY <3>1 DEF Ends
  <2> HIDE DEF c, kex, a, init, dh
  <2>9. Chain(c, "server", toServer', a, next)
    <3>1. CASE g
      BY <1>13, <2>1, <2>2, <2>6, <3>1, ChainTwo
    <3>2. CASE ~g
      BY <1>13, <2>1, <2>2, <2>7, <3>2, ChainOne
    <3> QED BY <3>1, <3>2
  <2> QED BY <1>8, <2>8, <2>9 DEF ServerChain, a, c
<1>15. OneRequest' /\ OneAnswer'
  <2>1. \A i \in DOMAIN toServer' : toServer'[i].type \notin Requests
    <3>1. init.type \notin Requests /\ dh.type \notin Requests
      BY <1>12 DEF Requests, AuthTypes
    <3> HIDE DEF init, dh
    <3> QED BY <1>13, <3>1
  <2>2. \A i \in DOMAIN toClient' : toClient'[i].type \notin Answers
    BY <1>1, <1>4 DEF Packet, Answers
  <2> QED BY <2>1, <2>2 DEF OneRequest, OneAnswer
<1>16. why' \notin {"mac", "signature"} /\ (why' = "proto" => Misled') /\ cpc' # "start"
  BY <1>1, <1>6, <1>7 DEF ReadableInv
<1> QED BY <1>9, <1>10, <1>11, <1>14, <1>15, <1>16 DEF ReadableInv, ServerInv, ClientInv

LEMMA ReadableInit == ASSUME Init PROVE ReadableInv
<1>1. /\ spc = "kexinit" /\ why = "none" /\ rekeying = FALSE /\ authorized = FALSE
      /\ kexrecv = 0 /\ kexsend = 1 /\ skey = Plain /\ toServer = <<>>
      /\ toClient = <<Packet("KEXINIT", NoName, <<1>>, Plain)>>
      /\ cpc = "start" /\ first = FALSE /\ guessed = FALSE /\ ckexsend = 0 /\ csid = <<>>
      /\ keyIn = Plain /\ keyOut = Plain
  BY Zenon DEF Init
<1>2. /\ ServerStage = Stage("kexinit", 0) /\ ClientStage = Stage("kex", 0)
      /\ Told = Stage("reply", 1) /\ Asked = Stage("kexinit", 0)
      /\ Stage("kexinit", 0) \in Stages /\ Stage("kex", 0) \in Stages
      /\ Stage("reply", 1) \in Stages /\ ~Misled
  BY <1>1 DEF ServerStage, ClientStage, Told, Asked, Stage, Stages, Misled
<1>3. ServerKeeps
  <2>1. skey = KeyAt(Terms, ServerStage)
    BY <1>1, <1>2 DEF KeyAt, Key, Stage
  <2>2. authorized \in BOOLEAN /\ rekeying \in BOOLEAN /\ ~authorized /\ ~rekeying
    BY <1>1
  <2> QED BY <1>1, <2>1, <2>2 DEF ServerKeeps
<1>4. ClientKeeps
  <2>1. keyIn = KeyAt(Terms, ClientStage)
    BY <1>1, <1>2 DEF KeyAt, Key, Stage
  <2>2. guessed \in BOOLEAN /\ first \in BOOLEAN /\ keyOut = keyIn
    BY <1>1
  <2> QED BY <1>1, <1>2, <2>1, <2>2 DEF ClientKeeps
<1>5. ServerChain
  <2>1. Ends(Stage("kexinit", 0))
    BY <1>2 DEF Ends, Stage
  <2> QED BY <1>1, <1>2, <2>1, ChainEmpty DEF ServerChain
<1>6. ClientChain
  <2> DEFINE m == Packet("KEXINIT", NoName, <<1>>, Plain)
  <2>1. Reads(Terms, "client", Stage("kex", 0), m, Stage("reply", 1))
    BY DEF Reads, ClientReads, Packet, Stage, KeyAt, Key
  <2> HIDE DEF m
  <2> QED BY <1>1, <1>2, <2>1, ChainOne DEF ClientChain, m
<1>7. NotStarted
  BY <1>1 DEF NotStarted
<1>8. OneRequest /\ OneAnswer
  <2>1. DOMAIN toServer = {}
    BY <1>1
  <2>2. \A i \in DOMAIN toClient : toClient[i].type \notin Answers
    BY <1>1 DEF Packet, Answers
  <2> QED BY <2>1, <2>2 DEF OneRequest, OneAnswer
<1> QED BY <1>1, <1>3, <1>4, <1>5, <1>6, <1>7, <1>8 DEF ReadableInv, ServerInv, ClientInv

\* A client whose packets lead on can read the first of them.
LEMMA ReadableFollows == ASSUME ReadableInv, Queues PROVE PacketsReadable
<1>1. cpc # "badhash"
  BY DEF ReadableInv, ClientInv, ClientKeeps
<1>2. ASSUME cpc # "gone", toClient # <<>> PROVE Head(toClient).key = keyIn
  <2>1. ClientKeeps /\ ClientChain
    BY <1>2 DEF ReadableInv, ClientInv
  <2>2. PICK b : Chain(Terms, "client", toClient, ClientStage, b)
    BY <2>1 DEF ClientChain
  <2>3. PICK t \in Stages : Reads(Terms, "client", ClientStage, Head(toClient), t)
    BY <1>2, <2>2, ChainTake DEF Queues
  <2> QED BY <2>1, <2>3 DEF Reads, ClientReads, ClientKeeps
<1> QED BY <1>1, <1>2 DEF PacketsReadable, ReadableInv

LEMMA ReadableNext ==
  ASSUME ReadableInv, ReplyInv, Queues, [Next]_vars PROVE ReadableInv'
<1>1. CASE Server
  BY <1>1, ReadableRefuse, ReadableDisconnect, ReadableKexReceive, ReadableSkipGuess,
     ReadableKexDh, ReadableNewKeys, ReadableService, ReadableAuthRejected,
     ReadableAuthSigned, ReadableRekey, ReadableUnimplemented DEF Server
<1>2. CASE Output
  BY <1>2, ReadableOutput
<1>3. CASE Client
  BY <1>3, ReadableStart, ReadableRestart, ReadableCSend, ReadableCDisconnect,
     ReadableCKexInit, ReadableCReply, ReadableCNewKeys, ReadableCAuth, ReadableCSuccess,
     ReadableCChannel DEF Client, Reading
<1>4. CASE UNCHANGED vars
  <2>1. UNCHANGED <<serverVars, clientVars, toServer, toClient>>
    BY <1>4 DEF vars
  <2>2. UNCHANGED <<Terms, ClientStage, ClientKeeps, ServerStage, Told, ServerKeeps, spc, why,
                    authorized, cpc>>
    BY <2>1, ClientFrame, ServerFrame DEF clientVars
  <2>3. Misled' = Misled /\ UNCHANGED authorized
    BY <2>1, ClientFrame DEF serverVars
  <2>4. \A b : Ends(b)' <=> Ends(b)
    BY <2>1, <2>3, AskedFrame
  <2> QED BY <2>1, <2>2, <2>3, <2>4 DEF ReadableInv, ServerInv, ClientInv, ServerChain, ClientChain,
               OneRequest, OneAnswer, NotStarted
<1> QED BY <1>1, <1>2, <1>3, <1>4 DEF Next

----------------------------------------------------------------------------
(* The keys change in step.                                                *)

\* What is taken from the client's packets does not add one of an exchange.
LEMMA LockTaken ==
  ASSUME Queues, LockStep, NEW types, Get(types)
  PROVE  /\ \A t : /\ Has(toServer', t) => Has(toServer, t)
                   /\ Only(toServer, t) => Only(toServer', t)
                   /\ Only(toServer, t) /\ Got.type = t => ~Has(toServer', t)
                   /\ Got.type = t => Has(toServer, t)
         /\ \A i \in DOMAIN toServer' :
              toServer'[i].type = "KEXINIT" => toServer'[i].id[1] = ckexsend'
         /\ Got.type = "KEXINIT" => Got.id[1] = ckexsend
         /\ Got.type \in types /\ spc # "dead"
         /\ UNCHANGED <<cpc, ckexsend, keyOut>>
<1>1. /\ toServer # <<>> /\ toServer' = Tail(toServer) /\ Got.type \in types /\ spc # "dead"
      /\ UNCHANGED <<cpc, ckexsend, keyOut>>
  BY DEF Get, clientVars
<1>2. \A t : /\ Has(toServer', t) => Has(toServer, t)
             /\ Only(toServer, t) => Only(toServer', t)
             /\ Only(toServer, t) /\ Got.type = t => ~Has(toServer', t)
             /\ Got.type = t => Has(toServer, t)
  BY <1>1, HasTail DEF Queues, Got
<1>3. PICK S : toServer \in Seq(S)
  BY DEF Queues, Queue
<1>4. /\ \A i \in DOMAIN toServer' : i + 1 \in DOMAIN toServer /\ toServer'[i] = toServer[i + 1]
      /\ 1 \in DOMAIN toServer /\ Got = toServer[1]
  BY <1>1, <1>3 DEF Got
<1>5. \A i \in DOMAIN toServer : toServer[i].type = "KEXINIT" => toServer[i].id[1] = ckexsend
  BY DEF LockStep
<1> QED BY <1>1, <1>2, <1>4, <1>5

\* Whatever else the server sends, no exchange is answered by it.
LEMMA LockAnswers ==
  ASSUME Queues, toClient' = toClient \/ \E type, id : type # "REPLY" /\ Answer(type, id)
  PROVE  /\ Has(toClient', "REPLY") => Has(toClient, "REPLY")
         /\ Only(toClient, "REPLY") => Only(toClient', "REPLY")
<1>1. CASE toClient' = toClient
  BY <1>1
<1>2. CASE \E type, id : type # "REPLY" /\ Answer(type, id)
  <2>1. PICK type, id : type # "REPLY" /\ Answer(type, id)
    BY <1>2
  <2> DEFINE m == Packet(type, NoName, id, skey)
  <2>2. toClient' = Append(toClient, m) /\ m.type # "REPLY"
    BY <2>1 DEF Answer, Packet
  <2> HIDE DEF m
  <2> QED BY <2>2, HasAppend DEF Queues
<1> QED BY <1>1, <1>2

\* Only packet_kexdh answers with a REPLY.
LEMMA LockUnsigned ==
  ASSUME \/ Refuse \/ Hangup \/ Disconnect \/ Ignore \/ KexReceive \/ SkipGuess \/ NewKeys
         \/ DropBeforeNewKeys \/ Service \/ AuthRejected \/ AuthSigned \/ Rekey \/ Channel
         \/ Unimplemented \/ Output
  PROVE  \/ toClient' = toClient
         \/ \E type, id : type # "REPLY" /\ Answer(type, id)
<1>1. CASE \/ Refuse \/ Hangup \/ Disconnect \/ Ignore \/ KexReceive \/ SkipGuess \/ NewKeys
           \/ DropBeforeNewKeys \/ Channel
  BY <1>1 DEF Refuse, Hangup, Disconnect, Ignore, KexReceive, SkipGuess, NewKeys,
              DropBeforeNewKeys, Channel, Die
<1>2. CASE Service
  BY Zenon, <1>2 DEF Service
<1>3. CASE AuthRejected
  <2>1. Answer(IF Got.type = "QUERY" THEN "PK_OK" ELSE "FAILURE", <<>>)
    BY <1>3 DEF AuthRejected
  <2>2. (IF Got.type = "QUERY" THEN "PK_OK" ELSE "FAILURE") # "REPLY"
    OBVIOUS
  <2> QED BY Zenon, <2>1, <2>2
<1>4. CASE AuthSigned
  <2>1. toClient' = toClient \/ Answer("SUCCESS", <<>>)
    BY <1>4 DEF AuthSigned, Die
  <2> QED BY <2>1
<1>5. CASE Rekey
  <2>1. Answer("KEXINIT", <<kexsend'>>)
    BY <1>5 DEF Rekey
  <2> QED BY <2>1
<1>6. CASE Unimplemented
  <2>1. Answer("UNIMPLEMENTED", <<recvid'>>)
    BY <1>6 DEF Unimplemented
  <2> QED BY <2>1
<1>7. CASE Output
  <2>1. Answer("CHANNEL", <<>>)
    BY <1>7 DEF Output
  <2> QED BY <2>1
<1> QED BY <1>1, <1>2, <1>3, <1>4, <1>5, <1>6, <1>7

\* A step of the server that is not one of an exchange, or that leaves it
\* where it is in the exchange; more is at most one packet to the client.
LEMMA LockServer ==
  ASSUME Queues, LockStep, NEW types, Get(types), UNCHANGED <<hash, sessionid, kexrecv>>,
         spc' \in {"skip", "dh"} => spc \in {"skip", "dh"},
         spc = "newkeys" => spc' = "newkeys",
         \/ toClient' = toClient
         \/ \E type, id : type # "REPLY" /\ Answer(type, id)
  PROVE  LockStep'
<1>1. /\ Has(toClient', "REPLY") => Has(toClient, "REPLY")
      /\ Only(toClient, "REPLY") => Only(toClient', "REPLY")
  BY LockAnswers
<1> QED BY <1>1, LockTaken DEF LockStep

LEMMA LockQuiet ==
  ASSUME Queues, LockStep, spc' # "dead",
         \/ Disconnect \/ Ignore \/ SkipGuess \/ DropBeforeNewKeys \/ Service
         \/ AuthRejected \/ AuthSigned \/ Channel \/ Unimplemented
  PROVE  LockStep'
<1>1. PICK types : Get(types)
  BY Zenon DEF Disconnect, Ignore, SkipGuess, DropBeforeNewKeys, Service, AuthRejected,
               AuthSigned, Channel, Unimplemented
<1>2. /\ UNCHANGED <<hash, sessionid, kexrecv>>
      /\ spc' \in {"skip", "dh"} => spc \in {"skip", "dh"}
      /\ spc = "newkeys" => spc' = "newkeys"
  BY DEF Disconnect, Ignore, SkipGuess, DropBeforeNewKeys, Service, AuthRejected, AuthSigned,
         Channel, Unimplemented, Die, Rejoin
<1> QED BY <1>1, <1>2, LockUnsigned, LockServer

\* The client's KEXINIT opens an exchange, the first or another one.
LEMMA LockKexInit ==
  ASSUME Queues, LockStep, spc' # "dead", KexReceive \/ Rekey PROVE LockStep'
<1>1. /\ Get({"KEXINIT"}) /\ spc \in {"kexinit", "loop"} /\ spc' \in {"skip", "dh"}
      /\ kexrecv' = Got.id[1]
      /\ toClient' = toClient \/ Answer("KEXINIT", <<kexsend'>>)
  BY DEF KexReceive, Rekey, AfterKex, KexRecv, Die
<1>2. toClient' = toClient \/ \E type, id : type # "REPLY" /\ Answer(type, id)
  BY <1>1
<1>3. /\ Has(toClient', "REPLY") => Has(toClient, "REPLY")
      /\ Only(toClient, "REPLY") => Only(toClient', "REPLY")
  BY <1>2, LockAnswers
<1> QED BY <1>1, <1>3, LockTaken DEF LockStep

LEMMA LockKexDh == ASSUME Queues, LockStep, spc' # "dead", KexDh PROVE LockStep'
<1> DEFINE reply == Packet("REPLY", NoName, hash', skey)
           news  == Packet("NEWKEYS", NoName, <<>>, skey)
<1>1. /\ Get({"KEXDH"}) /\ spc = "dh" /\ spc' = "newkeys" /\ kexrecv' = kexrecv
      /\ toClient' = toClient \o <<reply, news>>
  BY DEF KexDh, Die
<1>2. reply.type = "REPLY" /\ news.type = "NEWKEYS"
  BY DEF Packet
<1> HIDE DEF reply, news
<1>3. toClient' = Append(Append(toClient, reply), news) /\ Queue(Append(toClient, reply))
  BY <1>1, SendAppendsTwo, AppendQueue DEF Queues
<1>4. ~Has(toClient, "REPLY") /\ Only(toClient, "REPLY")
  BY <1>1 DEF LockStep
<1>5. Only(Append(toClient, reply), "REPLY")
  BY <1>4, HasAppend DEF Queues
<1>6. Only(toClient', "REPLY")
  BY <1>2, <1>3, <1>5, HasAppend
<1> QED BY <1>1, <1>6, LockTaken DEF LockStep

\* The server leaves the exchange with the client's NEWKEYS, the only one.
LEMMA LockNewKeys == ASSUME Queues, LockStep, NewKeys PROVE LockStep'
<1>1. /\ Get({"NEWKEYS"}) /\ spc = "newkeys" /\ spc' \in {"service", "loop"}
      /\ toClient' = toClient
  BY DEF NewKeys, AfterNewKeys
<1>2. Has(toServer, "NEWKEYS") /\ ~Has(toServer', "NEWKEYS")
  BY <1>1, LockTaken DEF LockStep
<1>3. ~Has(toClient', "REPLY")
  BY <1>1, <1>2 DEF LockStep
<1> QED BY <1>1, <1>2, <1>3, LockTaken DEF LockStep

LEMMA LockOutput == ASSUME Queues, LockStep, Output PROVE LockStep'
<1>1. /\ Answer("CHANNEL", <<>>)
      /\ UNCHANGED <<spc, kexrecv, hash, sessionid, toServer, cpc, ckexsend, keyOut>>
  BY DEF Output, clientVars
<1>2. toClient' = toClient \/ \E type, id : type # "REPLY" /\ Answer(type, id)
  BY <1>1
<1>3. /\ Has(toClient', "REPLY") => Has(toClient, "REPLY")
      /\ Only(toClient, "REPLY") => Only(toClient', "REPLY")
  BY <1>2, LockAnswers
<1> QED BY <1>1, <1>3 DEF LockStep

\* A client that takes a packet or sends one that is not of an exchange.
LEMMA LockClient ==
  ASSUME Queues, LockStep, UNCHANGED <<serverVars, ckexsend, keyOut>>,
         cpc \in {"kexwait", "reply"} => cpc' \in {"kexwait", "reply"},
         toClient' = toClient \/ \E type : CGet(type),
         \/ toServer' = toServer
         \/ \E m : Send(<<m>>) /\ m.type \notin {"KEXINIT", "NEWKEYS"}
  PROVE  LockStep'
<1>1. UNCHANGED <<spc, kexrecv, hash, sessionid>>
  BY DEF serverVars
<1>2. /\ Has(toClient', "REPLY") => Has(toClient, "REPLY")
      /\ Only(toClient, "REPLY") => Only(toClient', "REPLY")
  <2>1. CASE toClient' = toClient
    BY <2>1
  <2>2. CASE \E type : CGet(type)
    <3>1. toClient # <<>> /\ toClient' = Tail(toClient)
      BY <2>2 DEF CGet
    <3> QED BY <3>1, HasTail DEF Queues
  <2> QED BY <2>1, <2>2
<1>3. /\ \A t \in {"KEXINIT", "NEWKEYS"} : /\ Has(toServer', t) => Has(toServer, t)
                                           /\ Only(toServer, t) => Only(toServer', t)
      /\ \A i \in DOMAIN toServer' : toServer'[i].type = "KEXINIT" =>
           i \in DOMAIN toServer /\ toServer'[i] = toServer[i]
  <2>1. CASE toServer' = toServer
    BY <2>1
  <2>2. CASE \E m : Send(<<m>>) /\ m.type \notin {"KEXINIT", "NEWKEYS"}
    <3>1. PICK m : Send(<<m>>) /\ m.type \notin {"KEXINIT", "NEWKEYS"}
      BY <2>2
    <3>2. toServer' = Append(toServer, m)
      BY <3>1, SendAppends DEF Queues, Send
    <3>3. \A i \in DOMAIN toServer' :
            (i \in DOMAIN toServer /\ toServer'[i] = toServer[i]) \/ toServer'[i] = m
      BY <3>1, SentElements
    <3> QED BY <3>1, <3>2, <3>3, HasAppend DEF Queues
  <2> QED BY <2>1, <2>2
<1> QED BY <1>1, <1>2, <1>3 DEF LockStep

LEMMA LockReads ==
  ASSUME Queues, LockStep, cpc' # "gone",
         CKexInit \/ CNewKeys \/ CAuth \/ CSuccess \/ CSend \/ CChannel
  PROVE  LockStep'
<1>1. /\ UNCHANGED <<serverVars, ckexsend, keyOut>>
      /\ cpc \in {"kexwait", "reply"} => cpc' \in {"kexwait", "reply"}
  BY DEF CKexInit, CNewKeys, CAuth, CSuccess, CSend, CChannel, CGet, clientVars
<1>2. toClient' = toClient \/ \E type : CGet(type)
  BY Zenon DEF CKexInit, CNewKeys, CAuth, CSuccess, CSend, CChannel
<1>3. \/ toServer' = toServer
      \/ \E m : Send(<<m>>) /\ m.type \notin {"KEXINIT", "NEWKEYS"}
  <2>1. CASE CKexInit
    <3>1. CASE toServer' # toServer
      <4>1. PICK dh : Send(<<KexDhInit(cname', dh)>>)
        BY Zenon, <2>1, <3>1 DEF CKexInit
      <4>2. KexDhInit(cname', dh).type \notin {"KEXINIT", "NEWKEYS"}
        BY DEF KexDhInit, Packet
      <4> QED BY Zenon, <4>1, <4>2
    <3> QED BY <3>1
  <2>2. CASE CNewKeys
    <3>1. CASE toServer' # toServer
      <4>1. Send(<<Packet("SERVICE", NoName, <<>>, keyOut)>>)
        BY <2>2, <3>1 DEF CNewKeys
      <4>2. Packet("SERVICE", NoName, <<>>, keyOut).type \notin {"KEXINIT", "NEWKEYS"}
        BY DEF Packet
      <4> QED BY Zenon, <4>1, <4>2
    <3> QED BY <3>1
  <2>3. CASE CAuth
    <3>1. PICK t \in AuthTypes : Send(<<Packet(t, NoName, csid, keyOut)>>)
      BY Zenon, <2>3 DEF CAuth
    <3>2. Packet(t, NoName, csid, keyOut).type \notin {"KEXINIT", "NEWKEYS"}
      BY DEF Packet, AuthTypes
    <3> QED BY Zenon, <3>1, <3>2
  <2>4. CASE CSend
    <3>1. PICK t \in LoopTypes : Send(<<Packet(t, NoName, <<>>, keyOut)>>)
      BY Zenon, <2>4 DEF CSend
    <3>2. Packet(t, NoName, <<>>, keyOut).type \notin {"KEXINIT", "NEWKEYS"}
      BY DEF Packet, LoopTypes
    <3> QED BY Zenon, <3>1, <3>2
  <2>5. CASE CSuccess \/ CChannel
    BY <2>5 DEF CSuccess, CChannel
  <2> QED BY <2>1, <2>2, <2>3, <2>4, <2>5
<1> QED BY <1>1, <1>2, <1>3, LockClient

\* A KEXINIT is sent when no exchange is under way.
LEMMA LockStart == ASSUME Queues, LockStep, CStartKex PROVE LockStep'
<1>1. /\ cpc \in {"start", "ready"} /\ cpc' = "kexwait" /\ toClient' = toClient
      /\ UNCHANGED <<spc, kexrecv, hash, sessionid, keyOut>>
      /\ \E p, g : Send(IF g THEN <<KexInit(p, g, ckexsend'), KexDhInit(p[1], ckexsend')>>
                            ELSE <<KexInit(p, g, ckexsend')>>)
  BY DEF CStartKex, serverVars
<1>2. PICK p, g : Send(IF g THEN <<KexInit(p, g, ckexsend'), KexDhInit(p[1], ckexsend')>>
                            ELSE <<KexInit(p, g, ckexsend')>>)
  BY <1>1
<1> DEFINE init  == KexInit(p, g, ckexsend')
           guessing == KexDhInit(p[1], ckexsend')
           one == Append(toServer, init)
<1>3. init.type = "KEXINIT" /\ init.id[1] = ckexsend' /\ guessing.type = "KEXDH"
  BY DEF KexInit, KexDhInit, Packet
<1>4. toServer' = toServer \o <<init>> \/ toServer' = toServer \o <<init, guessing>>
  BY <1>2 DEF Send
<1> HIDE DEF init, guessing
<1>5. toServer' = one \/ toServer' = Append(one, guessing)
  BY <1>4, SendAppends, SendAppendsTwo DEF Queues
<1>6. ~Has(toServer, "KEXINIT") /\ spc \notin {"skip", "dh"} /\ ~Has(toClient, "REPLY")
  BY <1>1 DEF LockStep
<1>7. /\ Queue(one) /\ Only(one, "KEXINIT") /\ Only(one, "NEWKEYS")
      /\ Has(one, "NEWKEYS") => Has(toServer, "NEWKEYS")
      /\ \A i \in DOMAIN one : one[i].type = "KEXINIT" => one[i].id[1] = ckexsend'
  <2>1. \A i \in DOMAIN one : (i \in DOMAIN toServer /\ one[i] = toServer[i]) \/ one[i] = init
    BY AppendElements DEF Queues
  <2> QED BY <1>3, <1>6, <2>1, HasAppend, AppendQueue DEF LockStep, Queues, Has
<1> HIDE DEF one
<1>8. /\ Only(toServer', "KEXINIT") /\ Only(toServer', "NEWKEYS")
      /\ Has(toServer', "NEWKEYS") => Has(toServer, "NEWKEYS")
      /\ \A i \in DOMAIN toServer' : toServer'[i].type = "KEXINIT" =>
           toServer'[i].id[1] = ckexsend'
  <2>1. CASE toServer' = one
    BY <1>7, <2>1
  <2>2. CASE toServer' = Append(one, guessing)
    <3>1. \A i \in DOMAIN toServer' :
            (i \in DOMAIN one /\ toServer'[i] = one[i]) \/ toServer'[i] = guessing
      BY <1>7, <2>2, AppendElements
    <3> QED BY <1>3, <1>7, <2>2, <3>1, HasAppend
  <2> QED BY <1>5, <2>1, <2>2
<1> QED BY <1>1, <1>6, <1>8 DEF LockStep

\* The client's NEWKEYS is the only one, and says the keys the server takes.
LEMMA LockCReply ==
  ASSUME Queues, ReadableInv, LockStep, SessionIdInv', spc # "dead", CReply PROVE LockStep'
<1>1. /\ cpc = "reply" /\ CGet("REPLY")
      /\ UNCHANGED <<ckexsend, chash, spc, kexrecv, hash, sessionid>>
  BY DEF CReply, CGet, serverVars
<1>2. toClient # <<>> /\ toClient' = Tail(toClient) /\ Head(toClient).type = "REPLY"
  BY <1>1 DEF CGet
<1>3. Has(toClient, "REPLY") /\ ~Has(toClient', "REPLY") /\ Only(toClient', "REPLY")
  BY <1>2, HasTail DEF Queues, LockStep
<1>4. /\ spc = "newkeys" /\ kexrecv = ckexsend
      /\ ~Has(toServer, "KEXINIT") /\ ~Has(toServer, "NEWKEYS")
  BY <1>3 DEF LockStep
<1>5. ServerKeeps /\ ClientKeeps
  BY <1>1, <1>4 DEF ReadableInv, ServerInv, ClientInv
<1>6. hash = chash /\ chash # <<>>
  BY <1>1, <1>4, <1>5, HashesDiffer DEF ServerKeeps, ClientKeeps
<1>7. Head(toClient).id = chash
  <2>1. PICK t \in Stages : ClientReads(Terms, ClientStage, Head(toClient), t)
    BY <1>1, ClientTakes
  <2> QED BY <1>1, <1>2, <1>5, <2>1 DEF ClientReads, ClientStage, Stage, ClientKeeps
<1> DEFINE m == Packet("NEWKEYS", NoName, <<>>, keyOut)
<1>8. Send(<<m>>) /\ csid' = (IF csid = <<>> THEN chash ELSE csid) /\ keyOut' = <<chash, csid'>>
  BY <1>7 DEF CReply
<1>9. m.type = "NEWKEYS"
  BY DEF Packet
<1> HIDE DEF m
<1>10. toServer' = Append(toServer, m)
  BY <1>8, SendAppends DEF Queues, Send
<1>11. csid' = sessionid'
  BY <1>6, <1>8 DEF SessionIdInv
<1>12. keyOut' = <<hash', sessionid'>>
  BY <1>1, <1>6, <1>8, <1>11
<1>13. /\ Only(toServer', "KEXINIT") /\ Only(toServer', "NEWKEYS") /\ ~Has(toServer', "KEXINIT")
  BY <1>4, <1>9, <1>10, HasAppend DEF Queues, LockStep
<1> QED BY <1>1, <1>3, <1>4, <1>12, <1>13 DEF LockStep, Has

LEMMA LockInit == ASSUME Init PROVE LockStepInv
<1>1. /\ spc = "kexinit" /\ toServer = <<>> /\ sessionid = <<>>
      /\ toClient = <<Packet("KEXINIT", NoName, <<1>>, Plain)>>
  BY Zenon DEF Init
<1>2. toClient[1].type = "KEXINIT" /\ DOMAIN toClient = {1} /\ DOMAIN toServer = {}
  BY <1>1 DEF Packet
<1> QED BY <1>1, <1>2 DEF LockStepInv, LockStep, Has, Only

\* The first exchange names the session.
LEMMA LockUnnamed ==
  ASSUME ~rekeying => sessionid = <<>>, [Next]_vars
  PROVE  ~rekeying' => sessionid' = <<>>
<1>1. KexDh \/ UNCHANGED <<rekeying, sessionid>>
  BY DEF Next, Server, Refuse, Hangup, Disconnect, Ignore, KexReceive, SkipGuess, NewKeys,
         DropBeforeNewKeys, Service, AuthRejected, AuthSigned, Rekey, Channel, Unimplemented,
         Rejoin, Die, Output, Client, CStartKex, CSend, CDisconnect, Reading, CKexInit, CReply,
         CNewKeys, CAuth, CSuccess, CChannel, CGet, vars, serverVars
<1> QED BY <1>1 DEF KexDh, Die

LEMMA LockNext ==
  ASSUME Queues, ReadableInv, LockStepInv, SessionIdInv', [Next]_vars PROVE LockStepInv'
<1> SUFFICES ASSUME spc' # "dead", cpc' # "gone" PROVE LockStep'
  BY LockUnnamed DEF LockStepInv
<1>1. spc # "dead" /\ cpc # "gone"
  <2>1. CASE Server
    <3>1. Refuse \/ Hangup \/ UNCHANGED cpc
      BY <2>1 DEF Server, Disconnect, Ignore, KexReceive, SkipGuess, KexDh, NewKeys,
           DropBeforeNewKeys, Service, AuthRejected, AuthSigned, Rekey, Channel, Unimplemented,
           Get, clientVars
    <3>2. spc # "dead" /\ UNCHANGED cpc
      BY <2>1, <3>1 DEF Server, Refuse, Hangup, Disconnect, Ignore, KexReceive, SkipGuess, KexDh,
           NewKeys, DropBeforeNewKeys, Service, AuthRejected, AuthSigned, Rekey, Channel,
           Unimplemented, Get, clientVars
    <3> QED BY <3>2
  <2>2. CASE Output
    BY <2>2 DEF Output, clientVars
  <2>3. CASE Client
    BY <2>3 DEF Client, CStartKex, CSend, CDisconnect, Reading, CKexInit, CReply, CNewKeys,
         CAuth, CSuccess, CChannel, CGet, serverVars, clientVars
  <2>4. CASE UNCHANGED vars
    BY <2>4 DEF vars, serverVars, clientVars
  <2> QED BY <2>1, <2>2, <2>3, <2>4 DEF Next
<1>2. LockStep
  BY <1>1 DEF LockStepInv
<1>3. CASE Server
  <2>1. ~Refuse /\ ~Hangup
    BY DEF Refuse, Hangup, Die
  <2> QED BY <1>2, <1>3, <2>1, LockQuiet, LockKexInit, LockKexDh, LockNewKeys DEF Server
<1>4. CASE Output
  BY <1>2, <1>4, LockOutput
<1>5. CASE Client
  <2>1. ~CDisconnect
    BY DEF CDisconnect
  <2> QED BY <1>1, <1>2, <1>5, <2>1, LockReads, LockStart, LockCReply DEF Client, Reading
<1>6. CASE UNCHANGED vars
  BY <1>2, <1>6 DEF vars, serverVars, clientVars, LockStep, Has, Only
<1> QED BY <1>3, <1>4, <1>5, <1>6 DEF Next

----------------------------------------------------------------------------
(* No REPLY for a client that has misled the server.                       *)

LEMMA ReplyInit == ASSUME Init PROVE ReplyInv
<1>1. toClient = <<Packet("KEXINIT", NoName, <<1>>, Plain)>>
  BY Zenon DEF Init
<1>2. toClient[1].type = "KEXINIT" /\ DOMAIN toClient = {1}
  BY <1>1 DEF Packet
<1> QED BY <1>2 DEF ReplyInv, Has, Only

\* The server has read a public key it can use, so more of the exchange has been
\* sent than a client that misleads it sends.
LEMMA ReplyKexDh ==
  ASSUME Queues, ReadableInv, LockStepInv, KexDh, spc' # "dead", cpc # "gone"
  PROVE  cpc \in {"kexwait", "reply"} /\ ~Misled
<1>1. /\ spc = "dh" /\ Got.name = kexname /\ Got.type = "KEXDH"
      /\ toServer # <<>> /\ toServer' = Tail(toServer)
  BY DEF KexDh, Get, Die
<1>2. cpc \in {"kexwait", "reply"} /\ kexrecv = ckexsend
  BY <1>1 DEF LockStepInv, LockStep
<1>3. ServerInv /\ ServerKeeps
  BY <1>1 DEF ReadableInv, ServerInv
<1>4. kexrecv \in Nat /\ Agreed(Terms) /\ kexname = Name(Terms)
  BY <1>1, <1>3 DEF ServerKeeps
<1>5. PICK t \in Stages :
           /\ ServerReads(Terms, ServerStage, Got, t)
           /\ \E b : Chain(Terms, "server", toServer', t, b) /\ Ends(b) /\ Leads(t, b)
  BY <1>1, <1>3, ServerTakes
<1>6. t = Stage("newkeys", kexrecv)
  BY <1>1, <1>4, <1>5 DEF ServerReads, ServerStage, Stage, AuthTypes
<1>7. PICK b : Ends(b) /\ Leads(t, b)
  BY <1>5
<1>8. ASSUME Misled PROVE FALSE
  <2>1. Asked \in {Stage("dead", kexrecv), Stage("dh", kexrecv), Stage("skip", kexrecv)}
    BY <1>2, <1>4, <1>8 DEF Asked
  <2>2. b \in {Stage("dead", kexrecv), Stage("dh", kexrecv), Stage("skip", kexrecv)}
    BY <1>2, <1>7, <2>1 DEF Ends
  <2>3. Rank(b) = 2 * kexrecv
    BY <1>4, <2>2 DEF Rank, Stage
  <2>4. Rank(t) = 2 * kexrecv + 1
    BY <1>4, <1>6 DEF Rank, Stage
  <2> QED BY <1>4, <1>7, <2>3, <2>4 DEF Leads
<1> QED BY <1>2, <1>8

LEMMA ReplyServer ==
  ASSUME Queues, ReadableInv, LockStepInv, ReplyInv, Server \/ Output PROVE ReplyInv'
<1>1. UNCHANGED clientVars
  BY Zenon DEF Server, Refuse, Hangup, Disconnect, Ignore, KexReceive, SkipGuess, KexDh, NewKeys,
     DropBeforeNewKeys, Service, AuthRejected, AuthSigned, Rekey, Channel, Unimplemented, Get,
     Output
<1>2. cpc' = cpc /\ Misled' = Misled
  BY <1>1, ClientFrame
<1>3. CASE toClient' = toClient \/ \E type, id : type # "REPLY" /\ Answer(type, id)
  BY <1>2, <1>3, LockAnswers DEF ReplyInv
<1>4. CASE KexDh /\ spc' # "dead"
  <2> SUFFICES ASSUME cpc # "gone"
               PROVE  Only(toClient', "REPLY") /\ cpc \in {"kexwait", "reply"} /\ ~Misled
    BY <1>2 DEF ReplyInv
  <2>1. spc # "dead"
    BY <1>4 DEF KexDh
  <2>2. LockStep'
    BY <1>2, <1>4, <2>1, LockKexDh DEF LockStepInv
  <2> QED BY <1>4, <2>2, ReplyKexDh DEF LockStep
<1>5. KexDh /\ spc' = "dead" => toClient' = toClient
  BY DEF KexDh, Die
<1> QED BY <1>3, <1>4, <1>5, LockUnsigned DEF Server

LEMMA ReplyClient == ASSUME Queues, ReplyInv, Client PROVE ReplyInv'
<1> SUFFICES ASSUME cpc' # "gone" PROVE ReplyInv'
  BY DEF ReplyInv
<1>1. cpc # "gone"
  BY DEF Client, CStartKex, CSend, CDisconnect, Reading, CKexInit, CReply, CNewKeys, CAuth,
     CSuccess, CChannel
<1>2. toClient' = toClient \/ \E type : CGet(type)
  BY Zenon DEF Client, CStartKex, CSend, CDisconnect, Reading, CKexInit, CReply, CNewKeys, CAuth,
     CSuccess, CChannel
<1>3. /\ Has(toClient', "REPLY") => Has(toClient, "REPLY")
      /\ Only(toClient', "REPLY")
  <2>1. CASE toClient' = toClient
    BY <1>1, <2>1 DEF ReplyInv
  <2>2. CASE \E type : CGet(type)
    <3>1. toClient # <<>> /\ toClient' = Tail(toClient)
      BY <2>2 DEF CGet
    <3> QED BY <1>1, <3>1, HasTail DEF Queues, ReplyInv
  <2> QED BY <1>2, <2>1, <2>2
<1>4. CASE CStartKex
  BY <1>1, <1>3, <1>4 DEF CStartKex, ReplyInv
<1>5. CASE CReply
  <2>1. ~Has(toClient', "REPLY")
    BY <1>1, <1>5, HasTail DEF CReply, CGet, Queues, ReplyInv
  <2> QED BY <1>3, <2>1 DEF ReplyInv
<1>6. CASE ~CStartKex /\ ~CReply
  <2>1. /\ UNCHANGED <<prefs, first, guessed, ckexsend>>
        /\ cpc \in {"kexwait", "reply"} => cpc' \in {"kexwait", "reply"}
    BY <1>6 DEF Client, CSend, CDisconnect, Reading, CKexInit, CNewKeys, CAuth, CSuccess,
       CChannel, clientVars
  <2> QED BY <1>1, <1>3, <2>1, MisledFrame DEF ReplyInv
<1> QED BY <1>4, <1>5, <1>6

----------------------------------------------------------------------------
(* What holds of a connection, all of it together.                         *)

Connection == ReadableInv /\ ReplyInv /\ SessionIdInv /\ Queues /\ LockStepInv

LEMMA ConnectionHolds == Spec => []Connection
<1>1. Init => Connection
  BY ReadableInit, ReplyInit, SessionIdInit, LockInit DEF Connection
<1>2. Connection /\ [Next]_vars => Connection'
  <2> SUFFICES ASSUME Connection, [Next]_vars PROVE Connection'
    OBVIOUS
  <2> USE DEF Connection
  <2>1. SessionIdInv' /\ Queues'
    BY SessionIdNext
  <2>2. ReadableInv'
    BY ReadableNext
  <2>3. LockStepInv'
    BY <2>1, LockNext
  <2>4. ReplyInv'
    <3>1. CASE UNCHANGED vars
      BY <3>1, ClientFrame DEF vars, ReplyInv
    <3> QED BY <3>1, ReplyServer, ReplyClient DEF Next
  <2> QED BY <2>1, <2>2, <2>3, <2>4
<1> QED BY <1>1, <1>2, PTL DEF Spec

\* packet_kexdh.c:55-110, packet_get.c and main_tinysshd.c: whatever the client
\* prefers and guesses, the first time and whenever it re-keys, both ends change
\* keys at the same packet, and neither gets a packet it cannot decrypt; the
\* server gets one it does not expect only from a client that has misled it.
THEOREM Readable == Spec => []PacketsReadable
<1>1. Connection => PacketsReadable
  BY ReadableFollows DEF Connection
<1> QED BY <1>1, ConnectionHolds, PTL

----------------------------------------------------------------------------
(* Every step is one of KeyChange or none.                                 *)

LEMMA KeyNumbers ==
  ASSUME NEW c, NEW n \in Nat
  PROVE  /\ Keys!Exchange(Key(c, n)) = n
         /\ n > 0 => Key(c, n) = <<Hash(c, n), Hash(c, 1)>>
BY DEF Keys!Exchange, Keys!Nothing, Key, Plain, Hash

Visible == <<sessionid, csid, keyOut, keyIn, skey, authorized>>

\* A step that leaves the keys, the session and the login alone at most ends
\* the part of one of the two.
LEMMA KeysQuiet ==
  ASSUME UNCHANGED Visible, cpc = "gone" => cpc' = "gone", spc = "dead" => spc' = "dead"
  PROVE  Keys!Next
<1>1. Keys!Leave
  BY DEF Visible, Keys!Leave
<1> QED BY <1>1 DEF Keys!Next

LEMMA KeysKexDh ==
  ASSUME ReadableInv, LockStepInv, KexDh, UNCHANGED <<csid, keyOut, keyIn, cpc>>,
         sessionid' # sessionid
  PROVE  Keys!Next
<1>1. /\ spc = "dh" /\ spc' = "newkeys" /\ hash' = HashOf(Got) /\ sessionid' = SessionId(hash')
      /\ UNCHANGED <<skey, authorized>>
  BY DEF KexDh, Die
<1>2. ServerKeeps
  BY <1>1 DEF ReadableInv, ServerInv
<1>3. ~rekeying /\ sessionid' = hash' /\ sessionid = <<>>
  BY <1>1 DEF SessionId, LockStepInv
<1>4. kexrecv = 1
  BY <1>1, <1>2, <1>3 DEF ServerKeeps
<1>5. skey = <<>>
  BY <1>1, <1>2, <1>4 DEF ServerKeeps, ServerStage, Stage, KeyAt, Key, Plain
<1>6. hash' # <<>>
  BY <1>1 DEF HashOf
<1>7. Keys!Name
  BY <1>1, <1>3, <1>5, <1>6 DEF Keys!Name, Keys!Nothing
<1> QED BY <1>7 DEF Keys!Next

\* The server takes the keys the client sends with already.
LEMMA KeysNewKeys ==
  ASSUME ReadableInv, LockStepInv, Queues, NewKeys PROVE Keys!Next
<1>1. /\ spc = "newkeys" /\ skey' = <<hash, sessionid>> /\ spc' # "dead"
      /\ UNCHANGED <<sessionid, authorized, csid, keyOut, keyIn, cpc>>
  BY DEF NewKeys, Get, clientVars, AfterNewKeys
<1>2. ServerKeeps
  BY <1>1 DEF ReadableInv, ServerInv
<1>3. /\ kexrecv \in Nat /\ kexrecv > 0 /\ kexrecv - 1 \in Nat
      /\ hash = Hash(Terms, kexrecv) /\ sessionid = Hash(Terms, 1)
      /\ skey = Key(Terms, kexrecv - 1)
  BY <1>1, <1>2 DEF ServerKeeps, ServerStage, Stage, KeyAt
<1>4. skey' = Key(Terms, kexrecv) /\ skey'[2] = sessionid
  BY <1>1, <1>3 DEF Key
<1>5. Keys!Exchange(skey') = kexrecv /\ Keys!Exchange(skey) = kexrecv - 1
  BY <1>3, <1>4, KeyNumbers
<1>6. cpc # "gone" => skey' = keyOut
  <2>1. Has(toServer, "NEWKEYS")
    BY HasTail DEF NewKeys, Get, Got, Queues
  <2> QED BY <1>1, <2>1 DEF LockStepInv, LockStep
<1>7. Keys!Follow
  BY <1>1, <1>3, <1>4, <1>5, <1>6 DEF Keys!Follow, Keys!After
<1> QED BY <1>7 DEF Keys!Next

\* A request is answered with success under keys both have taken.
LEMMA KeysAuthSigned ==
  ASSUME ReadableInv, Queues, AuthSigned, authorized' # authorized PROVE Keys!Next
<1>1. /\ spc = "auth" /\ spc' = "loop" /\ authorized' = TRUE /\ Get({"SIGNED"})
      /\ UNCHANGED <<sessionid, skey, csid, keyOut, keyIn, cpc>>
  BY DEF AuthSigned, Get, clientVars, Die
<1>2. ServerKeeps /\ OneRequest
  BY <1>1 DEF ReadableInv, ServerInv
<1>3. skey = Key(Terms, 1) /\ skey # <<>> /\ ~authorized
  BY <1>1, <1>2 DEF ServerKeeps, ServerStage, Stage, KeyAt, Key
<1>4. cpc \in {"service", "auth", "gone"}
  <2>1. toServer # <<>> /\ Got.type = "SIGNED"
    BY <1>1 DEF Get
  <2>2. PICK i \in DOMAIN toServer : toServer[i].type = "SIGNED"
    BY <2>1, HasTail DEF Queues, Got, Has
  <2> QED BY <1>2, <2>2 DEF OneRequest, Requests, AuthTypes
<1>5. cpc # "gone" => skey = keyOut /\ skey = keyIn
  <2> SUFFICES ASSUME cpc # "gone" PROVE skey = keyOut /\ skey = keyIn
    OBVIOUS
  <2>1. ClientKeeps
    BY DEF ReadableInv, ClientInv
  <2> QED BY <1>3, <1>4, <2>1 DEF ClientKeeps, ClientStage, Stage, KeyAt
<1>6. Keys!Authorise
  BY <1>1, <1>3, <1>5 DEF Keys!Authorise, Keys!Nothing
<1> QED BY <1>6 DEF Keys!Next

LEMMA KeysServer ==
  ASSUME ReadableInv, LockStepInv, Queues, Server PROVE Keys!Next
<1>1. spc # "dead" /\ UNCHANGED <<csid, keyOut, keyIn, cpc>>
  BY DEF Server, Refuse, Hangup, Disconnect, Ignore, KexReceive, SkipGuess, KexDh,
         NewKeys, DropBeforeNewKeys, Service, AuthRejected, AuthSigned, Rekey, Channel,
         Unimplemented, Get, clientVars
<1>2. CASE UNCHANGED <<sessionid, skey, authorized>>
  BY <1>1, <1>2, KeysQuiet DEF Visible
<1>3. CASE ~UNCHANGED <<sessionid, skey, authorized>>
  <2>1. \/ KexDh /\ sessionid' # sessionid
        \/ NewKeys
        \/ AuthSigned /\ authorized' # authorized
    BY <1>3 DEF Server, Refuse, Hangup, Disconnect, Ignore, KexReceive, SkipGuess, KexDh,
         DropBeforeNewKeys, Service, AuthRejected, AuthSigned, Rekey, Channel, Unimplemented,
         Rejoin, Die
  <2> QED BY <1>1, <2>1, KeysKexDh, KeysNewKeys, KeysAuthSigned
<1> QED BY <1>2, <1>3

\* The client is the first to take new keys, when all others are the same.
LEMMA KeysCReply ==
  ASSUME ReadableInv, LockStepInv, SessionIdInv', Queues, CReply PROVE Keys!Next
<1>1. /\ cpc = "reply" /\ CGet("REPLY")
      /\ UNCHANGED <<ckexsend, chash, keyIn, spc, sessionid, skey, authorized>>
  BY DEF CReply, CGet, serverVars
<1>2. toClient # <<>> /\ Head(toClient).type = "REPLY"
  BY <1>1 DEF CGet
<1>3. ClientKeeps
  BY <1>1 DEF ReadableInv, ClientInv
<1>4. /\ ckexsend \in Nat /\ ckexsend > 0 /\ ckexsend - 1 \in Nat
      /\ keyIn = Key(Terms, ckexsend - 1) /\ keyOut = keyIn
      /\ ClientStage = Stage("reply", ckexsend) /\ chash = Hash(Terms, ckexsend)
      /\ csid = IF ckexsend = 1 THEN <<>> ELSE Hash(Terms, 1)
  BY <1>1, <1>3 DEF ClientKeeps, ClientStage, Stage, KeyAt
<1>5. Head(toClient).id = chash
  <2>1. PICK t \in Stages : ClientReads(Terms, ClientStage, Head(toClient), t)
    BY <1>1, ClientTakes
  <2> QED BY <1>2, <1>4, <2>1 DEF ClientReads, Stage
<1>6. /\ csid' = (IF csid = <<>> THEN chash ELSE csid) /\ keyOut' = <<chash, csid'>>
      /\ cpc' = "newkeys"
  BY <1>5 DEF CReply
<1>7. csid' = Hash(Terms, 1) /\ csid' # <<>>
  BY <1>4, <1>6, HashesDiffer
<1>8. csid' = sessionid
  BY <1>1, <1>7 DEF SessionIdInv
<1>9. Keys!Exchange(keyOut') = ckexsend /\ Keys!Exchange(keyOut) = ckexsend - 1
      /\ keyOut'[2] = sessionid
  <2>1. keyOut' = Key(Terms, ckexsend)
    BY <1>4, <1>6, <1>7 DEF Key
  <2> QED BY <1>4, <1>6, <1>8, <2>1, KeyNumbers
<1>10. spc # "dead" => skey = keyOut
  <2> SUFFICES ASSUME spc # "dead" PROVE skey = keyOut
    OBVIOUS
  <2>1. Has(toClient, "REPLY")
    BY <1>2, HasTail DEF Queues
  <2>2. spc = "newkeys" /\ kexrecv = ckexsend
    BY <1>1, <2>1 DEF LockStepInv, LockStep
  <2>3. ServerKeeps
    BY DEF ReadableInv, ServerInv
  <2> QED BY <1>4, <2>2, <2>3 DEF ServerKeeps, ServerStage, Stage, KeyAt
<1>11. Keys!Lead
  BY <1>1, <1>4, <1>6, <1>7, <1>8, <1>9, <1>10 DEF Keys!Lead, Keys!After, Keys!Nothing
<1> QED BY <1>11 DEF Keys!Next

LEMMA KeysCNewKeys == ASSUME ReadableInv, CNewKeys PROVE Keys!Next
<1>1. /\ cpc = "newkeys" /\ keyIn' = <<chash, csid>> /\ cpc' # "gone"
      /\ UNCHANGED <<csid, keyOut, spc, sessionid, skey, authorized>>
  BY DEF CNewKeys, CGet, serverVars
<1>2. ClientKeeps
  BY <1>1 DEF ReadableInv, ClientInv
<1>3. /\ ckexsend \in Nat /\ ckexsend > 0 /\ ckexsend - 1 \in Nat
      /\ keyOut = Key(Terms, ckexsend) /\ keyIn = Key(Terms, ckexsend - 1)
      /\ chash = Hash(Terms, ckexsend) /\ csid = Hash(Terms, 1)
  BY <1>1, <1>2 DEF ClientKeeps, ClientStage, Stage, KeyAt
<1>4. keyIn' = keyOut
  BY <1>1, <1>3 DEF Key
<1>5. Keys!Exchange(keyOut) # Keys!Exchange(keyIn)
  BY <1>3, KeyNumbers
<1>6. keyIn # keyOut
  BY <1>5
<1>7. Keys!Take
  BY <1>1, <1>4, <1>6 DEF Keys!Take
<1> QED BY <1>7 DEF Keys!Next

LEMMA KeysClient ==
  ASSUME ReadableInv, LockStepInv, SessionIdInv', Queues, Client PROVE Keys!Next
<1>1. CASE CReply \/ CNewKeys
  BY <1>1, KeysCReply, KeysCNewKeys
<1>2. CASE ~(CReply \/ CNewKeys)
  <2>1. /\ UNCHANGED <<csid, keyOut, keyIn, spc, sessionid, skey, authorized>>
        /\ cpc = "gone" => cpc' = "gone"
    BY <1>2 DEF Client, CStartKex, CSend, CDisconnect, Reading, CKexInit, CAuth, CSuccess,
         CChannel, CGet, serverVars, clientVars
  <2> QED BY <2>1, KeysQuiet DEF Visible
<1> QED BY <1>1, <1>2

\* packet_kexdh.c:55-125 and packet_auth.c:164: a connection changes its keys as
\* KeyChange says, whatever the client prefers and guesses, however often it
\* re-keys, misleading the server or not, and whatever else is under way: in step
\* at both ends, always on to the next exchange, in the session of the first,
\* with the login under keys in use both ways.
THEOREM KeysChangeInStep == Spec => KeysInStep
<1>1. Init => Keys!Init
  BY Zenon DEF Init, Keys!Init, Keys!Nothing, Plain
<1>2. Connection /\ Connection' /\ [Next]_vars => [Keys!Next]_(Keys!vars)
  <2> SUFFICES ASSUME Connection, Connection', [Next]_vars
               PROVE  Keys!Next \/ UNCHANGED Keys!vars
    OBVIOUS
  <2> USE DEF Connection
  <2>1. CASE Server
    BY <2>1, KeysServer
  <2>2. CASE Client
    BY <2>2, KeysClient
  <2>3. CASE Output \/ UNCHANGED vars
    BY <2>3 DEF Output, vars, serverVars, clientVars, Keys!vars
  <2> QED BY <2>1, <2>2, <2>3 DEF Next
<1> QED BY <1>1, <1>2, ConnectionHolds, PTL DEF Spec, KeysInStep, Keys!Spec

\* What KeyChange promises, for whatever implements it: Together, and that
\* there is no key before there is a session.
KeysTogetherInv ==
  /\ Keys!Together
  /\ sessionid = <<>> => keyOut = <<>> /\ keyIn = <<>> /\ csid = <<>>
  /\ \A k \in {keyOut, keyIn, skey} : Keys!Exchange(k) \in Nat

LEMMA TogetherNext ==
  ASSUME KeysTogetherInv, [Keys!Next]_(Keys!vars) PROVE KeysTogetherInv'
<1> USE DEF KeysTogetherInv, Keys!Together, Keys!Nothing
<1>1. CASE Keys!Name
  BY <1>1 DEF Keys!Name, Keys!Exchange
<1>2. CASE Keys!Lead
  BY <1>2 DEF Keys!Lead, Keys!After, Keys!Exchange
<1>3. CASE Keys!Take
  BY <1>3 DEF Keys!Take, Keys!Exchange
<1>4. CASE Keys!Follow
  BY <1>4 DEF Keys!Follow, Keys!After, Keys!Exchange
<1>5. CASE Keys!Authorise
  BY <1>5 DEF Keys!Authorise, Keys!Exchange
<1>6. CASE Keys!Leave
  BY <1>6 DEF Keys!Leave, Keys!Exchange
<1>7. CASE UNCHANGED Keys!vars
  BY <1>7 DEF Keys!vars, Keys!Exchange
<1> QED BY <1>1, <1>2, <1>3, <1>4, <1>5, <1>6, <1>7 DEF Keys!Next

\* So the keys of a connection are never further apart than one exchange, and
\* never of two sessions (packet_kexdh.c:67 and 88-125).
THEOREM KeysStayTogether == Spec => []Keys!Together
<1>1. Keys!Init => KeysTogetherInv
  BY DEF Keys!Init, KeysTogetherInv, Keys!Together, Keys!Exchange, Keys!Nothing
<1>2. KeysTogetherInv /\ [Keys!Next]_(Keys!vars) => KeysTogetherInv'
  BY TogetherNext
<1>3. KeysTogetherInv => Keys!Together
  BY DEF KeysTogetherInv
<1>4. KeysInStep => []Keys!Together
  BY <1>1, <1>2, <1>3, PTL DEF KeysInStep, Keys!Spec
<1> QED BY <1>4, KeysChangeInStep
=============================================================================
