----------------------------- MODULE Handshake -----------------------------
(***************************************************************************)
(* One connection of TinySSH up to its main loop: negotiation of the key   *)
(* exchange (packet_kex.c, sshcrypto_kex.c), the exchange itself and       *)
(* re-keying (packet_kexdh.c, main_tinysshd), user authentication          *)
(* (packet_auth.c), and what packet_get does to packets on their way.      *)
(*                                                                         *)
(* The hash of an exchange is the tuple of what goes into it: the client's *)
(* and the server's KEXINIT, the client's public key and the algorithm.  A *)
(* key is the hash it is derived from and the session id; the key of plain *)
(* packets is <<>>.  Every packet names the key it was encrypted with: the *)
(* receiver, which has only its own, can read it when the two are equal.   *)
(***************************************************************************)
EXTENDS Integers, Sequences

CONSTANTS
  Algorithms,  \* the names in sshcrypto_kexs that are enabled
  Preferences, \* the lists of key exchange algorithms a client may send
  Guesses,     \* may a client set "first kex packet follows"?
  UnauthLimit, \* PACKET_UNAUTHENTICATED_MESSAGES
  TryLimit,    \* the 32 rounds of the loop in packet_auth
  MaxRekeys,   \* bound: re-keyings the client starts
  MaxPackets,  \* bound: packets besides key exchange the client sends
  MaxOutput    \* bound: data packets of the server

ASSUME PreferenceAssumption ==
  Preferences \subseteq Seq(STRING) /\ \A p \in Preferences : p # <<>>
ASSUME GuessAssumption == Guesses \subseteq BOOLEAN
ASSUME LimitAssumption == UnauthLimit \in Nat /\ TryLimit \in Nat \ {0}
ASSUME BoundAssumption == /\ MaxRekeys \in Nat /\ MaxPackets \in Nat
                          /\ MaxOutput \in Nat

VARIABLES
  \* the server
  spc,          \* the packet it waits for, "loop", or "dead"
  why,          \* why it died
  kexname,      \* sshcrypto_kex_name
  follows,      \* packet.kex_packet_follows
  guess,        \* packet.kex_guess
  rekeying,     \* packet.flagrekeying
  authorized,   \* packet.flagauthorized
  kexrecv,      \* packet.kexrecv: the client's KEXINIT
  kexsend,      \* packet.kexsend: the server's KEXINIT
  hash,         \* hash of the exchange
  sessionid,    \* packet.sessionid
  skey,         \* the keys in packet.*key, <<>> while packet.flagkeys = 0
  recvid,       \* packet.receivepacketid
  count,        \* rounds of the loop in packet_auth
  output,       \* data packets sent
  \* the connection
  toServer, toClient,
  \* the client
  cpc, prefs,
  first,        \* history: was there a guess in the first exchange?
  guessed,      \* is there one in the present exchange?
  cname, ckexsend, ckexrecv, chash, csid, keyIn, keyOut,
  sent, rekeys  \* the counters of the bounds

serverVars == <<spc, why, kexname, follows, guess, rekeying, authorized,
                kexrecv, kexsend, hash, sessionid, skey, recvid, count,
                output>>
clientVars == <<cpc, prefs, first, guessed, cname, ckexsend, ckexrecv, chash,
                csid, keyIn, keyOut, sent, rekeys>>
vars == <<serverVars, toServer, toClient, clientVars>>

NoName == "none"
Plain  == <<>>

\* The messages that follow the key exchange of the client.
AuthTypes == {"NONE", "QUERY", "SIGNED"}
LoopTypes == {"CHANNEL", "UNKNOWN", "IGNORE"}

\* name: an algorithm; id: whatever the packet carries besides.
Packet(type, name, id, key) ==
  [type |-> type, name |-> name, id |-> id, key |-> key]

Init ==
  /\ spc = "kexinit" /\ why = "none" /\ kexname = NoName
  /\ follows = FALSE /\ guess = FALSE /\ rekeying = FALSE
  /\ authorized = FALSE
  /\ kexrecv = 0 /\ kexsend = 1 /\ hash = <<>> /\ sessionid = <<>>
  /\ skey = Plain /\ recvid = 0 /\ count = 0 /\ output = 0
  /\ toServer = <<>>
  /\ toClient = <<Packet("KEXINIT", NoName, <<1>>, Plain)>>
  /\ cpc = "start" /\ prefs = <<>> /\ first = FALSE /\ guessed = FALSE
  /\ cname = NoName
  /\ ckexsend = 0 /\ ckexrecv = 0 /\ chash = <<>> /\ csid = <<>>
  /\ keyIn = Plain /\ keyOut = Plain /\ sent = 0 /\ rekeys = 0

----------------------------------------------------------------------------
(* The server: packet_get, then the code that called packet_getall, or the *)
(* switch of the main loop.                                                *)

Got == Head(toServer)

\* die_fatal, global_die and bug_*.
Die(reason) == /\ spc' = "dead" /\ why' = reason
               /\ UNCHANGED <<kexname, follows, guess, rekeying, authorized,
                              kexrecv, kexsend, hash, sessionid, skey, count,
                              output, toClient>>

\* The packet type packet_getall insists on; NEWKEYS and the main loop take
\* whatever comes.
Expected == CASE spc = "kexinit" -> {"KEXINIT"}
              [] spc \in {"skip", "dh"} -> {"KEXDH"}
              [] spc = "service" -> {"SERVICE"}
              [] OTHER -> AuthTypes

TooManyMutant == FALSE

\* "too many unauthenticated messages"; the packet itself is counted already.
TooMany == ~authorized /\ recvid + 1 > UnauthLimit

CanRead == Got.key = skey

\* packet_get takes a packet of one of the types and hands it on.
Get(types) == /\ spc # "dead" /\ toServer # <<>> /\ CanRead /\ ~TooMany
              /\ Got.type \in types
              /\ toServer' = Tail(toServer) /\ recvid' = recvid + 1
              /\ UNCHANGED clientVars

\* A packet that does not authenticate, one too many, or an unexpected one.
Refuse == /\ spc # "dead" /\ toServer # <<>>
          /\ toServer' = Tail(toServer) /\ recvid' = recvid + 1
          /\ UNCHANGED clientVars
          /\ \/ ~CanRead /\ Die("mac")
             \/ CanRead /\ TooMany /\ Die("unauthenticated")
             \/ /\ CanRead /\ ~TooMany
                /\ spc \notin {"newkeys", "loop"}
                /\ Got.type \notin Expected \cup {"IGNORE", "DISCONNECT"}
                /\ Die("proto")

\* DISCONNECT ends the session, except that the main loop waits for the end
\* of the connection.
Disconnect ==
  /\ Get({"DISCONNECT"})
  /\ \/ spc # "loop" /\ Die("gone")
     \/ /\ spc = "loop"
        /\ UNCHANGED <<spc, why, kexname, follows, guess, rekeying,
                       authorized, kexrecv, kexsend, hash, sessionid, skey,
                       count, output, toClient>>

HangupMutant == FALSE

\* The connection is closed (packet_recv).
Hangup == /\ spc # "dead" /\ cpc = "gone" /\ toServer = <<>>
          /\ Die("gone")
          /\ UNCHANGED <<recvid, toServer, clientVars>>

\* packet_get purges IGNORE and DEBUG.
Ignore == /\ Get({"IGNORE"})
          /\ UNCHANGED <<spc, why, kexname, follows, guess, rekeying,
                         authorized, kexrecv, kexsend, hash, sessionid, skey,
                         count, output, toClient>>

Common(p) == {i \in 1..Len(p) : p[i] \in Algorithms}

\* The first of the client's algorithms that is enabled here.
Select(p) == p[CHOOSE i \in Common(p) : \A j \in Common(p) : i <= j]

GuessRightMutant(p, name) == TRUE
GuessRight(p, name) == p[1] = name

AfterKexMutant(f, g) == IF f THEN "skip" ELSE "dh"

\* Where packet_kexdh starts: a wrongly guessed packet is read and dropped.
AfterKex(f, g) == IF f /\ ~g THEN "skip" ELSE "dh"

\* packet_kex_receive, in the first session after a start:
\* sshcrypto_kex_select would leave a choice already made as it is.
KexReceive ==
  /\ spc = "kexinit" /\ Get({"KEXINIT"})
  /\ \/ /\ Common(Got.name) # {}
        /\ kexname' = Select(Got.name)
        /\ guess' = GuessRight(Got.name, kexname')
        /\ follows' = Got.id[2]
        /\ kexrecv' = Got.id[1]
        /\ spc' = AfterKex(follows', guess')
        /\ UNCHANGED <<why, rekeying, authorized, kexsend, hash, sessionid,
                       skey, count, output, toClient>>
     \/ Common(Got.name) = {} /\ Die("kex")

\* The packet that followed a wrong guess.
SkipGuess ==
  /\ spc = "skip" /\ Get({"KEXDH"})
  /\ spc' = "dh"
  /\ UNCHANGED <<why, kexname, follows, guess, rekeying, authorized, kexrecv,
                 kexsend, hash, sessionid, skey, count, output, toClient>>

HashOf(m) == <<kexrecv, kexsend, m.id, kexname>>

SessionIdLate(h) == IF rekeying THEN h ELSE sessionid
SessionId(h) == IF rekeying THEN sessionid ELSE h

\* packet_kexdh up to and with its NEWKEYS; it fails when the signing key
\* cannot be loaded or the public key is not one of the algorithm chosen.
KexDh ==
  /\ spc = "dh" /\ Get({"KEXDH"})
  /\ \/ /\ Got.name = kexname
        /\ hash' = HashOf(Got)
        /\ sessionid' = SessionId(hash')
        /\ rekeying' = TRUE
        /\ toClient' = toClient \o <<Packet("REPLY", NoName, hash', skey),
                                     Packet("NEWKEYS", NoName, <<>>, skey)>>
        /\ spc' = "newkeys"
        /\ UNCHANGED <<why, kexname, follows, guess, authorized, kexrecv,
                       kexsend, skey, count, output>>
     \/ Got.name = kexname /\ Die("sign")
     \/ Got.name # kexname /\ Die("proto")

AfterNewKeysMutant == "service"
AfterNewKeys == IF authorized THEN "loop" ELSE "service"

\* The end of packet_kexdh: both directions change keys.
NewKeys ==
  /\ spc = "newkeys" /\ Get({"NEWKEYS"})
  /\ skey' = <<hash, sessionid>>
  /\ spc' = AfterNewKeys
  /\ UNCHANGED <<why, kexname, follows, guess, rekeying, authorized, kexrecv,
                 kexsend, hash, sessionid, count, output, toClient>>

\* Anything else is dropped without a word.
DropBeforeNewKeys ==
  /\ spc = "newkeys" /\ toServer # <<>> /\ Got.type # "NEWKEYS"
  /\ Get({Got.type} \ {"IGNORE", "DISCONNECT"})
  /\ UNCHANGED <<spc, why, kexname, follows, guess, rekeying, authorized,
                 kexrecv, kexsend, hash, sessionid, skey, count, output,
                 toClient>>

Answer(type, id) ==
  toClient' = Append(toClient, Packet(type, NoName, id, skey))

Service ==
  /\ spc = "service" /\ Get({"SERVICE"})
  /\ Answer("ACCEPT", <<>>) /\ spc' = "auth"
  /\ UNCHANGED <<why, kexname, follows, guess, rekeying, authorized, kexrecv,
                 kexsend, hash, sessionid, skey, count, output>>

\* A request that does not authorise: PK_OK to a key without signature,
\* FAILURE to the rest, which includes a signature by a key that is not the
\* authorised one (subprocess_auth).  The loop ends after TryLimit of them.
AuthRejected ==
  /\ spc = "auth" /\ Get(AuthTypes)
  /\ Got.type = "SIGNED" => Got.id = sessionid
  /\ Answer(IF Got.type = "QUERY" THEN "PK_OK" ELSE "FAILURE", <<>>)
  /\ count' = count + 1
  /\ IF count' < TryLimit THEN UNCHANGED <<spc, why>>
                          ELSE spc' = "dead" /\ why' = "tries"
  /\ UNCHANGED <<kexname, follows, guess, rekeying, authorized, kexrecv,
                 kexsend, hash, sessionid, skey, output>>

\* A signature by an authorised key, over the session id.
AuthSigned ==
  /\ spc = "auth" /\ Get({"SIGNED"})
  /\ \/ /\ Got.id = sessionid
        /\ Answer("SUCCESS", <<>>)
        /\ authorized' = TRUE /\ spc' = "loop"
        /\ UNCHANGED <<why, kexname, follows, guess, rekeying, kexrecv,
                       kexsend, hash, sessionid, skey, count, output>>
     \/ Got.id # sessionid /\ Die("signature")

Rejoin == UNCHANGED <<why, kexname, follows, guess, rekeying, authorized,
                      hash, sessionid, skey, count, output>>

KexRecvMutant(m) == kexrecv

\* What packet.kexrecv holds after the KEXINIT m of a re-keying.
KexRecv(m) == m.id[1]

\* KEXINIT in the main loop: it is stored and answered, not parsed.
Rekey ==
  /\ spc = "loop" /\ Get({"KEXINIT"})
  /\ kexrecv' = KexRecv(Got)
  /\ kexsend' = kexsend + 1
  /\ Answer("KEXINIT", <<kexsend'>>)
  /\ spc' = AfterKex(follows, guess)
  /\ Rejoin

\* The channel packets, see module Channel.
Channel == /\ spc = "loop" /\ Get({"CHANNEL"})
           /\ UNCHANGED <<spc, kexrecv, kexsend, toClient>>
           /\ Rejoin

Unimplemented ==
  /\ spc = "loop"
  /\ toServer # <<>> /\ Got.type \notin {"CHANNEL", "KEXINIT", "IGNORE",
                                        "DISCONNECT"}
  /\ Get({Got.type})
  /\ Answer("UNIMPLEMENTED", <<recvid'>>)
  /\ UNCHANGED <<spc, kexrecv, kexsend>>
  /\ Rejoin

\* Output of the child and everything else the server sends on its own.
Output == /\ spc = "loop" /\ output < MaxOutput
          /\ output' = output + 1
          /\ Answer("CHANNEL", <<>>)
          /\ UNCHANGED <<spc, why, kexname, follows, guess, rekeying,
                         authorized, kexrecv, kexsend, hash, sessionid, skey,
                         recvid, count, toServer, clientVars>>

Server == \/ Refuse \/ Disconnect \/ Hangup \/ Ignore
          \/ KexReceive \/ SkipGuess \/ KexDh \/ NewKeys
          \/ DropBeforeNewKeys \/ Service \/ AuthRejected \/ AuthSigned
          \/ Rekey \/ Channel \/ Unimplemented

----------------------------------------------------------------------------
(* A client that follows RFC 4253 and takes a guess to be right when the   *)
(* algorithm it guessed is the one negotiated.                             *)

Send(packets) == toServer' = toServer \o packets

\* The packet at the head of toClient, readable with the client's keys.
CGet(type) == /\ toClient # <<>> /\ Head(toClient).type = type
              /\ Head(toClient).key = keyIn
              /\ toClient' = Tail(toClient)
              /\ UNCHANGED serverVars

\* Algorithm names and the exchange's number go into the KEXINIT.
KexInit(p, g, n) == Packet("KEXINIT", p, <<n, g>>, keyOut)
KexDhInit(name, n) == Packet("KEXDH", name, <<n>>, keyOut)

CStartKex ==
  /\ \/ cpc = "start" /\ rekeys' = rekeys
     \/ /\ cpc = "ready" /\ rekeys < MaxRekeys /\ rekeys' = rekeys + 1
  /\ \E p \in (IF cpc = "start" THEN Preferences ELSE {prefs}),
        g \in Guesses :
       /\ prefs' = p /\ guessed' = g /\ ckexsend' = ckexsend + 1
       /\ first' = IF cpc = "start" THEN g ELSE first
       /\ LET init == KexInit(p, g, ckexsend')
          IN  Send(IF g THEN <<init, KexDhInit(p[1], ckexsend')>>
                        ELSE <<init>>)
  /\ cpc' = "kexwait"
  /\ UNCHANGED <<serverVars, toClient, cname, ckexrecv, chash, csid, keyIn,
                 keyOut, sent>>

\* The server's KEXINIT: negotiate, send the public key unless the guess
\* was right.
CKexInit ==
  /\ cpc = "kexwait" /\ CGet("KEXINIT")
  /\ ckexrecv' = Head(toClient).id[1]
  /\ IF Common(prefs) = {}
     THEN cpc' = "gone" /\ UNCHANGED <<cname, chash, toServer>>
     ELSE /\ cname' = prefs[CHOOSE i \in Common(prefs) :
                              \A j \in Common(prefs) : i <= j]
          /\ cpc' = "reply"
          /\ chash' = <<ckexsend, ckexrecv', <<ckexsend>>, cname'>>
          /\ IF guessed /\ prefs[1] = cname'
             THEN UNCHANGED toServer
             ELSE Send(<<KexDhInit(cname', ckexsend)>>)
  /\ UNCHANGED <<prefs, first, guessed, ckexsend, csid, keyIn, keyOut, sent,
                 rekeys>>

\* The signed hash must be the client's own.
CReply ==
  /\ cpc = "reply" /\ CGet("REPLY")
  /\ IF Head(toClient).id = chash
     THEN /\ csid' = (IF csid = <<>> THEN chash ELSE csid)
          /\ Send(<<Packet("NEWKEYS", NoName, <<>>, keyOut)>>)
          /\ keyOut' = <<chash, csid'>>
          /\ cpc' = "newkeys"
     ELSE cpc' = "badhash" /\ UNCHANGED <<csid, keyOut, toServer>>
  /\ UNCHANGED <<prefs, first, guessed, cname, ckexsend, ckexrecv, chash,
                 keyIn, sent, rekeys>>

\* The first time authentication follows.
CNewKeys ==
  /\ cpc = "newkeys" /\ CGet("NEWKEYS")
  /\ keyIn' = <<chash, csid>>
  /\ IF chash = csid
     THEN cpc' = "service" /\ Send(<<Packet("SERVICE", NoName, <<>>, keyOut)>>)
     ELSE cpc' = "ready" /\ UNCHANGED toServer
  /\ UNCHANGED <<prefs, first, guessed, cname, ckexsend, ckexrecv, chash, csid,
                 keyOut, sent, rekeys>>

\* One authentication request at a time.
CAuth ==
  /\ \/ cpc = "service" /\ CGet("ACCEPT")
     \/ cpc = "auth" /\ CGet("PK_OK")
     \/ cpc = "auth" /\ CGet("FAILURE")
  /\ cpc' = "auth"
  /\ \E t \in AuthTypes :
       /\ t = "SIGNED" \/ sent < MaxPackets
       /\ sent' = IF t = "SIGNED" THEN sent ELSE sent + 1
       /\ Send(<<Packet(t, NoName, csid, keyOut)>>)
  /\ UNCHANGED <<prefs, first, guessed, cname, ckexsend, ckexrecv, chash, csid,
                 keyIn, keyOut, rekeys>>

CSuccess == /\ cpc = "auth" /\ CGet("SUCCESS")
            /\ cpc' = "ready"
            /\ UNCHANGED <<toServer, prefs, first, guessed, cname, ckexsend,
                           ckexrecv, chash, csid, keyIn, keyOut, sent,
                           rekeys>>

\* Requests and data; IGNORE also before authentication is complete, and what
\* the transport layer may send of its own during a key exchange.
CSend ==
  /\ sent < MaxPackets /\ sent' = sent + 1
  /\ \E t \in LoopTypes :
       /\ \/ cpc = "ready"
          \/ t = "IGNORE" /\ cpc \in {"service", "auth"}
          \/ t = "UNKNOWN" /\ cpc = "reply"
       /\ Send(<<Packet(t, NoName, <<>>, keyOut)>>)
  /\ UNCHANGED <<serverVars, toClient, cpc, prefs, first, guessed, cname,
                 ckexsend, ckexrecv, chash, csid, keyIn, keyOut, rekeys>>

CDisconnect ==
  /\ cpc \notin {"start", "gone", "badhash"}
  /\ cpc' = "gone"
  /\ Send(<<Packet("DISCONNECT", NoName, <<>>, keyOut)>>)
  /\ UNCHANGED <<serverVars, toClient, prefs, first, guessed, cname, ckexsend,
                 ckexrecv, chash, csid, keyIn, keyOut, sent, rekeys>>

\* Channel packets of the server and UNIMPLEMENTED; they may also come before
\* its KEXINIT.
CChannel == /\ cpc \in {"ready", "kexwait"}
            /\ CGet("CHANNEL") \/ CGet("UNIMPLEMENTED")
            /\ UNCHANGED <<toServer, clientVars>>

Reading == \/ CKexInit \/ CReply \/ CNewKeys \/ CAuth \/ CSuccess \/ CChannel

Client == CStartKex \/ CSend \/ CDisconnect \/ Reading

----------------------------------------------------------------------------
Next == Server \/ Output \/ Client

Spec == Init /\ [][Next]_vars

\* The session task and the client go on; when the client re-keys and what
\* it asks for is up to it, but it does start.
Fairness == /\ WF_vars(Server)
            /\ WF_vars(Reading)
            /\ WF_vars(CStartKex /\ cpc = "start")

FairSpec == Spec /\ Fairness

----------------------------------------------------------------------------
(* Properties.                                                             *)

TypeOK ==
  /\ spc \in {"kexinit", "skip", "dh", "newkeys", "service", "auth", "loop",
              "dead"}
  /\ why \in {"none", "mac", "unauthenticated", "proto", "kex", "sign",
              "tries", "signature", "gone"}
  /\ kexname \in Algorithms \cup {NoName}
  /\ {follows, guess, rekeying, authorized, first, guessed} \subseteq BOOLEAN
  /\ kexrecv \in Nat /\ kexsend \in Nat /\ recvid \in Nat
  /\ count \in 0..TryLimit /\ output \in Nat
  /\ cpc \in {"start", "kexwait", "reply", "newkeys", "service", "auth",
              "ready", "gone", "badhash"}

\* main_tinysshd.c:156: the server goes by what it found out about the first
\* guess in every exchange.  That leads a re-keying astray when the client's
\* first choice is not the algorithm negotiated, and it guesses now and did
\* not the first time, or the other way round.
Misled == /\ ckexsend > 1
          /\ prefs[1] # Select(prefs) /\ guessed # first

\* Both ends change keys at the same packet: a client that keeps to the
\* protocol never sends what the server cannot decrypt or has not signed for,
\* nor what it does not expect, unless it has been misled; nor the other way
\* round.
PacketsReadable ==
  /\ why \notin {"mac", "signature"}
  /\ why = "proto" => Misled
  /\ cpc # "badhash"
  /\ cpc # "gone" /\ toClient # <<>> => Head(toClient).key = keyIn

\* The session id is the hash of the first exchange for both ends, the client's
\* and the server's (packet_kexdh.c:67); no re-keying changes it for one of them.
SameSessionId == csid # <<>> => csid = sessionid

Keys == INSTANCE KeyChange WITH
  here <- cpc # "gone", up <- spc # "dead",
  session <- sessionid, agreed <- csid,
  out <- keyOut, in <- keyIn, srv <- skey, authorised <- authorized

\* packet_kexdh.c:55-125 and packet_auth.c:164: the keys change in step at both
\* ends, from one exchange to the next and never away from the session, and a
\* client is authorised once, under keys that are in use both ways.
KeysInStep == Keys!Spec

\* The limit of packets ends a session before the limit of tries does.
PacketLimitFirst ==
  /\ why # "tries"
  /\ authorized \/ spc = "dead" \/ recvid <= UnauthLimit

\* The first key exchange comes to an end, whatever was guessed.
KeyExchangeEnds ==
  (cpc = "kexwait" /\ rekeys = 0)
    ~> (cpc \in {"service", "gone"} \/ spc = "dead")

\* packet_kexdh.c:34: after a wrong first guess the server drops the public key
\* of a client that re-keys without a guess, and waits for another one.
Stranded == Misled /\ first

\* Every re-keying comes to an end (main_tinysshd.c:156-166) but those of a
\* stranded client, whatever it guesses now and guessed the first time; and
\* what a stranded client waits for never comes.
RekeyingDone ==
  /\ (cpc = "kexwait" /\ rekeys > 0 /\ ~Stranded)
       ~> (cpc \in {"ready", "gone"} \/ spc = "dead")
  /\ [][Stranded /\ cpc \in {"kexwait", "reply"} =>
          cpc' \in {"kexwait", "reply", "gone"}]_vars

\* The task of a client that left ends.
TaskEnds == (cpc = "gone") ~> (spc = "dead")

============================================================================
