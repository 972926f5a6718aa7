------------------------- MODULE HandshakeInvariant -------------------------
(***************************************************************************)
(* The inductive invariants behind PacketsReadable and KeysInStep.         *)
(*                                                                         *)
(* The stage of an end is what it waits for, and in which exchange.  The   *)
(* packets on their way to it lead, one by one, from the stage it is at to *)
(* the stage that follows from what the other end has sent.  So sending    *)
(* adds a step to the chain and reading takes one away, and what the other *)
(* end is doing meanwhile does not matter.                                 *)
(***************************************************************************)
EXTENDS Handshake

\* What the client's first KEXINIT settles, once and for all.
Terms == [prefs |-> prefs, first |-> first]

Agreed(c) == Common(c.prefs) # {}
Name(c)   == Select(c.prefs)

\* The present guess.
Right == guessed /\ prefs[1] = Name(Terms)

\* Exchange n: the hash, the keys.
Hash(c, n) == <<n, n, <<n>>, Name(c)>>
Key(c, n)  == IF n = 0 THEN Plain ELSE <<Hash(c, n), Hash(c, 1)>>

Stages == [at : {"kexinit", "skip", "dh", "newkeys", "service", "auth", "loop", "dead",
                 "kex", "reply", "accept", "answer"}, n : Nat]

Stage(at, n) == [at |-> at, n |-> n]

\* During an exchange packets still have the keys of the one before.
KeyAt(c, s) == Key(c, IF s.at \in {"skip", "dh", "newkeys", "reply"} THEN s.n - 1
                                                                  ELSE s.n)

----------------------------------------------------------------------------
(* The stages of the server: spc and kexrecv.  A server that finds no      *)
(* algorithm in common, or is misled, dies and reads anything.             *)

FirstChoice(c) == c.prefs[1] = Name(c)

\* Where packet_kexdh starts in exchange n: it goes by the first guess.
Kex(c, n) == Stage(AfterKex(c.first, FirstChoice(c)), n)

FirstKex(c) == IF Agreed(c) THEN Kex(c, 1) ELSE Stage("dead", 1)

ServerReads(c, s, m, t) ==
  \/ s.at = "dead" /\ t = s
  \/ /\ m.key = KeyAt(c, s)
     /\ \/ m.type = "DISCONNECT" /\ t = s
        \/ /\ m.type = "IGNORE" /\ s.at \in {"service", "auth", "loop"}
           /\ t = s
        \/ /\ m.type = "UNKNOWN" /\ s.at \in {"newkeys", "loop"}
           /\ t = s
        \/ m.type = "CHANNEL" /\ s.at = "loop" /\ t = s
        \/ /\ m.type = "KEXINIT" /\ s.at = "kexinit" /\ s.n = 0
           /\ m.name = c.prefs /\ m.id = <<1, c.first>>
           /\ t = FirstKex(c)
        \/ m.type = "KEXDH" /\ s.at = "skip" /\ t = Stage("dh", s.n)
        \/ /\ m.type = "KEXDH" /\ s.at = "dh"
           /\ m.name = Name(c) /\ m.id = <<s.n>>
           /\ t = Stage("newkeys", s.n)
        \/ /\ s.at = "dh" /\ s.n > 1 /\ ~FirstChoice(c)
           /\ IF c.first THEN m.type = "UNKNOWN"
                         ELSE m.type = "KEXDH" /\ m.name # Name(c)
           /\ t = Stage("dead", s.n)
        \/ /\ m.type = "NEWKEYS" /\ s.at = "newkeys"
           /\ t = Stage(IF s.n = 1 THEN "service" ELSE "loop", s.n)
        \/ m.type = "SERVICE" /\ s.at = "service" /\ t = Stage("auth", s.n)
        \/ /\ m.type \in AuthTypes /\ s.at = "auth" /\ t = s
           /\ m.type = "SIGNED" => m.id = Hash(c, 1)
        \/ /\ m.type = "KEXINIT" /\ s.at = "loop" /\ m.id[1] = s.n + 1
           /\ t = Kex(c, s.n + 1)

\* Every exchange is two steps: waiting for the public key, and having it.
Rank(s) == 2 * s.n + (IF s.at \in {"skip", "dh", "dead"} THEN 0 ELSE 1)

\* What the stages of a chain have in common with its end: no step leads back,
\* and none leads away from death.
Leads(s, b) == (s.at = "dead" => b = s) /\ Rank(s) <= Rank(b)

----------------------------------------------------------------------------
(* The stages of the client.                                               *)

ClientReads(c, s, m, t) ==
  /\ m.key = KeyAt(c, s)
  /\ \/ /\ m.type \in {"CHANNEL", "UNIMPLEMENTED"} /\ s.at = "kex" /\ s.n > 0
        /\ t = s
     \/ /\ m.type = "KEXINIT" /\ s.at = "kex" /\ m.id = <<s.n + 1>>
        /\ t = Stage("reply", s.n + 1)
     \/ /\ m.type = "REPLY" /\ s.at = "reply" /\ m.id = Hash(c, s.n)
        /\ t = Stage("newkeys", s.n)
     \/ /\ m.type = "NEWKEYS" /\ s.at = "newkeys"
        /\ t = Stage(IF s.n = 1 THEN "accept" ELSE "kex", s.n)
     \/ m.type = "ACCEPT" /\ s.at = "accept" /\ t = Stage("answer", s.n)
     \/ m.type \in {"PK_OK", "FAILURE"} /\ s.at = "answer" /\ t = s
     \/ m.type = "SUCCESS" /\ s.at = "answer" /\ t = Stage("kex", s.n)

Reads(c, end, s, m, t) == IF end = "server" THEN ServerReads(c, s, m, t)
                                            ELSE ClientReads(c, s, m, t)

\* Reading the packets of q takes an end from stage a to stage b.
Chain(c, end, q, a, b) ==
  \E st \in [1..(Len(q) + 1) -> Stages] :
    /\ st[1] = a /\ st[Len(q) + 1] = b
    /\ \A i \in 1..Len(q) : /\ Reads(c, end, st[i], q[i], st[i + 1])
                           /\ Leads(st[i], b)

----------------------------------------------------------------------------
(* Where the ends are, and where they will be.                             *)

ServerStage == Stage(spc, kexrecv)

\* The client's stage when it has read all the server has sent.
Told ==
  IF spc = "kexinit" THEN Stage("reply", 1)
  ELSE Stage(IF spc \in {"skip", "dh"} THEN "reply"
             ELSE IF spc = "service" \/ (spc = "newkeys" /\ kexrecv = 1) THEN "accept"
             ELSE IF spc = "auth" THEN "answer"
             ELSE "kex", kexrecv)

ClientStage ==
  Stage(IF cpc \in {"start", "kexwait", "ready"} THEN "kex"
        ELSE IF cpc = "service" THEN "accept"
        ELSE IF cpc = "auth" THEN "answer"
        ELSE cpc,
        IF cpc = "kexwait" THEN ckexsend - 1 ELSE ckexsend)

\* The server's stage when it has read all the client has sent.
Asked ==
  IF cpc = "kexwait" /\ ~Agreed(Terms) THEN Stage("dead", 1)
  ELSE Stage(IF cpc = "start" THEN "kexinit"
             ELSE IF cpc \in {"kexwait", "reply"} /\ Misled THEN
                    IF guessed THEN "dead" ELSE IF cpc = "reply" THEN "dh" ELSE "skip"
             ELSE IF cpc = "kexwait" /\ ~Right THEN "dh"
             ELSE IF cpc \in {"kexwait", "reply"} THEN "newkeys"
             ELSE IF cpc = "newkeys" /\ ckexsend = 1 THEN "service"
             ELSE IF cpc = "service" \/ (cpc = "auth" /\ ~authorized) THEN "auth"
             ELSE "loop", ckexsend)

----------------------------------------------------------------------------
(* What each end keeps.                                                    *)

ServerKeeps ==
  /\ spc \in {"kexinit", "skip", "dh", "newkeys", "service", "auth", "loop"}
  /\ kexrecv \in Nat
  /\ skey = KeyAt(Terms, ServerStage)
  /\ authorized \in BOOLEAN /\ (authorized <=> kexrecv > 1 \/ spc = "loop")
  /\ rekeying \in BOOLEAN
  /\ rekeying <=> kexrecv > 1 \/ spc \in {"newkeys", "service", "auth", "loop"}
  /\ rekeying => sessionid = Hash(Terms, 1)
  /\ spc \in {"newkeys", "service", "auth", "loop"} => hash = Hash(Terms, kexrecv)
  /\ spc \in {"service", "auth"} => kexrecv = 1
  /\ spc = "kexinit" => kexrecv = 0 /\ kexsend = 1
  /\ spc # "kexinit" => /\ kexrecv > 0 /\ kexsend = kexrecv
                        /\ Agreed(Terms) /\ kexname = Name(Terms)
                        /\ follows = first /\ (guess <=> FirstChoice(Terms))

ClientKeeps ==
  /\ cpc \in {"start", "kexwait", "reply", "newkeys", "service", "auth", "ready"}
  /\ ckexsend \in Nat
  /\ keyIn = KeyAt(Terms, ClientStage)
  /\ keyOut = IF cpc = "newkeys" THEN Key(Terms, ckexsend) ELSE keyIn
  /\ cpc \in {"reply", "newkeys"} => chash = Hash(Terms, ckexsend)
  /\ csid = IF ckexsend = 0 \/ (ckexsend = 1 /\ cpc \in {"kexwait", "reply"})
            THEN <<>> ELSE Hash(Terms, 1)
  /\ cpc \in {"service", "auth"} => ckexsend = 1
  /\ cpc = "start" <=> ckexsend = 0
  /\ cpc \notin {"start", "kexwait"} \/ ckexsend > 1 => Agreed(Terms)
  /\ first \in BOOLEAN /\ guessed \in BOOLEAN /\ (ckexsend = 1 => guessed = first)
  /\ Misled => cpc \in {"kexwait", "reply"}

\* Nothing has happened before the client starts.
NotStarted == /\ spc = "kexinit" /\ toServer = <<>>
              /\ toClient = <<Packet("KEXINIT", NoName, <<1>>, Plain)>>

Requests == AuthTypes \cup {"SERVICE"}
Answers  == {"ACCEPT", "PK_OK", "FAILURE", "SUCCESS"}

\* Behind a request only packets that are ignored follow, and it is the only
\* one; an authorised client has none.
OneRequest ==
  \A i \in DOMAIN toServer :
    toServer[i].type \in Requests =>
      /\ ~authorized
      /\ cpc \in {"service", "auth", "gone"}
      /\ \A j \in DOMAIN toServer :
           i < j => /\ toServer[j].type \in {"IGNORE", "DISCONNECT"}
                    /\ toServer[j].key = Key(Terms, 1)

\* Behind an answer there is no request, and no other answer.
OneAnswer ==
  \A i \in DOMAIN toClient :
    toClient[i].type \in Answers =>
      /\ cpc \in {"service", "auth"}
      /\ toClient[i].type = "SUCCESS" <=> authorized
      /\ \A j \in DOMAIN toClient : toClient[j].type \in Answers => j = i
      /\ \A j \in DOMAIN toServer : toServer[j].type \notin Requests

\* The packets of a client bring the server where it is asked to be, or those of
\* a client that has misled it to its end.
Ends(b) ==
  /\ cpc # "gone" => b = Asked \/ (Misled /\ b = Stage("dead", ckexsend))
  /\ b.at = "dead" => Misled \/ ~Agreed(Terms)

ServerChain ==
  \E b : Chain(Terms, "server", toServer, ServerStage, b) /\ Ends(b)

ClientChain ==
  \E b : /\ Chain(Terms, "client", toClient, ClientStage, b)
         /\ spc # "dead" => b = Told

ServerInv == ServerKeeps /\ OneRequest /\ ServerChain

ClientInv == ClientKeeps /\ ClientChain /\ (cpc = "start" => NotStarted)

ReadableInv ==
  /\ why \notin {"mac", "signature"}
  /\ why = "proto" => Misled
  /\ spc # "dead" => ServerInv
  /\ cpc # "gone" => ClientInv
  /\ spc # "dead" /\ cpc # "gone" => OneAnswer

----------------------------------------------------------------------------
(* What KeysInStep needs besides, while both ends take part: how far apart *)
(* they can be in an exchange.                                             *)

Has(q, type)  == \E i \in DOMAIN q : q[i].type = type
Only(q, type) == \A i, j \in DOMAIN q : q[i].type = type /\ q[j].type = type => i = j

\* The server computes the exchange the client waits for, from the client's
\* KEXINIT until the client has read the REPLY; the client's NEWKEYS comes
\* after it, and the server has not left the exchange before that is read.
\* There is one of each of these packets at a time.
LockStep ==
  /\ Only(toServer, "KEXINIT") /\ Only(toServer, "NEWKEYS") /\ Only(toClient, "REPLY")
  /\ Has(toServer, "KEXINIT") => cpc \in {"kexwait", "reply"}
  /\ \A i \in DOMAIN toServer : toServer[i].type = "KEXINIT" => toServer[i].id[1] = ckexsend
  /\ spc \in {"skip", "dh"} \/ Has(toClient, "REPLY") =>
       /\ cpc \in {"kexwait", "reply"} /\ kexrecv = ckexsend
       /\ ~Has(toServer, "KEXINIT") /\ ~Has(toServer, "NEWKEYS")
  /\ Has(toClient, "REPLY") => spc = "newkeys"
  /\ Has(toServer, "NEWKEYS") => spc = "newkeys" /\ keyOut = <<hash, sessionid>>

\* The REPLY reaches a client that is not misled; a server that died after it
\* does not change that.
ReplyInv ==
  cpc # "gone" =>
    /\ Only(toClient, "REPLY")
    /\ Has(toClient, "REPLY") => cpc \in {"kexwait", "reply"} /\ ~Misled

LockStepInv == /\ spc # "dead" /\ cpc # "gone" => LockStep
               /\ ~rekeying => sessionid = <<>>
=============================================================================
