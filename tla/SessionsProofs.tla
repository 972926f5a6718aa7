--------------------------- MODULE SessionsProofs --------------------------
(***************************************************************************)
(* Theorems about Sessions, for any number of sessions, children, resets,  *)
(* key pairs and failed writes: the types, what becomes of the             *)
(* descriptors, and what NVS holds of the host key.                        *)
(***************************************************************************)
EXTENDS Sessions, TLAPS

Shape ==
  /\ pc \in [Sessions -> {"none", "init", "reset", "load", "public", "hello",
                          "kex", "kexdh", "sign", "auth", "loop", "purge",
                          "tables", "exit", "gone"}]
  /\ open \subseteq Descriptors
  /\ chan \in [open : BOOLEAN, pid : BOOLEAN, fds : ChannelFds]
  /\ starter \in Seq(Sessions)
  /\ overlap \in BOOLEAN /\ hungup \in BOOLEAN

\* Only between channel_exec and channel_purge of one session is there a
\* child in `channel`, and only outside them is descriptor 0.
OneHolder ==
  /\ \A s, t \in Sessions : Alive(s) /\ Alive(t) => s = t
  /\ Console \in open \/ hungup
  /\ \A c \in Children : Child(c) \in open => chan.fds = Child(c)
  /\ \A c \in Children : chan.fds = Child(c) =>
       /\ chan.pid
       /\ \E s \in Sessions : pc[s] \in {"loop", "purge"}
  /\ chan.fds = Console =>
       \A s \in Sessions : pc[s] \in {"none", "init", "reset", "tables",
                                      "exit", "gone"}

DescriptorInv ==
  /\ Shape
  /\ \A s \in Sessions : Socket(s) \in open <=> Alive(s)
  /\ ~overlap => OneHolder

\* The three kinds of descriptors are disjoint and no two are the same.
LEMMA Distinct ==
  /\ \A s \in Sessions : /\ Socket(s) # Console /\ Socket(s) # NoFd
                         /\ Socket(s) \in Descriptors
  /\ \A c \in Children : /\ Child(c) # Console /\ Child(c) # NoFd
                         /\ Child(c) \in Descriptors
  /\ \A s \in Sessions, c \in Children : Socket(s) # Child(c)
  /\ \A s, t \in Sessions : Socket(s) = Socket(t) => s = t
  /\ \A c, d \in Children : Child(c) = Child(d) => c = d
  /\ \A d \in Descriptors : \/ d = Console
                            \/ \E s \in Sessions : d = Socket(s)
                            \/ \E c \in Children : d = Child(c)
  /\ Console \in Descriptors /\ Console # NoFd
  /\ NoFd \in ChannelFds /\ Console \in ChannelFds
  /\ \A c \in Children : Child(c) \in ChannelFds
  /\ \A d \in ChannelFds : \/ d = NoFd \/ d = Console
                           \/ \E c \in Children : d = Child(c)
  BY DEF Socket, Child, Console, NoFd, Descriptors, Children, ChannelFds

LEMMA InitDescriptors == Init => DescriptorInv
<1> SUFFICES ASSUME Init PROVE DescriptorInv
  OBVIOUS
<1> USE Distinct DEF Init, Boot, Zeroed
<1>1. Shape
  <2>1. pc \in [Sessions -> {"none"}] /\ starter \in Seq(Sessions)
    OBVIOUS
  <2>2. chan \in [open : BOOLEAN, pid : BOOLEAN, fds : ChannelFds]
    OBVIOUS
  <2> QED BY <2>1, <2>2 DEF Shape
<1>2. \A s \in Sessions : Socket(s) \in open <=> Alive(s)
  BY DEF Alive
<1>3. OneHolder
  BY DEF OneHolder, Alive
<1> QED BY <1>1, <1>2, <1>3 DEF DescriptorInv

Places == {"none", "init", "reset", "load", "public", "hello", "kex", "kexdh",
           "sign", "auth", "loop", "purge", "tables", "exit", "gone"}

\* The places between channel_init and channel_purge.
Inside == {"load", "public", "hello", "kex", "kexdh", "sign", "auth", "loop",
           "purge"}

\* Steps of one session that leave channel and the descriptors alone.
LEMMA MovesOn ==
  ASSUME DescriptorInv, NEW s \in Sessions, NEW there \in Inside,
         pc[s] \in Inside, pc' = [pc EXCEPT ![s] = there],
         pc[s] = "loop" => there = "purge", pc[s] # "purge",
         UNCHANGED <<open, chan, starter, overlap, hungup>>
  PROVE  DescriptorInv'
<1> USE DEF DescriptorInv, Inside
<1>1. Shape'
  BY DEF Shape
<1>2. \A t \in Sessions : Alive(t)' <=> Alive(t)
  BY DEF Alive, Shape
<1>3. \A t \in Sessions : (Socket(t) \in open <=> Alive(t))'
  BY <1>2 DEF Socket
<1>4. ASSUME OneHolder PROVE OneHolder'
  <2>1. chan.fds # Console
    BY <1>4 DEF OneHolder
  <2>2. ASSUME NEW t \in Sessions, pc[t] \in {"loop", "purge"}
        PROVE  pc'[t] \in {"loop", "purge"}
    BY <2>2 DEF Shape
  <2> QED BY <1>2, <1>4, <2>1, <2>2 DEF OneHolder, Child, Console
<1> QED BY <1>1, <1>3, <1>4

LEMMA AcceptKeeps ==
  ASSUME DescriptorInv, NEW s \in Sessions, Accept(s) PROVE DescriptorInv'
<1> USE Distinct DEF DescriptorInv, sharedVars
<1>1. CASE /\ At(s, "none", "init")
           /\ open' = open \cup {Socket(s)}
           /\ overlap' = (overlap \/ \E t \in Sessions : Alive(t))
  <2> USE <1>1 DEF At, Accept
  <2>1. Shape'
    BY DEF Shape
  <2>2. \A t \in Sessions : Alive(t)' <=> Alive(t) \/ t = s
    BY DEF Alive, Shape
  <2>3. \A t \in Sessions : (Socket(t) \in open <=> Alive(t))'
    BY <2>2
  <2>4. ASSUME ~overlap' PROVE OneHolder'
    <3>1. OneHolder /\ \A t \in Sessions : ~Alive(t)
      BY <2>4 DEF Shape
    <3>2. \A c \in Children : chan.fds # Child(c)
      BY <3>1 DEF OneHolder, Alive
    <3> QED BY <2>2, <3>1, <3>2 DEF OneHolder, Alive, Shape
  <2> QED BY <2>1, <2>3, <2>4
<1>2. CASE At(s, "none", "gone") /\ UNCHANGED <<open, overlap>>
  <2> USE <1>2 DEF At, Accept
  <2>1. Shape'
    BY DEF Shape
  <2>2. \A t \in Sessions : Alive(t)' <=> Alive(t)
    BY DEF Alive, Shape
  <2>3. ASSUME OneHolder PROVE OneHolder'
    BY <2>2, <2>3 DEF OneHolder, Shape
  <2> QED BY <2>1, <2>2, <2>3
<1> QED BY <1>1, <1>2 DEF Accept

LEMMA ChannelInitKeeps ==
  ASSUME DescriptorInv, NEW s \in Sessions,
         ChannelZero(s) \/ ChannelReset(s)
  PROVE  DescriptorInv'
<1> USE Distinct DEF DescriptorInv, ChannelZero, ChannelReset, At, Zeroed,
                     Reset, historyVars
<1>1. Shape'
  <2>1. chan' \in [open : BOOLEAN, pid : BOOLEAN, fds : ChannelFds]
    <3>1. CASE ChannelZero(s)  BY <3>1
    <3>2. CASE ChannelReset(s)  BY <3>2
    <3> QED BY <3>1, <3>2
  <2>2. UNCHANGED <<open, starter, overlap>>
    OBVIOUS
  <2> QED BY <2>1, <2>2 DEF Shape
<1>2. \A t \in Sessions : Alive(t)' <=> Alive(t)
  BY DEF Alive, Shape
<1>3. ASSUME OneHolder PROVE OneHolder'
  <2>1. \A t \in Sessions : t # s => ~Alive(t)
    BY <1>3 DEF OneHolder, Alive
  <2>2. \A c \in Children : Child(c) \notin open
    BY <1>3, <2>1 DEF OneHolder, Alive
  <2> QED BY <1>2, <1>3, <2>1, <2>2 DEF OneHolder, Alive, Shape
<1> QED BY <1>1, <1>2, <1>3

LEMMA LoopKeeps ==
  ASSUME DescriptorInv, NEW s \in Sessions, ChannelOpen(s) \/ ChannelExec(s)
  PROVE  DescriptorInv'
<1> USE Distinct DEF DescriptorInv, historyVars, taskVars, Alive
<1>1. CASE ChannelOpen(s)
  <2> USE <1>1 DEF ChannelOpen
  <2>1. Shape'
    BY DEF Shape
  <2>2. ASSUME OneHolder PROVE OneHolder'
    BY <2>2 DEF OneHolder, Shape
  <2> QED BY <2>1, <2>2
<1>2. CASE ChannelExec(s)
  <2> USE <1>2 DEF ChannelExec
  <2> DEFINE c == Len(starter) + 1
  <2>1. c \in Children
    BY ResetAssumption DEF Shape, Children
  <2>2. /\ chan' = [chan EXCEPT !.pid = TRUE, !.fds = Child(c)]
        /\ open' = open \cup {Child(c)}
        /\ chan'.pid /\ chan'.fds = Child(c)
    BY DEF Shape
  <2> HIDE DEF c
  <2>3. Shape'
    <3>1. starter' \in Seq(Sessions)
      BY DEF Shape
    <3>2. chan' \in [open : BOOLEAN, pid : BOOLEAN, fds : ChannelFds]
      <4>1. chan \in [open : BOOLEAN, pid : BOOLEAN, fds : ChannelFds]
        BY DEF Shape
      <4>2. Child(c) \in ChannelFds
        BY <2>1
      <4> QED BY ONLY <2>2, <4>1, <4>2
    <3>3. open' \subseteq Descriptors
      BY <2>1, <2>2 DEF Shape
    <3>4. UNCHANGED <<pc, overlap, hungup>>
      OBVIOUS
    <3> QED BY <3>1, <3>2, <3>3, <3>4 DEF Shape
  <2>4. ASSUME OneHolder PROVE OneHolder'
    <3>1. \A d \in Children : Child(d) \notin open
      BY <2>4 DEF OneHolder
    <3> QED BY <2>1, <2>2, <2>4, <3>1 DEF OneHolder
  <2> QED BY <2>1, <2>2, <2>3, <2>4
<1> QED BY <1>1, <1>2

LEMMA DieKeeps ==
  ASSUME DescriptorInv, NEW s \in Sessions,
         ChannelPurge(s) \/ TablesPurge(s) \/ Exit(s)
  PROVE  DescriptorInv'
<1> USE Distinct DEF DescriptorInv, historyVars, At
<1>1. CASE ChannelPurge(s)
  <2> USE <1>1 DEF ChannelPurge, Closed, Zeroed
  <2>1. Shape'
    BY DEF Shape
  <2>2. \A t \in Sessions : Alive(t)' <=> Alive(t)
    BY DEF Alive, Shape
  <2>3. ASSUME NEW t \in Sessions PROVE Socket(t) # chan.fds
    BY DEF Shape
  <2>4. ASSUME OneHolder PROVE OneHolder'
    <3>1. \A t \in Sessions : t # s => ~Alive(t)
      BY <2>4 DEF OneHolder, Alive
    <3> QED BY <2>2, <2>4, <3>1 DEF OneHolder, Alive, Shape
  <2> QED BY <2>1, <2>2, <2>3, <2>4
<1>2. CASE TablesPurge(s) \/ Exit(s)
  <2> USE <1>2 DEF TablesPurge, Exit, sharedVars
  <2>1. Shape'
    BY DEF Shape
  <2>2. \A t \in Sessions : Alive(t)' <=> Alive(t) /\ ~(t = s /\ Exit(s))
    BY DEF Alive, Shape
  <2>3. ASSUME OneHolder PROVE OneHolder'
    BY <2>2, <2>3 DEF OneHolder, Alive, Shape
  <2> QED BY <2>1, <2>2, <2>3 DEF Alive, Shape
<1> QED BY <1>1, <1>2

\* Closing standard input touches neither the sockets nor the child.
LEMMA LeaveKeeps ==
  ASSUME DescriptorInv, NEW s \in Sessions, LeaveHello(s)
  PROVE  DescriptorInv'
<1> USE Distinct DEF DescriptorInv, LeaveHello, At, sharedVars
<1>1. /\ pc[s] = "hello" /\ pc' = [pc EXCEPT ![s] = "purge"]
      /\ \A t \in Sessions : pc'[t] = IF t = s THEN "purge" ELSE pc[t]
  BY DEF Shape
<1>2. Shape'
  BY <1>1 DEF Shape
<1>3. \A t \in Sessions : Alive(t)' <=> Alive(t)
  BY <1>1 DEF Alive
<1>4. ASSUME OneHolder PROVE OneHolder'
  BY <1>1, <1>3, <1>4 DEF OneHolder
<1> QED BY <1>2, <1>3, <1>4 DEF Shape

LEMMA ResetKeeps == ASSUME DescriptorInv, DeviceReset PROVE DescriptorInv'
<1> USE Distinct DEF DeviceReset, Zeroed
<1>1. Shape'
  <2>1. chan' \in [open : BOOLEAN, pid : BOOLEAN, fds : ChannelFds]
    OBVIOUS
  <2>2. starter' \in Seq(Sessions)
    OBVIOUS
  <2> QED BY <2>1, <2>2 DEF DescriptorInv, Shape
<1>2. \A s \in Sessions : ~Alive(s)' /\ pc'[s] \in {"none", "gone"}
  BY DEF Alive
<1>3. OneHolder'
  BY <1>2 DEF OneHolder
<1> QED BY <1>1, <1>2, <1>3 DEF DescriptorInv

LEMMA NextKeeps == DescriptorInv /\ [Next]_vars => DescriptorInv'
<1> SUFFICES ASSUME DescriptorInv, [Next]_vars PROVE DescriptorInv'
  OBVIOUS
<1>1. ASSUME UNCHANGED <<pc, open, chan, starter, overlap, hungup>>
      PROVE  DescriptorInv'
  BY <1>1 DEF DescriptorInv, Shape, OneHolder, Alive
<1>2. ASSUME NEW s \in Sessions, SessionStep(s) PROVE DescriptorInv'
  <2>1. CASE ChannelZero(s) \/ ChannelReset(s)
    BY <2>1, ChannelInitKeeps
  <2>2. CASE Load(s)
    BY <1>1, <2>2 DEF Load, sharedVars, taskVars
  <2>3. CASE LoadPublic(s) \/ PublicLoaded(s) \/ KexSend(s) \/ Sign(s)
    <3>1. PICK there \in Inside : /\ pc' = [pc EXCEPT ![s] = there]
                                 /\ pc[s] \in Inside
                                 /\ pc[s] \notin {"loop", "purge"}
      BY <2>3 DEF LoadPublic, PublicLoaded, KexSend, Sign, At, Inside
    <3>2. UNCHANGED <<open, chan, starter, overlap, hungup>>
      BY <2>3 DEF LoadPublic, PublicLoaded, KexSend, Sign, sharedVars,
                  historyVars
    <3> QED BY <3>1, <3>2, MovesOn
  <2>4. CASE ChannelPurge(s) \/ TablesPurge(s) \/ Exit(s)
    BY <2>4, DieKeeps
  <2>5. CASE LoadFails(s)
    <3>1. /\ pc[s] \in Inside /\ pc[s] \notin {"loop", "purge"}
          /\ "purge" \in Inside /\ pc' = [pc EXCEPT ![s] = "purge"]
          /\ UNCHANGED <<open, chan, starter, overlap, hungup>>
      BY <2>5 DEF LoadFails, Inside, sharedVars, historyVars
    <3> QED BY <3>1, MovesOn
  <2> QED BY <1>2, <2>1, <2>2, <2>3, <2>4, <2>5 DEF SessionStep
<1>3. ASSUME NEW s \in Sessions, ClientStep(s) PROVE DescriptorInv'
  <2>1. CASE Accept(s)
    BY <2>1, AcceptKeeps
  <2>2. CASE Select(s) \/ KexDh(s) \/ Authorize(s)
    <3>1. PICK there \in Inside : /\ pc' = [pc EXCEPT ![s] = there]
                                 /\ pc[s] \in Inside
                                 /\ pc[s] \notin {"loop", "purge"}
      BY <2>2 DEF Select, KexDh, Authorize, At, Inside
    <3>2. UNCHANGED <<open, chan, starter, overlap, hungup>>
      BY <2>2 DEF Select, KexDh, Authorize, sharedVars, historyVars
    <3> QED BY <3>1, <3>2, MovesOn
  <2>3. CASE Die(s)
    <3>1. /\ pc[s] \in Inside /\ pc[s] # "purge" /\ "purge" \in Inside
          /\ pc' = [pc EXCEPT ![s] = "purge"]
          /\ UNCHANGED <<open, chan, starter, overlap, hungup>>
      BY <2>3 DEF Die, Mortal, Inside, sharedVars, historyVars
    <3> QED BY <3>1, MovesOn
  <2>4. CASE ChannelOpen(s) \/ ChannelExec(s)
    BY <2>4, LoopKeeps
  <2>5. CASE LeaveHello(s)
    BY <2>5, LeaveKeeps
  <2> QED BY <1>3, <2>1, <2>2, <2>3, <2>4, <2>5 DEF ClientStep
<1>4. ASSUME NEW c \in Children, ChildLeaves(c) PROVE DescriptorInv'
  BY <1>1, <1>4 DEF ChildLeaves, sharedVars, historyVars
<1>5. CASE UNCHANGED vars
  BY <1>1, <1>5 DEF vars, sharedVars, taskVars, historyVars
<1> QED BY <1>2, <1>3, <1>4, <1>5, ResetKeeps DEF Next

\* However many sessions there are, a session has its socket open exactly as
\* long as it is there; as long as no two are there at once, no descriptor of
\* a child is lost or closed by the wrong hand, all are closed in the end, and
\* standard input stays open unless a client left before its first line was
\* complete (channel_init, channel_purge, getln, the session task).
THEOREM DescriptorsKept == Spec => []DescriptorsAccounted
<1>1. DescriptorInv => DescriptorsAccounted
  <2> SUFFICES ASSUME DescriptorInv, ~overlap, OneHolder,
                      \A s \in Sessions : ~Alive(s)
               PROVE  open \subseteq {Console}
    BY DEF DescriptorInv, DescriptorsAccounted, OneHolder
  <2>1. \A c \in Children : Child(c) \notin open
    BY DEF OneHolder, Alive
  <2>2. \A s \in Sessions : Socket(s) \notin open
    BY DEF DescriptorInv
  <2> QED BY <2>1, <2>2, Distinct DEF DescriptorInv, Shape, OneHolder
<1> QED BY <1>1, InitDescriptors, NextKeeps, PTL DEF Spec


----------------------------------------------------------------------------
(* The host key.                                                           *)

KeyShape ==
  /\ blob \in [Blobs -> Nat] /\ pairs \in Nat /\ pair \in [Sessions -> Nat]
  /\ lpc \in [Sessions -> {"out", "init", "read", "pk", "sk", "return"}]
  /\ file \in [Sessions -> Blobs] /\ hashed \in [Sessions -> Nat]
  /\ failures \in Nat /\ halfkeys \in Nat
  /\ table \in BOOLEAN /\ tablekey \in Nat /\ initialized \in BOOLEAN
  /\ ~initialized => /\ tablekey = 0
                     /\ \A s \in Sessions : lpc[s] \in {"out", "init"}
  /\ \A s \in Sessions : lpc[s] # "out" <=> pc[s] \in {"public", "sign"}
  /\ \A s \in Sessions : lpc[s] \in {"pk", "sk"} => pair[s] # 0

\* A session writes to NVS only what it found missing.
OnlyMissing ==
  \A s \in Sessions :
    /\ lpc[s] = "pk" => blob[file[s]] = 0
    /\ lpc[s] = "sk" => IF file[s] = "sk" THEN blob["sk"] = 0
                                          ELSE blob["pk"] \in {0, pair[s]}

\* Without failed writes the secret key is never there without its public one.
PublicFirst ==
  /\ blob["sk"] # 0 => ~HalfKey
  /\ \A s \in Sessions : /\ lpc[s] \in {"pk", "sk"} => blob["sk"] = 0
                         /\ lpc[s] = "sk" => blob["pk"] = pair[s]

\* Nobody loads the public key before the next reset.
Loaded == {"public", "hello", "kex", "kexdh", "sign", "auth", "loop", "purge",
           "tables"}
PublicPast == /\ table => \E s \in Sessions : pc[s] \in Loaded
              /\ \A s \in Sessions : lpc[s] \in {"init", "read"} => file[s] = "sk"

\* One failed write and no reset after it: half a key is a public one, or a
\* secret one that is in use until the reset.
OneFailure ==
  /\ \A s \in Sessions :
       /\ lpc[s] \in {"pk", "sk"} => blob["sk"] = 0
       /\ lpc[s] = "sk" => blob["pk"] \in {0, pair[s]}
  /\ blob["pk"] # 0 /\ blob["sk"] # 0 => ~HalfKey
  /\ blob["pk"] = 0 /\ blob["sk"] # 0 => PublicPast
  /\ failures = 0 => /\ \A s \in Sessions : lpc[s] = "pk" => blob["pk"] = 0
                     /\ HalfKey => \E s \in Sessions : lpc[s] = "sk"

\* A client that is offered algorithms is shown the key in NVS.
Offered(s) == /\ pc[s] \in {"hello", "kex", "kexdh", "sign"}
              /\ IF pc[s] = "hello" THEN table ELSE s \in listed
KeyShown ==
  /\ \A s \in Sessions :
       /\ lpc[s] = "return" => ~HalfKey /\ pair[s] = blob["pk"] /\ pair[s] # 0
       /\ Offered(s) => /\ ~HalfKey /\ tablekey = blob["pk"] /\ tablekey # 0
                        /\ pc[s] = "sign" => hashed[s] = tablekey
  /\ unverified \cap listed = {}

\* A session alone opens NVS once.
FirstInit == \A s \in Sessions : lpc[s] = "init" => ~initialized

KeyInv == /\ KeyShape
          /\ ~overlap => /\ FirstInit /\ OnlyMissing
                         /\ failures = 0 => PublicFirst
                         /\ failures <= 1 /\ halfkeys = 0 => OneFailure
                         /\ failures + halfkeys = 0 => KeyShown

LEMMA InitKey == Init => KeyInv
<1> SUFFICES ASSUME Init PROVE KeyInv
  OBVIOUS
<1> USE DEF Init, KeyInit, Boot, Erased
<1>1. KeyShape
  BY DEF KeyShape, Blobs
<1>2. \A s \in Sessions : lpc[s] = "out" /\ pc[s] = "none"
  OBVIOUS
<1>3. FirstInit /\ OnlyMissing /\ PublicFirst /\ OneFailure
  BY <1>2 DEF FirstInit, OnlyMissing, PublicFirst, OneFailure, HalfKey, Blobs, Erased
<1>4. KeyShown
  BY <1>2 DEF KeyShown, Offered
<1> QED BY <1>1, <1>3, <1>4 DEF KeyInv

\* Without overlap a session that is there is the only one.
LEMMA Alone ==
  ASSUME DescriptorInv, KeyShape, ~overlap, NEW s \in Sessions, Alive(s)
  PROVE  \A t \in Sessions :
           t # s => pc[t] \in {"none", "gone"} /\ lpc[t] = "out" /\ ~Offered(t)
<1>1. \A t \in Sessions : t # s => pc[t] \in {"none", "gone"}
  BY DEF DescriptorInv, OneHolder, Alive
<1> QED BY <1>1 DEF KeyShape, Offered

\* A step outside load() that shows no key and lists nobody.
LEMMA KeyStays ==
  ASSUME KeyInv,
         UNCHANGED <<keyVars, hashed, failures, halfkeys, unverified>>,
         listed' \subseteq listed, table' \in BOOLEAN, tablekey' \in Nat,
         tablekey' \in {0, tablekey},
         overlap => overlap',
         \A t \in Sessions :
           pc'[t] \in {"public", "sign"} <=> pc[t] \in {"public", "sign"},
         ~overlap' =>
           /\ table' => /\ table
                        /\ \A t \in Sessions : pc[t] \in Loaded => pc'[t] \in Loaded
           /\ \A t \in Sessions :
                Offered(t)' => /\ Offered(t) /\ tablekey' = tablekey
                               /\ pc'[t] = "sign" => pc[t] = "sign"
  PROVE  KeyInv'
<1> USE DEF keyVars, nvsVars, loadVars
<1>1. KeyShape'
  BY DEF KeyInv, KeyShape
<1>2. CASE overlap'
  BY <1>1, <1>2 DEF KeyInv
<1>3. CASE ~overlap'
  <2>1. (OnlyMissing => OnlyMissing') /\ (FirstInit => FirstInit')
    BY DEF OnlyMissing, FirstInit
  <2>2. PublicFirst => PublicFirst'
    BY DEF PublicFirst, HalfKey
  <2>3. PublicPast => PublicPast'
    BY <1>3 DEF PublicPast
  <2>4. OneFailure => OneFailure'
    BY <2>3 DEF OneFailure, HalfKey
  <2>5. KeyShown => KeyShown'
    BY <1>3 DEF KeyShown, HalfKey
  <2> QED BY <1>1, <1>3, <2>1, <2>2, <2>4, <2>5 DEF KeyInv
<1> QED BY <1>2, <1>3

\* Most steps of a session are of this kind.
LEMMA WalkKeeps ==
  ASSUME DescriptorInv, KeyInv, NEW s \in Sessions,
         \/ Accept(s) \/ ChannelZero(s) \/ ChannelReset(s) \/ Select(s)
         \/ Authorize(s) \/ ChannelOpen(s) \/ ChannelExec(s) \/ Die(s)
         \/ LeaveHello(s) \/ ChannelPurge(s) \/ Exit(s)
  PROVE  KeyInv'
<1> USE DEF At, sharedVars, historyVars
<1>1. /\ UNCHANGED <<keyVars, hashed, failures, halfkeys, unverified>>
      /\ UNCHANGED <<table, tablekey, listed>> /\ (overlap => overlap')
  <2>1. CASE Accept(s)
    <3>1. overlap => overlap'
      <4> DEFINE met == \E t \in Sessions : Alive(t)
      <4>1. overlap' = (overlap \/ met) \/ overlap' = overlap
        BY <2>1 DEF Accept
      <4> HIDE DEF met
      <4> QED BY <4>1
    <3> QED BY <2>1, <3>1 DEF Accept
  <2>2. CASE ChannelZero(s) \/ ChannelReset(s) \/ Select(s) \/ Authorize(s)
    BY <2>2 DEF ChannelZero, ChannelReset, Select, Authorize
  <2>3. CASE ChannelOpen(s) \/ ChannelExec(s)
    BY <2>3 DEF ChannelOpen, ChannelExec, taskVars
  <2>4. CASE Die(s) \/ LeaveHello(s) \/ ChannelPurge(s) \/ Exit(s)
    BY <2>4 DEF Die, LeaveHello, ChannelPurge, Exit
  <2> QED BY <2>1, <2>2, <2>3, <2>4
<1>2. PICK there : /\ pc' = [pc EXCEPT ![s] = there]
                   /\ pc[s] \notin {"public", "sign"} /\ there \notin {"public", "sign", "hello"}
                   /\ there = "kexdh" => pc[s] = "kex"
                   /\ there # "kex" \/ pc[s] = "kex"
                   /\ pc[s] \in Loaded => there \in Loaded
  <2>1. CASE ChannelOpen(s) \/ ChannelExec(s)
    <3>1. pc[s] = "loop" /\ pc' = [pc EXCEPT ![s] = "loop"]
      BY <2>1 DEF ChannelOpen, ChannelExec, taskVars, DescriptorInv, Shape
    <3> QED BY <3>1 DEF Loaded
  <2>2. CASE Accept(s)
    BY <2>2 DEF Accept, Loaded
  <2>3. CASE ChannelZero(s) \/ ChannelReset(s) \/ Select(s) \/ Authorize(s)
    BY <2>3 DEF ChannelZero, ChannelReset, Select, Authorize, Loaded
  <2>4. CASE Die(s) \/ LeaveHello(s) \/ ChannelPurge(s) \/ Exit(s)
    BY <2>4 DEF Die, Mortal, LeaveHello, ChannelPurge, Exit, Loaded
  <2> QED BY <2>1, <2>2, <2>3, <2>4
<1>3. \A t \in Sessions : pc'[t] = IF t = s THEN there ELSE pc[t]
  BY <1>2 DEF DescriptorInv, Shape
<1>4. \A t \in Sessions : pc[t] \in Loaded => pc'[t] \in Loaded
  BY <1>2, <1>3
<1>5. \A t \in Sessions : Offered(t)' => Offered(t) /\ (pc'[t] = "sign" => pc[t] = "sign")
  BY <1>1, <1>2, <1>3 DEF Offered
<1>6. \A t \in Sessions :
        pc'[t] \in {"public", "sign"} <=> pc[t] \in {"public", "sign"}
  BY <1>2, <1>3
<1>7. table' \in BOOLEAN /\ tablekey' \in Nat
  BY <1>1 DEF KeyInv, KeyShape
<1> QED BY <1>1, <1>4, <1>5, <1>6, <1>7, KeyStays

\* The three that change the tables or what is listed.
LEMMA TablesKeep ==
  ASSUME DescriptorInv, KeyInv, NEW s \in Sessions,
         \/ KexSend(s) \/ TablesPurge(s) \/ (LoadPublic(s) /\ ~table)
  PROVE  KeyInv'
<1> USE DEF At, sharedVars, historyVars
<1>0. table \in BOOLEAN /\ tablekey \in Nat
  BY DEF KeyInv, KeyShape
<1>1. CASE KexSend(s)
  <2>1. /\ UNCHANGED <<keyVars, hashed, failures, halfkeys, unverified>>
        /\ UNCHANGED <<table, tablekey, overlap>> /\ listed' \subseteq listed
        /\ pc[s] = "hello"
        /\ \A t \in Sessions : pc'[t] = IF t = s THEN "kex" ELSE pc[t]
        /\ s \in listed' => table
    BY <1>1 DEF KexSend, DescriptorInv, Shape
  <2>2. \A t \in Sessions : Offered(t)' => Offered(t) /\ (pc'[t] = "sign" => pc[t] = "sign")
    BY <2>1 DEF Offered
  <2>3. \A t \in Sessions : pc[t] \in Loaded => pc'[t] \in Loaded
    BY <2>1 DEF Loaded
  <2> QED BY <1>0, <2>1, <2>2, <2>3, KeyStays
<1>2. CASE TablesPurge(s)
  <2>1. /\ UNCHANGED <<keyVars, hashed, failures, halfkeys, unverified>>
        /\ UNCHANGED <<overlap, listed>> /\ table' = FALSE /\ tablekey' = 0
        /\ pc[s] = "tables"
        /\ \A t \in Sessions : pc'[t] = IF t = s THEN "exit" ELSE pc[t]
    BY <1>2 DEF TablesPurge, DescriptorInv, Shape
  <2>2. ASSUME ~overlap', NEW t \in Sessions PROVE ~Offered(t)'
    <3>1. t # s => pc[t] \in {"none", "gone"}
      BY <2>1, <2>2, Alone DEF KeyInv, Alive
    <3> QED BY <2>1, <3>1 DEF Offered
  <2> QED BY <2>1, <2>2, KeyStays
<1>3. CASE LoadPublic(s) /\ ~table
  <2>1. /\ UNCHANGED <<keyVars, hashed, failures, halfkeys, unverified>>
        /\ UNCHANGED <<overlap, listed, table>> /\ table' = FALSE
        /\ pc[s] = "load" /\ tablekey' = tablekey
        /\ \A t \in Sessions : pc'[t] = IF t = s THEN "hello" ELSE pc[t]
    BY <1>0, <1>3 DEF LoadPublic, DescriptorInv, Shape
  <2>2. \A t \in Sessions : Offered(t)' => Offered(t) /\ (pc'[t] = "sign" => pc[t] = "sign")
    BY <2>1 DEF Offered
  <2> QED BY <1>0, <2>1, <2>2, KeyStays
<1> QED BY <1>1, <1>2, <1>3

\* load() is called by the one session that is there.
LEMMA CallKeeps ==
  ASSUME DescriptorInv, KeyInv, NEW s \in Sessions,
         (LoadPublic(s) /\ table) \/ KexDh(s)
  PROVE  KeyInv'
<1> USE DEF At, sharedVars, historyVars, LoadCalled, nvsVars, KeyInv
<1> DEFINE first == IF initialized THEN "read" ELSE "init"
<1>1. PICK b \in Blobs, there \in {"public", "sign"} :
        /\ lpc[s] = "out" /\ lpc' = [lpc EXCEPT ![s] = first]
        /\ file' = [file EXCEPT ![s] = b] /\ pc' = [pc EXCEPT ![s] = there]
        /\ IF there = "public"
             THEN b = "pk" /\ pc[s] = "load" /\ table /\ hashed' = hashed
             ELSE b = "sk" /\ pc[s] = "kexdh" /\ hashed' = [hashed EXCEPT ![s] = tablekey]
        /\ UNCHANGED <<blob, initialized, pairs, pair, table, tablekey>>
        /\ UNCHANGED <<listed, unverified, overlap, failures, halfkeys>>
  BY DEF LoadPublic, KexDh, Blobs
<1>0. first \in {"init", "read"} /\ (first = "init" <=> ~initialized)
  OBVIOUS
<1> HIDE DEF first
<1>2. /\ \A t \in Sessions : /\ lpc'[t] = IF t = s THEN first ELSE lpc[t]
                             /\ file'[t] = IF t = s THEN b ELSE file[t]
                             /\ pc'[t] = IF t = s THEN there ELSE pc[t]
      /\ hashed'[s] = IF there = "public" THEN hashed[s] ELSE tablekey
  BY <1>1 DEF DescriptorInv, Shape, KeyShape
<1>3. KeyShape'
  <2>1. \A t \in Sessions : lpc'[t] # "out" <=> pc'[t] \in {"public", "sign"}
    BY <1>0, <1>1, <1>2 DEF KeyShape
  <2>2. hashed' \in [Sessions -> Nat]
    BY <1>1 DEF KeyShape
  <2>3. lpc' \in [Sessions -> {"out", "init", "read", "pk", "sk", "return"}]
        /\ file' \in [Sessions -> Blobs]
    BY <1>0, <1>1 DEF KeyShape
  <2>4. \A t \in Sessions : lpc'[t] \in {"pk", "sk"} => pair'[t] # 0
    BY <1>0, <1>1, <1>2 DEF KeyShape
  <2>5. ~initialized => \A t \in Sessions : lpc'[t] \in {"out", "init"}
    BY <1>0, <1>2 DEF KeyShape
  <2> QED BY <1>1, <2>1, <2>2, <2>3, <2>4, <2>5 DEF KeyShape
<1>4. ASSUME ~overlap
      PROVE  /\ FirstInit' /\ OnlyMissing'
             /\ failures = 0 => PublicFirst'
             /\ failures <= 1 /\ halfkeys = 0 => OneFailure'
             /\ failures + halfkeys = 0 => KeyShown'
  <2>1. OnlyMissing' /\ FirstInit'
    BY <1>0, <1>1, <1>2, <1>4 DEF OnlyMissing, FirstInit
  <2>2. PublicFirst => PublicFirst'
    BY <1>0, <1>1, <1>2 DEF PublicFirst, HalfKey
  <2>3. \A t \in Sessions : t # s => pc[t] \in {"none", "gone"} /\ lpc[t] = "out" /\ ~Offered(t)
    BY <1>1, <1>4, Alone DEF Alive
  <2>4. PublicPast => PublicPast'
    <3> SUFFICES ASSUME PublicPast PROVE PublicPast'
      OBVIOUS
    <3>1. there = "sign"
      BY <1>1, <2>3 DEF PublicPast, Loaded
    <3> QED BY <1>1, <1>2, <3>1 DEF PublicPast, Loaded
  <2>5. OneFailure => OneFailure'
    <3> SUFFICES ASSUME OneFailure PROVE OneFailure'
      OBVIOUS
    <3>1. \A t \in Sessions : lpc'[t] \in {"pk", "sk"} => lpc[t] = lpc'[t]
      BY <1>0, <1>2
    <3>2. \A t \in Sessions : lpc[t] = "sk" => lpc'[t] = "sk"
      BY <1>1, <1>2
    <3> QED BY <1>1, <2>4, <3>1, <3>2 DEF OneFailure, HalfKey
  <2>6. KeyShown => KeyShown'
    <3> SUFFICES ASSUME KeyShown PROVE KeyShown'
      OBVIOUS
    <3>1. \A t \in Sessions : lpc'[t] = "return" => lpc[t] = "return"
      BY <1>0, <1>2
    <3>2. \A t \in Sessions : Offered(t)' => /\ Offered(t)
                                             /\ pc'[t] = "sign" => hashed'[t] = tablekey'
      BY <1>1, <1>2, <2>3 DEF Offered
    <3> QED BY <1>1, <3>1, <3>2 DEF KeyShown, HalfKey
  <2> QED BY <1>4, <2>1, <2>2, <2>5, <2>6
<1> QED BY <1>1, <1>3, <1>4

LEMMA NoMishap ==
  ASSUME NEW f \in Nat, NEW h \in Nat, NEW g \in {f, f + 1}, g + h = 0
  PROVE  f = 0 /\ g = f /\ h = 0
  OBVIOUS

\* What NVS holds after a step of one session inside load(), whose other
\* sessions are outside.
LEMMA InsideLoad ==
  ASSUME DescriptorInv, KeyInv, NEW s \in Sessions, Load(s), lpc[s] # "init"
  PROVE  KeyInv'
<1> USE DEF KeyInv
<1>0. ~InitNvs(s)
  BY DEF InitNvs
<1> USE <1>0
<1>1. /\ UNCHANGED <<pc, hashed, table, tablekey, initialized>>
      /\ UNCHANGED <<listed, unverified, overlap, halfkeys, file>>
  BY DEF Load, LoadStep, Read, Generate, SetBlob, SetFails, sharedVars, taskVars, nvsVars
<1>2. PICK there \in {"pk", "sk", "return"} :
        /\ lpc[s] \notin {"out", "init"} /\ lpc' = [lpc EXCEPT ![s] = there]
        /\ \A t \in Sessions : lpc'[t] = IF t = s THEN there ELSE lpc[t]
        /\ lpc[s] \in {"pk", "sk"} => there = AfterBlob(lpc[s]) /\ pair' = pair
  BY DEF Load, LoadStep, Read, Generate, SetBlob, SetFails, AfterBlob, KeyShape, Blobs
<1>3. failures' \in {failures, failures + 1} /\ failures \in Nat /\ halfkeys \in Nat
  BY DEF Load, KeyShape
<1>4. \/ /\ Read(s) /\ pair'[s] = blob[file[s]] /\ pair'[s] # 0 /\ blob' = blob
         /\ lpc[s] = "read" /\ there = "return" /\ failures' = failures
      \/ /\ Generate(s) /\ pair'[s] # 0 /\ blob' = blob /\ blob[file[s]] = 0
         /\ lpc[s] = "read" /\ there = "pk" /\ failures' = failures
      \/ /\ lpc[s] = "pk" /\ there = "sk" /\ pair' = pair /\ failures' = failures
         /\ blob'["pk"] = pair[s] /\ blob'["sk"] = blob["sk"]
      \/ /\ lpc[s] = "sk" /\ there = "return" /\ pair' = pair /\ failures' = failures
         /\ blob'["pk"] = blob["pk"] /\ blob'["sk"] = pair[s]
      \/ /\ lpc[s] \in Blobs /\ there = AfterBlob(lpc[s]) /\ pair' = pair /\ blob' = blob
         /\ failures' = failures + 1
  <2>1. CASE Read(s) /\ failures' = failures
    BY <1>2, <2>1 DEF Read, nvsVars, KeyShape
  <2>2. CASE Generate(s) /\ failures' = failures
    BY <1>2, <2>2 DEF Generate, Missing, KeyShape
  <2>3. ASSUME NEW b \in Blobs, SetBlob(s, b), failures' = failures
        PROVE  \/ /\ lpc[s] = "pk" /\ there = "sk" /\ pair' = pair
                  /\ blob'["pk"] = pair[s] /\ blob'["sk"] = blob["sk"]
               \/ /\ lpc[s] = "sk" /\ there = "return" /\ pair' = pair
                  /\ blob'["pk"] = blob["pk"] /\ blob'["sk"] = pair[s]
    BY <1>2, <2>3 DEF SetBlob, Set, Written, AfterBlob, KeyShape, Blobs
  <2>4. ASSUME NEW b \in Blobs, SetFails(s, b)
        PROVE  lpc[s] \in Blobs /\ there = AfterBlob(lpc[s]) /\ pair' = pair /\ blob' = blob
    BY <1>2, <2>4 DEF SetFails, nvsVars, Blobs
  <2> QED BY <2>1, <2>2, <2>3, <2>4 DEF Load, LoadStep
<1>5. KeyShape'
  <2>1. blob' \in [Blobs -> Nat] /\ pair' \in [Sessions -> Nat] /\ pairs' \in Nat
    BY DEF Load, LoadStep, Read, Generate, SetBlob, Set, Written, SetFails, nvsVars, KeyShape
  <2>2. \A t \in Sessions : lpc'[t] # "out" <=> pc'[t] \in {"public", "sign"}
    BY <1>1, <1>2 DEF KeyShape
  <2>3. \A t \in Sessions : lpc'[t] \in {"pk", "sk"} => pair'[t] # 0
    <3>1. \A t \in Sessions : t # s => pair'[t] = pair[t]
      BY DEF Load, LoadStep, Read, Generate, SetBlob, SetFails, KeyShape
    <3>2. there \in {"pk", "sk"} => pair'[s] # 0
      BY <1>4 DEF KeyShape, AfterBlob, Blobs
    <3> QED BY <1>2, <3>1, <3>2 DEF KeyShape
  <2>4. lpc' \in [Sessions -> {"out", "init", "read", "pk", "sk", "return"}]
    BY <1>2 DEF KeyShape
  <2>5. initialized
    BY <1>2 DEF KeyShape
  <2> QED BY <1>1, <1>3, <2>1, <2>2, <2>3, <2>4, <2>5 DEF KeyShape
<1>6. ASSUME ~overlap
      PROVE  /\ FirstInit' /\ OnlyMissing'
             /\ failures' = 0 => PublicFirst'
             /\ failures' <= 1 /\ halfkeys = 0 => OneFailure'
             /\ failures' + halfkeys = 0 => KeyShown'
  <2>1. \A t \in Sessions : t # s => lpc'[t] = "out" /\ ~Offered(t)'
    BY <1>1, <1>2, <1>6, Alone DEF Alive, KeyShape, Offered
  <2>2. pc[s] \in {"public", "sign"} /\ file[s] \in Blobs /\ pair[s] \in Nat
        /\ blob["pk"] \in Nat /\ blob["sk"] \in Nat
    BY <1>2 DEF KeyShape, Blobs
  <2>3. OnlyMissing'
    BY <1>1, <1>2, <1>4, <1>6, <2>1, <2>2 DEF OnlyMissing, Blobs, AfterBlob
  <2>7. FirstInit'
    BY <1>2, <2>1 DEF FirstInit
  <2>4. ASSUME failures' = 0 PROVE PublicFirst'
    <3>1. failures = 0 /\ PublicFirst
      BY <1>3, <1>6, <2>4
    <3> QED BY <1>2, <1>4, <1>5, <2>1, <2>2, <2>4, <3>1
            DEF PublicFirst, HalfKey, Blobs, AfterBlob
  <2>5. ASSUME failures' <= 1, halfkeys = 0 PROVE OneFailure'
    <3>1. failures <= 1 /\ OneFailure /\ (failures' = 0 => failures = 0 /\ PublicFirst)
      BY <1>3, <1>6, <2>5
    <3>3. PublicPast'
      BY <1>1, <1>2, <2>1, <2>2 DEF PublicPast, Loaded
    <3>4. \A t \in Sessions :
            /\ lpc'[t] \in {"pk", "sk"} => blob'["sk"] = 0
            /\ lpc'[t] = "sk" => blob'["pk"] \in {0, pair'[t]}
      <4>1. there \in {"pk", "sk"} => blob'["sk"] = 0
        <5>1. lpc[s] \in {"pk", "sk"} => blob["sk"] = 0
          BY <3>1 DEF OneFailure
        <5>2. lpc[s] = "read" /\ blob[file[s]] = 0 => blob["sk"] = 0
          BY <2>2, <3>1 DEF OneFailure, PublicPast, Blobs
        <5> QED BY <1>2, <1>4, <5>1, <5>2 DEF Blobs, AfterBlob
      <4>2. there = "sk" => blob'["pk"] \in {0, pair'[s]}
        <5>1. failures' = failures + 1 => failures = 0
          BY <1>3, <2>5
        <5>2. failures = 0 /\ lpc[s] = "pk" => blob["pk"] = 0
          BY <3>1 DEF OneFailure
        <5> QED BY <1>2, <1>4, <5>1, <5>2 DEF Blobs, AfterBlob
      <4> QED BY <1>2, <2>1, <4>1, <4>2
    <3>5. blob'["pk"] # 0 /\ blob'["sk"] # 0 => blob'["pk"] = blob'["sk"]
      BY <1>2, <1>4, <2>2, <3>1 DEF OneFailure, HalfKey, Blobs, AfterBlob
    <3>6. ASSUME failures' = 0
          PROVE  /\ \A t \in Sessions : lpc'[t] = "pk" => blob'["pk"] = 0
                 /\ blob'["pk"] # blob'["sk"] => \E t \in Sessions : lpc'[t] = "sk"
      <4>1. there = "pk" => blob'["pk"] = 0
        BY <1>2, <1>4, <2>1, <2>2, <3>1, <3>6 DEF OneFailure, HalfKey, Blobs, AfterBlob
      <4>2. blob'["pk"] # blob'["sk"] => there = "sk"
        BY <1>2, <1>3, <1>4, <2>1, <2>2, <3>1, <3>6
           DEF OneFailure, PublicFirst, HalfKey, Blobs, AfterBlob
      <4> QED BY <1>2, <2>1, <4>1, <4>2
    <3> QED BY <3>3, <3>4, <3>5, <3>6 DEF OneFailure, HalfKey
  <2>6. ASSUME failures' + halfkeys = 0 PROVE KeyShown'
    <3>1. failures = 0 /\ failures' = failures /\ halfkeys = 0
      BY <1>3, <2>6, NoMishap
    <3>2. OneFailure /\ PublicFirst /\ KeyShown
      BY <1>3, <1>6, <3>1
    <3>3. there = "return" =>
            blob'["pk"] = blob'["sk"] /\ pair'[s] = blob'["pk"] /\ pair'[s] # 0
      <4>1. lpc[s] = "read" => blob["pk"] = blob["sk"]
        BY <1>2, <2>1, <3>1, <3>2 DEF OneFailure, HalfKey
      <4>2. lpc[s] = "sk" => blob["pk"] = pair[s] /\ pair[s] # 0
        BY <3>2 DEF PublicFirst, KeyShape
      <4>3. failures' # failures + 1
        BY <1>3, <3>1
      <4> QED BY <1>4, <2>2, <4>1, <4>2, <4>3 DEF Blobs
    <3>4. ASSUME Offered(s)' PROVE Offered(s) /\ blob' = blob
      <4>1. pc[s] = "sign" /\ Offered(s)
        BY <1>1, <2>2, <3>4 DEF Offered
      <4>2. blob["pk"] = blob["sk"] /\ blob["pk"] # 0
        BY <3>2, <4>1 DEF KeyShown, HalfKey
      <4>3. lpc[s] \notin {"pk", "sk"}
        BY <3>2, <4>2 DEF PublicFirst
      <4> QED BY <1>4, <4>1, <4>3
    <3>5. \A t \in Sessions : lpc'[t] = "return" => ~HalfKey' /\ pair'[t] = blob'["pk"] /\ pair'[t] # 0
      BY <1>2, <2>1, <3>3 DEF HalfKey
    <3>6. \A t \in Sessions : Offered(t)' => t = s
      BY <2>1
    <3> QED BY <1>1, <3>2, <3>4, <3>5, <3>6 DEF KeyShown, HalfKey
  <2> QED BY <2>3, <2>4, <2>5, <2>6, <2>7
<1> QED BY <1>1, <1>5, <1>6

\* NVS is opened, perhaps after an erase, or load() fails: either is a step of
\* the one session that is there.
LEMMA OpenKeeps ==
  ASSUME DescriptorInv, KeyInv, NEW s \in Sessions,
         (Load(s) /\ lpc[s] = "init") \/ LoadFails(s)
  PROVE  KeyInv'
<1> USE DEF KeyInv
<1>1. /\ UNCHANGED <<pairs, hashed, table, tablekey, failures, halfkeys>>
      /\ UNCHANGED <<listed, unverified, overlap>>
      /\ blob' \in {blob, Erased} /\ lpc[s] \in {"init", "read"}
      /\ lpc[s] = "read" => blob' = blob
  BY DEF Load, LoadStep, InitNvs, Read, Generate, SetBlob, SetFails, Blobs, LoadFails,
         Failed, NvsOpened, sharedVars, taskVars, historyVars
<1>2. \/ /\ lpc' = [lpc EXCEPT ![s] = "read"] /\ initialized' = TRUE
         /\ UNCHANGED <<file, pair, pc>>
      \/ /\ lpc' = [lpc EXCEPT ![s] = "out"] /\ initialized' = initialized
         /\ file' = [file EXCEPT ![s] = "pk"] /\ pair' = [pair EXCEPT ![s] = 0]
         /\ pc' = [pc EXCEPT ![s] = "purge"]
  BY DEF Load, LoadStep, InitNvs, Read, Generate, SetBlob, SetFails, Blobs, LoadFails,
         Failed, Left, taskVars
<1>3. PICK there \in {"read", "out"} :
        /\ \A t \in Sessions : lpc'[t] = IF t = s THEN there ELSE lpc[t]
        /\ \A t \in Sessions : t # s => /\ pair'[t] = pair[t] /\ file'[t] = file[t]
                                         /\ pc'[t] = pc[t]
        /\ IF there = "read" THEN pc'[s] = pc[s] /\ file'[s] = file[s] /\ initialized' = TRUE
                             ELSE pc'[s] = "purge" /\ initialized' = initialized
  BY <1>2 DEF DescriptorInv, Shape, KeyShape
<1>4. blob' \in [Blobs -> Nat]
  BY <1>1 DEF KeyShape, Erased
<1>5. KeyShape'
  <2>1. \A t \in Sessions : lpc'[t] # "out" <=> pc'[t] \in {"public", "sign"}
    BY <1>1, <1>3 DEF KeyShape
  <2>2. /\ lpc' \in [Sessions -> {"out", "init", "read", "pk", "sk", "return"}]
        /\ file' \in [Sessions -> Blobs] /\ pair' \in [Sessions -> Nat]
    BY <1>2 DEF KeyShape, Blobs
  <2>5. initialized' \in BOOLEAN
    <3>1. initialized \in BOOLEAN
      BY DEF KeyShape
    <3>2. initialized' = TRUE \/ initialized' = initialized
      BY <1>2
    <3> QED BY ONLY <3>1, <3>2
  <2>3. \A t \in Sessions : lpc'[t] \in {"pk", "sk"} => pair'[t] # 0
    BY <1>3 DEF KeyShape
  <2>4. ~initialized' => /\ tablekey' = 0
                         /\ \A t \in Sessions : lpc'[t] \in {"out", "init"}
    BY <1>1, <1>3 DEF KeyShape
  <2> QED BY <1>1, <1>4, <2>1, <2>2, <2>3, <2>4, <2>5 DEF KeyShape
<1>6. ASSUME ~overlap
      PROVE  /\ FirstInit' /\ OnlyMissing'
             /\ failures = 0 => PublicFirst'
             /\ failures <= 1 /\ halfkeys = 0 => OneFailure'
             /\ failures + halfkeys = 0 => KeyShown'
  <2>0. pc[s] \in {"public", "sign"}
    BY <1>1 DEF KeyShape
  <2>1. \A t \in Sessions : t # s => lpc[t] = "out" /\ ~Offered(t)
    BY <1>6, <2>0, Alone DEF Alive
  <2>2. \A t \in Sessions : lpc'[t] = IF t = s THEN there ELSE "out"
    BY <1>3, <2>1
  <2>3. OnlyMissing' /\ FirstInit'
    BY <2>2 DEF OnlyMissing, FirstInit
  <2>4. \/ blob' = blob /\ (HalfKey' <=> HalfKey)
        \/ blob'["pk"] = 0 /\ blob'["sk"] = 0 /\ ~HalfKey'
    BY <1>1 DEF Erased, HalfKey, Blobs
  <2>5. PublicFirst => PublicFirst'
    BY <2>2, <2>4 DEF PublicFirst
  <2>6. PublicPast => PublicPast'
    <3>1. pc'[s] \in Loaded
      BY <1>3, <2>0 DEF Loaded
    <3>2. PublicPast /\ lpc'[s] = "read" => file'[s] = "sk"
      BY <1>1, <1>3, <2>2 DEF PublicPast
    <3> QED BY <2>2, <3>1, <3>2 DEF PublicPast
  <2>7. ASSUME OneFailure PROVE OneFailure'
    <3>1. \A t \in Sessions : lpc[t] # "sk" /\ lpc'[t] \notin {"pk", "sk"}
      BY <1>1, <2>1, <2>2
    <3>2. failures = 0 => ~HalfKey'
      BY <2>4, <2>7, <3>1 DEF OneFailure
    <3>3. blob'["pk"] # 0 /\ blob'["sk"] # 0 => ~HalfKey'
      BY <2>4, <2>7 DEF OneFailure
    <3>4. blob'["pk"] = 0 /\ blob'["sk"] # 0 => PublicPast'
      BY <2>4, <2>6, <2>7 DEF OneFailure
    <3> QED BY <1>1, <3>1, <3>2, <3>3, <3>4 DEF OneFailure
  <2>8. ASSUME KeyShown PROVE KeyShown'
    <3>1. \A t \in Sessions : t # s => ~Offered(t)'
      BY <1>1, <1>3, <2>1 DEF Offered
    <3>2. Offered(s)' => Offered(s) /\ pc'[s] = pc[s] /\ there = "read"
      BY <1>1, <1>3 DEF Offered
    <3>3. Offered(s) /\ blob' # blob => FALSE
      <4>1. blob' # blob => ~initialized
        BY <1>1, <1>6 DEF FirstInit
      <4> QED BY <2>8, <4>1 DEF KeyShape, KeyShown
    <3> QED BY <1>1, <2>2, <2>4, <2>8, <3>1, <3>2, <3>3 DEF KeyShown
  <2> QED BY <1>6, <2>3, <2>5, <2>7, <2>8
<1> QED BY <1>1, <1>5, <1>6

\* What has been read is written to the table, or signed with.
LEMMA ReturnKeeps ==
  ASSUME DescriptorInv, KeyInv, NEW s \in Sessions, PublicLoaded(s) \/ Sign(s)
  PROVE  KeyInv'
<1> USE DEF KeyInv, At, Returned, nvsVars, sharedVars
<1>1. /\ UNCHANGED <<blob, pairs, hashed, table, failures, halfkeys, listed, overlap>>
      /\ initialized' = initialized
      /\ lpc[s] = "return" /\ lpc' = [lpc EXCEPT ![s] = "out"]
      /\ file' = [file EXCEPT ![s] = "pk"] /\ pair' = [pair EXCEPT ![s] = 0]
  BY DEF PublicLoaded, Sign, historyVars, Left
<1>2. \/ /\ PublicLoaded(s) /\ pc[s] = "public" /\ pc' = [pc EXCEPT ![s] = "hello"]
         /\ tablekey' = pair[s] /\ unverified' = unverified
      \/ /\ Sign(s) /\ pc[s] = "sign" /\ pc' = [pc EXCEPT ![s] = "auth"]
         /\ tablekey' = tablekey
         /\ unverified' = IF hashed[s] = tablekey /\ pair[s] = tablekey
                            THEN unverified ELSE unverified \cup {s}
  BY DEF PublicLoaded, Sign, historyVars
<1>3. /\ \A t \in Sessions : lpc'[t] = IF t = s THEN "out" ELSE lpc[t]
      /\ \A t \in Sessions : t # s => /\ pair'[t] = pair[t] /\ file'[t] = file[t]
                                       /\ pc'[t] = pc[t]
      /\ pc'[s] = IF pc[s] = "public" THEN "hello" ELSE "auth"
      /\ pair[s] \in Nat
  BY <1>1, <1>2 DEF DescriptorInv, Shape, KeyShape
<1>4. KeyShape'
  <2>1. \A t \in Sessions : lpc'[t] # "out" <=> pc'[t] \in {"public", "sign"}
    BY <1>3 DEF KeyShape
  <2>2. /\ lpc' \in [Sessions -> {"out", "init", "read", "pk", "sk", "return"}]
        /\ file' \in [Sessions -> Blobs] /\ pair' \in [Sessions -> Nat]
    BY <1>1 DEF KeyShape, Blobs
  <2>3. \A t \in Sessions : lpc'[t] \in {"pk", "sk"} => pair'[t] # 0
    BY <1>3 DEF KeyShape
  <2>4. tablekey' \in Nat
    BY <1>2, <1>3 DEF KeyShape
  <2>5. initialized
    BY <1>1 DEF KeyShape
  <2> QED BY <1>1, <2>1, <2>2, <2>3, <2>4, <2>5 DEF KeyShape
<1>5. ASSUME ~overlap
      PROVE  /\ FirstInit' /\ OnlyMissing'
             /\ failures = 0 => PublicFirst'
             /\ failures <= 1 /\ halfkeys = 0 => OneFailure'
             /\ failures + halfkeys = 0 => KeyShown'
  <2>1. \A t \in Sessions : t # s => lpc[t] = "out" /\ ~Offered(t)
    BY <1>2, <1>5, Alone DEF Alive
  <2>2. \A t \in Sessions : lpc'[t] = "out"
    BY <1>3, <2>1
  <2>3. OnlyMissing' /\ FirstInit'
    BY <2>2 DEF OnlyMissing, FirstInit
  <2>4. PublicFirst => PublicFirst'
    BY <1>1, <2>2 DEF PublicFirst, HalfKey
  <2>5. PublicPast => PublicPast'
    <3>1. pc'[s] \in Loaded
      BY <1>3 DEF Loaded
    <3> QED BY <1>1, <2>2, <3>1 DEF PublicPast
  <2>6. OneFailure => OneFailure'
    <3>1. \A t \in Sessions : lpc[t] # "sk"
      BY <1>1, <2>1
    <3> QED BY <1>1, <2>2, <2>5, <3>1 DEF OneFailure, HalfKey
  <2>7. ASSUME KeyShown PROVE KeyShown'
    <3>1. blob["pk"] = blob["sk"] /\ pair[s] = blob["pk"] /\ pair[s] # 0
      BY <1>1, <2>7 DEF KeyShown, HalfKey
    <3>2. \A t \in Sessions : Offered(t)' => t = s /\ pc'[s] = "hello" /\ tablekey' = pair[s]
      BY <1>1, <1>2, <1>3, <2>1 DEF Offered
    <3>3. s \in listed /\ Sign(s) => unverified' = unverified
      BY <1>2, <1>3, <2>7, <3>1 DEF KeyShown, Offered
    <3>4. unverified' \cap listed' = {}
      BY <1>1, <1>2, <2>7, <3>3 DEF KeyShown
    <3> QED BY <1>1, <2>2, <3>1, <3>2, <3>4 DEF KeyShown, HalfKey
  <2> QED BY <1>5, <2>3, <2>4, <2>6, <2>7
<1> QED BY <1>1, <1>4, <1>5

LEMMA ResetForgets == ASSUME KeyInv, DeviceReset PROVE KeyInv'
<1> USE DEF KeyInv, DeviceReset, LoadForgotten
<1>1. \A s \in Sessions : /\ lpc'[s] = "out" /\ pair'[s] = 0 /\ file'[s] = "pk"
                           /\ pc'[s] \in {"none", "gone"}
  OBVIOUS
<1>0. /\ blob' \in [Blobs -> Nat]
      /\ blob' = blob \/ (blob'["pk"] = 0 /\ blob'["sk"] = 0)
  <2>1. CASE blob' = blob
    BY <2>1 DEF KeyShape
  <2>2. CASE blob' = Erased
    BY <2>2 DEF Erased, Blobs
  <2> QED BY <2>1, <2>2 DEF NvsOpened
<1>2. KeyShape'
  <2>1. /\ lpc' \in [Sessions -> {"out", "init", "read", "pk", "sk", "return"}]
        /\ file' \in [Sessions -> Blobs] /\ pair' \in [Sessions -> Nat]
        /\ hashed' \in [Sessions -> Nat]
    BY DEF Blobs
  <2>2. pairs' \in Nat /\ failures' \in Nat /\ halfkeys' \in Nat
    BY DEF KeyShape
  <2>3. table' = TRUE /\ tablekey' = 0 /\ initialized' = FALSE
    OBVIOUS
  <2> QED BY ONLY <1>0, <1>1, <2>1, <2>2, <2>3 DEF KeyShape
<1>3. OnlyMissing' /\ FirstInit'
  BY <1>1 DEF OnlyMissing, FirstInit
<1>4. PublicFirst => PublicFirst'
  BY <1>0, <1>1 DEF PublicFirst, HalfKey
<1>5. halfkeys' = 0 => halfkeys = 0 /\ blob'["pk"] = blob'["sk"]
  BY <1>0 DEF KeyShape, HalfKey
<1>6. halfkeys' = 0 => OneFailure'
  BY <1>1, <1>5 DEF OneFailure, HalfKey
<1>7. KeyShown => KeyShown'
  BY <1>1 DEF KeyShown, Offered
<1>8. failures \in Nat /\ halfkeys \in Nat /\ halfkeys' \in {halfkeys, halfkeys + 1}
  BY DEF KeyShape
<1>9. failures + halfkeys' = 0 => failures + halfkeys = 0
  BY <1>8
<1> QED BY <1>2, <1>3, <1>4, <1>5, <1>6, <1>7, <1>9

LEMMA NextKey == DescriptorInv /\ KeyInv /\ [Next]_vars => KeyInv'
<1> SUFFICES ASSUME DescriptorInv, KeyInv, [Next]_vars PROVE KeyInv'
  OBVIOUS
<1>1. ASSUME UNCHANGED <<keyVars, hashed, failures, halfkeys, unverified>>,
             UNCHANGED <<listed, table, tablekey, overlap, pc>>
      PROVE  KeyInv'
  <2>1. table' \in BOOLEAN /\ tablekey' \in Nat
    BY <1>1 DEF KeyInv, KeyShape
  <2>2. \A t \in Sessions : Offered(t)' <=> Offered(t)
    BY <1>1 DEF Offered
  <2> QED BY <1>1, <2>1, <2>2, KeyStays
<1>2. ASSUME NEW s \in Sessions, SessionStep(s) \/ ClientStep(s) PROVE KeyInv'
  <2>1. CASE \/ Accept(s) \/ ChannelZero(s) \/ ChannelReset(s) \/ Select(s)
             \/ Authorize(s) \/ ChannelOpen(s) \/ ChannelExec(s) \/ Die(s)
             \/ LeaveHello(s) \/ ChannelPurge(s) \/ Exit(s)
    BY <2>1, WalkKeeps
  <2>2. CASE KexSend(s) \/ TablesPurge(s)
    BY <2>2, TablesKeep
  <2>3. CASE LoadPublic(s)
    BY <2>3, TablesKeep, CallKeeps
  <2>4. CASE KexDh(s)
    BY <2>4, CallKeeps
  <2>5. CASE Load(s) \/ LoadFails(s)
    BY <2>5, InsideLoad, OpenKeeps
  <2>6. CASE PublicLoaded(s) \/ Sign(s)
    BY <2>6, ReturnKeeps
  <2> QED BY <1>2, <2>1, <2>2, <2>3, <2>4, <2>5, <2>6 DEF SessionStep, ClientStep
<1>3. ASSUME NEW c \in Children, ChildLeaves(c) PROVE KeyInv'
  BY <1>1, <1>3 DEF ChildLeaves, sharedVars, historyVars
<1>4. CASE UNCHANGED vars
  BY <1>1, <1>4 DEF vars, sharedVars, taskVars, historyVars
<1> QED BY <1>2, <1>3, <1>4, ResetForgets DEF Next

LEMMA BothInvariant == Spec => [](DescriptorInv /\ KeyInv)
<1>1. Init => DescriptorInv /\ KeyInv
  BY InitDescriptors, InitKey
<1>2. DescriptorInv /\ KeyInv /\ [Next]_vars => (DescriptorInv /\ KeyInv)'
  BY NextKeeps, NextKey
<1> QED BY <1>1, <1>2, PTL DEF Spec

\* However many resets interrupt load() between its two writes, and also when
\* one write fails, the two blobs in NVS never belong to different pairs
\* (port_load.c:45), as long as no two sessions are there at once.
THEOREM PairsMatch == Spec => []PairMatches
<1>1. KeyInv => PairMatches
  <2> SUFFICES ASSUME KeyInv, ~overlap, failures = 0 \/ failures + halfkeys <= 1, Complete
               PROVE  ~HalfKey
    BY DEF PairMatches
  <2>1. CASE failures = 0
    BY <2>1 DEF KeyInv, PublicFirst, Complete
  <2>2. CASE failures # 0
    <3>1. failures <= 1 /\ halfkeys = 0
      BY <2>2 DEF KeyInv, KeyShape
    <3> QED BY <3>1 DEF KeyInv, OneFailure, Complete
  <2> QED BY <2>1, <2>2
<1> QED BY <1>1, BothInvariant, PTL

\* A session that lists algorithms signs with the key it has shown, which is
\* the one in NVS (port_load.c, packet_kexdh.c), as long as sessions do not
\* overlap and NVS has never held half a key at a reset.
THEOREM SignaturesVerify == Spec => []SignatureVerifies
<1>1. KeyInv => SignatureVerifies
  BY DEF KeyInv, KeyShown, SignatureVerifies
<1> QED BY <1>1, BothInvariant, PTL

\* load() replaces no blob of a complete pair (port_load.c:45), whichever blob
\* it is asked for and whatever writes have failed: when the pair changes, both
\* blobs have been erased by a start or by the first load() after one
\* (port_load.c:12, main.c:122), while no session has a key to show.
THEOREM KeyStable == Spec => HostKeyStable
<1> DEFINE Wiped == blob' = Erased /\ tablekey' = 0 /\ ~(initialized /\ initialized')
<1>1. DescriptorInv /\ KeyInv /\ [Next]_vars
        => [~overlap /\ Complete /\ ~HalfKey => UNCHANGED blob \/ Wiped]_vars
  <2> SUFFICES ASSUME KeyInv, Next, ~overlap, Complete, ~HalfKey, ~Wiped
               PROVE  blob' = blob
    OBVIOUS
  <2>0. ASSUME NEW s \in Sessions, lpc[s] = "init", NvsOpened, tablekey' = tablekey
        PROVE  blob' = blob
    BY <2>0 DEF KeyInv, FirstInit, KeyShape, NvsOpened
  <2>1. ASSUME NEW s \in Sessions, NEW b \in Blobs, SetBlob(s, b) PROVE blob' = blob
    <3>1. /\ lpc[s] = b /\ blob' = [blob EXCEPT ![b] = pair[s]]
          /\ OnlyMissing /\ blob["pk"] = blob["sk"] /\ blob["pk"] # 0
          /\ blob \in [Blobs -> Nat] /\ file[s] \in Blobs
      BY <2>1 DEF SetBlob, Set, Written, KeyInv, KeyShape, Complete, HalfKey
    <3>2. blob[b] = pair[s]
      BY <3>1 DEF OnlyMissing, Blobs
    <3> QED BY <3>1, <3>2
  <2>2. ASSUME NEW s \in Sessions, SessionStep(s) \/ ClientStep(s) PROVE blob' = blob
    <3>1. CASE Load(s)
      <4>1. CASE InitNvs(s)
        BY <2>0, <3>1, <4>1 DEF Load, InitNvs, sharedVars
      <4> QED BY <2>1, <3>1, <4>1 DEF Load, LoadStep, Read, Generate, SetFails, nvsVars
    <3>5. CASE LoadFails(s)
      BY <2>0, <3>5 DEF LoadFails, Failed, sharedVars
    <3>2. CASE LoadPublic(s) \/ PublicLoaded(s) \/ Sign(s) \/ KexDh(s)
      BY <3>2 DEF LoadPublic, PublicLoaded, Sign, KexDh, LoadCalled, Returned,
                  keyVars, nvsVars
    <3>3. CASE \/ Accept(s) \/ ChannelZero(s) \/ ChannelReset(s) \/ Select(s)
               \/ Authorize(s) \/ ChannelOpen(s) \/ ChannelExec(s) \/ Die(s)
               \/ LeaveHello(s) \/ ChannelPurge(s) \/ Exit(s)
      BY <3>3 DEF Accept, ChannelZero, ChannelReset, Select, Authorize, ChannelOpen,
                  ChannelExec, Die, LeaveHello, ChannelPurge, Exit, keyVars, nvsVars
    <3>4. CASE KexSend(s) \/ TablesPurge(s)
      BY <3>4 DEF KexSend, TablesPurge, keyVars, nvsVars
    <3> QED BY <2>2, <3>1, <3>2, <3>3, <3>4, <3>5 DEF SessionStep, ClientStep
  <2>3. ASSUME NEW c \in Children, ChildLeaves(c) PROVE blob' = blob
    BY <2>3 DEF ChildLeaves, keyVars, nvsVars
  <2>4. CASE DeviceReset
    BY <2>4 DEF DeviceReset, LoadForgotten, NvsOpened
  <2> QED BY <2>2, <2>3, <2>4 DEF Next
<1> QED BY <1>1, BothInvariant, PTL DEF Spec, HostKeyStable

============================================================================
