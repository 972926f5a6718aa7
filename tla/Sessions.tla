------------------------------ MODULE Sessions -----------------------------
(***************************************************************************)
(* The listener and its session tasks (port_listener.c): what sessions     *)
(* share, from accept() to close().                                        *)
(*                                                                         *)
(* Shared are `channel` (port_channel.c), the algorithm tables with the    *)
(* public host key in them and the names selected from them (sshcrypto*.c),*)
(* and NVS (HostKey).  packet, the work buffers, the socket and the jump   *)
(* target are thread-local.  Tasks are preempted anywhere, so each call    *)
(* that touches something shared is a step.                                *)
(*                                                                         *)
(* What the client says is left out: wherever the server waits for it the  *)
(* session may go on or die.  Module Channel has the inside of "loop",     *)
(* Handshake that of "kex" to "auth".                                      *)
(***************************************************************************)
EXTENDS HostKey, Sequences

CONSTANTS
  MaxResets,   \* bound: resets
  MaxChildren  \* bound: interpreter tasks started

ASSUME ResetAssumption == MaxResets \in Nat /\ MaxChildren \in Nat

Children == 1..MaxChildren

\* Descriptors: the standard input of the firmware, a session's socket and
\* the server's ends of a child's sockets.
Console   == <<"console", 0>>
Socket(s) == <<"socket", s>>
Child(c)  == <<"child", c>>
Descriptors == {Console} \cup {Socket(s) : s \in Sessions}
                         \cup {Child(c) : c \in Children}

\* channel.fd0 and channel.fd1: -1, or a child's, or 0, which is Console.
NoFd == <<"none", 0>>
ChannelFds == {NoFd, Console} \cup {Child(c) : c \in Children}

VARIABLES
  pc,        \* where each session task is
  open,      \* the open descriptors
  chan,      \* channel: open (maxpacket # 0), pid # 0, fds
  table,     \* do the algorithm tables have entries?
  tablekey,  \* the public key in sshcrypto_keys
  selected,  \* sshcrypto_kex_name, _key_name, _cipher_name are set
  hashed,    \* the public key in each session's exchange hash
  starter,   \* for each child started, its session
  running,   \* children whose task runs
  \* history
  listed,    \* sessions whose KEXINIT had algorithms
  unverified, \* sessions whose client cannot verify the signature
  overlap,   \* there have been two sessions at once
  hungup,    \* a client has left before its first line was complete
  failures,  \* writes to NVS that failed
  halfkeys,  \* resets that left half a key in NVS
  resets     \* all resets

sharedVars  == <<chan, table, tablekey, selected>>
taskVars    == <<pc, open, hashed, starter, running>>
historyVars == <<listed, unverified, overlap, hungup, failures, halfkeys,
                 resets>>
vars == <<keyVars, sharedVars, taskVars, historyVars>>

\* What `struct channel channel = {0}` and purge() make of it.
Zeroed == [open |-> FALSE, pid |-> FALSE, fds |-> Console]

Boot == /\ pc = [s \in Sessions |-> "none"] /\ open = {Console}
        /\ chan = Zeroed /\ table = TRUE /\ tablekey = 0 /\ selected = FALSE
        /\ hashed = [s \in Sessions |-> 0]
        /\ starter = <<>> /\ running = {}

Init == /\ KeyInit /\ Boot
        /\ listed = Sessions /\ unverified = {}
        /\ overlap = FALSE /\ hungup = FALSE /\ failures = 0 /\ halfkeys = 0 /\ resets = 0

Alive(s) == pc[s] \notin {"none", "gone"}

At(s, here, there) == pc[s] = here /\ pc' = [pc EXCEPT ![s] = there]

----------------------------------------------------------------------------
(* From accept() to the main loop.                                         *)

\* The listener; xTaskCreate may fail.
Accept(s) ==
  /\ \/ /\ At(s, "none", "init")
        /\ open' = open \cup {Socket(s)}
        /\ overlap' = (overlap \/ \E t \in Sessions : Alive(t))
     \/ At(s, "none", "gone") /\ UNCHANGED <<open, overlap>>
  /\ UNCHANGED <<keyVars, sharedVars, hashed, starter, running, listed,
                 unverified, hungup, failures, halfkeys, resets>>

\* channel_init: purge() of the whole struct, then the -1s.
ChannelZero(s) == /\ At(s, "init", "reset")
                  /\ chan' = Zeroed
                  /\ UNCHANGED <<keyVars, table, tablekey, selected, open,
                                 hashed, starter, running, historyVars>>

NotReset == chan
Reset == [open |-> FALSE, pid |-> FALSE, fds |-> NoFd]

ChannelReset(s) == /\ At(s, "reset", "load")
                   /\ chan' = Reset
                   /\ UNCHANGED <<keyVars, table, tablekey, selected, open,
                                  hashed, starter, running, historyVars>>

\* The public key is read for every key type in the table.
LoadPublic(s) ==
  /\ \/ table /\ LoadCalled(s, "pk") /\ At(s, "load", "public")
     \/ ~table /\ UNCHANGED keyVars /\ At(s, "load", "hello")
  /\ UNCHANGED <<sharedVars, open, hashed, starter, running, historyVars>>

\* It is written to the table, which may have been purged meanwhile.
PublicLoaded(s) ==
  /\ At(s, "public", "hello") /\ Returned(s)
  /\ tablekey' = pair[s]
  /\ UNCHANGED <<chan, table, selected, open, hashed, starter, running,
                 historyVars>>

\* A step inside load().
Load(s) == /\ \/ LoadStep(s) /\ UNCHANGED failures
              \/ (\E b \in Blobs : SetFails(s, b)) /\ failures' = failures + 1
           /\ UNCHANGED <<sharedVars, taskVars, listed, unverified,
                          overlap, hungup, halfkeys, resets>>

\* The caller of a load() that fails ends the session: load() leaves errno
\* alone, so that the public key's is not ENOENT; without a signature
\* packet_kexdh returns 0.
LoadFails(s) ==
  /\ pc[s] \in {"public", "sign"} /\ pc' = [pc EXCEPT ![s] = "purge"]
  /\ Failed(s)
  /\ UNCHANGED <<sharedVars, open, hashed, starter, running, historyVars>>

\* packet_kex_send: the names in the tables.
KexSend(s) ==
  /\ At(s, "hello", "kex")
  /\ listed' = IF table THEN listed ELSE listed \ {s}
  /\ UNCHANGED <<keyVars, sharedVars, open, hashed, starter, running,
                 unverified, overlap, hungup, failures, halfkeys, resets>>

\* packet_kex_receive: what has been selected once stays selected.
Select(s) ==
  /\ At(s, "kex", "kexdh")
  /\ selected \/ table
  /\ selected' = TRUE
  /\ UNCHANGED <<keyVars, chan, table, tablekey, open, hashed, starter,
                 running, historyVars>>

\* packet_kexdh: the public key goes into the hash, the secret key is loaded
\* to sign it, and the public key is sent with the signature.
KexDh(s) ==
  /\ At(s, "kexdh", "sign") /\ LoadCalled(s, "sk")
  /\ hashed' = [hashed EXCEPT ![s] = tablekey]
  /\ UNCHANGED <<sharedVars, open, starter, running, historyVars>>

Sign(s) ==
  /\ At(s, "sign", "auth") /\ Returned(s)
  /\ unverified' = IF hashed[s] = tablekey /\ pair[s] = tablekey
                     THEN unverified ELSE unverified \cup {s}
  /\ UNCHANGED <<sharedVars, open, hashed, starter, running, listed,
                 overlap, hungup, failures, halfkeys, resets>>

\* packet_auth finds the algorithm of the client's key in the table.
Authorize(s) == /\ At(s, "auth", "loop") /\ table
                /\ UNCHANGED <<keyVars, sharedVars, open, hashed, starter,
                               running, historyVars>>

----------------------------------------------------------------------------
(* The main loop, as far as it claims `channel`.  Any session in it may    *)
(* write to and read from the child in chan.fds.                           *)

ChannelOpen(s) == /\ pc[s] = "loop" /\ ~chan.open /\ ~chan.pid
                  /\ chan' = [chan EXCEPT !.open = TRUE]
                  /\ UNCHANGED <<keyVars, table, tablekey, selected, taskVars,
                                 historyVars>>

\* channel_exec; one that cannot have its sockets or task changes nothing.
ChannelExec(s) ==
  /\ pc[s] = "loop" /\ chan.open /\ ~chan.pid
  /\ Len(starter) < MaxChildren
  /\ starter' = Append(starter, s)
  /\ LET c == Len(starter) + 1
     IN  /\ chan' = [chan EXCEPT !.pid = TRUE, !.fds = Child(c)]
         /\ open' = open \cup {Child(c)}
         /\ running' = running \cup {c}
  /\ UNCHANGED <<keyVars, table, tablekey, selected, pc, hashed, historyVars>>

----------------------------------------------------------------------------
(* The end of a session: global_die.                                       *)

\* Where a session waits for its client, or its child has gone, it may die;
\* inside load() it goes on to the end or to LoadFails.
Mortal == {"load", "hello", "kex", "kexdh", "auth", "loop"}

Die(s) == /\ pc[s] \in Mortal /\ pc' = [pc EXCEPT ![s] = "purge"]
          /\ UNCHANGED <<keyVars, sharedVars, open, hashed, starter, running,
                         historyVars>>

\* packet_hello_receive: at the end of the connection getln closes what it
\* read from, descriptor 0, for which only read() means the socket.
LeaveHello(s) ==
  /\ At(s, "hello", "purge")
  /\ open' = open \ {Console} /\ hungup' = TRUE
  /\ UNCHANGED <<keyVars, sharedVars, hashed, starter, running, listed,
                 unverified, overlap, failures, halfkeys, resets>>

NothingClosed == {}
\* What channel_purge closes: descriptor 0 when the struct has been zeroed.
Closed == {chan.fds} \ {NoFd}

ChannelPurge(s) == /\ At(s, "purge", "tables")
                   /\ open' = open \ Closed
                   /\ chan' = Zeroed
                   /\ UNCHANGED <<keyVars, table, tablekey, selected, hashed,
                                  starter, running, historyVars>>

\* sshcrypto_purge.
TablesPurge(s) == /\ At(s, "tables", "exit")
                  /\ table' = FALSE /\ tablekey' = 0
                  /\ UNCHANGED <<keyVars, chan, selected, open, hashed,
                                 starter, running, historyVars>>

\* _exit, a longjmp to the session task, which closes the socket and ends.
Exit(s) == /\ At(s, "exit", "gone")
           /\ open' = open \ {Socket(s)}
           /\ UNCHANGED <<keyVars, sharedVars, hashed, starter, running,
                          historyVars>>

----------------------------------------------------------------------------
(* The interpreter tasks and the device.                                   *)

\* A child ends by itself, or because the other ends of its sockets closed.
ChildLeaves(c) == /\ c \in running /\ running' = running \ {c}
                  /\ UNCHANGED <<keyVars, sharedVars, pc, open, hashed,
                                 starter, historyVars>>

ChildSeesEof(c) == Child(c) \notin open /\ ChildLeaves(c)

\* Power, the `reboot` command, or a null pointer from a malloc in
\* global_init that nobody checks.  app_main, which opens NVS before there
\* are sessions, is part of it.  Sessions that have been are not repeated.
DeviceReset ==
  /\ resets < MaxResets /\ resets' = resets + 1
  /\ pc' = [s \in Sessions |-> IF pc[s] = "none" THEN "none" ELSE "gone"]
  /\ open' = {Console} /\ chan' = Zeroed
  /\ table' = TRUE /\ tablekey' = 0 /\ selected' = FALSE
  /\ hashed' = [s \in Sessions |-> 0] /\ starter' = <<>> /\ running' = {}
  /\ LoadForgotten /\ NvsOpened
  /\ halfkeys' = IF HalfKey THEN halfkeys + 1 ELSE halfkeys
  /\ hungup' = FALSE
  /\ UNCHANGED <<listed, unverified, overlap, failures>>

----------------------------------------------------------------------------
SessionStep(s) ==
  \/ ChannelZero(s) \/ ChannelReset(s) \/ LoadPublic(s) \/ PublicLoaded(s)
  \/ Load(s) \/ LoadFails(s) \/ KexSend(s) \/ Sign(s) \/ ChannelPurge(s) \/ TablesPurge(s)
  \/ Exit(s)

ClientStep(s) ==
  \/ Accept(s) \/ Select(s) \/ KexDh(s) \/ Authorize(s) \/ ChannelOpen(s)
  \/ ChannelExec(s) \/ Die(s) \/ LeaveHello(s)

Next == \/ \E s \in Sessions : SessionStep(s) \/ ClientStep(s)
        \/ \E c \in Children : ChildLeaves(c)
        \/ DeviceReset

Spec == Init /\ [][Next]_vars

FairSpec == /\ Spec
            /\ \A s \in Sessions : WF_vars(SessionStep(s))
            /\ \A c \in Children : WF_vars(ChildSeesEof(c))

----------------------------------------------------------------------------
(* Properties.                                                             *)

TypeOK ==
  /\ KeyTypeOK
  /\ pc \in [Sessions -> {"none", "init", "reset", "load", "public", "hello",
                          "kex", "kexdh", "sign", "auth", "loop", "purge",
                          "tables", "exit", "gone"}]
  /\ open \subseteq Descriptors
  /\ chan \in [open : BOOLEAN, pid : BOOLEAN, fds : ChannelFds]
  /\ {table, selected, overlap, hungup} \subseteq BOOLEAN
  /\ tablekey \in Pairs /\ hashed \in [Sessions -> Pairs]
  /\ starter \in Seq(Sessions) /\ running \subseteq 1..Len(starter)
  /\ \A s \in Sessions : lpc[s] = "out" <=> pc[s] \notin {"public", "sign"}
  /\ listed \subseteq Sessions /\ unverified \subseteq Sessions

\* Nothing is left open and nothing is closed twice: a session has its
\* socket until it ends; unless sessions overlap, the server's ends of a
\* child's sockets are those in `channel`, are closed with the session, and
\* standard input is never taken for one of them; only a client that leaves
\* before its first line is complete closes it (channel_init, channel_purge,
\* getln).
DescriptorsAccounted ==
  /\ \A s \in Sessions : Socket(s) \in open <=> Alive(s)
  /\ ~overlap => /\ Console \in open \/ hungup
                 /\ \A c \in Children :
                      Child(c) \in open => chan.fds = Child(c)
                 /\ (\A s \in Sessions : ~Alive(s)) => open \subseteq {Console}

\* The two blobs in NVS never belong to different pairs, whatever resets
\* interrupt load() and also when one write fails; it takes two sessions at
\* once, or a failed write and another mishap (port_load.c).
Complete == blob["pk"] # 0 /\ blob["sk"] # 0

PairMatches == ~overlap /\ (failures = 0 \/ failures + halfkeys <= 1)
                 => (Complete => ~HalfKey)

\* A client that is offered algorithms gets a signature of the key it is
\* shown, unless half a key was found in NVS.
SignatureVerifies == ~overlap /\ failures + halfkeys = 0
                       => unverified \cap listed = {}

\* A host key that is complete is never replaced blob by blob: it stays, or
\* both blobs are erased at once (nvs_flash_erase in app_main or init_nvs), by
\* a start of the device or the first load() after it, before any session has
\* a key to show.
HostKeyStable ==
  [][~overlap /\ Complete /\ ~HalfKey =>
       \/ UNCHANGED blob
       \/ blob' = Erased /\ tablekey' = 0 /\ ~(initialized /\ initialized')]_vars

\* The child of a session that has ended ends.
ChildEnds ==
  \A c \in Children :
    (c \in running /\ pc[starter[c]] = "gone") ~> (c \notin running \/ overlap)

\* A session that ends is cleaned up "safely" (port_listener.c): the next
\* one has algorithms to offer.
NextSessionOffered == listed = Sessions

============================================================================
