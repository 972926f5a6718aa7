------------------------------ MODULE Channel ------------------------------
(***************************************************************************)
(* The SSH channel of one session of the ESP-IDF port of TinySSH: the      *)
(* channel structure and its functions (port_channel.c), the packet        *)
(* handlers that call them (packet_channel_*.c), the event loop that       *)
(* drives them (port_main_tinysshd.c), the command interpreter at the      *)
(* other end of the two pipes, and a client.                               *)
(*                                                                         *)
(* Bytes are counted, not stored.  A direction of the connection is one    *)
(* FIFO queue of decoded packets; packet.recvbuf is the first `inbuf'      *)
(* packets of toServer, packet.sendbuf the last `outbuf' of toClient.      *)
(* Each packet also records the sender's running totals (`sent' data       *)
(* bytes, `granted' window bytes), history that only properties read.      *)
(***************************************************************************)
EXTENDS Integers, Sequences

CONSTANTS
  BufSize,      \* CHANNEL_BUFSIZE: size of buf0 and of the local window
  PacketLimit,  \* PACKET_LIMIT: the longest payload of a packet
  DataHeader,   \* the 9 bytes of SSH_MSG_CHANNEL_DATA before its data
  RecvSlots,    \* packets for which packet.recvbuf has room
  SendSlots,    \* packets queued in sendbuf from which it is not "ready"
  MaxPackets,   \* maximum packet sizes a client may announce
  FirstWindows, \* initial window sizes a client may announce
  MaxWindow,    \* the largest crypto_uint32, 2^32 - 1: no window exceeds it
  Polite,       \* TRUE: the client keeps to RFC 4254; FALSE: it sends any
                \* packet at any time
  Modes,        \* what the client asks for: "shell", "exec"
  MaxOpens,     \* bound: channels the client asks for
  MaxOthers,    \* bound: requests that only produce a reply, and IGNOREs
  MaxInput,     \* bound: data bytes the client sends
  MaxCredit,    \* bound: window bytes the client grants in all
  MaxPending,   \* bound: packets of the client in flight
  MaxOutput     \* bound: bytes the interpreter prints besides the echo

ASSUME BufAssumption == BufSize \in Nat \ {0} /\ BufSize <= MaxWindow
ASSUME LimitAssumption == /\ PacketLimit \in Nat
                          /\ DataHeader \in Nat
                          /\ DataHeader < PacketLimit
ASSUME SlotAssumption == RecvSlots \in Nat \ {0} /\ SendSlots \in Nat \ {0}

ASSUME ClientAssumption == /\ MaxWindow \in Nat /\ Polite \in BOOLEAN
                           /\ MaxPackets \subseteq Nat \ {0}
                           /\ FirstWindows \subseteq 0..MaxWindow
ASSUME ModeAssumption == Modes \subseteq {"shell", "exec"}
ASSUME BoundAssumption == /\ MaxOpens \in Nat /\ MaxOthers \in Nat
                          /\ MaxInput \in Nat /\ MaxCredit \in Nat
                          /\ MaxOutput \in Nat /\ MaxPending \in Nat

VARIABLES
  \* the session task
  pc,           \* next step of the main loop, or "dead"
  watch,        \* the descriptors the last poll() reported ready
  why,          \* how the session died
  \* struct channel
  maxpacket, pid, fd0, fd1, remoteeof, len0, localwindow, remotewindow,
  \* struct packet
  eofsent,      \* flageofsent
  closercvd,    \* flagchanneleofreceived
  \* the connection
  toServer, inbuf, toClient, outbuf,
  rcvd,         \* data bytes channel_put has accepted
  ssent,        \* data bytes channel_read has put into packets
  \* the client
  cstate, opens, others,
  csent, cgot,  \* data bytes sent, and allowed to be sent so far
  crcvd, cgrant,\* data bytes received, and granted so far
  \* the interpreter task and the two socket pairs
  child, inpipe, outpipe, consumed, printed

sessVars   == <<pc, watch, why>>
chanVars   == <<maxpacket, pid, fd0, fd1, remoteeof, len0, localwindow,
                remotewindow>>
flagVars   == <<eofsent, closercvd>>
netVars    == <<toServer, inbuf, toClient, outbuf>>
totalVars  == <<rcvd, ssent>>
clientVars == <<cstate, opens, others, csent, cgot, crcvd, cgrant>>
childVars  == <<child, inpipe, outpipe, consumed, printed>>
vars == <<sessVars, chanVars, flagVars, netVars, totalVars, clientVars,
          childVars>>

Half == BufSize \div 2

\* pid: 0 before channel_exec, the dummy 9999 while the interpreter runs.
NoPid    == 0
DummyPid == 9999

ClientTypes == {"OPEN", "OTHER", "IGNORE", "SHELL", "EXEC", "DATA", "ADJUST",
                "EOF", "CLOSE"}
ServerTypes == {"CONFIRM", "REPLY", "SUCCESS", "DATA", "ADJUST", "EOF"}

\* n: the data bytes of DATA, the window of OPEN, CONFIRM and ADJUST.
Message(types) == [type : types, n : Nat, sent : Nat, granted : Nat]

\* crypto_uint32 arithmetic on the windows: one addition or subtraction.
Word(x) == IF x < 0 THEN x + MaxWindow + 1
           ELSE IF x > MaxWindow THEN x - MaxWindow - 1 ELSE x

Phases == {"poll", "tochild", "fromchild", "send", "recv", "process"}
Deaths == {"none", "pipe", "write", "net", "exec", "nomem", "proto", "inval"}

----------------------------------------------------------------------------
(* Predicates of port_channel.c that the main loop asks before poll().     *)

WriteIsReadyMutant == maxpacket # 0 /\ pid > 0 /\ fd0 = "open" /\ len0 > 1

WriteIsReady == maxpacket # 0 /\ pid > 0 /\ fd0 = "open" /\ len0 > 0
ReadIsReady  == maxpacket # 0 /\ pid # 0 /\ fd1 = "open" /\ remotewindow > 0
IsEof        == maxpacket # 0 /\ pid # 0 /\ (pid = -1 \/ fd1 = "closed")
PutIsReady   == outbuf < SendSlots
RecvIsReady  == inbuf < RecvSlots

ReadLimitMutant == (IF maxpacket < PacketLimit THEN maxpacket ELSE PacketLimit)
                   - DataHeader - 1

\* channel_read's length argument: limit - 9 in packet_channel_send_data.
ReadLimit == (IF maxpacket < PacketLimit THEN maxpacket ELSE PacketLimit)
             - DataHeader

ReadSizesMutant == {r \in 1..ReadLimit : r <= outpipe}

\* What read(fd1) in channel_read may return, besides 0.
ReadSizes == {r \in 1..ReadLimit : r <= remotewindow /\ r <= outpipe}

PutFitsMutant(n) == n <= BufSize

\* channel_put has room for n bytes.
PutFits(n) == len0 + n <= BufSize

FdAfterMutant(eof, n) == IF eof = 1 THEN "closed" ELSE "open"
FdAfterMutant2(eof, n) == "open"

\* fd0 is closed once the client has sent EOF and buf0 is empty.
FdAfter(eof, n) == IF eof = 1 /\ n = 0 THEN "closed" ELSE "open"

\* The interpreter has closed its ends of the socket pairs.
ChildGone == child = "closed"

\* What poll() reports.  The socket to the client and the one to the child
\* are always writable here.
Ready == {p \in {"send"}      : outbuf > 0}
    \cup {p \in {"recv"}      : RecvIsReady /\ (Len(toServer) > inbuf
                                                 \/ cstate = "gone")}
    \cup {p \in {"tochild"}   : WriteIsReady}
    \cup {p \in {"fromchild"} : ReadIsReady /\ PutIsReady
                                  /\ (outpipe > 0 \/ ChildGone)}

\* The step of the loop that follows a step, given the ready descriptors.
PhaseAfter(p, ready) ==
  CASE p = "poll" /\ "tochild" \in ready -> "tochild"
    [] p \in {"poll", "tochild"} /\ "fromchild" \in ready -> "fromchild"
    [] p \in {"poll", "tochild", "fromchild"} /\ "send" \in ready -> "send"
    [] p # "recv" /\ "recv" \in ready -> "recv"
    [] OTHER -> "process"

\* die_fatal and the bug_* macros end in global_die, which calls
\* channel_purge: both descriptors are closed and the structure is zeroed.
Die(reason) == /\ pc' = "dead" /\ why' = reason /\ watch' = {}
               /\ fd0' = "closed" /\ fd1' = "closed"
               /\ maxpacket' = 0 /\ pid' = NoPid /\ remoteeof' = 0
               /\ len0' = 0 /\ localwindow' = 0 /\ remotewindow' = 0
               /\ UNCHANGED <<flagVars, netVars, totalVars>>

\* packet_put: append a packet to sendbuf.
Reply(type, n) ==
  /\ toClient' = Append(toClient, [type |-> type, n |-> n, sent |-> ssent',
                                   granted |-> localwindow' + rcvd'])
  /\ outbuf' = outbuf + 1

NoReply == UNCHANGED <<toClient, outbuf>>

Init ==
  /\ pc = "poll" /\ watch = {} /\ why = "none"
  /\ maxpacket = 0 /\ pid = NoPid /\ fd0 = "closed" /\ fd1 = "closed"
  /\ remoteeof = 0 /\ len0 = 0 /\ localwindow = 0 /\ remotewindow = 0
  /\ eofsent = 0 /\ closercvd = 0
  /\ toServer = <<>> /\ inbuf = 0 /\ toClient = <<>> /\ outbuf = 0
  /\ rcvd = 0 /\ ssent = 0
  /\ cstate = "start" /\ opens = 0 /\ others = 0
  /\ csent = 0 /\ cgot = 0 /\ crcvd = 0 /\ cgrant = 0
  /\ child = "none" /\ inpipe = 0 /\ outpipe = 0 /\ consumed = 0
  /\ printed = 0

----------------------------------------------------------------------------
(* The session task: one iteration of the main loop.                       *)

\* poll() reports every descriptor that is ready.
Poll == /\ pc = "poll" /\ Ready # {}
        /\ watch' = Ready /\ pc' = PhaseAfter("poll", Ready)
        /\ UNCHANGED <<why, chanVars, flagVars, netVars, totalVars,
                       clientVars, childVars>>

\* Nothing was ready for 60 seconds.
PollTimeout == /\ pc = "poll" /\ Ready = {}
               /\ watch' = {} /\ pc' = "process"
               /\ UNCHANGED <<why, chanVars, flagVars, netVars, totalVars,
                              clientVars, childVars>>

Continue == /\ pc' = PhaseAfter(pc, watch) /\ UNCHANGED <<watch, why>>

AdjustIgnoringInput(n, lw) ==
  IF n > Half \/ lw > Half
  THEN localwindow' = lw /\ NoReply
  ELSE localwindow' = BufSize /\ Reply("ADJUST", BufSize - lw)

AdjustNotCounted(n, lw) ==
  IF n > Half \/ lw > Half
  THEN localwindow' = lw /\ NoReply
  ELSE localwindow' = lw /\ Reply("ADJUST", BufSize - n - lw)

AdjustNotWhenEmpty(n, lw) ==
  IF n = 0 \/ n > Half \/ lw > Half
  THEN localwindow' = lw /\ NoReply
  ELSE localwindow' = BufSize - n /\ Reply("ADJUST", BufSize - n - lw)

\* packet_channel_send_windowadjust, on the values channel_write leaves.
SendWindowAdjust(n, lw) ==
  IF n > Half \/ lw > Half
  THEN localwindow' = lw /\ NoReply
  ELSE LET plus == Word(BufSize - n - lw)
       IN  localwindow' = Word(lw + plus) /\ Reply("ADJUST", plus)

\* channel_write of w bytes, then the window adjustment.
WriteToChild ==
  /\ pc = "tochild"
  /\ \/ \E w \in 1..len0 :
          /\ len0' = len0 - w
          /\ inpipe' = inpipe + w
          /\ fd0' = FdAfter(remoteeof, len0')
          /\ rcvd' = rcvd /\ ssent' = ssent
          /\ SendWindowAdjust(len0', localwindow)
          /\ Continue
          /\ UNCHANGED <<maxpacket, pid, fd1, remoteeof, remotewindow,
                         flagVars, toServer, inbuf>>
     \/ ChildGone /\ Die("write") /\ inpipe' = inpipe
  /\ UNCHANGED <<clientVars, child, outpipe, consumed, printed>>

\* packet_channel_send_data and the check of the child after it.  A read
\* that returns 0 closes fd1; channel_iseof then holds, open_pipe of
\* port_load.c returns -1, and the session dies at once.
ReadFromChild ==
  /\ pc = "fromchild"
  /\ \/ ~PutIsReady /\ Continue
        /\ UNCHANGED <<chanVars, flagVars, netVars, totalVars, outpipe>>
     \/ PutIsReady /\ ReadLimit < 0 /\ Die("inval") /\ outpipe' = outpipe
     \/ PutIsReady /\ (ReadLimit = 0 \/ outpipe = 0) /\ Die("pipe")
        /\ outpipe' = outpipe
     \/ PutIsReady /\ Continue
        /\ \E r \in ReadSizes :
             /\ remotewindow' = remotewindow - r
             /\ ssent' = ssent + r /\ rcvd' = rcvd
             /\ outpipe' = outpipe - r
             /\ localwindow' = localwindow
             /\ Reply("DATA", r)
        /\ UNCHANGED <<maxpacket, pid, fd0, fd1, remoteeof, len0, flagVars,
                       toServer, inbuf>>
  /\ UNCHANGED <<clientVars, child, inpipe, consumed, printed>>

\* packet_send writes the first k packets of sendbuf; it fails when the
\* client has closed the connection.
SendToNet ==
  /\ pc = "send"
  /\ \/ /\ \E k \in 1..outbuf : outbuf' = outbuf - k
        /\ Continue
        /\ UNCHANGED <<chanVars, flagVars, toServer, inbuf, toClient,
                       totalVars>>
     \/ cstate = "gone" /\ Die("net")
  /\ UNCHANGED <<clientVars, childVars>>

\* packet_recv takes what has arrived, or finds the connection closed.
RecvFromNet ==
  /\ pc = "recv"
  /\ \/ /\ \E k \in 1..(Len(toServer) - inbuf) :
             inbuf + k <= RecvSlots /\ inbuf' = inbuf + k
        /\ Continue
        /\ UNCHANGED <<chanVars, flagVars, toServer, toClient, outbuf,
                       totalVars>>
     \/ Len(toServer) = inbuf /\ Die("net")
  /\ UNCHANGED <<clientVars, childVars>>

----------------------------------------------------------------------------
(* The inner loop: packet_get and the handler of the packet's type.        *)

Packet == Head(toServer)

\* The part common to all handlers that return 1.
Take(types) == /\ pc = "process" /\ inbuf > 0 /\ Packet.type \in types

Done == /\ toServer' = Tail(toServer) /\ inbuf' = inbuf - 1
        /\ UNCHANGED <<sessVars, clientVars, childVars>>

DieProcessing(reason) == Die(reason) /\ UNCHANGED <<clientVars, childVars>>

\* packet_channel_open of a "session" channel.  The maximum packet size is
\* the client's choice.
ProcOpen ==
  /\ Take({"OPEN"})
  /\ \/ /\ Packet.n # 0 /\ maxpacket = 0 /\ pid = NoPid
        /\ \E size \in MaxPackets :
             maxpacket' = IF size > PacketLimit THEN PacketLimit ELSE size
        /\ remotewindow' = Packet.n
        /\ localwindow' = BufSize
        /\ rcvd' = rcvd /\ ssent' = ssent
        /\ Reply("CONFIRM", BufSize)
        /\ UNCHANGED <<pid, fd0, fd1, remoteeof, len0, flagVars>>
        /\ Done
     \/ Packet.n # 0 /\ (maxpacket # 0 \/ pid # NoPid) /\ DieProcessing("proto")
     \/ Packet.n = 0 /\ DieProcessing("inval")

\* packet_channel_request of "shell", "exec" or a subsystem.  channel_exec
\* may fail for want of sockets, memory or a task; the caller then dies.
ProcExec ==
  /\ Take({"SHELL", "EXEC"})
  /\ \/ /\ maxpacket # 0 /\ pid = NoPid
        /\ pid' = DummyPid /\ fd0' = "open" /\ fd1' = "open" /\ len0' = 0
        /\ child' = (IF Packet.type = "SHELL" THEN "shell" ELSE "exec")
        /\ UNCHANGED <<maxpacket, remoteeof, localwindow, remotewindow,
                       flagVars, totalVars>>
        /\ Reply("SUCCESS", 0)
        /\ toServer' = Tail(toServer) /\ inbuf' = inbuf - 1
        /\ UNCHANGED <<sessVars, clientVars, inpipe, outpipe, consumed,
                       printed>>
     \/ maxpacket # 0 /\ pid = NoPid /\ DieProcessing("exec")
     \/ (maxpacket = 0 \/ pid # NoPid) /\ DieProcessing("proto")

\* env, pty-req, window-change and unknown requests, channels of another
\* type, unknown packets: at most a reply.
ProcOther == /\ Take({"OTHER"})
             /\ UNCHANGED <<chanVars, flagVars, totalVars>>
             /\ (NoReply \/ Reply("REPLY", 0))
             /\ Done

\* packet_get purges IGNORE and DEBUG; the empty packet ends the inner loop.
ProcIgnore == /\ Take({"IGNORE"})
              /\ pc' = "poll"
              /\ toServer' = Tail(toServer) /\ inbuf' = inbuf - 1
              /\ UNCHANGED <<watch, why, chanVars, flagVars, totalVars,
                             toClient, outbuf, clientVars, childVars>>

\* packet_channel_recv_data and channel_put.
ProcData ==
  /\ Take({"DATA"})
  /\ LET n == Packet.n IN
     \/ /\ maxpacket # 0 /\ pid > 0 /\ fd0 = "open" /\ PutFits(n)
        /\ len0' = len0 + n
        /\ localwindow' = Word(localwindow - n)
        /\ rcvd' = rcvd + n
        /\ UNCHANGED <<maxpacket, pid, fd0, fd1, remoteeof, remotewindow,
                       flagVars, ssent, toClient, outbuf>>
        /\ Done
     \/ /\ maxpacket # 0 /\ pid > 0 /\ fd0 = "open" /\ ~PutFits(n)
        /\ DieProcessing("nomem")
     \/ (maxpacket = 0 \/ pid <= 0 \/ fd0 = "closed") /\ DieProcessing("proto")

\* packet_channel_recv_windowadjust and channel_incrementremotewindow.
ProcAdjust == /\ Take({"ADJUST"})
              /\ remotewindow' = Word(remotewindow + Packet.n)
              /\ UNCHANGED <<maxpacket, pid, fd0, fd1, remoteeof, len0,
                             localwindow, flagVars, totalVars, toClient,
                             outbuf>>
              /\ Done

\* packet_channel_recv_eof and channel_puteof.
ProcEof ==
  /\ Take({"EOF"})
  /\ \/ /\ maxpacket # 0 /\ pid # NoPid /\ fd0 = "open"
        /\ remoteeof' = 1
        /\ fd0' = FdAfter(1, len0)
        /\ UNCHANGED <<maxpacket, pid, fd1, len0, localwindow, remotewindow,
                       flagVars, totalVars, toClient, outbuf>>
        /\ Done
     \/ (maxpacket = 0 \/ pid = NoPid \/ fd0 = "closed") /\ DieProcessing("proto")

\* packet_channel_recv_close: answer with EOF once, remember the CLOSE.
ProcClose ==
  /\ Take({"CLOSE"})
  /\ UNCHANGED <<chanVars, totalVars>>
  /\ closercvd' = 1 /\ eofsent' = 1
  /\ IF eofsent = 1 THEN NoReply ELSE Reply("EOF", 0)
  /\ Done

\* packet_get finds no complete packet: back to poll().
ProcDone == /\ pc = "process" /\ inbuf = 0
            /\ pc' = "poll"
            /\ UNCHANGED <<watch, why, chanVars, flagVars, netVars, totalVars,
                           clientVars, childVars>>

Process == \/ ProcOpen \/ ProcExec \/ ProcOther \/ ProcIgnore \/ ProcData
           \/ ProcAdjust \/ ProcEof \/ ProcClose \/ ProcDone

Session == \/ Poll \/ PollTimeout \/ WriteToChild \/ ReadFromChild
           \/ SendToNet \/ RecvFromNet \/ Process

----------------------------------------------------------------------------
(* The client.  A polite one opens a channel, asks for a shell or a        *)
(* command, keeps to the window it was given, and sends nothing after EOF  *)
(* but CLOSE and window adjustments.                                       *)

Send(type, n) ==
  toServer' = Append(toServer, [type |-> type, n |-> n, sent |-> csent',
                                granted |-> cgrant'])

ClientAct(states) == cstate \in (IF Polite THEN states
                                 ELSE {"start", "opening", "open", "running",
                                       "eof", "closed"})

ClientOpen == /\ ClientAct({"start", "open", "running"}) /\ opens < MaxOpens
              /\ \E w \in FirstWindows :
                   /\ cgrant + w <= MaxWindow
                   /\ cgrant' = cgrant + w /\ csent' = csent
                   /\ Send("OPEN", w)
              /\ opens' = opens + 1
              /\ cstate' = (IF cstate = "start" THEN "opening" ELSE cstate)
              /\ UNCHANGED <<others, cgot, crcvd>>

ClientExec == /\ ClientAct({"open"})
              /\ cstate \notin {"running", "eof", "closed"} \/ others < MaxOthers
              /\ others' = (IF cstate \in {"running", "eof", "closed"}
                            THEN others + 1 ELSE others)
              /\ cstate' = "running"
              /\ UNCHANGED <<csent, cgrant, opens, cgot, crcvd>>
              /\ \E m \in Modes :
                   Send(IF m = "shell" THEN "SHELL" ELSE "EXEC", 0)

ClientOther == /\ ClientAct({"open", "running"}) /\ others < MaxOthers
               /\ others' = others + 1
               /\ UNCHANGED <<cstate, csent, cgrant, opens, cgot, crcvd>>
               /\ \E type \in {"OTHER", "IGNORE"} : Send(type, 0)

ClientData == /\ ClientAct({"running"})
              /\ \E n \in 1..(PacketLimit - DataHeader) :
                   /\ Polite => csent + n <= cgot
                   /\ csent + n <= MaxInput
                   /\ csent' = csent + n /\ cgrant' = cgrant
                   /\ Send("DATA", n)
              /\ UNCHANGED <<cstate, opens, others, cgot, crcvd>>

ClientAdjust == /\ ClientAct({"open", "running", "eof"})
                /\ \E n \in 1..MaxWindow :
                     /\ Polite => cgrant + n - crcvd <= MaxWindow
                     /\ cgrant + n <= MaxCredit
                     /\ cgrant' = cgrant + n /\ csent' = csent
                     /\ Send("ADJUST", n)
                /\ UNCHANGED <<cstate, opens, others, cgot, crcvd>>

ClientEof == /\ ClientAct({"running"}) /\ cstate \notin {"eof", "closed"}
             /\ cstate' = "eof"
             /\ UNCHANGED <<csent, cgrant, opens, others, cgot, crcvd>>
             /\ Send("EOF", 0)

ClientClose == /\ ClientAct({"running", "eof"}) /\ cstate # "closed"
               /\ cstate' = "closed"
               /\ UNCHANGED <<csent, cgrant, opens, others, cgot, crcvd>>
               /\ Send("CLOSE", 0)

\* The TCP connection is closed after what was sent.
ClientLeave == /\ cstate # "gone" /\ cstate' = "gone"
               /\ UNCHANGED <<csent, cgrant, opens, others, cgot, crcvd,
                              toServer>>

\* A packet reaches the client once the session has sent it.
ClientReceive ==
  /\ cstate # "gone" /\ Len(toClient) > outbuf
  /\ toClient' = Tail(toClient)
  /\ LET m == Head(toClient) IN
     /\ crcvd' = (IF m.type = "DATA" THEN crcvd + m.n ELSE crcvd)
     /\ cgot' = (IF m.type \in {"CONFIRM", "ADJUST"} THEN cgot + m.n ELSE cgot)
     /\ cstate' = (IF m.type = "CONFIRM" /\ cstate = "opening" THEN "open"
                   ELSE cstate)
  /\ UNCHANGED <<sessVars, chanVars, flagVars, toServer, inbuf, outbuf,
                 totalVars, opens, others, csent, cgrant, childVars>>

\* What is sent to a session that has died is never read.
ClientSend ==
  /\ pc # "dead" /\ Len(toServer) < MaxPending
  /\ \/ ClientOpen \/ ClientExec \/ ClientOther \/ ClientData
     \/ ClientAdjust \/ ClientEof \/ ClientClose \/ ClientLeave
  /\ UNCHANGED <<sessVars, chanVars, flagVars, inbuf, toClient, outbuf,
                 totalVars, childVars>>

----------------------------------------------------------------------------
(* interpreter_task.  A shell echoes what it reads; "exit" or the end of   *)
(* its input ends it.  A command prints and ends without reading.          *)

\* What is written to a socket the session has closed is lost.
Output(n) == outpipe' = (IF fd1 = "open" THEN outpipe + n ELSE outpipe)

ChildEcho == /\ child = "shell" /\ inpipe > 0
             /\ inpipe' = inpipe - 1 /\ consumed' = consumed + 1
             /\ Output(1)
             /\ UNCHANGED <<child, printed>>

ChildPrint == /\ child \in {"shell", "exec"} /\ printed < MaxOutput
              /\ printed' = printed + 1 /\ Output(1)
              /\ UNCHANGED <<child, inpipe, consumed>>

ChildLeave == /\ \/ child = "shell" /\ consumed > 0
                 \/ child = "exec"
              /\ child' = "left"
              /\ UNCHANGED <<inpipe, outpipe, consumed, printed>>

\* recv returns 0: the session has closed fd0 and the pipe is empty.
ChildSeesEof == /\ child = "shell" /\ inpipe = 0 /\ fd0 = "closed"
                /\ child' = "sawEof"
                /\ UNCHANGED <<inpipe, outpipe, consumed, printed>>

\* cleanup: 100 ms later the task closes both sockets.
ChildClose == /\ child \in {"left", "sawEof"} /\ child' = "closed"
              /\ UNCHANGED <<inpipe, outpipe, consumed, printed>>

Interpreter ==
  /\ ChildEcho \/ ChildPrint \/ ChildLeave \/ ChildSeesEof \/ ChildClose
  /\ UNCHANGED <<sessVars, chanVars, flagVars, netVars, totalVars, clientVars>>

----------------------------------------------------------------------------
Next == Session \/ ClientSend \/ ClientReceive \/ Interpreter

Spec == Init /\ [][Next]_vars

\* The tasks have equal priority or block in poll, recv and vTaskDelay, so
\* each goes on running; TCP delivers.  What the user types, when a command
\* ends and what the client sends is up to them.
Fairness == /\ WF_vars(Session)
            /\ WF_vars(ClientReceive)
            /\ WF_vars((ChildEcho \/ ChildSeesEof \/ ChildClose) /\ Interpreter)

FairSpec == Spec /\ Fairness

----------------------------------------------------------------------------
(* Properties.                                                             *)

TypeOK ==
  /\ pc \in Phases \cup {"dead"} /\ why \in Deaths
  /\ watch \in SUBSET {"tochild", "fromchild", "send", "recv"}
  /\ maxpacket \in Nat /\ pid \in {NoPid, DummyPid}
  /\ fd0 \in {"closed", "open"} /\ fd1 \in {"closed", "open"}
  /\ remoteeof \in {0, 1} /\ eofsent \in {0, 1} /\ closercvd \in {0, 1}
  /\ len0 \in Nat
  /\ localwindow \in 0..MaxWindow /\ remotewindow \in 0..MaxWindow
  /\ toServer \in Seq(Message(ClientTypes)) /\ inbuf \in 0..Len(toServer)
  /\ toClient \in Seq(Message(ServerTypes)) /\ outbuf \in 0..Len(toClient)
  /\ rcvd \in Nat /\ ssent \in Nat
  /\ cstate \in {"start", "opening", "open", "running", "eof", "closed",
                 "gone"}
  /\ opens \in Nat /\ others \in Nat
  /\ csent \in Nat /\ cgot \in Nat /\ crcvd \in Nat /\ cgrant \in Nat
  /\ child \in {"none", "shell", "exec", "left", "sawEof", "closed"}
  /\ inpipe \in Nat /\ outpipe \in Nat /\ consumed \in Nat
  /\ printed \in Nat

Alive  == pc # "dead"
Opened == Alive /\ maxpacket # 0

\* Whatever the client sends, buf0 never overflows, and it holds data only
\* while there is a child and an open descriptor to write it to.
BufferSafe == /\ len0 <= BufSize
              /\ len0 > 0 => pid > 0 /\ fd0 = "open"

\* The local window never promises more room than buf0 has left, so a client
\* that keeps to it is never killed by the bug_nomem of channel_put, and it
\* never sees more credit than the server has counted.
PoliteClientSafe ==
  Polite => /\ why # "nomem"
            /\ localwindow + len0 <= BufSize
            /\ Opened => csent - rcvd <= localwindow

\* The server never sends more data than the client's window allows, and the
\* sum in channel_incrementremotewindow never wraps around.
ClientNotOverrun ==
  Polite => /\ ssent <= cgrant
            /\ Opened => remotewindow + ssent <= cgrant
            /\ cgrant - crcvd <= MaxWindow

\* When nothing is in flight both ends agree on both windows: no credit is
\* lost or invented by channel_open, the adjustments, or channel_read.
WindowsAgree ==
  Polite /\ Opened /\ toServer = <<>> /\ toClient = <<>> =>
    /\ localwindow = cgot - csent
    /\ remotewindow = cgrant - ssent

\* The window is adjusted only after a write to the child, so it must not be
\* low when there is nothing left to write.
WindowNotStuck == Polite /\ Opened /\ len0 = 0 => localwindow > Half

\* A shell whose session lives sees the end of its input only after every
\* byte the client sent before its EOF.
EofAfterInput ==
  Polite /\ child = "sawEof" /\ Alive => consumed = csent

\* channel.c:388: channel_iseof says that the child has closed its output.
\* With a client whose maximum packet is the 9 bytes of the header it does
\* not: a read of 0 bytes is taken for the end of a child that still runs.
\* How a session that reads its child's output may die: of open_pipe at the
\* real end of the output, with nothing of it unread, or when the client's
\* maximum packet has no room for data; and in that case it never sends any.
\* What poll() saw is still there when it is read, and no other packet size
\* ends a session.
ReadingEnds ==
  [][pc = "fromchild" =>
       /\ pc' = "dead" => \/ why' = "pipe" /\ child = "closed" /\ outpipe = 0
                          \/ why' = "pipe" /\ maxpacket = DataHeader
                          \/ why' = "inval" /\ maxpacket < DataHeader
       /\ ssent' # ssent => DataHeader < maxpacket]_vars

\* When the child has closed its output the session reaches the state "child
\* died" of channel.c, pid = -1, from which EOF, the exit status and CLOSE
\* are sent.
ChildDeathSeen == (child = "closed" /\ Alive) ~> (pid = -1 \/ cstate = "gone")

\* Everything the client types is read by the shell, unless the shell ends
\* or the session dies.
InputReachesShell ==
  (cstate = "running" /\ child = "shell" /\ consumed < csent)
    ~> (consumed = csent \/ child # "shell" \/ ~Alive)

\* The client's EOF ends the shell.
EofReachesShell ==
  (cstate = "eof" /\ child = "shell") ~> (child # "shell")

============================================================================
