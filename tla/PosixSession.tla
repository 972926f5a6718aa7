---------------------------- MODULE PosixSession ----------------------------
(***************************************************************************)
(* The session as the original program runs it (channel.c, channel_fork.c, *)
(* channel_forkpty.c, main_tinysshd.c), with a process for a child, pipes  *)
(* or a pseudoterminal, SIGCHLD and the self-pipe: from CHANNEL_OPEN to    *)
(* the end of the child and of the connection.  The port replaces all of   *)
(* this (module Channel); there the session dies at the child's end.       *)
(*                                                                         *)
(* Flow control towards the child and the encoding of packets are those of *)
(* module Channel; data are counted here, not looked at.  Replies and      *)
(* window adjustments of the server are left out: nothing below waits for  *)
(* them.                                                                   *)
(***************************************************************************)
EXTENDS Integers, Sequences, SequencesExt

CONSTANTS
  BufSize,  \* CHANNEL_BUFSIZE
  PipeSize, \* what a pipe or a terminal holds
  Window,   \* the client's initial window
  MaxOut,   \* bound: bytes the child writes to each of its outputs
  MaxIn     \* bound: bytes the client sends to the child

ASSUME BoundAssumption ==
  /\ {BufSize, PipeSize, Window} \subseteq Nat \ {0}
  /\ MaxOut \in Nat /\ MaxIn \in Nat

VARIABLES
  pc,        \* the step of the main loop
  why,       \* how the session died
  watch,     \* what poll() has reported
  todo,      \* packets in recvbuf, the first of fromnet
  sendbuf,
  selfpipe,  \* "closed", "empty" or "written"
  handler,   \* does SIGCHLD call trigger()?
  \* struct channel and the flags of struct packet
  open, tty, pid, fd0, fd1, fd2, remoteeof, len0, window,
  eofsent, closesent, closegot,
  \* the child, its descendants and what connects them to the session
  child,     \* "none", "running", "zombie" or "waited"
  ends,      \* the ends they hold: "in", "out", "err"
  inpipe, outpipe, errpipe, \* bytes under way
  made,      \* bytes they have written
  \* the client and the connection
  cstate,    \* what it has asked for
  csent,     \* bytes it has sent to the child
  ceof, cclose, left,
  owed,      \* bytes received that it has not given back as window
  got,       \* bytes received
  finale,    \* the EOF, exit status and CLOSE it has received
  late,      \* has it received data after EOF?
  tonet, fromnet

loop    == <<pc, why, watch, todo>>
signals == <<selfpipe, handler>>
setup   == <<open, tty>>
input   == <<fd0, remoteeof, len0>>
output  == <<fd1, fd2, window>>
flags   == <<eofsent, closesent, closegot>>
process == <<child, ends, made>>
pipes   == <<inpipe, outpipe, errpipe>>
asked   == <<cstate, csent, ceof, cclose>>
heard   == <<owed, got, finale, late>>
client  == <<asked, left, heard>>
vars    == <<loop, sendbuf, signals, setup, pid, input, output, flags, process,
             pipes, client, tonet, fromnet>>

Streams == {"out", "err"}
EndPackets == {"eof", "status", "close"}
Over == pc \in {"finished", "dead"}

Init ==
  /\ pc = "poll" /\ why = "none" /\ watch = {} /\ todo = 0
  /\ sendbuf = <<>> /\ selfpipe = "closed" /\ handler = FALSE
  /\ open = FALSE /\ tty = FALSE /\ pid = "none"
  /\ fd0 = FALSE /\ fd1 = FALSE /\ fd2 = FALSE /\ remoteeof = FALSE
  /\ len0 = 0 /\ window = 0
  /\ eofsent = FALSE /\ closesent = FALSE /\ closegot = FALSE
  /\ child = "none" /\ ends = {} /\ made = [s \in Streams |-> 0]
  /\ inpipe = 0 /\ outpipe = 0 /\ errpipe = 0
  /\ cstate = "open" /\ csent = 0
  /\ ceof = FALSE /\ cclose = FALSE /\ left = FALSE
  /\ owed = 0 /\ got = [s \in Streams |-> 0] /\ finale = <<>> /\ late = FALSE
  /\ tonet = <<>> /\ fromnet = <<>>

----------------------------------------------------------------------------
(* channel.c.                                                              *)

IsEofOfEither == open /\ pid # "none" /\ (pid = "died" \/ ~fd1 \/ ~fd2)
IsEofWhileAlive == open /\ pid = "child" /\ ~fd1 /\ ~fd2
IsEof == open /\ pid # "none" /\ (pid = "died" \/ (~fd1 /\ ~fd2))

WriteIsReady == open /\ pid = "child" /\ fd0 /\ len0 > 0
ReadIsReady(fd) == open /\ pid # "none" /\ fd /\ window > 0

\* The descriptor of a terminal is fd0 and fd1 at once; channel_puteof and
\* channel_write close it.
Master == ~tty \/ fd0

\* Nobody holds the other end any more (end of file, EPIPE, EIO), or the
\* descriptor has been closed (EBADF).
Ended(stream) == stream \notin ends \/ ~Master

----------------------------------------------------------------------------
(* The main loop: poll().                                                  *)

Die(reason) == /\ pc' = "dead" /\ why' = reason
               /\ UNCHANGED <<watch, todo>>

Go(step) == pc' = step /\ UNCHANGED <<why, watch, todo>>

\* The steps of an iteration in the order of the program's text, and the
\* first one after step that has something to do.
WaitBeforeSignal == <<"write", "out", "err", "wait", "signal", "send", "recv", "process">>
Steps == <<"write", "out", "err", "signal", "wait", "send", "recv", "process">>
Position(step) == IF step = "poll" THEN 0
                  ELSE CHOOSE i \in 1..Len(Steps) : Steps[i] = step
First(step, due) ==
  CHOOSE s \in due : /\ Position(s) > Position(step)
                     /\ \A t \in due : Position(t) > Position(step)
                                        => Position(t) >= Position(s)
After(step, events) ==
  First(step, events \cup {"process"}
                     \cup (IF IsEof' THEN {"signal", "wait"} ELSE {}))
Then(step) == Go(After(step, watch))

Ready ==
       {w \in {"send"}  : sendbuf # <<>>}
  \cup {w \in {"recv"}  : fromnet # <<>> \/ left}
  \cup {w \in {"write"} : WriteIsReady /\ (inpipe < PipeSize \/ "in" \notin ends)}
  \cup {w \in {"out"}   : ReadIsReady(fd1) /\ (outpipe > 0 \/ Ended("out"))}
  \cup {w \in {"err"}   : ReadIsReady(fd2) /\ (errpipe > 0 \/ Ended("err"))}

\* What follows poll().
Return(events) ==
  /\ pc = "poll"
  /\ watch' = events
  /\ UNCHANGED <<why, todo, sendbuf, setup, pid, input, output, flags, client, tonet,
                 fromnet>>
  /\ pc' = After("poll", events)

\* The self-pipe, once written to, stays readable.
Poll == /\ Ready # {} \/ selfpipe = "written"
        /\ UNCHANGED <<signals, process, pipes>>
        /\ Return(Ready)

\* A minute without events.
PollTimeout == /\ Ready = {} /\ selfpipe # "written"
               /\ UNCHANGED <<signals, process, pipes>>
               /\ Return({})

----------------------------------------------------------------------------
(* The main loop: to and from the child.                                   *)

\* channel_write; the signal SIGPIPE is ignored.
Write ==
  /\ pc = "write"
  /\ UNCHANGED <<sendbuf, signals, setup, pid, output, flags, process,
                 outpipe, errpipe, client, tonet, fromnet>>
  /\ IF "in" \notin ends
     THEN Die("write") /\ fd0' = FALSE /\ UNCHANGED <<remoteeof, len0, inpipe>>
     ELSE \E w \in 1..len0 :
            /\ w <= PipeSize - inpipe
            /\ inpipe' = inpipe + w /\ len0' = len0 - w
            /\ fd0' = ~(remoteeof /\ len0' = 0)
            /\ UNCHANGED remoteeof
            /\ Then("write")

Data(stream, n) == [kind |-> stream, n |-> n]

ReadUnpaid(stream, fd, pipe) ==
  /\ UNCHANGED window
  /\ IF window > 0 /\ pipe > 0 /\ Master
     THEN \E r \in 1..pipe :
            /\ r <= window /\ pipe' = pipe - r /\ UNCHANGED fd
            /\ sendbuf' = Append(sendbuf, Data(stream, r))
     ELSE fd' = (fd /\ window = 0) /\ UNCHANGED <<pipe, sendbuf>>

\* channel_read and channel_extendedread: data, the end, or nothing when the
\* window has been used up in the meantime.  The read is bounded by the pipe and
\* the window; the client's maximum packet less the headers (limit - 9 and
\* limit - 13) is taken to leave room, see Channel for one that does not.
Read(stream, fd, pipe) ==
  IF window = 0 THEN UNCHANGED <<fd, pipe, window, sendbuf>>
  ELSE IF pipe > 0 /\ Master
  THEN \E r \in 1..pipe :
         /\ r <= window
         /\ pipe' = pipe - r /\ window' = window - r
         /\ sendbuf' = Append(sendbuf, Data(stream, r))
         /\ UNCHANGED fd
  ELSE fd' = FALSE /\ UNCHANGED <<pipe, window, sendbuf>>

ReadOut == /\ pc = "out"
           /\ Read("out", fd1, outpipe)
           /\ UNCHANGED <<signals, setup, pid, input, fd2, flags, process, inpipe,
                          errpipe, client, tonet, fromnet>>
           /\ Then("out")

ReadErr == /\ pc = "err"
           /\ Read("err", fd2, errpipe)
           /\ UNCHANGED <<signals, setup, pid, input, fd1, flags, process, inpipe,
                          outpipe, client, tonet, fromnet>>
           /\ Then("err")

\* open_pipe and signal.
Signal == /\ pc = "signal"
          /\ selfpipe' = IF selfpipe = "closed" THEN "empty" ELSE selfpipe
          /\ handler' = TRUE
          /\ UNCHANGED <<sendbuf, setup, pid, input, output, flags, process, pipes,
                         client, tonet, fromnet>>
          /\ Then("signal")

\* packet_channel_send_eof.
EofAgain == <<[kind |-> "eof", n |-> 0]>>
Eof == IF eofsent THEN <<>> ELSE <<[kind |-> "eof", n |-> 0]>>

\* packet_channel_send_close puts what is left of the last three packets
\* into sendbuf and sends it all.
LastPackets == IF closesent THEN Eof
               ELSE Eof \o <<[kind |-> "status", n |-> 0], [kind |-> "close", n |-> 0]>>

\* channel_waitnohang, packet_channel_send_eof, packet_channel_send_close.
Wait == /\ pc = "wait"
        /\ IF pid = "child" /\ child = "zombie"
           THEN /\ child' = "waited" /\ pid' = "died"
                /\ tonet' = tonet \o sendbuf \o LastPackets /\ sendbuf' = <<>>
                /\ eofsent' = TRUE /\ closesent' = TRUE
           ELSE UNCHANGED <<child, pid, tonet, sendbuf, eofsent, closesent>>
        /\ UNCHANGED <<signals, setup, input, output, closegot, ends, made, pipes,
                       client, fromnet>>
        /\ Then("wait")

----------------------------------------------------------------------------
(* The main loop: to and from the network.                                 *)

\* packet_send: some of it, all of it, or an error when the client has gone.
Send == /\ pc = "send"
        /\ UNCHANGED <<signals, setup, pid, input, output, flags, process, pipes,
                       client, fromnet>>
        /\ IF sendbuf = <<>>
           THEN UNCHANGED <<sendbuf, tonet>> /\ Then("send")
           ELSE IF left THEN Die("left") /\ UNCHANGED <<sendbuf, tonet>>
           ELSE \E k \in 1..Len(sendbuf) :
                  /\ tonet' = tonet \o SubSeq(sendbuf, 1, k)
                  /\ sendbuf' = SubSeq(sendbuf, k + 1, Len(sendbuf))
                  /\ Then("send")

\* packet_recv: what has arrived, or the end of the connection.
Recv == /\ pc = "recv"
        /\ todo' = Len(fromnet)
        /\ IF fromnet # <<>> THEN pc' = "process" /\ UNCHANGED why
           ELSE IF IsEof THEN pc' = "finished" /\ UNCHANGED why
           ELSE pc' = "dead" /\ why' = "left"
        /\ UNCHANGED <<watch, sendbuf, signals, setup, pid, input, output, flags,
                       process, pipes, client, tonet, fromnet>>

\* Back to the top of the loop, which is left when all is done.
ProcessEnd == /\ pc = "process" /\ todo = 0
              /\ pc' = IF IsEof /\ sendbuf = <<>> /\ closegot THEN "finished" ELSE "poll"
              /\ watch' = {} /\ UNCHANGED <<why, todo>>
              /\ UNCHANGED <<sendbuf, signals, setup, pid, input, output, flags,
                             process, pipes, client, tonet, fromnet>>

Done == pc' = pc /\ todo' = todo - 1 /\ UNCHANGED <<why, watch>>

\* A packet of this kind is taken.
Process(kind) == /\ pc = "process" /\ todo > 0 /\ Head(fromnet).kind = kind
                 /\ fromnet' = Tail(fromnet)
                 /\ UNCHANGED <<signals, client, tonet>>

\* The guards of the handlers: bug_proto, bug.
Check(guard, changed) == IF guard THEN Done ELSE Die("bug") /\ UNCHANGED changed

\* channel_open.
ChannelOpen ==
  /\ Process("open")
  /\ LET ok == ~open /\ pid = "none" IN
     /\ Check(ok, <<open, window>>)
     /\ ok => open' = TRUE /\ window' = Head(fromnet).n
  /\ UNCHANGED <<sendbuf, tty, pid, input, fd1, fd2, flags, process, pipes>>

\* channel_openterminal, which may find no terminal: the request is refused.
ChannelOpenTerminal ==
  /\ Process("pty-req")
  /\ LET ok == open /\ pid = "none" /\ ~tty IN
     /\ Check(ok, tty)
     /\ ok => tty' \in BOOLEAN
  /\ UNCHANGED <<sendbuf, open, pid, input, output, flags, process, pipes>>

\* channel_exec with channel_fork or channel_forkpty, which may fail.
ChannelExec ==
  /\ Process("exec")
  /\ \E forks \in BOOLEAN :
       LET ok == open /\ pid = "none" /\ forks IN
       /\ Check(ok, <<pid, child, fd0, fd1, fd2, len0, ends>>)
       /\ ok => /\ pid' = "child" /\ child' = "running"
                /\ fd0' = TRUE /\ fd1' = TRUE /\ fd2' = ~tty /\ len0' = 0
                /\ ends' = IF tty THEN {"in", "out"} ELSE {"in", "out", "err"}
  /\ UNCHANGED <<sendbuf, setup, remoteeof, window, flags, made, pipes>>

\* channel_put.
ChannelPut ==
  /\ Process("data")
  /\ LET ok == open /\ pid = "child" /\ fd0 /\ len0 + Head(fromnet).n <= BufSize IN
     /\ Check(ok, len0)
     /\ ok => len0' = len0 + Head(fromnet).n
  /\ UNCHANGED <<sendbuf, setup, pid, fd0, remoteeof, output, flags, process, pipes>>

\* channel_puteof: the descriptor is closed unless data wait for it.
ChannelPutEof ==
  /\ Process("eof")
  /\ LET ok == open /\ pid # "none" /\ fd0 IN
     /\ Check(ok, <<remoteeof, fd0>>)
     /\ ok => remoteeof' = TRUE /\ fd0' = (len0 > 0)
  /\ UNCHANGED <<sendbuf, setup, pid, len0, output, flags, process, pipes>>

\* packet_channel_recv_close.
ChannelClose ==
  /\ Process("close") /\ Done
  /\ sendbuf' = sendbuf \o Eof /\ eofsent' = TRUE
  /\ closegot' = TRUE
  /\ UNCHANGED <<setup, pid, input, output, closesent, process, pipes>>

\* channel_incrementremotewindow.
IncrementRemoteWindow ==
  /\ Process("adjust") /\ Done
  /\ window' = window + Head(fromnet).n
  /\ UNCHANGED <<sendbuf, setup, pid, input, fd1, fd2, flags, process, pipes>>

Server == \/ Poll \/ Write \/ ReadOut \/ ReadErr \/ Signal \/ Wait \/ Send
          \/ Recv \/ ProcessEnd
          \/ ChannelOpen \/ ChannelOpenTerminal \/ ChannelExec \/ ChannelPut
          \/ ChannelPutEof \/ ChannelClose \/ IncrementRemoteWindow

\* alarm(3600): nothing has been received for an hour, which is spent in
\* poll().
Timeout == /\ pc = "poll" /\ Die("timeout")
           /\ UNCHANGED <<sendbuf, signals, setup, pid, input, output, flags,
                          process, pipes, client, tonet, fromnet>>

----------------------------------------------------------------------------
(* The child and its descendants.  An end it closes, by itself or when it  *)
(* exits, may still be held by a descendant; the last one to close it ends *)
(* the stream.  They, and the client, are followed until the session ends. *)

world == <<why, todo, sendbuf, setup, pid, input, output, flags, client, tonet, fromnet>>

Emit(stream, pipe) == /\ stream \in ends /\ made[stream] < MaxOut
                      /\ pipe < PipeSize
                      /\ pipe' = pipe + 1
                      /\ made' = [made EXCEPT ![stream] = @ + 1]

ChildPrints == /\ ~Over
               /\ \/ Emit("out", outpipe) /\ UNCHANGED errpipe
                  \/ Emit("err", errpipe) /\ UNCHANGED outpipe
               /\ UNCHANGED <<world, pc, watch, signals, child, ends, inpipe>>

ChildReads == /\ ~Over /\ "in" \in ends /\ inpipe > 0 /\ inpipe' = 0
              /\ UNCHANGED <<world, pc, watch, signals, process, outpipe, errpipe>>

\* A terminal is closed as a whole.
ChildCloses == /\ ~Over /\ ends # {}
               /\ IF tty THEN ends' = {}
                  ELSE \E e \in ends : ends' = ends \ {e}
               /\ UNCHANGED <<world, pc, watch, signals, child, made, pipes>>

\* SIGCHLD: trigger() writes to the self-pipe, and a poll() that waits may
\* return EINTR.
TriggerNothing == selfpipe
Trigger == IF handler THEN "written" ELSE selfpipe
ChildExits == /\ ~Over /\ child = "running" /\ child' = "zombie"
              /\ selfpipe' = Trigger
              /\ UNCHANGED <<handler, ends, made, pipes>>
              /\ \/ handler /\ Return({})
                 \/ UNCHANGED <<world, pc, watch>>

----------------------------------------------------------------------------
(* The client keeps to the protocol and may leave at any time.             *)

Say(kind, n) == /\ ~left /\ ~Over
                /\ fromnet' = Append(fromnet, [kind |-> kind, n |-> n])
                /\ UNCHANGED <<sendbuf, loop, signals, setup, pid, input, output,
                               flags, process, pipes, left, tonet>>

Request(kind, from, to) == /\ cstate = from /\ cstate' = to
                           /\ Say(kind, IF kind = "open" THEN Window ELSE 0)
                           /\ UNCHANGED <<csent, ceof, cclose, heard>>

CRequest == \/ Request("open", "open", "pty-req")
            \/ Request("pty-req", "pty-req", "exec")
            \/ Request("exec", "exec", "running")

CData == /\ cstate = "running" /\ ~ceof /\ ~cclose
         /\ csent < MaxIn /\ csent' = csent + 1
         /\ Say("data", 1)
         /\ UNCHANGED <<cstate, ceof, cclose, heard>>

CEof == /\ cstate = "running" /\ ~ceof /\ ~cclose /\ ceof' = TRUE
        /\ Say("eof", 0)
        /\ UNCHANGED <<cstate, csent, cclose, heard>>

CClose == /\ cstate = "running" /\ ~cclose /\ cclose' = TRUE
          /\ Say("close", 0)
          /\ UNCHANGED <<cstate, csent, ceof, heard>>

CAdjust == /\ owed > 0 /\ owed' = 0 /\ ~cclose
           /\ Say("adjust", owed)
           /\ UNCHANGED <<asked, got, finale, late>>

CReceive == /\ tonet # <<>> /\ ~left /\ tonet' = Tail(tonet)
            /\ LET p == Head(tonet) IN
               IF p.kind \in EndPackets
               THEN finale' = Append(finale, p.kind) /\ UNCHANGED <<owed, got, late>>
               ELSE /\ got' = [got EXCEPT ![p.kind] = @ + p.n]
                    /\ owed' = owed + p.n
                    /\ late' = (late \/ (finale # <<>> /\ ~cclose))
                    /\ UNCHANGED finale
            /\ UNCHANGED <<loop, sendbuf, signals, setup, pid, input, output, flags,
                           process, pipes, asked, left, fromnet>>

CLeave == /\ ~left /\ ~Over /\ left' = TRUE
          /\ UNCHANGED <<loop, sendbuf, signals, setup, pid, input, output, flags,
                         process, pipes, asked, heard, tonet, fromnet>>

Client == CRequest \/ CData \/ CEof \/ CClose \/ CAdjust \/ CReceive \/ CLeave

Next == \/ Server \/ PollTimeout \/ Timeout
        \/ ChildPrints \/ ChildReads \/ ChildCloses \/ ChildExits
        \/ Client

Spec == Init /\ [][Next]_vars

\* The server runs; poll() need not time out.  The command ends and so do
\* its descendants; the client reads, gives its window back, and answers
\* CLOSE with CLOSE.
FairSpec == /\ Spec /\ WF_vars(Server)
            /\ WF_vars(ChildCloses) /\ WF_vars(ChildExits)
            /\ WF_vars(CReceive) /\ WF_vars(CAdjust)
            /\ WF_vars(CClose /\ "close" \in ToSet(finale))

----------------------------------------------------------------------------
(* Properties.                                                             *)

\* Once the outputs have ended no death of the child is missed: poll() never
\* waits for its timeout over a child that waitnohang has not seen (signal()
\* before waitpid(), and trigger() writing to the self-pipe).
DeathNotMissed ==
  pc = "poll" /\ IsEof /\ pid = "child" /\ child = "zombie"
    => selfpipe = "written"

\* The EOF the server sends by itself comes after all output of the child,
\* on both streams, has been sent; only a client that ends the input of a
\* terminal, which is closed for that, may lose some.
OutputComplete ==
  finale # <<>> /\ ~cclose /\ ~(tty /\ ceof) => got = made

\* EOF, exit status and CLOSE arrive in this order, once each, and data
\* never after EOF unless the client closed the channel first.
EndsInOrder == ~late /\ IsPrefix(finale, <<"eof", "status", "close">>)

\* The end of every command is reported to a client that stays, unless the
\* command did not read its input or nothing has been heard for an hour.
StatusReported ==
  pid = "child" ~> \/ "status" \in ToSet(finale)
                   \/ cclose \/ left \/ why \in {"write", "timeout"}

\* After CLOSE has been sent the session ends, also when data or EOF of the
\* client cross it.
SessionEnds == closesent ~> Over

============================================================================
