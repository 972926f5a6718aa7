---------------------------- MODULE PosixProofs ----------------------------
(***************************************************************************)
(* That the session of the original program misses no death of a child,    *)
(* that EOF, exit status and CLOSE follow all of its output in this        *)
(* order, and that this output keeps to the client's window, for every     *)
(* size of buffers, pipes and windows.                                     *)
(***************************************************************************)
EXTENDS PosixFlow, SequenceTheorems, FiniteSetTheorems, WellFoundedInduction,
        TLAPS

----------------------------------------------------------------------------
(* The steps of an iteration.                                              *)

LEMMA Positions ==
  /\ Position("poll") = 0
  /\ Position("write") = 1 /\ Position("out") = 2 /\ Position("err") = 3
  /\ Position("signal") = 4 /\ Position("wait") = 5 /\ Position("send") = 6
  /\ Position("recv") = 7 /\ Position("process") = 8
<1>1. /\ Len(Steps) = 8
      /\ Steps[1] = "write" /\ Steps[2] = "out" /\ Steps[3] = "err"
      /\ Steps[4] = "signal" /\ Steps[5] = "wait" /\ Steps[6] = "send"
      /\ Steps[7] = "recv" /\ Steps[8] = "process"
  BY DEF Steps
<1>2. 1..Len(Steps) = {1, 2, 3, 4, 5, 6, 7, 8}
  BY <1>1
<1> HIDE DEF Steps
<1> QED BY <1>1, <1>2 DEF Position

LEMMA FirstFacts ==
  ASSUME NEW step \in (Names \ {"process"}) \cup {"poll"},
         NEW due, due \subseteq Names, "process" \in due
  PROVE  /\ First(step, due) \in due
         /\ Position(First(step, due)) > Position(step)
         /\ \A t \in due : Position(t) > Position(step)
                           => Position(t) >= Position(First(step, due))
<1> DEFINE Best(s) == /\ Position(s) > Position(step)
                      /\ \A t \in due : Position(t) > Position(step)
                                        => Position(t) >= Position(s)
<1>1. \E s \in due : Best(s)
  BY Positions DEF Names
<1> QED BY <1>1 DEF First

(* The step that follows has been reported, or is due because the outputs  *)
(* have ended, and comes later in the text.                                *)
LEMMA AfterFacts ==
  ASSUME NEW step \in (Names \ {"process"}) \cup {"poll"},
         NEW events, events \subseteq Events
  PROVE  LET next == After(step, events) IN
         /\ next \in Names
         /\ next \in {"signal", "wait"} => IsEof'
         /\ next \in Events => next \in events
         /\ step \in {"poll", "write", "out", "err"}
              => /\ next # "wait"
                 /\ IsEof' => next \in {"write", "out", "err", "signal"}
         /\ step \notin {"poll"} => next # "write"
         /\ step \notin {"poll", "write"} => next # "out"
         /\ step \notin {"poll", "write", "out"} => next # "err"
         /\ step = "signal" /\ IsEof' => next = "wait"
         /\ step \in {"signal", "wait", "send", "recv"} => next # "signal"
         /\ step \in {"wait", "send", "recv"} => next # "wait"
<1> DEFINE due  == events \cup {"process"}
                     \cup (IF IsEof' THEN {"signal", "wait"} ELSE {})
           next == After(step, events)
<1>1. due \subseteq Names /\ "process" \in due
  BY DEF Names, Events
<1>2. next = First(step, due)
  BY DEF After
<1>3. /\ next \in due
      /\ Position(next) > Position(step)
      /\ \A t \in due : Position(t) > Position(step) => Position(t) >= Position(next)
  BY <1>1, <1>2, FirstFacts
<1>4. /\ next \in Names
      /\ next \in {"signal", "wait"} => IsEof'
      /\ next \in Events => next \in events
      /\ IsEof' => "signal" \in due /\ "wait" \in due
  BY <1>1, <1>3 DEF Events
<1> HIDE DEF due, next
<1>5. step \in {"poll", "write", "out", "err"}
        => /\ next # "wait"
           /\ IsEof' => next \in {"write", "out", "err", "signal"}
  BY <1>3, <1>4, Positions DEF Names
<1>6. /\ step \notin {"poll"} => next # "write"
      /\ step \notin {"poll", "write"} => next # "out"
      /\ step \notin {"poll", "write", "out"} => next # "err"
      /\ step \in {"signal", "wait", "send", "recv"} => next # "signal"
      /\ step \in {"wait", "send", "recv"} => next # "wait"
  BY <1>3, Positions DEF Names
<1>7. step = "signal" /\ IsEof' => next = "wait"
  BY <1>3, <1>4, Positions DEF Names
<1> QED BY <1>4, <1>5, <1>6, <1>7 DEF next

----------------------------------------------------------------------------
(* Types, and what the session knows.                                      *)

LEMMA ControlInit == Init => Control
<1> SUFFICES ASSUME Init PROVE Control
  OBVIOUS
<1> USE DEF Init
<1>1. TypeOK
  <2>1. PipeSize \in Nat /\ 0 \in 0..PipeSize
    BY BoundAssumption
  <2>2. made \in [Streams -> Nat] /\ got \in [Streams -> Nat]
    OBVIOUS
  <2>3. tonet \in Seq(Packets) /\ sendbuf \in Seq(Packets) /\ fromnet \in Seq(Requests)
    OBVIOUS
  <2> QED BY <2>1, <2>2, <2>3 DEF TypeOK
<1>2. Counted /\ Due /\ Crossing
  BY DEF Counted, Due, Crossing, Asked, Over, Names
<1>3. Known
  BY DEF Known, Streams
<1> QED BY <1>1, <1>2, <1>3 DEF Control

(* A packet of the client is sent or taken. *)
LEMMA RequestSent ==
  ASSUME TypeOK, NEW m \in Requests, fromnet' = Append(fromnet, m)
  PROVE  /\ fromnet' \in Seq(Requests) /\ Len(fromnet') = Len(fromnet) + 1
         /\ Len(fromnet) \in Nat
         /\ \A k : Asked(k)' <=> Asked(k) \/ m.kind = k
<1>1. /\ fromnet' \in Seq(Requests) /\ Len(fromnet') = Len(fromnet) + 1
      /\ Len(fromnet) \in Nat
      /\ \A i \in 1..Len(fromnet) : fromnet'[i] = fromnet[i]
      /\ fromnet'[Len(fromnet) + 1] = m
  BY DEF TypeOK
<1> QED BY <1>1 DEF Asked

LEMMA RequestTaken ==
  ASSUME TypeOK, fromnet # <<>>, fromnet' = Tail(fromnet)
  PROVE  /\ fromnet' \in Seq(Requests) /\ Len(fromnet') = Len(fromnet) - 1
         /\ Len(fromnet) \in Nat \ {0} /\ Head(fromnet) \in Requests
         /\ \A k : Asked(k)' => Asked(k)
         /\ Asked(Head(fromnet).kind)
<1>1. /\ fromnet' \in Seq(Requests) /\ Len(fromnet') = Len(fromnet) - 1
      /\ Len(fromnet) \in Nat \ {0} /\ Head(fromnet) = fromnet[1]
      /\ Head(fromnet) \in Requests
      /\ \A i \in 1..Len(fromnet') : fromnet'[i] = fromnet[i + 1]
  BY DEF TypeOK
<1> QED BY <1>1 DEF Asked

LEMMA ReturnKeepsControl ==
  ASSUME Control, NEW events, events \subseteq Events,
         events \cap {"out"} # {} => fd1, events \cap {"err"} # {} => fd2,
         Return(events)
  PROVE  /\ pc' \in Names /\ watch' = events
         /\ Counted' /\ Due'
<1> DEFINE next == After("poll", events)
<1>1. /\ pc = "poll" /\ pc' = next /\ watch' = events
      /\ UNCHANGED <<todo, fromnet, fd1, fd2, pid, open>>
  BY DEF Return, output, setup
<1>2. /\ next \in Names /\ next # "wait"
      /\ next \in {"signal", "wait"} => IsEof'
      /\ next \in Events => next \in events
  BY AfterFacts
<1> HIDE DEF next
<1>3. todo = 0 /\ Len(fromnet) \in Nat
  BY <1>1 DEF Control, Counted, TypeOK
<1>4. Counted'
  BY <1>1, <1>3 DEF Counted
<1>5. Due'
  BY <1>1, <1>2 DEF Due, Events, Names
<1> QED BY <1>1, <1>2, <1>4, <1>5

LEMMA ThenFacts ==
  ASSUME TypeOK, NEW step \in Names \ {"process"}, Then(step)
  PROVE  /\ UNCHANGED <<why, watch, todo>>
         /\ pc' \in Names
         /\ pc' \in {"signal", "wait"} => IsEof'
         /\ pc' \in Events => pc' \in watch
         /\ step \in {"write", "out", "err"}
              => /\ pc' # "wait"
                 /\ IsEof' => pc' \in {"out", "err", "signal"}
         /\ pc' # "write"
         /\ step # "write" => pc' # "out"
         /\ step \notin {"write", "out"} => pc' # "err"
         /\ step = "signal" /\ IsEof' => pc' = "wait"
         /\ step \in {"signal", "wait", "send", "recv"} => pc' # "signal"
         /\ step \in {"wait", "send", "recv"} => pc' # "wait"
<1>1. watch \subseteq Events /\ step # "poll"
  BY DEF TypeOK, Names
<1> QED BY <1>1, AfterFacts DEF Then, Go

LEMMA WriteKeepsControl == ASSUME Control, Write PROVE Control'
<1> USE DEF Write, Control, signals, setup, output, flags, process, client,
            asked, heard
<1>1. CASE "in" \notin ends
  <2> USE <1>1 DEF Die
  <2>0. /\ pc' = "dead" /\ why' = "write" /\ fd0' \in BOOLEAN
        /\ UNCHANGED <<watch, todo, remoteeof, len0, inpipe>>
    OBVIOUS
  <2>1. TypeOK'   BY <2>0 DEF TypeOK
  <2>2. Counted' /\ Due'  BY DEF Counted, Over, Due, Names
  <2>3. Known' /\ Crossing'  BY DEF Known, Crossing, Asked
  <2> QED BY <2>1, <2>2, <2>3
<1>2. CASE "in" \in ends
  <2>1. PICK w \in 1..len0 : /\ w <= PipeSize - inpipe
                            /\ inpipe' = inpipe + w /\ len0' = len0 - w
                            /\ fd0' = ~(remoteeof /\ len0' = 0)
                            /\ UNCHANGED remoteeof
                            /\ Then("write")
    BY <1>2
  <2>2. /\ UNCHANGED <<why, watch, todo>> /\ pc' \in Names \ {"write", "wait"}
        /\ pc' \in {"signal", "wait"} => IsEof'
        /\ pc' \in Events => pc' \in watch
    BY <2>1, ThenFacts DEF Names
  <2>3. TypeOK'
    <3>1. inpipe' \in 0..PipeSize /\ len0' \in Nat /\ fd0' \in BOOLEAN
      BY <2>1, BoundAssumption DEF TypeOK
    <3> QED BY <2>1, <2>2, <3>1 DEF TypeOK
  <2>4. Counted' /\ Due'  BY <2>1, <2>2 DEF Counted, Over, Due, Names, Events
  <2>5. Known'  BY <1>2, <2>1 DEF Known
  <2>6. Crossing'  BY <2>1 DEF Crossing, Asked
  <2> QED BY <2>3, <2>4, <2>5, <2>6
<1> QED BY <1>1, <1>2

(* channel_read: what changes, for either stream. *)
LEMMA ReadFacts ==
  ASSUME NEW stream \in Streams,
         NEW pipe \in 0..PipeSize, NEW fd \in BOOLEAN,
         sendbuf \in Seq(Packets), window \in Nat,
         NEW pipenext, NEW fdnext,
         \/ /\ window = 0 /\ fdnext = fd /\ pipenext = pipe
            /\ UNCHANGED <<window, sendbuf>>
         \/ /\ pipe > 0
            /\ \E r \in 1..pipe :
                 /\ r <= window
                 /\ pipenext = pipe - r /\ window' = window - r
                 /\ sendbuf' = Append(sendbuf, Data(stream, r))
                 /\ fdnext = fd
         \/ /\ fdnext = FALSE /\ pipenext = pipe
            /\ UNCHANGED <<window, sendbuf>>
  PROVE  /\ pipenext \in 0..PipeSize /\ fdnext \in BOOLEAN
         /\ fdnext => fd
         /\ window' \in Nat /\ sendbuf' \in Seq(Packets)
<1>1. CASE \E r \in 1..pipe :
             /\ r <= window
             /\ pipenext = pipe - r /\ window' = window - r
             /\ sendbuf' = Append(sendbuf, Data(stream, r))
             /\ fdnext = fd
  <2>1. PICK r \in 1..pipe :
             /\ r <= window
             /\ pipenext = pipe - r /\ window' = window - r
             /\ sendbuf' = Append(sendbuf, Data(stream, r))
             /\ fdnext = fd
    BY <1>1
  <2>2. Data(stream, r) \in Packets
    BY DEF Data, Packets
  <2>3. pipenext \in 0..PipeSize /\ window' \in Nat
    BY <2>1, BoundAssumption
  <2> QED BY <2>1, <2>2, <2>3
<1>2. CASE /\ window = 0 /\ fdnext = fd /\ pipenext = pipe
           /\ UNCHANGED <<window, sendbuf>>
  BY <1>2
<1>3. CASE /\ fdnext = FALSE /\ pipenext = pipe
           /\ UNCHANGED <<window, sendbuf>>
  BY <1>3
<1> QED BY <1>1, <1>2, <1>3

LEMMA ReadOutKeepsControl == ASSUME Control, ReadOut PROVE Control'
<1> USE DEF Control, signals, setup, input, flags, process, client, asked, heard
<1>1. /\ pc = "out" /\ Read("out", fd1, outpipe) /\ Then("out")
      /\ UNCHANGED <<signals, setup, pid, input, fd2, flags, process, inpipe,
                     errpipe, client, tonet, fromnet>>
  BY DEF ReadOut
<1>2. /\ outpipe' \in 0..PipeSize /\ fd1' \in BOOLEAN /\ (fd1' => fd1)
      /\ window' \in Nat /\ sendbuf' \in Seq(Packets)
  BY <1>1, ReadFacts DEF TypeOK, Read, Streams
<1>3. /\ UNCHANGED <<why, watch, todo>> /\ pc' \in Names \ {"write", "wait", "out"}
      /\ pc' \in {"signal", "wait"} => IsEof'
      /\ pc' \in Events => pc' \in watch
  BY <1>1, ThenFacts DEF Names
<1>4. TypeOK'  BY <1>1, <1>2, <1>3 DEF TypeOK
<1>5. Counted' /\ Due'  BY <1>1, <1>3 DEF Counted, Over, Due, Names, Events
<1>6. pid # "none" /\ fd1
  BY <1>1 DEF Due, Known
<1>7. Known'
  BY <1>1, <1>6, <1>2 DEF Known
<1>8. Crossing'  BY <1>1 DEF Crossing, Asked
<1> QED BY <1>4, <1>5, <1>7, <1>8

LEMMA ReadErrKeepsControl == ASSUME Control, ReadErr PROVE Control'
<1> USE DEF Control, signals, setup, input, flags, process, client, asked, heard
<1>1. /\ pc = "err" /\ Read("err", fd2, errpipe) /\ Then("err")
      /\ UNCHANGED <<signals, setup, pid, input, fd1, flags, process, inpipe,
                     outpipe, client, tonet, fromnet>>
  BY DEF ReadErr
<1>2. /\ errpipe' \in 0..PipeSize /\ fd2' \in BOOLEAN /\ (fd2' => fd2)
      /\ window' \in Nat /\ sendbuf' \in Seq(Packets)
  BY <1>1, ReadFacts DEF TypeOK, Read, Streams
<1>3. /\ UNCHANGED <<why, watch, todo>>
      /\ pc' \in Names \ {"write", "wait", "out", "err"}
      /\ pc' \in {"signal", "wait"} => IsEof'
      /\ pc' \in Events => pc' \in watch
  BY <1>1, ThenFacts DEF Names
<1>4. TypeOK'  BY <1>1, <1>2, <1>3 DEF TypeOK
<1>5. Counted' /\ Due'  BY <1>1, <1>3 DEF Counted, Over, Due, Names, Events
<1>6. pid # "none" /\ fd2
  BY <1>1 DEF Due, Known
<1>7. Known'
  BY <1>1, <1>6, <1>2 DEF Known
<1>8. Crossing'  BY <1>1 DEF Crossing, Asked
<1> QED BY <1>4, <1>5, <1>7, <1>8

LEMMA SignalKeepsControl == ASSUME Control, Signal PROVE Control'
<1> USE DEF Control, Signal, setup, input, output, flags, process, pipes, client,
            asked, heard
<1>1. /\ UNCHANGED <<why, watch, todo>> /\ pc' = "wait" /\ IsEof'
  <2>1. IsEof'
    BY DEF Due, IsEof
  <2> QED BY <2>1, ThenFacts DEF Names
<1>2. TypeOK'
  <2>1. handler' \in BOOLEAN /\ selfpipe' \in {"closed", "empty", "written"}
    BY DEF TypeOK
  <2> QED BY <1>1, <2>1 DEF TypeOK, Names
<1>3. Counted' /\ Due'  BY <1>1 DEF Counted, Over, Due, Names
<1>4. Known' /\ Crossing'  BY DEF Known, Crossing, Asked
<1> QED BY <1>2, <1>3, <1>4

(* The packets of packet_channel_send_eof and packet_channel_send_close. *)
LEMMA EndPacketsTyped ==
  /\ Eof \in Seq(Packets) /\ LastPackets \in Seq(Packets)
  /\ eofsent => Eof = <<>>
  /\ ~eofsent => Eof = <<[kind |-> "eof", n |-> 0]>>
<1> DEFINE e == [kind |-> "eof", n |-> 0]
           s == [kind |-> "status", n |-> 0]
           c == [kind |-> "close", n |-> 0]
<1>1. e \in Packets /\ s \in Packets /\ c \in Packets
  BY DEF Packets, EndPackets
<1>2. /\ Eof \in Seq(Packets)
      /\ eofsent => Eof = <<>>
      /\ ~eofsent => Eof = <<e>>
  BY <1>1 DEF Eof
<1>3. <<s, c>> \in Seq(Packets)
  BY <1>1
<1>4. LastPackets \in Seq(Packets)
  BY <1>2, <1>3, ConcatProperties DEF LastPackets
<1> QED BY <1>2, <1>4

LEMMA WaitKeepsControl == ASSUME Control, Wait PROVE Control'
<1> USE DEF Control, Wait, signals, setup, input, output, pipes, client, asked, heard
<1>1. /\ UNCHANGED <<why, watch, todo>>
      /\ pc' \in {"send", "recv", "process"}
      /\ pc' \in Events => pc' \in watch
  BY ThenFacts DEF Names
<1>2. IsEof
  BY DEF Due
<1>3. TypeOK'
  <2>1. /\ child' \in {"none", "running", "zombie", "waited"}
        /\ pid' \in {"none", "child", "died"}
        /\ eofsent' \in BOOLEAN /\ closesent' \in BOOLEAN
    BY DEF TypeOK
  <2>2. tonet' \in Seq(Packets) /\ sendbuf' \in Seq(Packets)
    <3>1. (tonet \o sendbuf) \o LastPackets \in Seq(Packets)
      BY EndPacketsTyped, ConcatProperties DEF TypeOK
    <3>2. \/ tonet' = (tonet \o sendbuf) \o LastPackets /\ sendbuf' = <<>>
          \/ UNCHANGED <<tonet, sendbuf>>
      OBVIOUS
    <3>3. tonet \in Seq(Packets) /\ sendbuf \in Seq(Packets) /\ <<>> \in Seq(Packets)
      BY DEF TypeOK
    <3> HIDE DEF Control, Wait
    <3> QED BY <3>1, <3>2, <3>3
  <2>3. /\ pc' \in Names \cup {"poll", "finished", "dead"}
        /\ why' = why /\ watch' = watch /\ todo' = todo
    BY <1>1 DEF Names
  <2>4. /\ selfpipe' = selfpipe /\ handler' = handler /\ open' = open /\ tty' = tty
        /\ fd0' = fd0 /\ fd1' = fd1 /\ fd2' = fd2 /\ remoteeof' = remoteeof
        /\ len0' = len0 /\ window' = window /\ closegot' = closegot
    OBVIOUS
  <2>5. /\ ends' = ends /\ made' = made /\ inpipe' = inpipe /\ outpipe' = outpipe
        /\ errpipe' = errpipe /\ fromnet' = fromnet
    OBVIOUS
  <2>6. /\ cstate' = cstate /\ csent' = csent /\ ceof' = ceof /\ cclose' = cclose
        /\ left' = left /\ owed' = owed /\ got' = got /\ late' = late
    OBVIOUS
  <2>7. TypeOK OBVIOUS
  <2> QED BY ONLY <2>1, <2>2, <2>3, <2>4, <2>5, <2>6, <2>7 DEF TypeOK
<1>4. Counted' /\ Due'  BY <1>1 DEF Counted, Over, Due, Names
<1>5. Known'  BY <1>2 DEF Known, IsEof
<1>6. Crossing'  BY DEF Crossing, Asked
<1> QED BY <1>3, <1>4, <1>5, <1>6

LEMMA SendKeepsControl == ASSUME Control, Send PROVE Control'
<1> USE DEF Control, Send, signals, setup, input, output, flags, process, pipes,
            client, asked, heard
<1>1. CASE sendbuf # <<>> /\ left
  <2> USE <1>1 DEF Die
  <2>1. TypeOK'  BY DEF TypeOK
  <2>2. Counted' /\ Due'  BY DEF Counted, Over, Due, Names
  <2>3. Known' /\ Crossing'  BY DEF Known, Crossing, Asked
  <2> QED BY <2>1, <2>2, <2>3
<1>2. CASE ~(sendbuf # <<>> /\ left)
  <2>1. Then("send")
    BY <1>2
  <2>2. /\ UNCHANGED <<why, watch, todo>> /\ pc' \in {"send", "recv", "process"}
        /\ pc' \in Events => pc' \in watch
    BY <2>1, ThenFacts DEF Names
  <2>3. tonet' \in Seq(Packets) /\ sendbuf' \in Seq(Packets)
    <3>1. CASE sendbuf = <<>>
      BY <3>1 DEF TypeOK
    <3>2. CASE sendbuf # <<>>
      <4>1. PICK k \in 1..Len(sendbuf) :
                   /\ tonet' = tonet \o SubSeq(sendbuf, 1, k)
                   /\ sendbuf' = SubSeq(sendbuf, k + 1, Len(sendbuf))
        BY <1>2, <3>2
      <4>2. /\ SubSeq(sendbuf, 1, k) \in Seq(Packets)
            /\ SubSeq(sendbuf, k + 1, Len(sendbuf)) \in Seq(Packets)
            /\ tonet \in Seq(Packets)
        BY DEF TypeOK
      <4> HIDE DEF Control, Send
      <4> QED BY <4>1, <4>2, ConcatProperties
    <3> QED BY <3>1, <3>2
  <2>4. TypeOK'  BY <2>2, <2>3 DEF TypeOK, Names
  <2>5. Counted' /\ Due'  BY <2>2 DEF Counted, Over, Due, Names
  <2>6. Known' /\ Crossing'  BY DEF Known, Crossing, Asked
  <2> QED BY <2>4, <2>5, <2>6
<1> QED BY <1>1, <1>2

LEMMA RecvKeepsControl == ASSUME Control, Recv PROVE Control'
<1> USE DEF Control, Recv, signals, setup, input, output, flags, process, pipes,
            client, asked, heard
<1>1. Len(fromnet) \in Nat
  BY DEF TypeOK
<1>2. TypeOK'  BY <1>1 DEF TypeOK, Names
<1>3. Counted' /\ Due'  BY <1>1 DEF Counted, Over, Due, Names
<1>4. Known' /\ Crossing'  BY DEF Known, Crossing, Asked
<1> QED BY <1>2, <1>3, <1>4

LEMMA ProcessEndKeepsControl == ASSUME Control, ProcessEnd PROVE Control'
<1> USE DEF Control, ProcessEnd, signals, setup, input, output, flags, process,
            pipes, client, asked, heard
<1>1. TypeOK'  BY DEF TypeOK
<1>2. Counted' /\ Due'  BY DEF Counted, Over, Due, Names, TypeOK
<1>3. Known' /\ Crossing'  BY DEF Known, Crossing, Asked
<1> QED BY <1>1, <1>2, <1>3

LEMMA PollKeepsControl == ASSUME Control, Poll \/ PollTimeout PROVE Control'
<1> USE DEF Control
<1>1. PICK events \in {Ready, {}} : Return(events)
  BY DEF Poll, PollTimeout
<1>2. /\ events \subseteq Events
      /\ events \cap {"out"} # {} => fd1
      /\ events \cap {"err"} # {} => fd2
  BY DEF Ready, Events, ReadIsReady
<1>3. pc' \in Names /\ watch' \subseteq Events /\ Counted' /\ Due'
  BY <1>1, <1>2, ReturnKeepsControl
<1> HIDE <1>2
<1>4. UNCHANGED <<signals, process, pipes, why, todo, sendbuf, setup, pid, input,
                  output, flags, client, tonet, fromnet>>
  BY <1>1 DEF Poll, PollTimeout, Return
<1> USE <1>4 DEF signals, setup, input, output, flags, process, pipes, client,
                 asked, heard
<1>5. TypeOK'  BY <1>3 DEF TypeOK
<1>6. Known' /\ Crossing'  BY DEF Known, Crossing, Asked
<1> QED BY <1>3, <1>5, <1>6

(* What the handlers of packets have in common. *)
LEMMA ProcessFacts ==
  ASSUME Control, NEW kind, Process(kind)
  PROVE  /\ pc = "process" /\ todo \in Nat \ {0}
         /\ fromnet' \in Seq(Requests) /\ Len(fromnet') = Len(fromnet) - 1
         /\ Len(fromnet) \in Nat \ {0} /\ todo <= Len(fromnet)
         /\ Head(fromnet) \in Requests /\ Head(fromnet).kind = kind
         /\ \A k : Asked(k)' => Asked(k)
         /\ Asked(kind)
         /\ UNCHANGED <<signals, client, tonet>>
<1>1. /\ pc = "process" /\ todo > 0 /\ todo \in Nat /\ todo <= Len(fromnet)
      /\ fromnet' = Tail(fromnet) /\ Head(fromnet).kind = kind
      /\ UNCHANGED <<signals, client, tonet>>
  BY DEF Process, Control, TypeOK, Counted, Over
<1>2. fromnet # <<>>
  BY <1>1 DEF Control, TypeOK
<1> QED BY <1>1, <1>2, RequestTaken DEF Control

(* Those that leave nothing but the loop, fromnet and what is given below  *)
(* changed.                                                                *)
LEMMA HandledLoop ==
  ASSUME Control, NEW kind, Process(kind), Done \/ Die("bug")
  PROVE  /\ pc' \in {"process", "dead"} /\ why' \in {why, "bug"}
         /\ todo' \in Nat /\ watch' = watch /\ Counted' /\ Due'
<1>1. /\ pc = "process" /\ todo \in Nat \ {0}
      /\ Len(fromnet') = Len(fromnet) - 1 /\ Len(fromnet) \in Nat \ {0}
      /\ todo <= Len(fromnet)
  BY ProcessFacts
<1>2. \/ pc' = pc /\ todo' = todo - 1 /\ UNCHANGED <<why, watch>>
      \/ pc' = "dead" /\ why' = "bug" /\ UNCHANGED <<watch, todo>>
  BY DEF Done, Die
<1>3. Counted' /\ Due'
  BY <1>1, <1>2 DEF Counted, Over, Due, Names
<1> QED BY <1>1, <1>2, <1>3

LEMMA ChannelOpenKeepsControl == ASSUME Control, ChannelOpen PROVE Control'
<1> DEFINE ok == ~open /\ pid = "none"
<1>1. /\ Process("open")
      /\ IF ok THEN Done ELSE Die("bug") /\ UNCHANGED <<open, window>>
      /\ ok => open' = TRUE /\ window' = Head(fromnet).n
      /\ UNCHANGED <<sendbuf, tty, pid, input, fd1, fd2, flags, process, pipes>>
  BY DEF ChannelOpen, Check
<1>2. /\ pc' \in {"process", "dead"} /\ why' \in {why, "bug"}
      /\ todo' \in Nat /\ watch' = watch /\ Counted' /\ Due'
  BY <1>1, HandledLoop
<1>3. /\ fromnet' \in Seq(Requests) /\ Head(fromnet) \in Requests
      /\ \A k : Asked(k)' => Asked(k)
      /\ UNCHANGED <<signals, client, tonet>>
  BY <1>1, ProcessFacts
<1>4. open' \in BOOLEAN /\ window' \in Nat
  BY <1>1, <1>3 DEF Control, TypeOK, Requests
<1> USE DEF Control, signals, client, asked, heard, input, flags, process, pipes
<1>5. TypeOK'  BY <1>1, <1>2, <1>3, <1>4 DEF TypeOK, Names
<1>6. Known'  BY <1>1 DEF Known
<1>7. Crossing'  BY <1>1, <1>3 DEF Crossing
<1> QED BY <1>2, <1>5, <1>6, <1>7

LEMMA ChannelOpenTerminalKeepsControl ==
  ASSUME Control, ChannelOpenTerminal PROVE Control'
<1> DEFINE ok == open /\ pid = "none" /\ ~tty
<1>1. /\ Process("pty-req")
      /\ IF ok THEN Done ELSE Die("bug") /\ UNCHANGED tty
      /\ ok => tty' \in BOOLEAN
      /\ UNCHANGED <<sendbuf, open, pid, input, output, flags, process, pipes>>
  BY DEF ChannelOpenTerminal, Check
<1>2. /\ pc' \in {"process", "dead"} /\ why' \in {why, "bug"}
      /\ todo' \in Nat /\ watch' = watch /\ Counted' /\ Due'
  BY <1>1, HandledLoop
<1>3. /\ fromnet' \in Seq(Requests)
      /\ \A k : Asked(k)' => Asked(k)
      /\ UNCHANGED <<signals, client, tonet>>
  BY <1>1, ProcessFacts
<1>4. tty' \in BOOLEAN
  BY <1>1 DEF Control, TypeOK
<1> USE DEF Control, signals, client, asked, heard, input, output, flags, process,
            pipes
<1>5. TypeOK'  BY <1>1, <1>2, <1>3, <1>4 DEF TypeOK, Names
<1>6. Known'  BY <1>1 DEF Known
<1>7. Crossing'  BY <1>1, <1>3 DEF Crossing
<1> QED BY <1>2, <1>5, <1>6, <1>7

LEMMA ChannelExecKeepsControl == ASSUME Control, ChannelExec PROVE Control'
<1>1. PICK forks \in BOOLEAN :
        LET ok == open /\ pid = "none" /\ forks IN
        /\ Check(ok, <<pid, child, fd0, fd1, fd2, len0, ends>>)
        /\ ok => /\ pid' = "child" /\ child' = "running"
                 /\ fd0' = TRUE /\ fd1' = TRUE /\ fd2' = ~tty /\ len0' = 0
                 /\ ends' = IF tty THEN {"in", "out"} ELSE {"in", "out", "err"}
  BY DEF ChannelExec
<1> DEFINE ok == open /\ pid = "none" /\ forks
<1>2. /\ Process("exec")
      /\ IF ok THEN Done
               ELSE /\ Die("bug")
                    /\ UNCHANGED <<pid, child, fd0, fd1, fd2, len0, ends>>
      /\ UNCHANGED <<sendbuf, setup, remoteeof, window, flags, made, pipes>>
  BY <1>1 DEF ChannelExec, Check
<1>3. /\ pc' \in {"process", "dead"} /\ why' \in {why, "bug"}
      /\ todo' \in Nat /\ watch' = watch /\ Counted'
      /\ pc = "process"
  BY <1>2, HandledLoop, ProcessFacts
<1>4. /\ fromnet' \in Seq(Requests)
      /\ \A k : Asked(k)' => Asked(k)
      /\ UNCHANGED <<signals, client, tonet>>
  BY <1>2, ProcessFacts
<1>5. /\ pid' \in {"none", "child", "died"}
      /\ child' \in {"none", "running", "zombie", "waited"}
      /\ fd0' \in BOOLEAN /\ fd1' \in BOOLEAN /\ fd2' \in BOOLEAN
      /\ len0' \in Nat /\ ends' \subseteq {"in", "out", "err"}
  <2>1. CASE ok
    <3>1. /\ pid' = "child" /\ child' = "running"
          /\ fd0' = TRUE /\ fd1' = TRUE /\ fd2' = ~tty /\ len0' = 0
          /\ ends' = IF tty THEN {"in", "out"} ELSE {"in", "out", "err"}
      BY <1>1, <2>1
    <3>2. fd0' \in BOOLEAN /\ fd1' \in BOOLEAN /\ fd2' \in BOOLEAN
      BY <3>1
    <3> QED BY <3>1, <3>2
  <2>2. CASE ~ok
    BY <1>2, <2>2 DEF Control, TypeOK
  <2> QED BY <2>1, <2>2
<1> USE DEF Control, signals, client, asked, heard, setup, flags, pipes
<1>6. TypeOK'  BY <1>2, <1>3, <1>4, <1>5 DEF TypeOK, Names
<1>7. Known'  BY <1>1, <1>2 DEF Known
<1>8. Crossing'  BY <1>2, <1>4 DEF Crossing
<1>9. Due'  BY <1>2, HandledLoop
<1> QED BY <1>3, <1>6, <1>7, <1>8, <1>9

LEMMA ChannelPutKeepsControl == ASSUME Control, ChannelPut PROVE Control'
<1> DEFINE ok == open /\ pid = "child" /\ fd0 /\ len0 + Head(fromnet).n <= BufSize
<1>1. /\ Process("data")
      /\ IF ok THEN Done ELSE Die("bug") /\ UNCHANGED len0
      /\ ok => len0' = len0 + Head(fromnet).n
      /\ UNCHANGED <<sendbuf, setup, pid, fd0, remoteeof, output, flags, process,
                     pipes>>
  BY DEF ChannelPut, Check
<1>2. /\ pc' \in {"process", "dead"} /\ why' \in {why, "bug"}
      /\ todo' \in Nat /\ watch' = watch /\ Counted' /\ Due'
  BY <1>1, HandledLoop
<1>3. /\ fromnet' \in Seq(Requests) /\ Head(fromnet) \in Requests
      /\ \A k : Asked(k)' => Asked(k)
      /\ UNCHANGED <<signals, client, tonet>>
  BY <1>1, ProcessFacts
<1>4. len0' \in Nat
  <2>1. Head(fromnet).n \in Nat /\ len0 \in Nat
    BY <1>3 DEF Control, TypeOK, Requests
  <2> HIDE DEF ok
  <2> QED BY <1>1, <2>1
<1> USE DEF Control, signals, client, asked, heard, setup, output, flags, process,
            pipes
<1>5. TypeOK'  BY <1>1, <1>2, <1>3, <1>4 DEF TypeOK, Names
<1>6. Known'  BY <1>1 DEF Known
<1>7. Crossing'  BY <1>1, <1>3 DEF Crossing
<1> QED BY <1>2, <1>5, <1>6, <1>7

LEMMA ChannelPutEofKeepsControl == ASSUME Control, ChannelPutEof PROVE Control'
<1> DEFINE ok == open /\ pid # "none" /\ fd0
<1>1. /\ Process("eof")
      /\ IF ok THEN Done ELSE Die("bug") /\ UNCHANGED <<remoteeof, fd0>>
      /\ ok => remoteeof' = TRUE /\ fd0' = (len0 > 0)
      /\ UNCHANGED <<sendbuf, setup, pid, len0, output, flags, process, pipes>>
  BY DEF ChannelPutEof, Check
<1>2. /\ pc' \in {"process", "dead"} /\ why' \in {why, "bug"}
      /\ todo' \in Nat /\ watch' = watch /\ Counted' /\ Due'
  BY <1>1, HandledLoop
<1>3. /\ fromnet' \in Seq(Requests) /\ Asked("eof")
      /\ \A k : Asked(k)' => Asked(k)
      /\ UNCHANGED <<signals, client, tonet>>
  BY <1>1, ProcessFacts
<1>4. remoteeof' \in BOOLEAN /\ fd0' \in BOOLEAN
  <2>1. CASE ok
    <3>1. remoteeof' = TRUE /\ fd0' = (len0 > 0)
      BY <1>1, <2>1
    <3> QED BY <3>1
  <2>2. CASE ~ok
    BY <1>1, <2>2 DEF Control, TypeOK
  <2> QED BY <2>1, <2>2
<1> USE DEF Control, signals, client, asked, heard, setup, output, flags, process,
            pipes
<1>5. TypeOK'  BY <1>1, <1>2, <1>3, <1>4 DEF TypeOK, Names
<1>6. Known'  BY <1>1 DEF Known
<1>7. Crossing'  BY <1>1, <1>3 DEF Crossing
<1> QED BY <1>2, <1>5, <1>6, <1>7

LEMMA ChannelCloseKeepsControl == ASSUME Control, ChannelClose PROVE Control'
<1>1. /\ Process("close") /\ Done
      /\ sendbuf' = sendbuf \o Eof /\ eofsent' = TRUE /\ closegot' = TRUE
      /\ UNCHANGED <<setup, pid, input, output, closesent, process, pipes>>
  BY DEF ChannelClose
<1>2. /\ pc' \in {"process", "dead"} /\ why' \in {why, "bug"}
      /\ todo' \in Nat /\ watch' = watch /\ Counted' /\ Due'
  BY <1>1, HandledLoop
<1>3. /\ fromnet' \in Seq(Requests) /\ Asked("close")
      /\ \A k : Asked(k)' => Asked(k)
      /\ UNCHANGED <<signals, client, tonet>>
  BY <1>1, ProcessFacts
<1>4. /\ eofsent' \in BOOLEAN /\ closegot' \in BOOLEAN
      /\ sendbuf' \in Seq(Packets)
  BY <1>1, EndPacketsTyped, ConcatProperties DEF Control, TypeOK
<1> USE DEF Control, signals, client, asked, heard, setup, input, output, process,
            pipes
<1>5. TypeOK'  BY <1>1, <1>2, <1>3, <1>4 DEF TypeOK, Names
<1>6. Known'  BY <1>1 DEF Known
<1>7. Crossing'  BY <1>1, <1>3 DEF Crossing
<1> QED BY <1>2, <1>5, <1>6, <1>7

LEMMA IncrementKeepsControl == ASSUME Control, IncrementRemoteWindow PROVE Control'
<1>1. /\ Process("adjust") /\ Done
      /\ window' = window + Head(fromnet).n
      /\ UNCHANGED <<sendbuf, setup, pid, input, fd1, fd2, flags, process, pipes>>
  BY DEF IncrementRemoteWindow
<1>2. /\ pc' \in {"process", "dead"} /\ why' \in {why, "bug"}
      /\ todo' \in Nat /\ watch' = watch /\ Counted' /\ Due'
  BY <1>1, HandledLoop
<1>3. /\ fromnet' \in Seq(Requests) /\ Head(fromnet) \in Requests
      /\ \A k : Asked(k)' => Asked(k)
      /\ UNCHANGED <<signals, client, tonet>>
  BY <1>1, ProcessFacts
<1>4. window' \in Nat
  <2>1. Head(fromnet).n \in Nat BY <1>3 DEF Requests
  <2>2. window \in Nat BY DEF Control, TypeOK
  <2> QED BY <1>1, <2>1, <2>2
<1> USE DEF Control, signals, client, asked, heard, setup, input, flags, process,
            pipes
<1>5. TypeOK'
  <2>1. /\ pc' \in Names \cup {"poll", "finished", "dead"} /\ todo' \in Nat
        /\ why' \in {"none", "write", "left", "bug", "timeout"}
        /\ watch' \subseteq Events
    BY <1>2 DEF TypeOK, Names
  <2>2. /\ selfpipe' = selfpipe /\ handler' = handler /\ open' = open /\ tty' = tty
        /\ pid' = pid /\ fd0' = fd0 /\ remoteeof' = remoteeof /\ len0' = len0
        /\ fd1' = fd1 /\ fd2' = fd2
        /\ eofsent' = eofsent /\ closesent' = closesent /\ closegot' = closegot
    BY <1>1, <1>3
  <2>3. /\ child' = child /\ ends' = ends /\ made' = made
        /\ inpipe' = inpipe /\ outpipe' = outpipe /\ errpipe' = errpipe
        /\ sendbuf' = sendbuf /\ tonet' = tonet
    BY <1>1, <1>3
  <2>4. /\ cstate' = cstate /\ csent' = csent /\ ceof' = ceof /\ cclose' = cclose
        /\ left' = left /\ owed' = owed /\ got' = got /\ late' = late
    BY <1>1, <1>3
  <2> QED BY <1>3, <1>4, <2>1, <2>2, <2>3, <2>4 DEF TypeOK
<1>6. Known'  BY <1>1 DEF Known
<1>7. Crossing'  BY <1>1, <1>3 DEF Crossing
<1> QED BY <1>2, <1>5, <1>6, <1>7

LEMMA TimeoutKeepsControl == ASSUME Control, Timeout PROVE Control'
<1> USE DEF Control, Timeout, Die, signals, setup, input, output, flags, process,
            pipes, client, asked, heard
<1>1. TypeOK'  BY DEF TypeOK
<1>2. Counted' /\ Due'  BY DEF Counted, Over, Due, Names
<1>3. Known' /\ Crossing'  BY DEF Known, Crossing, Asked
<1> QED BY <1>1, <1>2, <1>3

LEMMA ChildKeepsControl ==
  ASSUME Control, ChildPrints \/ ChildReads \/ ChildCloses \/ ChildExits
  PROVE  Control'
<1> USE DEF Control, world, signals, setup, input, output, flags, process, pipes,
            client, asked, heard
<1>1. CASE ChildPrints
  <2>1. PICK stream \in Streams :
          /\ stream \in ends
          /\ made' = [made EXCEPT ![stream] = @ + 1]
          /\ IF stream = "out"
             THEN outpipe < PipeSize /\ outpipe' = outpipe + 1 /\ UNCHANGED errpipe
             ELSE errpipe < PipeSize /\ errpipe' = errpipe + 1 /\ UNCHANGED outpipe
    BY <1>1 DEF ChildPrints, Emit, Streams
  <2>2. UNCHANGED <<world, pc, watch, signals, child, ends, inpipe>>
    BY <1>1 DEF ChildPrints
  <2>3. /\ made' \in [Streams -> Nat]
        /\ outpipe' \in 0..PipeSize /\ errpipe' \in 0..PipeSize
    <3>1. made \in [Streams -> Nat] BY DEF TypeOK
    <3>2. made[stream] + 1 \in Nat BY <3>1
    <3>3. made' \in [Streams -> Nat] BY <2>1, <3>1, <3>2
    <3>4. /\ outpipe \in 0..PipeSize /\ errpipe \in 0..PipeSize /\ PipeSize \in Nat
      BY BoundAssumption DEF TypeOK
    <3>5. outpipe' \in 0..PipeSize /\ errpipe' \in 0..PipeSize
      <4>1. CASE stream = "out" BY <2>1, <3>4, <4>1
      <4>2. CASE stream # "out" BY <2>1, <3>4, <4>2
      <4> QED BY <4>1, <4>2
    <3> QED BY <3>3, <3>5
  <2>4. TypeOK'  BY <2>2, <2>3 DEF TypeOK
  <2>5. Counted' /\ Due' /\ Crossing'
    BY <2>2 DEF Counted, Over, Due, IsEof, Crossing, Asked
  <2>6. Known'  BY <2>1, <2>2 DEF Known
  <2> QED BY <2>4, <2>5, <2>6
<1>2. CASE ChildReads
  <2> USE <1>2 DEF ChildReads
  <2>1. TypeOK'  BY BoundAssumption DEF TypeOK
  <2>2. Counted' /\ Due' /\ Crossing'
    BY DEF Counted, Over, Due, IsEof, Crossing, Asked
  <2>3. Known'  BY DEF Known
  <2> QED BY <2>1, <2>2, <2>3
<1>3. CASE ChildCloses
  <2>1. ends' \subseteq ends
        /\ UNCHANGED <<world, pc, watch, signals, child, made, pipes>>
    BY <1>3 DEF ChildCloses
  <2>2. TypeOK'  BY <2>1 DEF TypeOK
  <2>3. Counted' /\ Due' /\ Crossing'
    BY <2>1 DEF Counted, Over, Due, IsEof, Crossing, Asked
  <2>4. Known'  BY <2>1 DEF Known
  <2> QED BY <2>2, <2>3, <2>4
<1>4. CASE ChildExits
  <2>1. /\ child = "running" /\ child' = "zombie"
        /\ selfpipe' \in {"closed", "empty", "written"}
        /\ UNCHANGED <<handler, ends, made, pipes>>
    BY <1>4 DEF ChildExits, Trigger, TypeOK
  <2>2. Return({}) \/ UNCHANGED <<world, pc, watch>>
    BY <1>4 DEF ChildExits
  <2>3. /\ pc' \in Names \cup {"poll", "finished", "dead"}
        /\ watch' \subseteq Events /\ Counted' /\ Due'
        /\ UNCHANGED world
    <3>1. CASE Return({})
      BY <3>1, ReturnKeepsControl DEF Return
    <3>2. CASE UNCHANGED <<world, pc, watch>>
      BY <3>2 DEF Counted, Over, Due, IsEof, TypeOK
    <3> QED BY <2>2, <3>1, <3>2
  <2>4. TypeOK'  BY <2>1, <2>3 DEF TypeOK
  <2>5. Crossing'  BY <2>3 DEF Crossing, Asked
  <2>6. Known'  BY <2>1, <2>3 DEF Known
  <2> QED BY <2>3, <2>4, <2>5, <2>6
<1> QED BY <1>1, <1>2, <1>3, <1>4

LEMMA SayKeepsControl ==
  ASSUME Control, NEW kind, NEW n \in Nat,
         kind \in {"open", "pty-req", "exec", "data", "eof", "close", "adjust"},
         Say(kind, n),
         cstate' \in {"open", "pty-req", "exec", "running"}, csent' \in Nat,
         ceof' \in BOOLEAN, cclose' \in BOOLEAN, owed' \in Nat,
         ceof \/ kind = "eof" => ceof', cclose \/ kind = "close" => cclose',
         UNCHANGED <<got, finale, late>>
  PROVE  Control'
<1> USE DEF Control, loop, signals, setup, input, output, flags, process, pipes
<1>1. /\ fromnet' = Append(fromnet, [kind |-> kind, n |-> n])
      /\ UNCHANGED <<sendbuf, loop, signals, setup, pid, input, output, flags,
                     process, pipes, left, tonet>>
      /\ [kind |-> kind, n |-> n] \in Requests
  BY DEF Say, Requests
<1>2. /\ fromnet' \in Seq(Requests) /\ Len(fromnet') = Len(fromnet) + 1
      /\ Len(fromnet) \in Nat
      /\ \A k : Asked(k)' <=> Asked(k) \/ kind = k
  BY <1>1, RequestSent
<1>3. TypeOK'  BY <1>1, <1>2 DEF TypeOK
<1>4. Counted'  BY <1>1, <1>2 DEF Counted, Over, TypeOK
<1>5. Due' /\ Known'  BY <1>1 DEF Due, IsEof, Known
<1>6. Crossing'  BY <1>1, <1>2 DEF Crossing
<1> QED BY <1>3, <1>4, <1>5, <1>6

LEMMA ClientKeepsControl == ASSUME Control, Client PROVE Control'
<1>1. CASE CRequest
  <2>1. PICK kind \in {"open", "pty-req", "exec"},
             to \in {"pty-req", "exec", "running"} : Request(kind, kind, to)
    BY <1>1 DEF CRequest
  <2> QED BY <2>1, SayKeepsControl, BoundAssumption
          DEF Request, heard, Control, TypeOK
<1>2. CASE CData
  <2>1. /\ Say("data", 1) /\ csent' = csent + 1
        /\ UNCHANGED <<cstate, ceof, cclose, owed, got, finale, late>>
    BY <1>2 DEF CData, heard
  <2>2. /\ cstate' \in {"open", "pty-req", "exec", "running"} /\ csent' \in Nat
        /\ ceof' \in BOOLEAN /\ cclose' \in BOOLEAN /\ owed' \in Nat
    BY <2>1 DEF Control, TypeOK
  <2> QED BY <2>1, <2>2, SayKeepsControl
<1>3. CASE CEof
  BY <1>3, SayKeepsControl DEF CEof, heard, Control, TypeOK
<1>4. CASE CClose
  BY <1>4, SayKeepsControl DEF CClose, heard, Control, TypeOK
<1>5. CASE CAdjust
  BY <1>5, SayKeepsControl DEF CAdjust, asked, Control, TypeOK
<1> USE DEF Control, loop, signals, setup, input, output, flags, process, pipes,
            asked, heard
<1>6. CASE CReceive
  <2> USE <1>6 DEF CReceive
  <2>1. tonet' \in Seq(Packets) /\ Head(tonet) \in Packets
    BY DEF TypeOK
  <2>2. got' \in [Streams -> Nat] /\ owed' \in Nat /\ late' \in BOOLEAN
    <3>1. CASE Head(tonet).kind \in EndPackets
      BY <3>1 DEF TypeOK
    <3>2. CASE Head(tonet).kind \notin EndPackets
      <4>1. /\ got' = [got EXCEPT ![Head(tonet).kind] = @ + Head(tonet).n]
            /\ owed' = owed + Head(tonet).n
            /\ late' = (late \/ (finale # <<>> /\ ~cclose))
        BY <3>2
      <4>2. Head(tonet).kind \in Streams /\ Head(tonet).n \in Nat
        BY <2>1, <3>2 DEF Packets
      <4>3. got \in [Streams -> Nat] /\ owed \in Nat
        BY DEF TypeOK
      <4> HIDE DEF Control, CReceive
      <4> QED BY <4>1, <4>2, <4>3
    <3> QED BY <3>1, <3>2
  <2>3. TypeOK'  BY <2>1, <2>2 DEF TypeOK
  <2>4. Counted' /\ Due'  BY DEF Counted, Over, Due, IsEof
  <2>5. Known' /\ Crossing'  BY DEF Known, Crossing, Asked
  <2> QED BY <2>3, <2>4, <2>5
<1>7. CASE CLeave
  <2> USE <1>7 DEF CLeave
  <2>1. TypeOK'
    <3>1. left' \in BOOLEAN
      OBVIOUS
    <3> QED BY <3>1 DEF TypeOK
  <2>2. Counted' /\ Due'  BY DEF Counted, Over, Due, IsEof
  <2>3. Known' /\ Crossing'  BY DEF Known, Crossing, Asked
  <2> QED BY <2>1, <2>2, <2>3
<1> QED BY <1>1, <1>2, <1>3, <1>4, <1>5, <1>6, <1>7 DEF Client

LEMMA ControlNext == ASSUME Control, [Next]_vars PROVE Control'
<1>1. CASE Server
  BY <1>1, PollKeepsControl, WriteKeepsControl, ReadOutKeepsControl,
     ReadErrKeepsControl, SignalKeepsControl, WaitKeepsControl, SendKeepsControl,
     RecvKeepsControl, ProcessEndKeepsControl, ChannelOpenKeepsControl,
     ChannelOpenTerminalKeepsControl, ChannelExecKeepsControl,
     ChannelPutKeepsControl, ChannelPutEofKeepsControl, ChannelCloseKeepsControl,
     IncrementKeepsControl DEF Server
<1>2. CASE UNCHANGED vars
  <2> USE <1>2 DEF vars, loop, signals, setup, input, output, flags, process,
                   pipes, client, asked, heard
  <2>1. TypeOK'  BY DEF Control, TypeOK
  <2>2. Counted' /\ Due'  BY DEF Control, Counted, Over, Due, IsEof
  <2>3. Known' /\ Crossing'  BY DEF Control, Known, Crossing, Asked
  <2> QED BY <2>1, <2>2, <2>3 DEF Control
<1> QED BY <1>1, <1>2, PollKeepsControl, TimeoutKeepsControl, ChildKeepsControl,
           ClientKeepsControl DEF Next

----------------------------------------------------------------------------
(* No death of the child is missed.                                        *)

\* What a step leaves alone that Watched is about.
Apart == <<pc, pid, fd1, fd2, handler, child, selfpipe>>

LEMMA WatchedKept ==
  ASSUME Watched, UNCHANGED Apart PROVE Watched'
  BY DEF Watched, Apart

(* From an iteration that leaves the outputs and the child alone to the    *)
(* next one.                                                               *)
LEMMA WatchedLater ==
  ASSUME Watched, pc \in {"send", "recv", "process"},
         pc' \in {"send", "recv", "process", "poll", "dead", "finished"},
         UNCHANGED <<pid, fd1, fd2, handler, child, selfpipe>>
  PROVE  Watched'
  BY DEF Watched

(* Into an iteration: waitnohang has not been due, or comes after signal.  *)
LEMMA WatchedReturn ==
  ASSUME Control, NEW events, events \subseteq Events, Return(events)
  PROVE  Watched'
<1> DEFINE next == After("poll", events)
<1>1. /\ pc' = next /\ UNCHANGED <<pid, fd1, fd2, open>>
  BY DEF Return, output, setup
<1>2. /\ next \in Names /\ next # "wait"
      /\ IsEof' => next \in {"write", "out", "err", "signal"}
  BY AfterFacts
<1> HIDE DEF next
<1>3. pid = "child" /\ ~fd1 /\ ~fd2 => IsEof'
  BY <1>1 DEF IsEof, Control, Known
<1> QED BY <1>1, <1>2, <1>3 DEF Watched, Names

LEMMA WatchedRead ==
  ASSUME Control, NEW step \in {"write", "out", "err"}, Then(step),
         UNCHANGED <<pid, open>>
  PROVE  Watched'
<1>1. /\ pc' \in Names \ {"wait"}
      /\ IsEof' => pc' \in {"out", "err", "signal"}
  BY ThenFacts DEF Control, Names
<1>2. pid = "child" /\ ~fd1' /\ ~fd2' => IsEof'
  BY DEF IsEof, Control, Known
<1> QED BY <1>1, <1>2 DEF Watched, Names

LEMMA WatchedNext == ASSUME Control, Watched, [Next]_vars PROVE Watched'
<1> USE DEF Apart, loop, signals, setup, input, output, flags, process, pipes,
            client, asked, heard
<1>1. CASE Poll \/ PollTimeout
  <2>1. PICK events \in {Ready, {}} : Return(events)
    BY <1>1 DEF Poll, PollTimeout
  <2>2. events \subseteq Events
    BY DEF Ready, Events
  <2> QED BY <2>1, <2>2, WatchedReturn
<1>2. CASE Write
  <2>1. CASE "in" \notin ends
    BY <1>2, <2>1 DEF Write, Die, Watched
  <2>2. CASE "in" \in ends
    BY <1>2, <2>2, WatchedRead DEF Write
  <2> QED BY <2>1, <2>2
<1>3. CASE ReadOut \/ ReadErr
  BY <1>3, WatchedRead DEF ReadOut, ReadErr
<1>4. CASE Signal
  <2>1. IsEof'
    BY <1>4 DEF Signal, Control, Due, IsEof
  <2>2. pc' = "wait"
    BY <1>4, <2>1, ThenFacts DEF Signal, Control, Names
  <2> QED BY <1>4, <2>2 DEF Signal, Watched
<1>5. CASE Wait
  <2>1. handler' /\ IsEof
    BY <1>5 DEF Wait, Watched, Control, Due
  <2>2. pc' # "wait"
    BY <1>5, ThenFacts DEF Wait, Control, Names
  <2>3. pid' = "child" => child' # "zombie"
    BY <1>5 DEF Wait, Control, Known
  <2> QED BY <2>1, <2>2, <2>3 DEF Watched
<1>6. CASE Send \/ Recv \/ ProcessEnd
  <2>1. pc' \in {"send", "recv", "process", "poll", "dead", "finished"}
    <3>1. Then("send") \/ pc' = "dead" \/ Recv \/ ProcessEnd
      BY <1>6 DEF Send, Die
    <3>2. Then("send") => pc' \in {"send", "recv", "process"}
      BY ThenFacts DEF Control, Names
    <3> QED BY <3>1, <3>2 DEF Recv, ProcessEnd
  <2> QED BY <1>6, <2>1, WatchedLater DEF Send, Recv, ProcessEnd
<1>7. ASSUME NEW kind, Process(kind), Done \/ Die("bug"),
             UNCHANGED <<pid, fd1, fd2, child>>
      PROVE  Watched'
  <2>1. /\ pc = "process" /\ pc' \in {"process", "dead"}
        /\ UNCHANGED <<handler, selfpipe>>
    BY <1>7, HandledLoop, ProcessFacts
  <2> QED BY <1>7, <2>1, WatchedLater
<1>8. CASE \/ ChannelOpen \/ ChannelOpenTerminal \/ ChannelPut \/ ChannelPutEof
           \/ ChannelClose \/ IncrementRemoteWindow
  BY <1>7, <1>8 DEF ChannelOpen, ChannelOpenTerminal, ChannelPut, ChannelPutEof,
     ChannelClose, IncrementRemoteWindow, Check
<1>9. CASE ChannelExec
  <2>1. PICK forks \in BOOLEAN :
          LET ok == open /\ pid = "none" /\ forks IN
          /\ Check(ok, <<pid, child, fd0, fd1, fd2, len0, ends>>)
          /\ ok => fd1' = TRUE
    BY <1>9 DEF ChannelExec
  <2>2. CASE open /\ pid = "none" /\ forks
    <3>1. pc' = "process" /\ fd1'
      BY <1>9, <2>1, <2>2 DEF Check, Done, ChannelExec, Process
    <3> QED BY <3>1 DEF Watched
  <2>3. CASE ~(open /\ pid = "none" /\ forks)
    <3>1. Process("exec") /\ Die("bug") /\ UNCHANGED <<pid, fd1, fd2, child>>
      BY <1>9, <2>1, <2>3 DEF Check, ChannelExec
    <3> QED BY <1>7, <3>1
  <2> QED BY <2>2, <2>3
<1>10. CASE Timeout
  BY <1>10 DEF Timeout, Die, Watched
<1>11. CASE ChildPrints \/ ChildReads \/ ChildCloses
  BY <1>11, WatchedKept DEF ChildPrints, ChildReads, ChildCloses, world
<1>12. CASE ChildExits
  <2>1. CASE Return({})
    BY <2>1, WatchedReturn
  <2>2. CASE UNCHANGED <<world, pc, watch>>
    BY <1>12, <2>2 DEF ChildExits, Trigger, Watched, world, Control, TypeOK
  <2> QED BY <1>12, <2>1, <2>2 DEF ChildExits
<1>13. CASE Client
  BY <1>13, WatchedKept DEF Client, CRequest, Request, CData, CEof, CClose, CAdjust,
     CReceive, CLeave, Say
<1>14. CASE UNCHANGED vars
  BY <1>14, WatchedKept DEF vars
<1> QED BY <1>1, <1>2, <1>3, <1>4, <1>5, <1>6, <1>8, <1>9, <1>10, <1>11, <1>12,
           <1>13, <1>14 DEF Next, Server

\* A child that dies after its outputs have ended is waited for, however its
\* death falls between signal, waitpid and poll (main_tinysshd).
THEOREM DeathSeen == Spec => []DeathNotMissed
<1>1. Init => Control /\ Watched
  BY ControlInit DEF Init, Watched
<1>2. Control /\ Watched /\ [Next]_vars => Control' /\ Watched'
  BY ControlNext, WatchedNext
<1>3. Watched => DeathNotMissed
  BY DEF Watched, DeathNotMissed, IsEof
<1> QED BY <1>1, <1>2, <1>3, PTL DEF Spec

----------------------------------------------------------------------------
(* Queues of packets.                                                      *)

LEMMA AppendAt ==
  ASSUME NEW q \in Seq(Packets), NEW m \in Packets
  PROVE  /\ Append(q, m) \in Seq(Packets) /\ Len(q) \in Nat
         /\ Len(Append(q, m)) = Len(q) + 1 /\ Append(q, m)[Len(q) + 1] = m
         /\ \A i \in 1..Len(q) : Append(q, m)[i] = q[i] /\ q[i] \in Packets
  OBVIOUS

LEMMA TailAt ==
  ASSUME NEW q \in Seq(Packets), q # <<>>
  PROVE  /\ Tail(q) \in Seq(Packets) /\ Len(q) \in Nat \ {0}
         /\ Len(Tail(q)) = Len(q) - 1
         /\ Head(q) = q[1] /\ Head(q) \in Packets
         /\ \A i \in 1..Len(Tail(q)) : Tail(q)[i] = q[i + 1]
         /\ \A i \in 1..Len(q) : q[i] \in Packets
  OBVIOUS

LEMMA RankFacts ==
  ASSUME NEW p \in Packets
  PROVE  /\ Rank(p) \in 0..3 /\ (Rank(p) # 0 <=> p.kind \in EndPackets)
         /\ Rank(p) = 0 <=> p.kind \in Streams
         /\ \A stream \in Streams :
              /\ Bytes(p, stream) \in Nat
              /\ Rank(p) # 0 => Bytes(p, stream) = 0
  BY DEF Rank, Packets, EndPackets, Streams, Bytes

LEMMA OrderedAppend ==
  ASSUME NEW q \in Seq(Packets), NEW m \in Packets, NEW a \in Nat, NEW b \in Nat,
         a <= b, Ordered(q, a, b), Rank(m) = 0 \/ Rank(m) = b + 1
  PROVE  Ordered(Append(q, m), a, IF Rank(m) = 0 THEN b ELSE b + 1)
<1> DEFINE r == Append(q, m)
           n == Len(q)
           c == IF Rank(m) = 0 THEN b ELSE b + 1
<1>1. /\ n \in Nat /\ Len(r) = n + 1 /\ r[n + 1] = m
      /\ \A i \in 1..n : r[i] = q[i]
  BY AppendAt
<1>2. /\ \A i \in 1..n : Rank(q[i]) # 0 => Rank(q[i]) \in (a + 1)..b
      /\ \A i, j \in 1..n :
           i < j /\ Rank(q[i]) # 0 /\ Rank(q[j]) # 0 => Rank(q[i]) < Rank(q[j])
      /\ \A k \in (a + 1)..b : \E i \in 1..n : Rank(q[i]) = k
  BY DEF Ordered
<1> HIDE DEF r, n
<1>3. ASSUME NEW i \in 1..Len(r), Rank(r[i]) # 0
      PROVE  Rank(r[i]) \in (a + 1)..c
  <2>1. CASE i = n + 1
    BY <1>1, <1>3, <2>1
  <2>2. CASE i \in 1..n
    BY <1>1, <1>2, <1>3, <2>2
  <2> QED BY <1>1, <2>1, <2>2
<1>4. ASSUME NEW i \in 1..Len(r), NEW j \in 1..Len(r),
             i < j, Rank(r[i]) # 0, Rank(r[j]) # 0
      PROVE  Rank(r[i]) < Rank(r[j])
  <2>1. i \in 1..n /\ r[i] = q[i]
    BY <1>1, <1>4
  <2>2. CASE j = n + 1
    BY <1>1, <1>2, <1>4, <2>1, <2>2
  <2>3. CASE j \in 1..n
    BY <1>1, <1>2, <1>4, <2>1, <2>3
  <2> QED BY <1>1, <2>2, <2>3
<1>5. ASSUME NEW k \in (a + 1)..c
      PROVE  \E i \in 1..Len(r) : Rank(r[i]) = k
  <2>1. CASE k \in (a + 1)..b
    BY <1>1, <1>2, <2>1
  <2>2. CASE k = b + 1 /\ Rank(m) = b + 1
    BY <1>1, <2>2
  <2> QED BY <2>1, <2>2
<1> QED BY <1>3, <1>4, <1>5 DEF Ordered, r

LEMMA OrderedTail ==
  ASSUME NEW q \in Seq(Packets), q # <<>>, NEW a \in Nat, NEW b \in Nat,
         Ordered(q, a, b)
  PROVE  /\ Rank(Head(q)) = 0 => Ordered(Tail(q), a, b)
         /\ Rank(Head(q)) # 0 => /\ Rank(Head(q)) = a + 1 /\ a + 1 <= b
                                 /\ Ordered(Tail(q), a + 1, b)
<1> DEFINE r == Tail(q)
           n == Len(q)
<1>1. /\ n \in Nat \ {0} /\ Len(r) = n - 1 /\ Head(q) = q[1]
      /\ \A i \in 1..Len(r) : r[i] = q[i + 1]
      /\ \A i \in 1..n : Rank(q[i]) \in 0..3
  BY TailAt, RankFacts
<1>2. /\ \A i \in 1..n : Rank(q[i]) # 0 => Rank(q[i]) \in (a + 1)..b
      /\ \A i, j \in 1..n :
           i < j /\ Rank(q[i]) # 0 /\ Rank(q[j]) # 0 => Rank(q[i]) < Rank(q[j])
      /\ \A k \in (a + 1)..b : \E i \in 1..n : Rank(q[i]) = k
  BY DEF Ordered
<1> HIDE DEF r, n
<1>3. \A i \in 1..Len(r) : i + 1 \in 1..n /\ i + 1 # 1
  BY <1>1
<1>4. \A i \in 1..n : i = 1 \/ (i - 1 \in 1..Len(r) /\ r[i - 1] = q[i])
  BY <1>1
<1>5. /\ \A i \in 1..Len(r) : Rank(r[i]) # 0 => Rank(r[i]) \in (a + 1)..b
      /\ \A i, j \in 1..Len(r) :
           i < j /\ Rank(r[i]) # 0 /\ Rank(r[j]) # 0 => Rank(r[i]) < Rank(r[j])
  <2>1. \A i \in 1..Len(r) : Rank(r[i]) # 0 => Rank(r[i]) \in (a + 1)..b
    BY <1>1, <1>2, <1>3
  <2>2. \A i, j \in 1..Len(r) : i < j => i + 1 < j + 1
    OBVIOUS
  <2>3. \A i, j \in 1..Len(r) :
          i < j /\ Rank(r[i]) # 0 /\ Rank(r[j]) # 0 => Rank(r[i]) < Rank(r[j])
    BY <1>1, <1>2, <1>3, <2>2
  <2> QED BY <2>1, <2>3
<1>6. CASE Rank(Head(q)) = 0
  <2>1. ASSUME NEW k \in (a + 1)..b PROVE \E i \in 1..Len(r) : Rank(r[i]) = k
    <3>1. PICK i \in 1..n : Rank(q[i]) = k
      BY <1>2
    <3>2. i # 1 /\ i - 1 \in 1..Len(r) /\ r[i - 1] = q[i]
      BY <1>1, <1>4, <1>6, <3>1
    <3> QED BY <3>1, <3>2
  <2> QED BY <1>5, <1>6, <2>1 DEF Ordered, r
<1>7. CASE Rank(Head(q)) # 0
  <2>1. 1 \in 1..n /\ Rank(q[1]) \in (a + 1)..b /\ a + 1 \in (a + 1)..b
    BY <1>1, <1>2, <1>7
  <2>2. PICK i \in 1..n : Rank(q[i]) = a + 1
    BY <1>2, <2>1
  <2>3. Rank(q[1]) = a + 1
    <3>1. i = 1 \/ 1 < i
      BY <1>1
    <3>2. 1 < i => Rank(q[1]) < a + 1
      BY <1>1, <1>2, <1>7, <2>1, <2>2
    <3> QED BY <2>1, <2>2, <3>1, <3>2
  <2>4. \A j \in 1..Len(r) : Rank(r[j]) # 0 => Rank(r[j]) \in (a + 2)..b
    <3> TAKE j \in 1..Len(r)
    <3> HAVE Rank(r[j]) # 0
    <3>1. j + 1 \in 1..n /\ 1 < j + 1 /\ r[j] = q[j + 1]
      BY <1>1, <1>3
    <3>2. Rank(q[1]) < Rank(q[j + 1]) /\ Rank(q[j + 1]) \in (a + 1)..b
      BY <1>2, <2>1, <2>3, <3>1
    <3> QED BY <2>3, <3>1, <3>2
  <2>5. ASSUME NEW k \in (a + 2)..b PROVE \E j \in 1..Len(r) : Rank(r[j]) = k
    <3>1. PICK j \in 1..n : Rank(q[j]) = k
      BY <1>2
    <3>2. j # 1
      BY <2>3, <3>1
    <3> QED BY <1>4, <3>1, <3>2
  <2>6. (a + 2)..b = ((a + 1) + 1)..b
    OBVIOUS
  <2>7. Ordered(r, a + 1, b)
    BY <1>5, <2>4, <2>5, <2>6 DEF Ordered
  <2> QED BY <1>1, <1>7, <2>1, <2>3, <2>7 DEF r
<1> QED BY <1>6, <1>7

LEMMA NoDataAppend ==
  ASSUME NEW q \in Seq(Packets), NEW m \in Packets, NEW received \in BOOLEAN,
         NoDataAfter(q, received),
         \/ Rank(m) # 0
         \/ ~received /\ \A i \in 1..Len(q) : Rank(q[i]) = 0
  PROVE  NoDataAfter(Append(q, m), received)
<1> DEFINE r == Append(q, m)
           n == Len(q)
<1>1. /\ n \in Nat /\ Len(r) = n + 1 /\ r[n + 1] = m
      /\ \A i \in 1..n : r[i] = q[i]
  BY AppendAt
<1>2. /\ received => \A j \in 1..n : Rank(q[j]) # 0
      /\ \A i, j \in 1..n : i < j /\ Rank(q[i]) # 0 => Rank(q[j]) # 0
  BY DEF NoDataAfter
<1> HIDE DEF r
<1>3. \A i \in 1..Len(r) : i \in 1..n \/ i = n + 1
  BY <1>1
<1> HIDE DEF n
<1> QED BY <1>1, <1>2, <1>3 DEF NoDataAfter, r, n

LEMMA NoDataTail ==
  ASSUME NEW q \in Seq(Packets), q # <<>>, NEW received \in BOOLEAN,
         NoDataAfter(q, received)
  PROVE  /\ NoDataAfter(Tail(q), received \/ Rank(Head(q)) # 0)
         /\ received => Rank(Head(q)) # 0
<1> DEFINE r == Tail(q)
           n == Len(q)
<1>1. /\ n \in Nat \ {0} /\ Len(r) = n - 1 /\ Head(q) = q[1]
      /\ \A i \in 1..Len(r) : r[i] = q[i + 1]
  BY TailAt
<1>2. /\ received => \A j \in 1..n : Rank(q[j]) # 0
      /\ \A i, j \in 1..n : i < j /\ Rank(q[i]) # 0 => Rank(q[j]) # 0
  BY DEF NoDataAfter
<1>3. 1 \in 1..n /\ \A i \in 1..Len(r) : i + 1 \in 1..n /\ 1 < i + 1
  BY <1>1
<1>4. \A i, j \in 1..Len(r) : i < j => i + 1 < j + 1
  OBVIOUS
<1> HIDE DEF r, n
<1>5. received \/ Rank(q[1]) # 0 => \A j \in 1..Len(r) : Rank(r[j]) # 0
  BY <1>1, <1>2, <1>3
<1>6. \A i, j \in 1..Len(r) : i < j /\ Rank(r[i]) # 0 => Rank(r[j]) # 0
  BY <1>1, <1>2, <1>3, <1>4
<1> QED BY <1>1, <1>2, <1>3, <1>5, <1>6 DEF NoDataAfter, r

LEMMA CarriesAppend ==
  ASSUME NEW q \in Seq(Packets), NEW m \in Packets, NEW stream \in Streams,
         NEW from \in Nat, NEW to \in Nat, NEW whole \in BOOLEAN,
         Carries(q, stream, from, to, whole),
         \/ Bytes(m, stream) = 0
         \/ ~whole
         \/ Rank(m) = 0 /\ \A i \in 1..Len(q) : Rank(q[i]) = 0
  PROVE  Carries(Append(q, m), stream, from, to + Bytes(m, stream), whole)
<1> DEFINE r == Append(q, m)
           n == Len(q)
           b == Bytes(m, stream)
<1>1. /\ n \in Nat /\ Len(r) = n + 1 /\ r[n + 1] = m
      /\ \A i \in 1..n : r[i] = q[i]
  BY AppendAt
<1>2. b \in Nat
  BY RankFacts
<1>3. PICK sum \in [1..(n + 1) -> Nat] :
        /\ sum[1] = from /\ sum[n + 1] = to
        /\ \A i \in 1..n : sum[i + 1] = sum[i] + Bytes(q[i], stream)
        /\ whole => \A i \in 1..n : Rank(q[i]) # 0 => sum[i] = to
  BY DEF Carries
<1> HIDE DEF r, b
<1> DEFINE next == [i \in 1..(Len(r) + 1) |-> IF i = n + 2 THEN to + b ELSE sum[i]]
<1>4. /\ next \in [1..(Len(r) + 1) -> Nat] /\ next[n + 2] = to + b
      /\ \A i \in 1..(n + 1) : next[i] = sum[i]
  BY <1>1, <1>2, <1>3
<1>5. /\ 1 \in 1..(n + 1) /\ n + 1 \in 1..(n + 1)
      /\ \A i \in 1..n : i \in 1..(n + 1) /\ i + 1 \in 1..(n + 1)
  BY <1>1
<1>6. \A i \in 1..Len(r) : i \in 1..n \/ i = n + 1
  BY <1>1
<1> HIDE DEF next, n
<1>7. next[1] = from /\ next[Len(r) + 1] = to + b
  BY <1>1, <1>3, <1>4, <1>5
<1>8. \A i \in 1..Len(r) : next[i + 1] = next[i] + Bytes(r[i], stream)
  <2> TAKE i \in 1..Len(r)
  <2>1. CASE i \in 1..n
    BY <1>1, <1>3, <1>4, <1>5, <2>1
  <2>2. CASE i = n + 1
    BY <1>1, <1>3, <1>4, <1>5, <2>2 DEF b
  <2> QED BY <1>6, <2>1, <2>2
<1>9. ASSUME whole, NEW i \in 1..Len(r), Rank(r[i]) # 0 PROVE next[i] = to + b
  <2>1. CASE i = n + 1
    <3>1. r[i] = m /\ next[i] = to
      BY <1>1, <1>3, <1>4, <1>5, <2>1
    <3>2. b = 0
      BY <1>9, <3>1, RankFacts DEF b
    <3> QED BY <3>1, <3>2
  <2>2. CASE i \in 1..n
    <3>1. Rank(q[i]) # 0 /\ sum[i] = to /\ next[i] = sum[i]
      BY <1>1, <1>3, <1>4, <1>5, <1>9, <2>2
    <3>2. b = 0
      BY <1>9, <2>2, <3>1 DEF b, n
    <3> QED BY <3>1, <3>2
  <2> QED BY <1>6, <2>1, <2>2
<1> QED BY <1>4, <1>7, <1>8, <1>9 DEF Carries, r, b

LEMMA CarriesTail ==
  ASSUME NEW q \in Seq(Packets), q # <<>>, NEW stream \in Streams,
         NEW from \in Nat, NEW to \in Nat, NEW whole \in BOOLEAN,
         Carries(q, stream, from, to, whole)
  PROVE  /\ Carries(Tail(q), stream, from + Bytes(Head(q), stream), to, whole)
         /\ whole /\ Rank(Head(q)) # 0 => from = to
<1> DEFINE r == Tail(q)
           n == Len(q)
<1>1. /\ n \in Nat \ {0} /\ Len(r) = n - 1 /\ Head(q) = q[1]
      /\ \A i \in 1..Len(r) : r[i] = q[i + 1]
  BY TailAt
<1>2. PICK sum \in [1..(n + 1) -> Nat] :
        /\ sum[1] = from /\ sum[n + 1] = to
        /\ \A i \in 1..n : sum[i + 1] = sum[i] + Bytes(q[i], stream)
        /\ whole => \A i \in 1..n : Rank(q[i]) # 0 => sum[i] = to
  BY DEF Carries
<1> HIDE DEF r
<1> DEFINE next == [i \in 1..(Len(r) + 1) |-> sum[i + 1]]
<1>3. /\ 1 \in 1..n /\ 1 \in 1..(Len(r) + 1) /\ Len(r) + 1 \in 1..(Len(r) + 1)
      /\ \A i \in 1..Len(r) : /\ i + 1 \in 1..n
                             /\ i \in 1..(Len(r) + 1) /\ i + 1 \in 1..(Len(r) + 1)
      /\ \A i \in 1..(Len(r) + 1) : i + 1 \in 1..(n + 1)
      /\ Len(r) + 1 = n
  BY <1>1
<1>4. /\ next \in [1..(Len(r) + 1) -> Nat]
      /\ \A i \in 1..(Len(r) + 1) : next[i] = sum[i + 1]
  BY <1>2, <1>3
<1>5. sum[1 + 1] = from + Bytes(Head(q), stream)
  BY <1>1, <1>2, <1>3
<1> HIDE DEF next, n
<1>6. next[1] = sum[1 + 1] /\ next[Len(r) + 1] = to
  BY <1>2, <1>3, <1>4
<1>7. \A i \in 1..Len(r) : next[i + 1] = next[i] + Bytes(r[i], stream)
  <2> TAKE i \in 1..Len(r)
  <2>1. next[i + 1] = sum[(i + 1) + 1] /\ next[i] = sum[i + 1] /\ r[i] = q[i + 1]
    BY <1>1, <1>3, <1>4
  <2>2. sum[(i + 1) + 1] = sum[i + 1] + Bytes(q[i + 1], stream)
    BY <1>2, <1>3
  <2> QED BY <2>1, <2>2
<1>8. whole => \A i \in 1..Len(r) : Rank(r[i]) # 0 => next[i] = to
  BY <1>1, <1>2, <1>3, <1>4
<1>9. Carries(r, stream, from + Bytes(Head(q), stream), to, whole)
  BY <1>4, <1>5, <1>6, <1>7, <1>8 DEF Carries
<1>10. whole /\ Rank(Head(q)) # 0 => from = to
  BY <1>1, <1>2, <1>3
<1> QED BY <1>9, <1>10 DEF r

LEMMA CarriesLess ==
  ASSUME NEW q, NEW stream, NEW from, NEW to, NEW whole, NEW less,
         less => whole, Carries(q, stream, from, to, whole)
  PROVE  Carries(q, stream, from, to, less)
  BY DEF Carries

----------------------------------------------------------------------------
(* The packets between the session and the client.                         *)

LEMMA UnderSeq == TypeOK => Under \in Seq(Packets) /\ Len(Under) \in Nat
  BY ConcatProperties DEF TypeOK, Under

LEMMA ConcatAppend ==
  ASSUME NEW s \in Seq(Packets), NEW t \in Seq(Packets), NEW m \in Packets
  PROVE  s \o Append(t, m) = Append(s \o t, m)
<1> DEFINE l == s \o Append(t, m)
           r == Append(s \o t, m)
<1>1. Append(t, m) \in Seq(Packets) /\ s \o t \in Seq(Packets)
  BY ConcatProperties
<1>2. l \in Seq(Packets) /\ r \in Seq(Packets)
  BY <1>1, ConcatProperties
<1>3. /\ Len(s) \in Nat /\ Len(t) \in Nat
      /\ Len(l) = Len(s) + (Len(t) + 1) /\ Len(r) = (Len(s) + Len(t)) + 1
  BY <1>1, ConcatProperties
<1>4. ASSUME NEW i \in 1..Len(l) PROVE l[i] = r[i]
  <2> DEFINE u == Append(t, m)
             v == s \o t
  <2>1. u \in Seq(Packets) /\ v \in Seq(Packets)
    BY <1>1
  <2>2. i \in 1..(Len(s) + Len(u)) /\ Len(v) = Len(s) + Len(t)
    BY <1>3, ConcatProperties
  <2> HIDE DEF u, v
  <2>3. (s \o u)[i] = IF i <= Len(s) THEN s[i] ELSE u[i - Len(s)]
    BY <2>1, <2>2, ConcatProperties
  <2>4. l[i] = IF i <= Len(s) THEN s[i] ELSE Append(t, m)[i - Len(s)]
    BY <2>3 DEF u
  <2>5. Append(v, m)[i] = IF i <= Len(v) THEN v[i] ELSE m
    BY <1>3, <2>1, <2>2
  <2>6. r[i] = IF i <= Len(s) + Len(t) THEN (s \o t)[i] ELSE m
    BY <2>2, <2>5 DEF v
  <2>7. i <= Len(s) + Len(t)
          => (s \o t)[i] = IF i <= Len(s) THEN s[i] ELSE t[i - Len(s)]
    BY <1>3, ConcatProperties
  <2>8. i > Len(s) => i - Len(s) \in 1..(Len(t) + 1)
    BY <1>3
  <2>9. \A j \in 1..(Len(t) + 1) :
          Append(t, m)[j] = IF j <= Len(t) THEN t[j] ELSE m
    OBVIOUS
  <2> HIDE DEF l, r
  <2> QED BY <1>3, <2>4, <2>6, <2>7, <2>8, <2>9
<1> HIDE DEF l, r
<1>5. l = r
  BY <1>2, <1>3, <1>4, SeqEqual
<1> QED BY <1>5 DEF l, r

LEMMA UnderAppend ==
  ASSUME TypeOK, NEW m \in Packets, sendbuf' = Append(sendbuf, m), UNCHANGED tonet
  PROVE  Under' = Append(Under, m)
  BY ConcatAppend DEF TypeOK, Under

(* packet_send does not change them. *)
LEMMA UnderSend == ASSUME Control, Send PROVE Under' = Under
<1>1. CASE UNCHANGED <<sendbuf, tonet>>
  BY <1>1 DEF Under
<1>2. CASE ~UNCHANGED <<sendbuf, tonet>>
  <2>1. PICK k \in 1..Len(sendbuf) :
               /\ tonet' = tonet \o SubSeq(sendbuf, 1, k)
               /\ sendbuf' = SubSeq(sendbuf, k + 1, Len(sendbuf))
    BY <1>2 DEF Send, Die
  <2> DEFINE s == sendbuf
             a == SubSeq(s, 1, k)
             b == SubSeq(s, k + 1, Len(s))
  <2>2. /\ s \in Seq(Packets) /\ tonet \in Seq(Packets) /\ Len(s) \in Nat
        /\ k \in Nat /\ k \in 1..Len(s)
    BY DEF Control, TypeOK
  <2>3. a \in Seq(Packets) /\ b \in Seq(Packets)
    <3> HIDE DEF s
    <3>1. /\ \A i \in 1..k : s[i] \in Packets
          /\ \A i \in (k + 1)..Len(s) : s[i] \in Packets
          /\ k \in Int /\ k + 1 \in Int /\ Len(s) \in Int
      BY <2>2
    <3>2. a \in Seq(Packets) BY <3>1, SubSeqProperties
    <3>3. b \in Seq(Packets) BY <3>1, SubSeqProperties
    <3> QED BY <3>2, <3>3
  <2>4. a \o b = s
    <3>1. 1 \in 1..(Len(s) + 1) /\ k \in 0..Len(s) /\ Len(s) \in k..Len(s)
      BY <2>2
    <3>2. a \o b = SubSeq(s, 1, Len(s))
      BY <2>2, <3>1, ConcatAdjacentSubSeq
    <3> QED BY <2>2, <3>2, SubSeqFull
  <2> HIDE DEF a, b
  <2> HIDE DEF s
  <2>5. (tonet \o a) \o b = tonet \o (a \o b)
    <3>1. tonet \in Seq(Packets) /\ a \in Seq(Packets) /\ b \in Seq(Packets)
      BY <2>2, <2>3
    <3> QED BY ONLY <3>1, ConcatAssociative
  <2> QED BY <2>1, <2>4, <2>5 DEF Under, a, b, s
<1> QED BY <1>1, <1>2

LEMMA UnderTail ==
  ASSUME TypeOK, tonet # <<>>, tonet' = Tail(tonet), UNCHANGED sendbuf
  PROVE  Under # <<>> /\ Head(Under) = Head(tonet) /\ Under' = Tail(Under)
<1> DEFINE s == tonet
           t == sendbuf
           l == Tail(s) \o t
           r == Tail(s \o t)
<1>1. /\ s \in Seq(Packets) /\ t \in Seq(Packets) /\ Tail(s) \in Seq(Packets)
      /\ Len(s) \in Nat \ {0} /\ Len(t) \in Nat /\ Len(Tail(s)) = Len(s) - 1
      /\ Head(s) = s[1]
      /\ \A i \in 1..(Len(s) - 1) : Tail(s)[i] = s[i + 1]
  BY DEF TypeOK
<1>2. /\ s \o t \in Seq(Packets) /\ Len(s \o t) = Len(s) + Len(t)
      /\ \A i \in 1..(Len(s) + Len(t)) :
           (s \o t)[i] = IF i <= Len(s) THEN s[i] ELSE t[i - Len(s)]
  BY <1>1, ConcatProperties
<1>3. /\ l \in Seq(Packets) /\ Len(l) = (Len(s) - 1) + Len(t)
      /\ \A i \in 1..((Len(s) - 1) + Len(t)) :
           l[i] = IF i <= Len(s) - 1 THEN Tail(s)[i] ELSE t[i - (Len(s) - 1)]
  BY <1>1, ConcatProperties
<1>4. s \o t # <<>> /\ 1 \in 1..(Len(s) + Len(t))
  BY <1>1, <1>2
<1>5. /\ r \in Seq(Packets) /\ Len(r) = (Len(s) + Len(t)) - 1
      /\ Head(s \o t) = (s \o t)[1]
      /\ \A i \in 1..Len(r) : r[i] = (s \o t)[i + 1]
  BY <1>2, <1>4, TailAt
<1> HIDE DEF l, r
<1>6. ASSUME NEW i \in 1..Len(l) PROVE l[i] = r[i]
  <2>1. /\ i \in 1..Len(r) /\ i + 1 \in 1..(Len(s) + Len(t))
        /\ i \in 1..((Len(s) - 1) + Len(t))
    BY <1>1, <1>3, <1>5
  <2>2. r[i] = IF i + 1 <= Len(s) THEN s[i + 1] ELSE t[(i + 1) - Len(s)]
    BY <1>2, <1>5, <2>1
  <2>3. l[i] = IF i <= Len(s) - 1 THEN Tail(s)[i] ELSE t[i - (Len(s) - 1)]
    BY <1>3, <2>1
  <2>4. (i + 1 <= Len(s)) <=> (i <= Len(s) - 1)
    BY <1>1
  <2>5. (i + 1) - Len(s) = i - (Len(s) - 1)
    BY <1>1
  <2>6. i <= Len(s) - 1 => Tail(s)[i] = s[i + 1]
    BY <1>1
  <2> QED BY <2>2, <2>3, <2>4, <2>5, <2>6
<1>7. l = r
  <2>1. Len(l) = Len(r)
    BY <1>1, <1>3, <1>5
  <2> QED BY <1>3, <1>5, <1>6, <2>1, SeqEqual
<1>8. Head(s \o t) = Head(s)
  BY <1>1, <1>2, <1>4, <1>5
<1> QED BY <1>4, <1>7, <1>8 DEF Under, l, r

----------------------------------------------------------------------------
(* EOF, exit status and CLOSE.                                             *)

EofPacket    == [kind |-> "eof", n |-> 0]
StatusPacket == [kind |-> "status", n |-> 0]
ClosePacket  == [kind |-> "close", n |-> 0]

LEMMA EndPacketFacts ==
  /\ EofPacket \in Packets /\ StatusPacket \in Packets /\ ClosePacket \in Packets
  /\ Rank(EofPacket) = 1 /\ Rank(StatusPacket) = 2 /\ Rank(ClosePacket) = 3
  BY DEF EofPacket, StatusPacket, ClosePacket, Packets, EndPackets, Rank

LEMMA AppendTwo ==
  ASSUME NEW q \in Seq(Packets), NEW m \in Packets, NEW n \in Packets
  PROVE  q \o <<m, n>> = Append(Append(q, m), n)
<1>1. Append(<<>>, m) = <<m>>
  OBVIOUS
<1>2. Append(<<m>>, n) = <<m, n>>
  <2>1. <<m>> \in Seq(Packets) /\ <<m, n>> \in Seq(Packets)
    OBVIOUS
  <2>2. Append(<<m>>, n) \in Seq(Packets) /\ Len(Append(<<m>>, n)) = 2
    BY <2>1
  <2>3. \A i \in 1..2 : Append(<<m>>, n)[i] = <<m, n>>[i]
    BY <2>1
  <2> QED BY <2>1, <2>2, <2>3, SeqEqual
<1>3. q \o Append(<<m>>, n) = Append(q \o <<m>>, n)
  <2>1. <<m>> \in Seq(Packets)
    OBVIOUS
  <2> QED BY <2>1, ConcatAppend
<1>4. q \o Append(<<>>, m) = Append(q \o <<>>, m)
  <2>1. <<>> \in Seq(Packets)
    OBVIOUS
  <2> QED BY <2>1, ConcatAppend
<1>5. q \o <<>> = q
  BY ConcatEmptySeq
<1> QED BY <1>1, <1>2, <1>3, <1>4, <1>5

LEMMA AppendOne ==
  ASSUME NEW q \in Seq(Packets), NEW m \in Packets
  PROVE  q \o <<m>> = Append(q, m)
<1>1. Append(<<>>, m) = <<m>> /\ <<>> \in Seq(Packets)
  OBVIOUS
<1>2. q \o Append(<<>>, m) = Append(q \o <<>>, m)
  BY <1>1, ConcatAppend
<1> QED BY <1>1, <1>2, ConcatEmptySeq

\* With EOF of the server, if it has not been sent.
WithEof == IF eofsent THEN Under ELSE Append(Under, EofPacket)

(* What packet_channel_recv_close adds. *)
LEMMA UnderClose ==
  ASSUME Control, sendbuf' = sendbuf \o Eof, UNCHANGED tonet
  PROVE  Under' = WithEof
<1>1. tonet \in Seq(Packets) /\ sendbuf \in Seq(Packets)
  BY DEF Control, TypeOK
<1>2. CASE eofsent
  BY <1>1, <1>2, EndPacketsTyped, ConcatEmptySeq DEF WithEof, Under
<1>3. CASE ~eofsent
  <2>1. sendbuf' = Append(sendbuf, EofPacket)
    BY <1>1, <1>3, EndPacketsTyped, EndPacketFacts, AppendOne DEF EofPacket
  <2> QED BY <1>3, <2>1, UnderAppend, EndPacketFacts DEF WithEof, Control
<1> QED BY <1>2, <1>3

(* What the end of the child adds. *)
LEMMA UnderWait ==
  ASSUME Control, Wait, pid = "child", child = "zombie"
  PROVE  /\ Under' = Append(Append(WithEof, StatusPacket), ClosePacket)
         /\ WithEof \in Seq(Packets)
<1>1. /\ tonet' = (tonet \o sendbuf) \o LastPackets /\ sendbuf' = <<>>
      /\ ~closesent
  BY DEF Wait, Control, Known
<1>2. /\ tonet \in Seq(Packets) /\ sendbuf \in Seq(Packets)
      /\ Under \in Seq(Packets)
  BY UnderSeq DEF Control, TypeOK
<1>3. Under' = Under \o LastPackets
  <2>1. Under \o LastPackets \in Seq(Packets)
    BY <1>2, EndPacketsTyped, ConcatProperties
  <2>2. Under' = (Under \o LastPackets) \o <<>>
    BY <1>1 DEF Under
  <2> QED BY <2>1, <2>2, ConcatEmptySeq
<1>4. LastPackets = Eof \o <<StatusPacket, ClosePacket>>
  BY <1>1 DEF LastPackets, StatusPacket, ClosePacket
<1>5. /\ Eof \in Seq(Packets) /\ <<StatusPacket, ClosePacket>> \in Seq(Packets)
  BY EndPacketsTyped, EndPacketFacts
<1>6. Under \o LastPackets = (Under \o Eof) \o <<StatusPacket, ClosePacket>>
  BY <1>2, <1>4, <1>5, ConcatAssociative
<1>7. Under \o Eof = WithEof
  <2>1. CASE eofsent
    BY <1>2, <2>1, EndPacketsTyped, ConcatEmptySeq DEF WithEof
  <2>2. CASE ~eofsent
    <3>1. Eof = <<EofPacket>>
      BY <2>2, EndPacketsTyped DEF EofPacket
    <3> QED BY <1>2, <2>2, <3>1, AppendOne, EndPacketFacts DEF WithEof
  <2> QED BY <2>1, <2>2
<1>8. WithEof \in Seq(Packets)
  BY <1>2, EndPacketFacts DEF WithEof
<1> QED BY <1>3, <1>6, <1>7, <1>8, AppendTwo, EndPacketFacts

(* None of the three is data. *)
LEMMA NoDataEnd ==
  ASSUME NEW q \in Seq(Packets), NEW received,
         NEW m \in {EofPacket, StatusPacket, ClosePacket}
  PROVE  NoDataAfter(q, received) => NoDataAfter(Append(q, m), received)
<1>1. m \in Packets /\ Rank(m) # 0
  BY EndPacketFacts
<1>2. CASE received
  <2>1. NoDataAfter(q, TRUE) => NoDataAfter(Append(q, m), TRUE)
    BY <1>1, NoDataAppend
  <2> QED BY <1>2, <2>1 DEF NoDataAfter
<1>3. CASE ~received
  <2>1. NoDataAfter(q, FALSE) => NoDataAfter(Append(q, m), FALSE)
    BY <1>1, NoDataAppend
  <2> QED BY <1>3, <2>1 DEF NoDataAfter
<1> QED BY <1>2, <1>3

LEMMA FinalesAppend ==
  /\ Append(<<>>, "eof") = <<"eof">>
  /\ Append(<<"eof">>, "status") = <<"eof", "status">>
  /\ Append(<<"eof", "status">>, "close") = <<"eof", "status", "close">>
<1> DEFINE S == {"eof", "status", "close"}
           l == Append(<<"eof">>, "status")
           m == Append(<<"eof", "status">>, "close")
<1>1. /\ <<"eof">> \in Seq(S) /\ <<"eof", "status">> \in Seq(S)
      /\ <<"eof", "status", "close">> \in Seq(S)
      /\ "status" \in S /\ "close" \in S
  OBVIOUS
<1>2. l = <<"eof", "status">>
  <2>1. l \in Seq(S) /\ Len(l) = 2
    BY <1>1
  <2>2. \A i \in 1..2 : l[i] = <<"eof", "status">>[i]
    BY <1>1
  <2> QED BY <1>1, <2>1, <2>2, SeqEqual
<1>3. m = <<"eof", "status", "close">>
  <2>1. m \in Seq(S) /\ Len(m) = 3
    BY <1>1
  <2>2. \A i \in 1..3 : m[i] = <<"eof", "status", "close">>[i]
    BY <1>1
  <2> QED BY <1>1, <2>1, <2>2, SeqEqual
<1> QED BY <1>2, <1>3

LEMMA FinaleFacts ==
  ASSUME finale \in Finales
  PROVE  Len(finale) \in 0..3 /\ (finale # <<>> <=> Len(finale) > 0)
  BY DEF Finales

(* Before the child has been waited for nothing is reported to a client    *)
(* that has not closed.                                                    *)
LEMMA NothingReported ==
  ASSUME Control, EndsOrdered, ~cclose, pid # "died"
  PROVE  /\ ~eofsent /\ finale = <<>> /\ Reported = 0
         /\ \A i \in 1..Len(Under) : Rank(Under[i]) = 0
<1>1. ~eofsent /\ ~closesent /\ Reported = 0
  BY DEF Control, Known, Crossing, EndsOrdered, Reported
<1>2. finale = <<>> /\ Len(finale) = 0
  BY <1>1, FinaleFacts DEF EndsOrdered
<1> QED BY <1>1, <1>2 DEF EndsOrdered, Ordered

LEMMA EndsQuiet ==
  ASSUME EndsOrdered, Under' = Under, UNCHANGED <<finale, late, eofsent, closesent>>,
         closegot => closegot', cclose => cclose'
  PROVE  EndsOrdered'
  BY DEF EndsOrdered, Reported, Ordered, NoDataAfter, Rank

LEMMA EndsRead ==
  ASSUME Control, EndsOrdered, pid # "died",
         NEW stream \in Streams, NEW n \in Nat,
         sendbuf' = Append(sendbuf, Data(stream, n)),
         UNCHANGED <<tonet, finale, late, eofsent, closesent, closegot, cclose>>
  PROVE  EndsOrdered'
<1> DEFINE m == Data(stream, n)
<1>1. m \in Packets /\ Rank(m) = 0
  BY DEF Data, Packets, Rank, Streams
<1>2. Under' = Append(Under, m) /\ Under \in Seq(Packets)
  BY <1>1, UnderAppend, UnderSeq DEF Control
<1> HIDE DEF m
<1>3. Len(finale) \in Nat /\ Reported \in Nat /\ Reported' = Reported
  BY FinaleFacts DEF EndsOrdered, Reported
<1>4. Ordered(Under', Len(finale), Reported)
  BY <1>1, <1>2, <1>3, OrderedAppend DEF EndsOrdered
<1>5. ~cclose => NoDataAfter(Under', finale # <<>>)
  BY <1>1, <1>2, NoDataAppend, NothingReported DEF EndsOrdered
<1> QED BY <1>3, <1>4, <1>5 DEF EndsOrdered

LEMMA EndsWithEof ==
  ASSUME Control, EndsOrdered
  PROVE  /\ WithEof \in Seq(Packets)
         /\ Ordered(WithEof, Len(finale), IF closesent THEN 3 ELSE 1)
         /\ Len(finale) \in Nat /\ Len(finale) <= (IF closesent THEN 3 ELSE 1)
         /\ ~cclose => NoDataAfter(WithEof, finale # <<>>)
<1>1. Under \in Seq(Packets) /\ Len(finale) \in Nat /\ Len(finale) <= Reported
  BY UnderSeq, FinaleFacts DEF Control, EndsOrdered
<1>2. CASE eofsent
  BY <1>1, <1>2 DEF WithEof, EndsOrdered, Reported
<1>3. CASE ~eofsent
  <2>1. ~closesent /\ Reported = 0 /\ WithEof = Append(Under, EofPacket)
    BY <1>3 DEF WithEof, EndsOrdered, Reported
  <2>2. Ordered(WithEof, Len(finale), 1)
    BY <1>1, <2>1, EndPacketFacts, OrderedAppend DEF EndsOrdered
  <2>3. ~cclose => NoDataAfter(WithEof, finale # <<>>)
    BY <1>1, <2>1, NoDataEnd, EndPacketFacts DEF EndsOrdered
  <2> QED BY <1>1, <2>1, <2>2, <2>3, EndPacketFacts
<1> QED BY <1>2, <1>3

LEMMA EndsClose ==
  ASSUME Control, EndsOrdered, sendbuf' = sendbuf \o Eof, eofsent' = TRUE,
         closegot' = TRUE, UNCHANGED <<tonet, finale, late, closesent, cclose>>
  PROVE  EndsOrdered'
<1>1. Under' = WithEof
  BY UnderClose
<1>2. Reported' = IF closesent THEN 3 ELSE 1
  BY DEF Reported
<1> QED BY <1>1, <1>2, EndsWithEof DEF EndsOrdered

LEMMA EndsWait == ASSUME Control, EndsOrdered, Wait PROVE EndsOrdered'
<1> USE DEF client, asked, heard, flags
<1>1. CASE pid = "child" /\ child = "zombie"
  <2>1. /\ eofsent' = TRUE /\ closesent' = TRUE /\ ~closesent
        /\ UNCHANGED <<finale, late, closegot, cclose>>
    BY <1>1 DEF Wait, Control, Known
  <2> DEFINE q == Append(WithEof, StatusPacket)
             r == Append(q, ClosePacket)
  <2>2. Under' = r /\ WithEof \in Seq(Packets)
    BY <1>1, UnderWait
  <2>3. q \in Seq(Packets)
    BY <2>2, EndPacketFacts
  <2>4. /\ Ordered(WithEof, Len(finale), 1)
        /\ Len(finale) \in Nat /\ Len(finale) <= 1
        /\ ~cclose => NoDataAfter(WithEof, finale # <<>>)
    BY <2>1, EndsWithEof
  <2>5. Ordered(q, Len(finale), 2)
    BY <2>2, <2>4, EndPacketFacts, OrderedAppend
  <2>6. ~cclose => NoDataAfter(q, finale # <<>>)
    BY <2>2, <2>4, NoDataEnd, EndPacketFacts
  <2> HIDE DEF q
  <2>7. Ordered(r, Len(finale), 3)
    BY <2>3, <2>4, <2>5, EndPacketFacts, OrderedAppend
  <2>8. ~cclose => NoDataAfter(r, finale # <<>>)
    BY <2>3, <2>6, NoDataEnd, EndPacketFacts
  <2>9. Reported' = 3
    BY <2>1 DEF Reported
  <2> HIDE DEF r
  <2> QED BY <2>1, <2>2, <2>4, <2>7, <2>8, <2>9 DEF EndsOrdered
<1>2. CASE ~(pid = "child" /\ child = "zombie")
  <2>1. UNCHANGED <<tonet, sendbuf, eofsent, closesent, finale, late, closegot, cclose>>
    BY <1>2 DEF Wait
  <2> QED BY <2>1, EndsQuiet DEF Under
<1> QED BY <1>1, <1>2

LEMMA EndsReceive == ASSUME Control, EndsOrdered, CReceive PROVE EndsOrdered'
<1> DEFINE p == Head(Under)
           f == Len(finale)
           b == Reported
<1>1. /\ tonet # <<>> /\ tonet' = Tail(tonet)
      /\ UNCHANGED <<sendbuf, eofsent, closesent, closegot, cclose>>
      /\ IF Head(tonet).kind \in EndPackets
         THEN finale' = Append(finale, Head(tonet).kind) /\ UNCHANGED late
         ELSE /\ late' = (late \/ (finale # <<>> /\ ~cclose))
              /\ UNCHANGED finale
  BY DEF CReceive, asked, flags
<1>2. /\ Under # <<>> /\ p = Head(tonet) /\ Under' = Tail(Under)
      /\ Under \in Seq(Packets) /\ p \in Packets
  BY <1>1, UnderTail, UnderSeq, TailAt DEF Control
<1>3. /\ finale \in Finales /\ f \in 0..3 /\ (finale # <<>> <=> f > 0) /\ f <= b
      /\ Ordered(Under, f, b) /\ b \in {0, 1, 3} /\ Reported' = b
  BY <1>1, FinaleFacts DEF EndsOrdered, Reported
<1>4. /\ Rank(p) = 0 => Ordered(Under', f, b)
      /\ Rank(p) # 0 => Rank(p) = f + 1 /\ f + 1 <= b /\ Ordered(Under', f + 1, b)
  BY <1>2, <1>3, OrderedTail
<1>5. ~cclose => /\ NoDataAfter(Under', finale # <<>> \/ Rank(p) # 0)
                 /\ finale # <<>> => Rank(p) # 0
  BY <1>2, NoDataTail DEF EndsOrdered
<1>6. Rank(p) # 0 <=> p.kind \in EndPackets
  BY <1>2, RankFacts
<1> HIDE DEF b, p
<1>7. CASE Rank(p) # 0
  <2>1. finale' = Append(finale, p.kind) /\ UNCHANGED late
    BY <1>1, <1>2, <1>6, <1>7
  <2>2. finale' \in Finales /\ Len(finale') = f + 1
    <3>1. CASE f = 0
      <4>1. finale = <<>> /\ p.kind = "eof"
        BY <1>3, <1>4, <1>7, <3>1 DEF Finales, Rank
      <4> QED BY <2>1, <4>1, FinalesAppend DEF Finales
    <3>2. CASE f = 1
      <4>1. finale = <<"eof">> /\ p.kind = "status"
        BY <1>3, <1>4, <1>7, <3>2 DEF Finales, Rank
      <4> QED BY <2>1, <4>1, FinalesAppend DEF Finales
    <3>3. CASE f = 2
      <4>1. finale = <<"eof", "status">> /\ p.kind = "close"
        BY <1>3, <1>4, <1>7, <3>3 DEF Finales, Rank
      <4> QED BY <2>1, <4>1, FinalesAppend DEF Finales
    <3>4. f # 3
      <4>1. Rank(p) = f + 1 /\ f + 1 <= b /\ b \in {0, 1, 3} /\ f \in 0..3
        BY <1>3, <1>4, <1>7
      <4> HIDE DEF f
      <4> QED BY <4>1
    <3> QED BY <1>3, <3>1, <3>2, <3>3, <3>4
  <2>3. finale' # <<>>
    BY <2>2 DEF Finales
  <2>4. ~cclose => NoDataAfter(Under', finale' # <<>>)
    <3>1. (finale # <<>> \/ Rank(p) # 0) = (finale' # <<>>)
      BY <1>7, <2>3
    <3> QED BY <1>5, <3>1
  <2> QED BY <1>1, <1>3, <1>4, <1>7, <2>1, <2>2, <2>4 DEF EndsOrdered
<1>8. CASE Rank(p) = 0
  <2>1. /\ late' = (late \/ (finale # <<>> /\ ~cclose)) /\ UNCHANGED finale
    BY <1>1, <1>2, <1>6, <1>8
  <2>2. ~late' /\ (~cclose => finale = <<>>)
    BY <1>5, <1>8, <2>1 DEF EndsOrdered
  <2>3. ~cclose => NoDataAfter(Under', finale' # <<>>)
    <3>1. (finale # <<>> \/ Rank(p) # 0) = (finale' # <<>>)
      BY <1>8, <2>1
    <3> QED BY <1>5, <3>1
  <2> QED BY <1>1, <1>3, <1>4, <1>8, <2>1, <2>2, <2>3 DEF EndsOrdered
<1> QED BY <1>7, <1>8

LEMMA EndsNext == ASSUME Control, EndsOrdered, [Next]_vars PROVE EndsOrdered'
<1> USE DEF loop, signals, setup, input, output, flags, process, pipes,
            client, asked, heard
<1>1. ASSUME UNCHANGED <<tonet, sendbuf, finale, late, eofsent, closesent>>,
             closegot => closegot', cclose => cclose'
      PROVE  EndsOrdered'
  BY <1>1, EndsQuiet DEF Under
<1>2. CASE Poll \/ PollTimeout
  BY <1>1, <1>2 DEF Poll, PollTimeout, Return
<1>3. CASE Write \/ Signal \/ Recv \/ ProcessEnd \/ Timeout
  BY <1>1, <1>3 DEF Write, Signal, Recv, ProcessEnd, Timeout
<1>4. CASE ReadOut
  <2>1. /\ pid # "died" /\ outpipe \in Nat
        /\ UNCHANGED <<tonet, finale, late, eofsent, closesent, closegot, cclose>>
    BY <1>4 DEF ReadOut, Control, Due, Known, TypeOK
  <2>2. CASE UNCHANGED sendbuf
    BY <1>1, <2>1, <2>2
  <2>3. CASE \E r \in 1..outpipe : sendbuf' = Append(sendbuf, Data("out", r))
    BY <2>1, <2>3, EndsRead DEF Streams
  <2> QED BY <1>4, <2>2, <2>3 DEF ReadOut, Read
<1>5. CASE ReadErr
  <2>1. /\ pid # "died" /\ errpipe \in Nat
        /\ UNCHANGED <<tonet, finale, late, eofsent, closesent, closegot, cclose>>
    BY <1>5 DEF ReadErr, Control, Due, Known, TypeOK
  <2>2. CASE UNCHANGED sendbuf
    BY <1>1, <2>1, <2>2
  <2>3. CASE \E r \in 1..errpipe : sendbuf' = Append(sendbuf, Data("err", r))
    BY <2>1, <2>3, EndsRead DEF Streams
  <2> QED BY <1>5, <2>2, <2>3 DEF ReadErr, Read
<1>6. CASE Wait
  BY <1>6, EndsWait
<1>7. CASE Send
  <2>1. Under' = Under
    BY <1>7, UnderSend
  <2> QED BY <1>7, <2>1, EndsQuiet DEF Send
<1>8. CASE \/ ChannelOpen \/ ChannelOpenTerminal \/ ChannelExec \/ ChannelPut
           \/ ChannelPutEof \/ IncrementRemoteWindow
  BY <1>1, <1>8 DEF ChannelOpen, ChannelOpenTerminal, ChannelExec, ChannelPut,
     ChannelPutEof, IncrementRemoteWindow, Process
<1>9. CASE ChannelClose
  BY <1>9, EndsClose DEF ChannelClose, Process
<1>10. CASE ChildPrints \/ ChildReads \/ ChildCloses
  BY <1>1, <1>10 DEF ChildPrints, ChildReads, ChildCloses, world
<1>11. CASE ChildExits
  BY <1>1, <1>11 DEF ChildExits, Return, world
<1>12. CASE CRequest \/ CData \/ CEof \/ CClose \/ CAdjust \/ CLeave
  BY <1>1, <1>12 DEF CRequest, Request, CData, CEof, CClose, CAdjust, CLeave, Say
<1>13. CASE CReceive
  BY <1>13, EndsReceive
<1>14. CASE UNCHANGED vars
  BY <1>1, <1>14 DEF vars
<1> QED BY <1>2, <1>3, <1>4, <1>5, <1>6, <1>7, <1>8, <1>9, <1>10, <1>11, <1>12,
           <1>13, <1>14 DEF Next, Server, Client

LEMMA EndsInit == Init => EndsOrdered
<1> SUFFICES ASSUME Init PROVE EndsOrdered
  OBVIOUS
<1>1. Under = <<>> /\ Len(Under) = 0
  BY DEF Init, Under
<1>2. finale = <<>> /\ Len(finale) = 0 /\ Reported = 0
  BY DEF Init, Reported
<1> QED BY <1>1, <1>2 DEF Init, EndsOrdered, Finales, Ordered, NoDataAfter

\* EOF, exit status and CLOSE leave in this order, once each, whoever sends
\* the first EOF or CLOSE, and no data after EOF to a client that has not
\* closed (packet_channel_send_eof, packet_channel_send_close).
THEOREM EndsKeepOrder == Spec => []EndsInOrder
<1>1. Init => Control /\ EndsOrdered
  BY ControlInit, EndsInit
<1>2. Control /\ EndsOrdered /\ [Next]_vars => Control' /\ EndsOrdered'
  BY ControlNext, EndsNext
<1>3. EndsOrdered => EndsInOrder
  <2> SUFFICES ASSUME EndsOrdered PROVE IsPrefix(finale, <<"eof", "status", "close">>)
    BY DEF EndsOrdered, EndsInOrder
  <2> DEFINE all == <<"eof", "status", "close">>
             S   == {"eof", "status", "close"}
  <2>1. finale \in Finales
    BY DEF EndsOrdered
  <2>2. finale \in Seq(S) /\ all \in Seq(S) /\ Len(all) = 3
    <3>1. /\ <<>> \in Seq(S) /\ <<"eof">> \in Seq(S) /\ <<"eof", "status">> \in Seq(S)
          /\ all \in Seq(S) /\ Len(all) = 3
      OBVIOUS
    <3> HIDE DEF S
    <3> QED BY <2>1, <3>1 DEF Finales
  <2>3. Len(finale) \in 0..3 /\ \A i \in 1..Len(finale) : finale[i] = all[i]
    <3> DEFINE n == Len(finale)
    <3>1. all[1] = "eof" /\ all[2] = "status" /\ all[3] = "close"
      OBVIOUS
    <3>2. \/ n = 0
          \/ n = 1 /\ finale[1] = "eof"
          \/ n = 2 /\ finale[1] = "eof" /\ finale[2] = "status"
          \/ n = 3 /\ finale[1] = "eof" /\ finale[2] = "status" /\ finale[3] = "close"
      BY <2>1 DEF Finales
    <3> HIDE DEF all, n
    <3>3. n \in 0..3
      BY <3>2
    <3>4. ASSUME NEW i \in 1..n PROVE finale[i] = all[i]
      <4>1. i = 1 \/ (i = 2 /\ n >= 2) \/ (i = 3 /\ n = 3)
        BY <3>3
      <4> QED BY <3>1, <3>2, <4>1
    <3> QED BY <3>3, <3>4 DEF n
  <2> HIDE DEF all
  <2>4. SubSeq(finale, 1, Len(finale)) = SubSeq(all, 1, Len(finale))
    BY <2>2, <2>3
  <2> QED BY <2>2, <2>3, <2>4 DEF IsPrefix, all
<1> QED BY <1>1, <1>2, <1>3, PTL DEF Spec

----------------------------------------------------------------------------
(* The outputs of the child are read to their end.                         *)

LEMMA DrainQuiet ==
  ASSUME Drain, UNCHANGED <<pid, fd1, fd2, outpipe, errpipe>>,
         ends' \subseteq ends, tty /\ ceof => tty' /\ ceof',
         pc' \in {"write", "out"} /\ "out" \in watch'
           => pc \in {"write", "out"} /\ "out" \in watch,
         pc' \in {"write", "out", "err"} /\ "err" \in watch'
           => pc \in {"write", "out", "err"} /\ "err" \in watch,
         pid # "none" /\ ~fd0' /\ ~Over' => remoteeof'
  PROVE  Drain'
<1>1. /\ pid # "none" /\ ~fd1 => Drained("out", outpipe)
      /\ pid # "none" /\ ~fd2 => Drained("err", errpipe)
      /\ pc \in {"write", "out"} /\ "out" \in watch => Ending("out", outpipe)
      /\ pc \in {"write", "out", "err"} /\ "err" \in watch => Ending("err", errpipe)
  BY DEF Drain
<1>2. ASSUME NEW s PROVE /\ s \notin ends => s \notin ends'
  OBVIOUS
<1>3. /\ Drained("out", outpipe) => Drained("out", outpipe)'
      /\ Drained("err", errpipe) => Drained("err", errpipe)'
      /\ Ending("out", outpipe) => Ending("out", outpipe)'
      /\ Ending("err", errpipe) => Ending("err", errpipe)'
  BY <1>2 DEF Drained, Ending
<1> QED BY <1>1, <1>3 DEF Drain

(* What poll() reports of an output is data or the end.                    *)
LEMMA ReadyEnding ==
  ASSUME Control, Drain, pc = "poll"
  PROVE  /\ "out" \in Ready => Ending("out", outpipe)
         /\ "err" \in Ready => Ending("err", errpipe)
<1>1. pid # "none" /\ ~Master => tty /\ ceof
  BY DEF Master, Drain, Control, Crossing, Over
<1>2. "out" \in Ready => pid # "none" /\ (outpipe > 0 \/ Ended("out"))
  BY DEF Ready, ReadIsReady
<1>3. "err" \in Ready => pid # "none" /\ (errpipe > 0 \/ Ended("err"))
  BY DEF Ready, ReadIsReady
<1> QED BY <1>1, <1>2, <1>3 DEF Ended, Ending

LEMMA DrainReturn ==
  ASSUME Control, Drain, Return({}) \/ Return(Ready), UNCHANGED <<ends, outpipe, errpipe>>
  PROVE  Drain'
<1>1. /\ watch' \in {{}, Ready} /\ pc = "poll"
      /\ UNCHANGED <<pid, fd0, fd1, fd2, remoteeof, tty, ceof>>
  BY DEF Return, setup, input, output, client, asked
<1>2. /\ "out" \in watch' => Ending("out", outpipe)
      /\ "err" \in watch' => Ending("err", errpipe)
  BY <1>1, ReadyEnding
<1>3. /\ Ending("out", outpipe)' <=> Ending("out", outpipe)
      /\ Ending("err", errpipe)' <=> Ending("err", errpipe)
      /\ Drained("out", outpipe)' <=> Drained("out", outpipe)
      /\ Drained("err", errpipe)' <=> Drained("err", errpipe)
  BY <1>1 DEF Ending, Drained
<1>4. pid # "none" /\ ~fd0 => remoteeof
  BY <1>1 DEF Drain, Over
<1> QED BY <1>1, <1>2, <1>3, <1>4 DEF Drain

LEMMA DrainRead ==
  ASSUME Control, Drain, ReadOut \/ ReadErr PROVE Drain'
<1> USE DEF setup, input, process, client, asked
<1>1. pid # "none" /\ ~Master => tty /\ ceof
  BY DEF Master, Drain, Control, Crossing, Over, ReadOut, ReadErr
<1>2. CASE ReadOut
  <2>1. /\ pc = "out" /\ fd1 /\ Ending("out", outpipe)
        /\ UNCHANGED <<pid, fd0, fd2, remoteeof, tty, ceof, ends, errpipe>>
        /\ UNCHANGED watch /\ pc' \notin {"write", "out"}
        /\ pid # "none" /\ outpipe \in Nat
    BY <1>2, ThenFacts DEF ReadOut, Control, Due, Drain, Names, Known, TypeOK
  <2>2. ~fd1' => Drained("out", outpipe)'
    <3>1. CASE fd1' = fd1
      BY <2>1, <3>1
    <3>2. CASE fd1' = FALSE /\ outpipe' = outpipe /\ (outpipe = 0 \/ ~Master)
      BY <1>1, <2>1, <3>2 DEF Ending, Drained
    <3>3. CASE window = 0
      BY <1>2, <3>1, <3>3 DEF ReadOut, Read
    <3>4. CASE window # 0 /\ outpipe > 0 /\ Master
      BY <1>2, <3>1, <3>4 DEF ReadOut, Read
    <3>5. CASE window # 0 /\ ~(outpipe > 0 /\ Master)
      <4>1. fd1' = FALSE /\ outpipe' = outpipe
        BY <1>2, <3>5 DEF ReadOut, Read
      <4>2. outpipe = 0 \/ ~Master
        BY <2>1, <3>5
      <4> QED BY <3>2, <4>1, <4>2
    <3> QED BY <3>3, <3>4, <3>5
  <2>3. /\ Ending("err", errpipe) => Ending("err", errpipe)'
        /\ Drained("err", errpipe) => Drained("err", errpipe)'
    BY <2>1 DEF Ending, Drained
  <2>4. Over' => pc' \in {"finished", "dead"}
    BY DEF Over
  <2> QED BY <2>1, <2>2, <2>3 DEF Drain, Over
<1>3. CASE ReadErr
  <2>1. /\ pc = "err" /\ fd2 /\ Ending("err", errpipe)
        /\ UNCHANGED <<pid, fd0, fd1, remoteeof, tty, ceof, ends, outpipe>>
        /\ UNCHANGED watch /\ pc' \notin {"write", "out", "err"}
        /\ pid # "none" /\ errpipe \in Nat
    BY <1>3, ThenFacts DEF ReadErr, Control, Due, Drain, Names, Known, TypeOK
  <2>2. ~fd2' => Drained("err", errpipe)'
    <3>1. CASE fd2' = fd2
      BY <2>1, <3>1
    <3>2. CASE fd2' = FALSE /\ errpipe' = errpipe /\ (errpipe = 0 \/ ~Master)
      BY <1>1, <2>1, <3>2 DEF Ending, Drained
    <3>3. CASE window = 0
      BY <1>3, <3>1, <3>3 DEF ReadErr, Read
    <3>4. CASE window # 0 /\ errpipe > 0 /\ Master
      BY <1>3, <3>1, <3>4 DEF ReadErr, Read
    <3>5. CASE window # 0 /\ ~(errpipe > 0 /\ Master)
      <4>1. fd2' = FALSE /\ errpipe' = errpipe
        BY <1>3, <3>5 DEF ReadErr, Read
      <4>2. errpipe = 0 \/ ~Master
        BY <2>1, <3>5
      <4> QED BY <3>2, <4>1, <4>2
    <3> QED BY <3>3, <3>4, <3>5
  <2>3. Drained("out", outpipe) => Drained("out", outpipe)'
    BY <2>1 DEF Drained
  <2> QED BY <2>1, <2>2, <2>3 DEF Drain, Over
<1> QED BY <1>2, <1>3

LEMMA DrainExec == ASSUME Control, Drain, ChannelExec PROVE Drain'
<1> USE DEF setup, pipes, client, asked
<1>1. PICK forks \in BOOLEAN :
        LET ok == open /\ pid = "none" /\ forks IN
        /\ Check(ok, <<pid, child, fd0, fd1, fd2, len0, ends>>)
        /\ ok => /\ pid' = "child" /\ child' = "running"
                 /\ fd0' = TRUE /\ fd1' = TRUE /\ fd2' = ~tty /\ len0' = 0
                 /\ ends' = IF tty THEN {"in", "out"} ELSE {"in", "out", "err"}
  BY DEF ChannelExec
<1>2. /\ UNCHANGED <<outpipe, errpipe, tty, ceof, remoteeof>>
      /\ pc = "process" /\ pc' \in {"process", "dead"}
  BY <1>1, HandledLoop, ProcessFacts DEF ChannelExec, Check
<1>3. CASE open /\ pid = "none" /\ forks
  <2>1. fd0' /\ fd1' /\ (fd2' <=> ~tty)
    BY <1>1, <1>3
  <2>2. tty => "err" \notin ends' /\ errpipe' = 0
    BY <1>1, <1>2, <1>3 DEF Control, Known
  <2> QED BY <1>2, <2>1, <2>2 DEF Drain, Drained
<1>4. CASE ~(open /\ pid = "none" /\ forks)
  <2>1. UNCHANGED <<pid, fd0, fd1, fd2, ends>> /\ pc' = "dead"
    BY <1>1, <1>4 DEF Check, Die
  <2> QED BY <1>2, <2>1, DrainQuiet DEF Over
<1> QED BY <1>3, <1>4

LEMMA DrainNext == ASSUME Control, Drain, [Next]_vars PROVE Drain'
<1> USE DEF loop, signals, setup, input, output, flags, process, pipes,
            client, asked, heard
<1>1. CASE Poll \/ PollTimeout
  BY <1>1, DrainReturn DEF Poll, PollTimeout
<1>2. CASE Write
  <2>1. /\ UNCHANGED <<pid, fd1, fd2, outpipe, errpipe, ends, tty, ceof, watch>>
        /\ pc = "write"
    BY <1>2 DEF Write, Die, Then, Go
  <2>2. CASE "in" \notin ends
    BY <1>2, <2>1, <2>2, DrainQuiet DEF Write, Die, Over
  <2>3. CASE "in" \in ends
    <3>1. ~fd0' => remoteeof'
      <4>1. PICK w \in 1..len0 : fd0' = ~(remoteeof /\ len0' = 0) /\ UNCHANGED remoteeof
        BY <1>2, <2>3 DEF Write
      <4> QED BY <4>1
    <3> QED BY <2>1, <3>1, DrainQuiet
  <2> QED BY <2>2, <2>3
<1>3. CASE ReadOut \/ ReadErr
  BY <1>3, DrainRead
<1>4. CASE Signal \/ Send \/ Recv \/ ProcessEnd
  <2>1. /\ UNCHANGED <<fd0, fd1, fd2, pid, outpipe, errpipe, ends, tty, ceof, remoteeof>>
        /\ pc \in {"signal", "send", "recv", "process"}
    BY <1>4 DEF Signal, Send, Recv, ProcessEnd
  <2>2. pc' \notin {"write", "out", "err"}
    BY <1>4, ThenFacts DEF Signal, Send, Die, Recv, ProcessEnd, Control, Names
  <2>3. pid # "none" /\ ~fd0 => remoteeof
    BY <2>1 DEF Drain, Over
  <2> QED BY <2>1, <2>2, <2>3, DrainQuiet
<1>5. CASE Wait
  <2>1. /\ UNCHANGED <<fd0, fd1, fd2, outpipe, errpipe, ends, tty, ceof, remoteeof>>
        /\ pc = "wait" /\ pid # "none" /\ pid' # "none"
    BY <1>5 DEF Wait, Control, Due, IsEof
  <2>2. pc' \notin {"write", "out", "err"}
    BY <1>5, ThenFacts DEF Wait, Control, Names
  <2>3. remoteeof \/ fd0
    BY <2>1 DEF Drain, Over
  <2>4. /\ Drained("out", outpipe)' <=> Drained("out", outpipe)
        /\ Drained("err", errpipe)' <=> Drained("err", errpipe)
    BY <2>1 DEF Drained
  <2> QED BY <2>1, <2>2, <2>3, <2>4 DEF Drain
<1>6. ASSUME NEW kind, Process(kind), Done \/ Die("bug"),
             UNCHANGED <<pid, fd1, fd2, outpipe, errpipe, ends>>,
             tty => tty', ~fd0' => remoteeof' \/ (~fd0 /\ UNCHANGED remoteeof)
      PROVE  Drain'
  <2>1. /\ pc = "process" /\ pc' \in {"process", "dead"} /\ UNCHANGED ceof
    BY <1>6, HandledLoop, ProcessFacts
  <2>2. pid # "none" /\ ~fd0 => remoteeof
    BY <2>1 DEF Drain, Over
  <2> QED BY <1>6, <2>1, <2>2, DrainQuiet
<1>7. CASE \/ ChannelOpen \/ ChannelPut \/ ChannelClose \/ IncrementRemoteWindow
  BY <1>6, <1>7 DEF ChannelOpen, ChannelPut, ChannelClose, IncrementRemoteWindow,
     Check
<1>8. CASE ChannelOpenTerminal
  <2>1. tty => tty'
    BY <1>8 DEF ChannelOpenTerminal, Check
  <2> QED BY <1>6, <1>8, <2>1 DEF ChannelOpenTerminal, Check
<1>9. CASE ChannelPutEof
  <2>1. ~fd0' => remoteeof' \/ (~fd0 /\ UNCHANGED remoteeof)
    BY <1>9 DEF ChannelPutEof, Check
  <2> QED BY <1>6, <1>9, <2>1 DEF ChannelPutEof, Check
<1>10. CASE ChannelExec
  BY <1>10, DrainExec
<1>11. CASE Timeout
  BY <1>11, DrainQuiet DEF Timeout, Die, Over
<1>12. CASE ChildReads \/ ChildCloses
  <2>1. /\ UNCHANGED <<pid, fd0, fd1, fd2, outpipe, errpipe, tty, ceof, remoteeof, pc,
                       watch>>
        /\ ends' \subseteq ends
    BY <1>12 DEF ChildReads, ChildCloses, world
  <2>2. pid # "none" /\ ~fd0' /\ ~Over' => remoteeof'
    BY <2>1 DEF Drain, Over
  <2> QED BY <2>1, <2>2, DrainQuiet
<1>13. CASE ChildPrints
  <2>1. /\ UNCHANGED <<pid, fd0, fd1, fd2, tty, ceof, remoteeof, pc, watch, ends>>
        /\ outpipe' >= outpipe /\ errpipe' >= errpipe
        /\ outpipe \in Nat /\ errpipe \in Nat /\ outpipe' \in Nat /\ errpipe' \in Nat
        /\ "out" \notin ends => outpipe' = outpipe
        /\ "err" \notin ends => errpipe' = errpipe
    BY <1>13 DEF ChildPrints, Emit, world, Control, TypeOK
  <2>2. /\ Drained("out", outpipe) => Drained("out", outpipe)'
        /\ Drained("err", errpipe) => Drained("err", errpipe)'
        /\ Ending("out", outpipe) => Ending("out", outpipe)'
        /\ Ending("err", errpipe) => Ending("err", errpipe)'
    BY <2>1 DEF Drained, Ending
  <2> QED BY <2>1, <2>2 DEF Drain, Over
<1>14. CASE ChildExits
  <2>1. CASE Return({})
    BY <1>14, <2>1, DrainReturn DEF ChildExits
  <2>2. CASE UNCHANGED <<world, pc, watch>>
    <3>1. pid # "none" /\ ~fd0' /\ ~Over' => remoteeof'
      BY <2>2 DEF Drain, Over, world
    <3> QED BY <1>14, <2>2, <3>1, DrainQuiet DEF ChildExits, world
  <2> QED BY <1>14, <2>1, <2>2 DEF ChildExits
<1>15. CASE Client
  <2>1. /\ UNCHANGED <<pid, fd0, fd1, fd2, outpipe, errpipe, ends, tty, remoteeof, pc,
                       watch>>
        /\ ceof => ceof'
    BY <1>15 DEF Client, CRequest, Request, CData, CEof, CClose, CAdjust, CReceive,
       CLeave, Say
  <2>2. pid # "none" /\ ~fd0' /\ ~Over' => remoteeof'
    BY <2>1 DEF Drain, Over
  <2> QED BY <2>1, <2>2, DrainQuiet
<1>16. CASE UNCHANGED vars
  <2>1. pid # "none" /\ ~fd0' /\ ~Over' => remoteeof'
    BY <1>16 DEF Drain, Over, vars
  <2> QED BY <1>16, <2>1, DrainQuiet DEF vars
<1> QED BY <1>1, <1>2, <1>3, <1>4, <1>5, <1>7, <1>8, <1>9, <1>10, <1>11, <1>12,
           <1>13, <1>14, <1>15, <1>16 DEF Next, Server

----------------------------------------------------------------------------
(* All of the output comes before EOF.                                     *)

LEMMA FlowTypes ==
  ASSUME TypeOK
  PROVE  /\ got["out"] \in Nat /\ got["err"] \in Nat
         /\ made["out"] \in Nat /\ made["err"] \in Nat
         /\ outpipe \in Nat /\ errpipe \in Nat /\ Whole \in BOOLEAN
         /\ Under \in Seq(Packets)
         /\ got = made <=> got["out"] = made["out"] /\ got["err"] = made["err"]
<1>1. got \in [Streams -> Nat] /\ made \in [Streams -> Nat] /\ Streams = {"out", "err"}
  BY DEF TypeOK, Streams
<1>2. got = made <=> got["out"] = made["out"] /\ got["err"] = made["err"]
  BY <1>1
<1>3. outpipe \in Nat /\ errpipe \in Nat
  BY BoundAssumption DEF TypeOK
<1> QED BY <1>1, <1>2, <1>3, UnderSeq DEF Whole

LEMMA CarriesFrom ==
  ASSUME NEW q \in Seq(Packets), NEW stream, NEW from, NEW to, NEW whole,
         Carries(q, stream, from, to, whole)
  PROVE  from \in Nat /\ to \in Nat
<1>1. PICK sum \in [1..(Len(q) + 1) -> Nat] : sum[1] = from /\ sum[Len(q) + 1] = to
  BY DEF Carries
<1>2. 1 \in 1..(Len(q) + 1) /\ Len(q) + 1 \in 1..(Len(q) + 1)
  OBVIOUS
<1> QED BY <1>1, <1>2

LEMMA CarriesEnd ==
  ASSUME NEW q \in Seq(Packets), NEW m \in {EofPacket, StatusPacket, ClosePacket},
         NEW stream \in Streams, NEW from \in Nat, NEW to \in Nat,
         NEW whole \in BOOLEAN, Carries(q, stream, from, to, whole)
  PROVE  Carries(Append(q, m), stream, from, to, whole)
<1>1. m \in Packets /\ Bytes(m, stream) = 0
  BY EndPacketFacts, RankFacts
<1>2. to + Bytes(m, stream) = to
  BY <1>1
<1> QED BY <1>1, <1>2, CarriesAppend

(* Once something is reported to a client that has not cut the output      *)
(* short, the child is dead and both outputs are drained.                  *)
LEMMA FlowDone ==
  ASSUME Control, EndsOrdered, Drain, Whole,
         finale # <<>> \/ \E i \in 1..Len(Under) : Rank(Under[i]) # 0
  PROVE  /\ "out" \notin ends /\ "err" \notin ends
         /\ outpipe = 0 /\ errpipe = 0
<1>1. pid = "died"
  BY NothingReported DEF Whole
<1>2. ~fd1 /\ ~fd2
  BY <1>1 DEF Control, Known
<1> QED BY <1>1, <1>2 DEF Drain, Drained, Whole

LEMMA FlowQuiet ==
  ASSUME Flow, Under' = Under, UNCHANGED <<got, finale>>, Whole' => Whole,
         made'["out"] - outpipe' = made["out"] - outpipe,
         made'["err"] - errpipe' = made["err"] - errpipe,
         finale # <<>> /\ Whole' => UNCHANGED made
  PROVE  Flow'
<1>1. /\ Carries(Under, "out", got["out"], made["out"] - outpipe, Whole')
      /\ Carries(Under, "err", got["err"], made["err"] - errpipe, Whole')
  BY CarriesLess DEF Flow
<1>2. /\ Carries(Under, "out", got["out"], made["out"] - outpipe, Whole)'
      /\ Carries(Under, "err", got["err"], made["err"] - errpipe, Whole)'
  BY <1>1 DEF Carries
<1> QED BY <1>2 DEF Flow

LEMMA FlowRead ==
  ASSUME Control, EndsOrdered, Flow, pid # "died",
         NEW stream \in Streams, NEW n \in Nat,
         sendbuf' = Append(sendbuf, Data(stream, n)),
         outpipe' = outpipe - (IF stream = "out" THEN n ELSE 0),
         errpipe' = errpipe - (IF stream = "err" THEN n ELSE 0),
         UNCHANGED <<tonet, got, finale, made, cclose, ceof, tty>>
  PROVE  Flow'
<1> DEFINE m == Data(stream, n)
<1>1. /\ m \in Packets /\ Rank(m) = 0
      /\ Bytes(m, "out") = (IF stream = "out" THEN n ELSE 0)
      /\ Bytes(m, "err") = (IF stream = "err" THEN n ELSE 0)
  BY DEF Data, Packets, Rank, Streams, Bytes
<1>2. Under' = Append(Under, m) /\ Under \in Seq(Packets)
  BY <1>1, UnderAppend, UnderSeq DEF Control
<1> HIDE DEF m
<1>3. Whole => \A i \in 1..Len(Under) : Rank(Under[i]) = 0
  BY NothingReported DEF Whole
<1>4. /\ got["out"] \in Nat /\ got["err"] \in Nat /\ Whole \in BOOLEAN
      /\ made["out"] \in Nat /\ made["err"] \in Nat
      /\ outpipe \in Nat /\ errpipe \in Nat
  BY FlowTypes DEF Control
<1>5. ASSUME NEW s \in Streams, NEW to,
             Carries(Under, s, got[s], to, Whole)
      PROVE  Carries(Append(Under, m), s, got[s], to + Bytes(m, s), Whole)
  <2>1. got[s] \in Nat /\ to \in Nat
    BY <1>2, <1>5, CarriesFrom
  <2> QED BY <1>1, <1>2, <1>3, <1>4, <1>5, <2>1, CarriesAppend
<1>6. /\ (made["out"] - outpipe) + Bytes(m, "out") = made["out"] - outpipe'
      /\ (made["err"] - errpipe) + Bytes(m, "err") = made["err"] - errpipe'
  <2>1. stream = "out" \/ stream = "err"
    BY DEF Streams
  <2> QED BY <1>1, <1>4, <2>1
<1>7. /\ Carries(Append(Under, m), "out", got["out"], made["out"] - outpipe', Whole)
      /\ Carries(Append(Under, m), "err", got["err"], made["err"] - errpipe', Whole)
  BY <1>5, <1>6 DEF Flow, Streams
<1>8. Whole' = Whole
  BY DEF Whole
<1>9. /\ Carries(Under, "out", got["out"], made["out"] - outpipe, Whole)'
      /\ Carries(Under, "err", got["err"], made["err"] - errpipe, Whole)'
  BY <1>2, <1>7, <1>8 DEF Carries
<1> QED BY <1>8, <1>9 DEF Flow

(* EOF, exit status and CLOSE carry nothing.                               *)
LEMMA FlowWithEof ==
  ASSUME Control, Flow, NEW stream \in Streams, NEW to,
         Carries(Under, stream, got[stream], to, Whole)
  PROVE  /\ got[stream] \in Nat /\ to \in Nat /\ Whole \in BOOLEAN
         /\ WithEof \in Seq(Packets)
         /\ Carries(WithEof, stream, got[stream], to, Whole)
<1>1. Under \in Seq(Packets) /\ Whole \in BOOLEAN
  BY FlowTypes DEF Control
<1>2. got[stream] \in Nat /\ to \in Nat
  BY <1>1, CarriesFrom
<1>3. WithEof \in Seq(Packets)
  BY <1>1, EndPacketFacts DEF WithEof
<1>4. Carries(WithEof, stream, got[stream], to, Whole)
  BY <1>1, <1>2, CarriesEnd DEF WithEof
<1> QED BY <1>1, <1>2, <1>3, <1>4

LEMMA FlowClose ==
  ASSUME Control, Flow, sendbuf' = sendbuf \o Eof,
         UNCHANGED <<tonet, got, finale, made, pipes, cclose, ceof, tty>>
  PROVE  Flow'
<1>1. Under' = WithEof /\ Whole' = Whole
  BY UnderClose DEF Whole
<1>2. /\ Carries(WithEof, "out", got["out"], made["out"] - outpipe, Whole)
      /\ Carries(WithEof, "err", got["err"], made["err"] - errpipe, Whole)
  BY FlowWithEof DEF Flow, Streams
<1>3. /\ Carries(Under, "out", got["out"], made["out"] - outpipe, Whole)'
      /\ Carries(Under, "err", got["err"], made["err"] - errpipe, Whole)'
  BY <1>1, <1>2 DEF Carries, pipes
<1> QED BY <1>1, <1>3 DEF Flow

LEMMA FlowWait == ASSUME Control, Flow, Wait PROVE Flow'
<1>1. /\ UNCHANGED <<got, finale, made, outpipe, errpipe, cclose, ceof, tty>>
      /\ Whole' = Whole
  BY DEF Wait, pipes, client, asked, heard, setup, Whole
<1>2. CASE pid = "child" /\ child = "zombie"
  <2> DEFINE q == Append(WithEof, StatusPacket)
             r == Append(q, ClosePacket)
  <2>1. Under' = r
    BY <1>2, UnderWait
  <2>2. ASSUME NEW s \in Streams, NEW to, Carries(Under, s, got[s], to, Whole)
        PROVE  Carries(r, s, got[s], to, Whole)
    <3>1. /\ got[s] \in Nat /\ to \in Nat /\ Whole \in BOOLEAN
          /\ WithEof \in Seq(Packets) /\ Carries(WithEof, s, got[s], to, Whole)
      BY <2>2, FlowWithEof
    <3>2. q \in Seq(Packets)
      BY <3>1, EndPacketFacts
    <3>3. Carries(q, s, got[s], to, Whole)
      BY <3>1, CarriesEnd
    <3> HIDE DEF q
    <3> QED BY <3>1, <3>2, <3>3, CarriesEnd
  <2> HIDE DEF r
  <2>3. /\ Carries(r, "out", got["out"], made["out"] - outpipe, Whole)
        /\ Carries(r, "err", got["err"], made["err"] - errpipe, Whole)
    BY <2>2 DEF Flow, Streams
  <2>4. /\ Carries(Under, "out", got["out"], made["out"] - outpipe, Whole)'
        /\ Carries(Under, "err", got["err"], made["err"] - errpipe, Whole)'
    BY <1>1, <2>1, <2>3 DEF Carries
  <2> QED BY <1>1, <2>4 DEF Flow
<1>3. CASE ~(pid = "child" /\ child = "zombie")
  <2>1. Under' = Under
    BY <1>3 DEF Wait, Under
  <2> QED BY <1>1, <2>1, FlowQuiet
<1> QED BY <1>2, <1>3

LEMMA FlowReceive ==
  ASSUME Control, EndsOrdered, Drain, Flow, CReceive PROVE Flow'
<1> DEFINE p == Head(Under)
<1>1. /\ tonet # <<>> /\ tonet' = Tail(tonet)
      /\ UNCHANGED <<sendbuf, made, outpipe, errpipe, cclose, ceof, tty>>
      /\ IF Head(tonet).kind \in EndPackets
         THEN finale' = Append(finale, Head(tonet).kind) /\ UNCHANGED got
         ELSE /\ got' = [got EXCEPT ![Head(tonet).kind] = @ + Head(tonet).n]
              /\ UNCHANGED finale
  BY DEF CReceive, asked, setup, process, pipes
<1>2. /\ Under # <<>> /\ p = Head(tonet) /\ Under' = Tail(Under)
      /\ Under \in Seq(Packets) /\ p \in Packets
  BY <1>1, UnderTail, UnderSeq, TailAt DEF Control
<1>3. /\ got["out"] \in Nat /\ got["err"] \in Nat /\ Whole \in BOOLEAN
      /\ made["out"] \in Nat /\ made["err"] \in Nat
      /\ outpipe \in Nat /\ errpipe \in Nat /\ got \in [Streams -> Nat]
  BY FlowTypes DEF Control, TypeOK
<1>4. Whole' = Whole
  BY <1>1 DEF Whole
<1>5. Rank(p) = 0 <=> p.kind \in Streams
  BY <1>2, RankFacts
<1>6. Rank(p) # 0 <=> p.kind \in EndPackets
  BY <1>2, RankFacts
<1>7. ASSUME NEW s \in Streams, NEW to, Carries(Under, s, got[s], to, Whole)
      PROVE  /\ Carries(Tail(Under), s, got[s] + Bytes(p, s), to, Whole)
             /\ Whole /\ Rank(p) # 0 => got[s] = to
  <2>1. got[s] \in Nat /\ to \in Nat
    BY <1>2, <1>7, CarriesFrom
  <2> QED BY <1>2, <1>3, <1>7, <2>1, CarriesTail
<1>8. got'["out"] = got["out"] + Bytes(p, "out")
      /\ got'["err"] = got["err"] + Bytes(p, "err")
  <2>1. CASE Rank(p) = 0
    <3>1. got' = [got EXCEPT ![p.kind] = @ + p.n] /\ p.kind \in Streams /\ p.n \in Nat
      BY <1>1, <1>2, <1>5, <1>6, <2>1 DEF Packets
    <3> HIDE DEF p
    <3>2. p.kind = "out" \/ p.kind = "err"
      BY <3>1 DEF Streams
    <3>3. /\ Bytes(p, "out") = (IF p.kind = "out" THEN p.n ELSE 0)
          /\ Bytes(p, "err") = (IF p.kind = "err" THEN p.n ELSE 0)
      BY DEF Bytes
    <3> QED BY <1>3, <3>1, <3>2, <3>3 DEF Streams
  <2>2. CASE Rank(p) # 0
    <3>1. got' = got /\ Bytes(p, "out") = 0 /\ Bytes(p, "err") = 0
      BY <1>1, <1>2, <1>6, <2>2, RankFacts DEF Streams
    <3> QED BY <1>3, <3>1
  <2> QED BY <2>1, <2>2
<1>9. /\ Carries(Under, "out", got["out"], made["out"] - outpipe, Whole)'
      /\ Carries(Under, "err", got["err"], made["err"] - errpipe, Whole)'
  <2>1. /\ Carries(Tail(Under), "out", got["out"] + Bytes(p, "out"),
                   made["out"] - outpipe, Whole)
        /\ Carries(Tail(Under), "err", got["err"] + Bytes(p, "err"),
                   made["err"] - errpipe, Whole)
    BY <1>7 DEF Flow, Streams
  <2> QED BY <1>1, <1>2, <1>4, <1>8, <2>1 DEF Carries
<1>10. ASSUME finale' # <<>>, Whole PROVE got' = made'
  <2>1. CASE Rank(p) = 0
    <3>1. finale # <<>>
      BY <1>1, <1>2, <1>6, <1>10, <2>1
    <3>2. NoDataAfter(Under, TRUE)
      BY <1>10, <3>1 DEF EndsOrdered, Whole, NoDataAfter
    <3> QED BY <1>2, <2>1, <3>2, NoDataTail
  <2>2. CASE Rank(p) # 0
    <3>1. \E i \in 1..Len(Under) : Rank(Under[i]) # 0
      BY <1>2, <2>2, TailAt
    <3>2. outpipe = 0 /\ errpipe = 0
      BY <1>10, <3>1, FlowDone
    <3>3. got["out"] = made["out"] - outpipe /\ got["err"] = made["err"] - errpipe
      BY <1>7, <1>10, <2>2 DEF Flow, Streams
    <3>4. got = made
      BY <1>3, <3>2, <3>3, FlowTypes DEF Control
    <3>5. got' = got /\ made' = made
      BY <1>1, <1>2, <1>6, <2>2
    <3> QED BY <3>4, <3>5
  <2> QED BY <2>1, <2>2
<1> QED BY <1>4, <1>9, <1>10 DEF Flow

LEMMA FlowPrints ==
  ASSUME Control, EndsOrdered, Drain, Flow, ChildPrints PROVE Flow'
<1>1. /\ UNCHANGED <<got, finale, tonet, sendbuf, tty, cclose, ceof>>
      /\ Under' = Under /\ Whole' = Whole
  BY DEF ChildPrints, world, client, asked, heard, setup, Under, Whole
<1>2. /\ made \in [Streams -> Nat] /\ made["out"] \in Nat /\ made["err"] \in Nat
      /\ outpipe \in Nat /\ errpipe \in Nat
  BY FlowTypes DEF Control, TypeOK
<1>3. /\ "out" \in ends \/ "err" \in ends
      /\ made'["out"] - outpipe' = made["out"] - outpipe
      /\ made'["err"] - errpipe' = made["err"] - errpipe
  <2>1. CASE Emit("out", outpipe) /\ UNCHANGED errpipe
    <3>1. made'["out"] = made["out"] + 1 /\ made'["err"] = made["err"]
      BY <1>2, <2>1 DEF Emit, Streams
    <3> QED BY <1>2, <2>1, <3>1 DEF Emit
  <2>2. CASE Emit("err", errpipe) /\ UNCHANGED outpipe
    <3>1. made'["err"] = made["err"] + 1 /\ made'["out"] = made["out"]
      BY <1>2, <2>2 DEF Emit, Streams
    <3> QED BY <1>2, <2>2, <3>1 DEF Emit
  <2> QED BY <2>1, <2>2 DEF ChildPrints
<1>4. ~(finale # <<>> /\ Whole)
  BY <1>3, FlowDone
<1> QED BY <1>1, <1>3, <1>4, FlowQuiet

LEMMA FlowNext ==
  ASSUME Control, EndsOrdered, Drain, Flow, [Next]_vars PROVE Flow'
<1> USE DEF loop, signals, setup, input, output, flags, process, pipes,
            client, asked, heard
<1>1. ASSUME UNCHANGED <<tonet, sendbuf, got, finale, made, outpipe, errpipe>>,
             tty => tty', ceof => ceof', cclose => cclose'
      PROVE  Flow'
  <2>1. Under' = Under /\ (Whole' => Whole)
    BY <1>1 DEF Under, Whole
  <2> QED BY <1>1, <2>1, FlowQuiet
<1>2. CASE Poll \/ PollTimeout
  BY <1>1, <1>2 DEF Poll, PollTimeout, Return
<1>3. CASE Write \/ Signal \/ Recv \/ ProcessEnd \/ Timeout
  BY <1>1, <1>3 DEF Write, Signal, Recv, ProcessEnd, Timeout
<1>4. CASE ReadOut
  <2>1. /\ pid # "died" /\ outpipe \in Nat /\ errpipe \in Nat
        /\ UNCHANGED <<tonet, got, finale, made, errpipe, cclose, ceof, tty>>
    BY <1>4 DEF ReadOut, Control, Due, Known, TypeOK
  <2>2. CASE UNCHANGED <<sendbuf, outpipe>>
    BY <1>1, <2>1, <2>2
  <2>3. CASE \E r \in 1..outpipe : /\ sendbuf' = Append(sendbuf, Data("out", r))
                                   /\ outpipe' = outpipe - r
    BY <2>1, <2>3, FlowRead DEF Streams
  <2> QED BY <1>4, <2>2, <2>3 DEF ReadOut, Read
<1>5. CASE ReadErr
  <2>1. /\ pid # "died" /\ errpipe \in Nat /\ outpipe \in Nat
        /\ UNCHANGED <<tonet, got, finale, made, outpipe, cclose, ceof, tty>>
    BY <1>5 DEF ReadErr, Control, Due, Known, TypeOK
  <2>2. CASE UNCHANGED <<sendbuf, errpipe>>
    BY <1>1, <2>1, <2>2
  <2>3. CASE \E r \in 1..errpipe : /\ sendbuf' = Append(sendbuf, Data("err", r))
                                   /\ errpipe' = errpipe - r
    BY <2>1, <2>3, FlowRead DEF Streams
  <2> QED BY <1>5, <2>2, <2>3 DEF ReadErr, Read
<1>6. CASE Wait
  BY <1>6, FlowWait
<1>7. CASE Send
  <2>1. Under' = Under /\ Whole' = Whole
    BY <1>7, UnderSend DEF Send, Whole
  <2> QED BY <1>7, <2>1, FlowQuiet DEF Send
<1>8. CASE \/ ChannelOpen \/ ChannelOpenTerminal \/ ChannelExec \/ ChannelPut
           \/ ChannelPutEof \/ IncrementRemoteWindow
  <2>1. tty => tty'
    BY <1>8 DEF ChannelOpen, ChannelOpenTerminal, ChannelExec, ChannelPut,
       ChannelPutEof, IncrementRemoteWindow, Check
  <2> QED BY <1>1, <1>8, <2>1 DEF ChannelOpen, ChannelOpenTerminal, ChannelExec,
          ChannelPut, ChannelPutEof, IncrementRemoteWindow, Process
<1>9. CASE ChannelClose
  BY <1>9, FlowClose DEF ChannelClose, Process
<1>10. CASE ChildPrints
  BY <1>10, FlowPrints
<1>11. CASE ChildReads \/ ChildCloses
  BY <1>1, <1>11 DEF ChildReads, ChildCloses, world
<1>12. CASE ChildExits
  BY <1>1, <1>12 DEF ChildExits, Return, world
<1>13. CASE CRequest \/ CData \/ CEof \/ CClose \/ CAdjust \/ CLeave
  BY <1>1, <1>13 DEF CRequest, Request, CData, CEof, CClose, CAdjust, CLeave, Say
<1>14. CASE CReceive
  BY <1>14, FlowReceive
<1>15. CASE UNCHANGED vars
  BY <1>1, <1>15 DEF vars
<1> QED BY <1>2, <1>3, <1>4, <1>5, <1>6, <1>7, <1>8, <1>9, <1>10, <1>11, <1>12,
           <1>13, <1>14, <1>15 DEF Next, Server, Client

LEMMA FlowInit == Init => Drain /\ Flow
<1> SUFFICES ASSUME Init PROVE Drain /\ Flow
  OBVIOUS
<1>1. Drain
  BY DEF Init, Drain
<1>2. Under = <<>> /\ Len(Under) = 0
  BY DEF Init, Under
<1>3. got["out"] = 0 /\ got["err"] = 0 /\ made["out"] = 0 /\ made["err"] = 0
  BY DEF Init, Streams
<1>4. ASSUME NEW s PROVE Carries(Under, s, 0, 0, Whole)
  <2> DEFINE sum == [i \in 1..(Len(Under) + 1) |-> 0]
  <2>1. sum \in [1..(Len(Under) + 1) -> Nat] /\ sum[1] = 0 /\ sum[Len(Under) + 1] = 0
    BY <1>2
  <2> HIDE DEF sum
  <2> QED BY <1>2, <2>1 DEF Carries
<1>5. /\ Carries(Under, "out", got["out"], made["out"] - outpipe, Whole)
      /\ Carries(Under, "err", got["err"], made["err"] - errpipe, Whole)
  BY <1>3, <1>4 DEF Init
<1> QED BY <1>1, <1>5 DEF Flow, Init

\* The EOF that the server sends by itself comes after all of the output of
\* the child on both streams, however reading, sending and the child's end
\* fall; only a client that ends the input of a terminal loses some
\* (channel_read, channel_waitnohang, packet_channel_send_eof).
THEOREM OutputKept == Spec => []OutputComplete
<1> DEFINE All == Control /\ EndsOrdered /\ Drain /\ Flow
<1>1. Init => All
  BY ControlInit, EndsInit, FlowInit
<1>2. All /\ [Next]_vars => All'
  BY ControlNext, EndsNext, DrainNext, FlowNext
<1>3. All => OutputComplete
  BY DEF Flow, Whole, OutputComplete
<1> QED BY <1>1, <1>2, <1>3, PTL DEF Spec

\* The invariant as a whole.
THEOREM PosixInvariance == Spec => []PosixInv
<1>1. Init => PosixInv
  BY ControlInit, EndsInit, FlowInit DEF PosixInv, Init, Watched
<1>2. PosixInv /\ [Next]_vars => PosixInv'
  BY ControlNext, WatchedNext, EndsNext, DrainNext, FlowNext DEF PosixInv
<1> QED BY <1>1, <1>2, PTL DEF Spec

----------------------------------------------------------------------------
(* The output of the child is a flow with credit.                          *)

\* A set of natural numbers has a least one: what is below it does not contain
\* what is below another one.
LEMMA LeastOf ==
  ASSUME NEW S \in SUBSET Nat, S # {}
  PROVE  \E x \in S : \A y \in S : x <= y
<1> DEFINE T == {0 .. n - 1 : n \in S}
<1>1. T # {} /\ T \subseteq FiniteSubsetsOf(Nat)
  <2> SUFFICES ASSUME NEW n \in S PROVE 0 .. n - 1 \in FiniteSubsetsOf(Nat)
    OBVIOUS
  <2>1. IsFiniteSet(0 .. n - 1) BY FS_Interval
  <2> QED BY <2>1 DEF FiniteSubsetsOf
<1>2. PICK B \in T : \A C \in T : ~(<<C, B>> \in StrictSubsetOrdering(Nat))
  <2> HIDE DEF T
  <2> QED BY <1>1, WFMin, FS_StrictSubsetOrderingWellFounded
<1>3. PICK x \in S : B = 0 .. x - 1 OBVIOUS
<1>4. ASSUME NEW y \in S, y < x PROVE FALSE
  <2>1. 0 .. y - 1 \in T OBVIOUS
  <2>2. 0 .. y - 1 \subseteq 0 .. x - 1 /\ 0 .. y - 1 # 0 .. x - 1 BY <1>4
  <2>3. <<0 .. y - 1, 0 .. x - 1>> \in StrictSubsetOrdering(Nat)
    <3> DEFINE A == 0 .. y - 1  C == 0 .. x - 1
    <3>1. A \in SUBSET Nat /\ C \in SUBSET Nat OBVIOUS
    <3>2. A \subseteq C /\ A # C BY <2>2
    <3> HIDE DEF A, C
    <3>3. <<A, C>> \in (SUBSET Nat) \X (SUBSET Nat) BY <3>1
    <3>4. <<A, C>>[1] = A /\ <<A, C>>[2] = C OBVIOUS
    <3>5. <<A, C>> \in StrictSubsetOrdering(Nat)
      BY <3>2, <3>3, <3>4, Zenon DEF StrictSubsetOrdering
    <3> QED BY <3>5 DEF A, C
  <2> QED BY <2>1, <2>3, <1>2, <1>3
<1> QED BY <1>4

(* A sum that never falls ends where it began or above: otherwise there is *)
(* a first place where it is below its beginning, and it fell there.       *)
LEMMA NeverFalls ==
  ASSUME NEW n \in Nat, NEW sum \in [1..(n + 1) -> Nat],
         \A i \in 1..n : sum[i] <= sum[i + 1]
  PROVE  sum[1] <= sum[n + 1]
<1> DEFINE S == {i \in 1..(n + 1) : sum[i] < sum[1]}
<1> SUFFICES ASSUME S # {} PROVE FALSE
  <2>1. n + 1 \notin S  OBVIOUS
  <2>2. 1 \in 1..(n + 1) /\ n + 1 \in 1..(n + 1)  OBVIOUS
  <2> QED BY <2>1, <2>2
<1>1. PICK x \in S : \A y \in S : x <= y
  <2>1. S \in SUBSET Nat  OBVIOUS
  <2> HIDE DEF S
  <2> QED BY <2>1, LeastOf
<1>2. x \in 1..(n + 1) /\ sum[x] < sum[1] /\ 1 \in 1..(n + 1)
  OBVIOUS
<1>3. x # 1
  BY <1>2
<1>4. x - 1 \in 1..n /\ (x - 1) + 1 = x /\ x - 1 \in 1..(n + 1) /\ ~(x <= x - 1)
  BY <1>2, <1>3
<1>5. sum[x - 1] <= sum[x]
  BY <1>4
<1>6. sum[x - 1] < sum[1]
  BY <1>2, <1>4, <1>5
<1>7. x - 1 \in S
  BY <1>4, <1>6
<1> QED BY <1>1, <1>4, <1>7

\* What has been received is no more than what has been sent.
LEMMA CarriesGrows ==
  ASSUME NEW q \in Seq(Packets), NEW stream \in Streams, NEW from, NEW to, NEW whole,
         Carries(q, stream, from, to, whole)
  PROVE  from \in Nat /\ to \in Nat /\ from <= to
<1> DEFINE n == Len(q)
<1>1. n \in Nat /\ \A i \in 1..n : q[i] \in Packets
  OBVIOUS
<1>2. PICK sum \in [1..(n + 1) -> Nat] :
        /\ sum[1] = from /\ sum[n + 1] = to
        /\ \A i \in 1..n : sum[i + 1] = sum[i] + Bytes(q[i], stream)
  BY DEF Carries
<1> HIDE DEF n
<1>3. \A i \in 1..n : sum[i] <= sum[i + 1]
  <2> TAKE i \in 1..n
  <2>1. Bytes(q[i], stream) \in Nat
    BY <1>1, RankFacts
  <2>2. i \in 1..(n + 1) /\ sum[i] \in Nat
    BY <1>1
  <2> QED BY <1>2, <2>1, <2>2
<1>4. 1 \in 1..(n + 1) /\ n + 1 \in 1..(n + 1)
  BY <1>1
<1> QED BY <1>1, <1>2, <1>3, <1>4, NeverFalls

(* The queue of the client's packets.                                      *)

LEMMA CreditNat == \A p \in Requests : Credit(p) \in Nat
  BY DEF Requests, Credit

LEMMA CreditsAppend ==
  ASSUME NEW q \in Seq(Requests), NEW m \in Requests, NEW from, NEW to,
         Credits(q, from, to)
  PROVE  Credits(Append(q, m), from, to + Credit(m))
<1> DEFINE r == Append(q, m)
           n == Len(q)
           b == Credit(m)
<1>1. /\ n \in Nat /\ Len(r) = n + 1 /\ r[n + 1] = m
      /\ \A i \in 1..n : r[i] = q[i]
  OBVIOUS
<1>2. b \in Nat
  BY CreditNat
<1>3. PICK sum \in [1..(n + 1) -> Nat] :
        /\ sum[1] = from /\ sum[n + 1] = to
        /\ \A i \in 1..n : sum[i + 1] = sum[i] + Credit(q[i])
  BY DEF Credits
<1>4. to \in Nat
  BY <1>1, <1>3
<1> HIDE DEF r, b
<1> DEFINE next == [i \in 1..(Len(r) + 1) |-> IF i = n + 2 THEN to + b ELSE sum[i]]
<1>5. /\ next \in [1..(Len(r) + 1) -> Nat] /\ next[n + 2] = to + b
      /\ \A i \in 1..(n + 1) : next[i] = sum[i]
  BY <1>1, <1>2, <1>3, <1>4
<1>6. /\ 1 \in 1..(n + 1) /\ n + 1 \in 1..(n + 1)
      /\ \A i \in 1..n : i \in 1..(n + 1) /\ i + 1 \in 1..(n + 1)
  BY <1>1
<1>7. \A i \in 1..Len(r) : i \in 1..n \/ i = n + 1
  BY <1>1
<1> HIDE DEF next, n
<1>8. next[1] = from /\ next[Len(r) + 1] = to + b
  BY <1>1, <1>3, <1>5, <1>6
<1>9. \A i \in 1..Len(r) : next[i + 1] = next[i] + Credit(r[i])
  <2> TAKE i \in 1..Len(r)
  <2>1. CASE i \in 1..n
    BY <1>1, <1>3, <1>5, <1>6, <2>1
  <2>2. CASE i = n + 1
    BY <1>1, <1>3, <1>5, <1>6, <2>2 DEF b
  <2> QED BY <1>7, <2>1, <2>2
<1> QED BY <1>5, <1>8, <1>9 DEF Credits, r, b

LEMMA CreditsTail ==
  ASSUME NEW q \in Seq(Requests), q # <<>>, NEW from, NEW to, Credits(q, from, to)
  PROVE  /\ Credits(Tail(q), from + Credit(Head(q)), to)
         /\ from \in Nat /\ to \in Nat
         /\ from + Credit(Head(q)) <= to
<1> DEFINE r == Tail(q)
           n == Len(q)
<1>1. /\ n \in Nat \ {0} /\ Len(r) = n - 1 /\ Head(q) = q[1]
      /\ \A i \in 1..Len(r) : r[i] = q[i + 1]
      /\ \A i \in 1..n : q[i] \in Requests
  OBVIOUS
<1>2. PICK sum \in [1..(n + 1) -> Nat] :
        /\ sum[1] = from /\ sum[n + 1] = to
        /\ \A i \in 1..n : sum[i + 1] = sum[i] + Credit(q[i])
  BY DEF Credits
<1> HIDE DEF r
<1> DEFINE next == [i \in 1..(Len(r) + 1) |-> sum[i + 1]]
<1>3. /\ 1 \in 1..n /\ 1 \in 1..(Len(r) + 1) /\ Len(r) + 1 \in 1..(Len(r) + 1)
      /\ \A i \in 1..Len(r) : /\ i + 1 \in 1..n
                             /\ i \in 1..(Len(r) + 1) /\ i + 1 \in 1..(Len(r) + 1)
      /\ \A i \in 1..(Len(r) + 1) : i + 1 \in 1..(n + 1)
      /\ Len(r) + 1 = n /\ Len(r) \in Nat
  BY <1>1
<1>4. /\ next \in [1..(Len(r) + 1) -> Nat]
      /\ \A i \in 1..(Len(r) + 1) : next[i] = sum[i + 1]
  BY <1>2, <1>3
<1> HIDE DEF next, n
<1>5. /\ sum[1 + 1] = from + Credit(Head(q))
      /\ from \in Nat /\ to \in Nat
  <2>1. sum[1 + 1] = sum[1] + Credit(q[1]) BY <1>2, <1>3
  <2>2. 1 \in 1..(n + 1) /\ n + 1 \in 1..(n + 1) BY <1>1
  <2>3. sum[1] \in Nat /\ sum[n + 1] \in Nat BY <1>2, <2>2
  <2> QED BY <1>1, <1>2, <2>1, <2>3
<1>6. next[1] = sum[1 + 1] /\ next[Len(r) + 1] = to
  BY <1>2, <1>3, <1>4
<1>7. \A i \in 1..Len(r) : next[i + 1] = next[i] + Credit(r[i])
  <2> TAKE i \in 1..Len(r)
  <2>1. next[i + 1] = sum[(i + 1) + 1] /\ next[i] = sum[i + 1] /\ r[i] = q[i + 1]
    BY <1>1, <1>3, <1>4
  <2>2. sum[(i + 1) + 1] = sum[i + 1] + Credit(q[i + 1])
    BY <1>2, <1>3
  <2> QED BY <2>1, <2>2
<1>8. Credits(r, from + Credit(Head(q)), to)
  BY <1>4, <1>5, <1>6, <1>7 DEF Credits
<1>9. \A i \in 1..Len(r) : next[i] <= next[i + 1]
  <2> TAKE i \in 1..Len(r)
  <2>1. Credit(r[i]) \in Nat /\ next[i] \in Nat
    BY <1>1, <1>3, <1>4, CreditNat
  <2> QED BY <1>7, <2>1
<1>10. next[1] <= next[Len(r) + 1]
  BY <1>3, <1>4, <1>9, NeverFalls
<1> QED BY <1>5, <1>6, <1>8, <1>10 DEF r

(* The numbers of the flow.                                                *)

LEMMA BothSums ==
  ASSUME NEW a \in Nat, NEW b \in Nat, NEW c \in Nat, NEW d \in Nat,
         NEW e \in Nat, NEW f \in Nat, a <= c - e, b <= d - f
  PROVE  (c + d) - e - f \in Nat /\ a + b \in Nat /\ a + b <= (c + d) - e - f
  OBVIOUS

LEMMA FlowNumbers ==
  ASSUME Control, Flow, CreditInv
  PROVE  /\ OutSent \in Nat /\ Both(got) \in Nat /\ Both(got) <= OutSent
         /\ owed \in Nat /\ owed <= Both(got) /\ window \in Nat
         /\ OutGranted \in Nat
         /\ ~open => Both(got) = 0 /\ owed = 0 /\ OutSent = 0
<1>1. /\ got["out"] \in Nat /\ got["err"] \in Nat
      /\ made["out"] \in Nat /\ made["err"] \in Nat
      /\ outpipe \in Nat /\ errpipe \in Nat /\ Under \in Seq(Packets)
      /\ owed \in Nat /\ window \in Nat
  BY FlowTypes DEF Control, TypeOK
<1>2. /\ got["out"] <= made["out"] - outpipe
      /\ got["err"] <= made["err"] - errpipe
  BY <1>1, CarriesGrows DEF Flow, Streams
<1>3. /\ OutSent \in Nat /\ Both(got) \in Nat /\ Both(got) <= OutSent
  <2>1. /\ Both(got) = got["out"] + got["err"]
        /\ OutSent = (made["out"] + made["err"]) - outpipe - errpipe
    BY DEF OutSent, Both
  <2>2. /\ got["out"] \in Nat /\ got["err"] \in Nat
        /\ made["out"] \in Nat /\ made["err"] \in Nat
        /\ outpipe \in Nat /\ errpipe \in Nat
    BY <1>1
  <2> QED BY <1>2, <2>1, <2>2, BothSums
<1>4. owed <= Both(got)
  BY DEF CreditInv
<1>5. OutGranted \in Nat
  BY <1>1, <1>3, <1>4, BoundAssumption DEF OutGranted
<1>6. ASSUME ~open PROVE Both(got) = 0 /\ owed = 0 /\ OutSent = 0
  <2>1. pid = "none"
    BY <1>6 DEF Control, Known, TypeOK
  <2>2. made["out"] = 0 /\ made["err"] = 0 /\ outpipe = 0 /\ errpipe = 0
    BY <2>1 DEF Control, Known
  <2> QED BY <1>1, <1>3, <1>4, <2>2 DEF OutSent, Both
<1> QED BY <1>1, <1>3, <1>4, <1>5, <1>6

OutputStep == [ToUser!Next]_(ToUser!vars)

(* A step that sends nothing, receives nothing and moves no credit.        *)
LEMMA CreditQuiet ==
  ASSUME CreditInv, OutSent' = OutSent, Over => Over',
         UNCHANGED <<open, window, cstate, owed, got, fromnet>>
  PROVE  CreditInv' /\ OutputStep
<1>1. OutGranted' = OutGranted /\ Both(got)' = Both(got)
  BY DEF OutGranted, Both
<1>2. (Over' \/ Credits(fromnet, OutSent + window, OutGranted)')
  <2>1. CASE Over
    BY <2>1
  <2>2. CASE ~Over
    <3>1. Credits(fromnet, OutSent + window, OutGranted)
      BY <2>2 DEF CreditInv
    <3> QED BY <1>1, <3>1 DEF Credits
  <2> QED BY <2>1, <2>2
<1>3. CreditInv'
  BY <1>1, <1>2 DEF CreditInv, Asked
<1>4. OutputStep
  BY <1>1 DEF OutputStep, ToUser!vars
<1> QED BY <1>3, <1>4

(* channel_read and channel_extendedread: what is sent is taken from the   *)
(* window.                                                                 *)
LEMMA CreditRead ==
  ASSUME Control, Flow, CreditInv, ~Over, NEW r \in Nat, r <= window,
         window' = window - r, OutSent' = OutSent + r,
         UNCHANGED <<open, cstate, owed, got, fromnet>>
  PROVE  CreditInv' /\ OutputStep
<1>1. /\ OutSent \in Nat /\ window \in Nat
      /\ OutGranted' = OutGranted /\ Both(got)' = Both(got)
  BY FlowNumbers DEF OutGranted, Both
<1>2. (OutSent + window)' = OutSent + window
  BY <1>1
<1>3. Credits(fromnet, OutSent + window, OutGranted)'
  <2>1. Credits(fromnet, OutSent + window, OutGranted)
    BY DEF CreditInv
  <2> QED BY <1>1, <1>2, <2>1 DEF Credits
<1>4. window = 0 => window' = 0
  BY <1>1
<1>5. CreditInv'
  BY <1>1, <1>3, <1>4 DEF CreditInv, Asked
<1>6. /\ OutSent' \in Nat /\ OutSent <= OutSent' /\ OutSent' <= OutSent + window
  BY <1>1
<1>7. ToUser!Transmit
  BY <1>1, <1>2, <1>6 DEF ToUser!Transmit
<1> QED BY <1>5, <1>7 DEF OutputStep, ToUser!Next

(* A packet of the client is taken.                                        *)
LEMMA CreditTaken ==
  ASSUME Control, Flow, CreditInv, NEW kind, Process(kind),
         UNCHANGED OutSent
  PROVE  /\ ~Over /\ OutSent \in Nat /\ window \in Nat
         /\ OutGranted' = OutGranted /\ Both(got)' = Both(got)
         /\ UNCHANGED <<cstate, owed, got>>
         /\ \A k : Asked(k)' => Asked(k)
         /\ Asked(kind) /\ Credit(Head(fromnet)) \in Nat
         /\ Head(fromnet).kind = kind
         /\ Credits(fromnet', OutSent + window + Credit(Head(fromnet)), OutGranted)
         /\ OutSent + window + Credit(Head(fromnet)) <= OutGranted
<1>1. /\ pc = "process" /\ Head(fromnet) \in Requests /\ Head(fromnet).kind = kind
      /\ \A k : Asked(k)' => Asked(k)
      /\ Asked(kind) /\ UNCHANGED client
  BY ProcessFacts
<1>2. UNCHANGED <<cstate, owed, got>>
  BY <1>1 DEF client, asked, heard
<1>3. OutGranted' = OutGranted /\ Both(got)' = Both(got)
  BY <1>2 DEF OutGranted, Both
<1>4. OutSent \in Nat /\ window \in Nat /\ Credit(Head(fromnet)) \in Nat
  BY <1>1, FlowNumbers, CreditNat
<1>5. ~Over
  BY <1>1 DEF Over
<1>6. /\ fromnet' = Tail(fromnet) /\ fromnet \in Seq(Requests) /\ fromnet # <<>>
      /\ Credits(fromnet, OutSent + window, OutGranted)
  <2>1. fromnet \in Seq(Requests) /\ Len(fromnet) # 0
    BY ProcessFacts DEF Control, TypeOK
  <2>2. fromnet # <<>>
    BY <2>1
  <2> QED BY <1>5, <2>1, <2>2 DEF CreditInv, Process
<1>7. /\ Credits(fromnet', OutSent + window + Credit(Head(fromnet)), OutGranted)
      /\ OutSent + window + Credit(Head(fromnet)) <= OutGranted
  BY <1>6, CreditsTail
<1> QED BY <1>1, <1>2, <1>3, <1>4, <1>5, <1>7

\* All but CHANNEL_OPEN and CHANNEL_WINDOW_ADJUST.
LEMMA CreditProcess ==
  ASSUME Control, Flow, CreditInv,
         NEW kind, kind \notin {"open", "adjust"}, Process(kind),
         UNCHANGED <<open, window>>, OutSent' = OutSent
  PROVE  CreditInv' /\ OutputStep
<1>1. /\ ~Over /\ OutSent \in Nat /\ window \in Nat
      /\ OutGranted' = OutGranted /\ Both(got)' = Both(got)
      /\ UNCHANGED <<cstate, owed, got>>
      /\ \A k : Asked(k)' => Asked(k)
      /\ Head(fromnet).kind = kind
      /\ Credits(fromnet', OutSent + window + Credit(Head(fromnet)), OutGranted)
  BY CreditTaken
<1>2. Credit(Head(fromnet)) = 0
  BY <1>1 DEF Credit
<1>3. OutSent + window + Credit(Head(fromnet)) = (OutSent + window)'
  BY <1>1, <1>2
<1>4. Credits(fromnet, OutSent + window, OutGranted)'
  BY <1>1, <1>3 DEF Credits
<1>5. CreditInv'
  BY <1>1, <1>4 DEF CreditInv
<1>6. OutputStep
  BY <1>1 DEF OutputStep, ToUser!vars
<1> QED BY <1>5, <1>6

(* channel_open and channel_incrementremotewindow: credit that has arrived *)
(* is learnt of.                                                           *)
LEMMA CreditLearnt ==
  ASSUME Control, Flow, CreditInv,
         NEW kind, Process(kind), open', OutSent' = OutSent,
         window' = window + Credit(Head(fromnet)),
         cstate # "open"
  PROVE  CreditInv' /\ OutputStep
<1>1. /\ ~Over /\ OutSent \in Nat /\ window \in Nat
      /\ OutGranted' = OutGranted /\ Both(got)' = Both(got)
      /\ UNCHANGED <<cstate, owed, got>>
      /\ Credit(Head(fromnet)) \in Nat
      /\ Credits(fromnet', OutSent + window + Credit(Head(fromnet)), OutGranted)
      /\ OutSent + window + Credit(Head(fromnet)) <= OutGranted
  BY CreditTaken
<1>2. OutSent + window + Credit(Head(fromnet)) = (OutSent + window)'
  BY <1>1
<1>3. Credits(fromnet, OutSent + window, OutGranted)'
  BY <1>1, <1>2 DEF Credits
<1>4. CreditInv'
  BY <1>1, <1>3 DEF CreditInv
<1>5. /\ (OutSent + window)' \in Nat /\ OutSent + window <= (OutSent + window)'
      /\ (OutSent + window)' <= OutGranted
  BY <1>1, <1>2
<1>6. ToUser!Learn
  BY <1>1, <1>5 DEF ToUser!Learn
<1> QED BY <1>4, <1>6 DEF OutputStep, ToUser!Next

LEMMA CreditOpen ==
  ASSUME Control, Flow, CreditInv, ChannelOpen PROVE CreditInv' /\ OutputStep
<1>1. /\ Process("open")
      /\ UNCHANGED <<made, outpipe, errpipe>>
  BY DEF ChannelOpen, process, pipes
<1>2. OutSent' = OutSent
  BY <1>1 DEF OutSent
<1>3. /\ Asked("open") /\ Head(fromnet).kind = "open"
      /\ Credits(fromnet', OutSent + window + Credit(Head(fromnet)), OutGranted)
      /\ ~Over /\ Credit(Head(fromnet)) \in Nat
      /\ UNCHANGED <<cstate, owed, got>>
      /\ OutGranted' = OutGranted /\ Both(got)' = Both(got)
      /\ \A k : Asked(k)' => Asked(k)
  BY <1>1, <1>2, CreditTaken
<1>4. cstate # "open"
  BY <1>3 DEF CreditInv
<1>5. CASE ~open /\ pid = "none"
  <2>1. open' = TRUE /\ window' = Credit(Head(fromnet))
    BY <1>3, <1>5 DEF ChannelOpen, Credit
  <2>2. window' = window + Credit(Head(fromnet))
    BY <1>3, <1>5, <2>1 DEF CreditInv
  <2> QED BY <1>1, <1>2, <1>4, <2>1, <2>2, CreditLearnt
<1>6. CASE ~(~open /\ pid = "none")
  <2>1. Die("bug") /\ UNCHANGED <<open, window>>
    BY <1>6 DEF ChannelOpen, Check
  <2>2. Over'
    BY <2>1 DEF Die, Over
  <2>3. CreditInv'
    BY <1>3, <2>1, <2>2 DEF CreditInv
  <2>4. OutputStep
    BY <1>2, <1>3, <2>1 DEF OutputStep, ToUser!vars
  <2> QED BY <2>3, <2>4
<1> QED BY <1>5, <1>6

LEMMA CreditIncrement ==
  ASSUME Control, Flow, CreditInv, IncrementRemoteWindow
  PROVE  CreditInv' /\ OutputStep
<1>1. /\ Process("adjust") /\ window' = window + Head(fromnet).n
      /\ UNCHANGED <<open, made, outpipe, errpipe>>
  BY DEF IncrementRemoteWindow, setup, process, pipes
<1>2. OutSent' = OutSent
  BY <1>1 DEF OutSent
<1>3. Asked("adjust") /\ Head(fromnet).kind = "adjust"
  BY <1>1, <1>2, CreditTaken
<1>4. open /\ cstate # "open"
  BY <1>3 DEF CreditInv
<1>5. Credit(Head(fromnet)) = Head(fromnet).n
  BY <1>3 DEF Credit
<1> QED BY <1>1, <1>2, <1>4, <1>5, CreditLearnt

(* The client asks, and gives back credit for what it has received.        *)
LEMMA CreditSaid ==
  ASSUME Control, Flow, CreditInv, NEW kind, NEW n \in Nat,
         kind \in {"open", "pty-req", "exec", "data", "eof", "close", "adjust"},
         Say(kind, n), UNCHANGED got,
         owed' \in Nat, owed' <= owed,
         OutGranted' = OutGranted + Credit([kind |-> kind, n |-> n]),
         OutGranted' <= Both(got) + Window,
         cstate' # "open", kind = "adjust" => open
  PROVE  CreditInv' /\ OutputStep
<1> DEFINE m == [kind |-> kind, n |-> n]
<1>1. /\ ~Over /\ fromnet' = Append(fromnet, m) /\ m \in Requests
      /\ UNCHANGED <<pc, open, window, made, outpipe, errpipe>>
  BY DEF Say, Requests, loop, setup, output, process, pipes
<1>2. OutSent' = OutSent /\ Both(got)' = Both(got)
  BY <1>1 DEF OutSent, Both
<1>3. /\ OutSent \in Nat /\ window \in Nat /\ owed \in Nat /\ OutGranted \in Nat
      /\ Both(got) \in Nat /\ Both(got) <= OutSent /\ owed <= Both(got)
  BY FlowNumbers
<1>4. \A k : Asked(k)' <=> Asked(k) \/ kind = k
  <2>1. TypeOK /\ m.kind = kind
    BY DEF Control
  <2> HIDE DEF m
  <2> QED BY <1>1, <2>1, RequestSent
<1>5. Credit(m) \in Nat
  BY <1>1, CreditNat
<1>6. Credits(fromnet', OutSent + window, OutGranted + Credit(m))
  <2>1. Credits(fromnet, OutSent + window, OutGranted) /\ fromnet \in Seq(Requests)
    BY <1>1 DEF CreditInv, Control, TypeOK
  <2> HIDE DEF m
  <2> QED BY <1>1, <2>1, CreditsAppend
<1>7. Credits(fromnet, OutSent + window, OutGranted)'
  BY <1>1, <1>2, <1>6 DEF Credits
<1>8. owed' <= Both(got)'
  BY <1>2, <1>3
<1>9. ~open' => window' = 0 /\ ~Asked("adjust")'
  BY <1>1, <1>4 DEF CreditInv
<1>10. CreditInv'
  BY <1>7, <1>8, <1>9 DEF CreditInv
<1>11. ToUser!Release
  <2>1. /\ OutGranted' \in Nat /\ OutGranted <= OutGranted'
        /\ Both(got)' \in Nat /\ Both(got) <= Both(got)'
        /\ Both(got)' <= OutSent /\ OutGranted' <= Both(got)' + Window
    BY <1>2, <1>3, <1>5
  <2>2. (OutSent + window)' = OutSent + window
    BY <1>1, <1>2
  <2> QED BY <1>2, <2>1, <2>2 DEF ToUser!Release
<1> QED BY <1>10, <1>11 DEF OutputStep, ToUser!Next

LEMMA CreditRequest ==
  ASSUME Control, Flow, CreditInv, CRequest PROVE CreditInv' /\ OutputStep
<1> USE DEF heard
<1>1. /\ owed \in Nat /\ Both(got) \in Nat /\ owed <= Both(got) /\ OutGranted \in Nat
      /\ Window \in Nat
  BY FlowNumbers, BoundAssumption
<1>2. CASE Request("open", "open", "pty-req")
  <2>1. /\ cstate = "open" /\ cstate' = "pty-req" /\ Say("open", Window)
        /\ UNCHANGED <<owed, got>>
    BY <1>2 DEF Request
  <2>2. owed = 0 /\ Both(got) = 0
    BY <2>1, FlowNumbers DEF CreditInv
  <2>3. OutGranted = 0 /\ OutGranted' = Window + Both(got) - owed
    BY <2>1 DEF OutGranted, Both
  <2>4. Credit([kind |-> "open", n |-> Window]) = Window
    BY DEF Credit
  <2>5. /\ OutGranted' = OutGranted + Credit([kind |-> "open", n |-> Window])
        /\ OutGranted' <= Both(got) + Window
    BY <1>1, <2>2, <2>3, <2>4
  <2> QED BY <1>1, <2>1, <2>5, CreditSaid
<1>3. ASSUME NEW kind \in {"pty-req", "exec"}, NEW to \in {"exec", "running"},
             Request(kind, kind, to)
      PROVE  CreditInv' /\ OutputStep
  <2>1. /\ cstate = kind /\ cstate' = to /\ Say(kind, 0)
        /\ UNCHANGED <<owed, got>>
    BY <1>3 DEF Request
  <2>2. OutGranted = Window + Both(got) - owed /\ OutGranted' = OutGranted
    BY <2>1 DEF OutGranted, Both
  <2>3. Credit([kind |-> kind, n |-> 0]) = 0
    BY DEF Credit
  <2>4. /\ OutGranted' = OutGranted + Credit([kind |-> kind, n |-> 0])
        /\ OutGranted' <= Both(got) + Window /\ owed' <= owed
    BY <1>1, <2>1, <2>2, <2>3
  <2> QED BY <1>1, <2>1, <2>4, CreditSaid
<1> QED BY <1>2, <1>3 DEF CRequest

LEMMA CreditTalk ==
  ASSUME Control, Flow, CreditInv, CData \/ CEof \/ CClose
  PROVE  CreditInv' /\ OutputStep
<1>1. /\ owed \in Nat /\ Both(got) \in Nat /\ owed <= Both(got) /\ OutGranted \in Nat
      /\ Window \in Nat
  BY FlowNumbers, BoundAssumption
<1>2. PICK kind \in {"data", "eof", "close"}, n \in {0, 1} :
        /\ Say(kind, n) /\ cstate = "running"
        /\ UNCHANGED <<cstate, owed, got>>
  BY DEF CData, CEof, CClose, heard
<1>3. OutGranted = Window + Both(got) - owed /\ OutGranted' = OutGranted
  BY <1>2 DEF OutGranted, Both
<1>4. Credit([kind |-> kind, n |-> n]) = 0
  BY DEF Credit
<1>5. /\ OutGranted' = OutGranted + Credit([kind |-> kind, n |-> n])
      /\ OutGranted' <= Both(got) + Window /\ owed' <= owed
  BY <1>1, <1>2, <1>3, <1>4
<1> QED BY <1>1, <1>2, <1>5, CreditSaid

\* What has been received is given back as a whole.
LEMMA CreditAdjust ==
  ASSUME Control, Flow, CreditInv, CAdjust PROVE CreditInv' /\ OutputStep
<1>1. /\ owed \in Nat /\ Both(got) \in Nat /\ owed <= Both(got) /\ OutGranted \in Nat
      /\ Window \in Nat
  BY FlowNumbers, BoundAssumption
<1>2. /\ owed > 0 /\ owed' = 0 /\ Say("adjust", owed) /\ UNCHANGED <<cstate, got>>
  BY DEF CAdjust, asked
<1>3. open
  BY <1>1, <1>2, FlowNumbers
<1>4. cstate # "open"
  BY <1>3 DEF CreditInv
<1>5. /\ OutGranted = Window + Both(got) - owed
      /\ OutGranted' = Window + Both(got) - 0
  BY <1>2, <1>4 DEF OutGranted, Both
<1>6. Credit([kind |-> "adjust", n |-> owed]) = owed
  BY DEF Credit
<1>7. /\ OutGranted' = OutGranted + Credit([kind |-> "adjust", n |-> owed])
      /\ OutGranted' <= Both(got) + Window /\ owed' \in Nat /\ owed' <= owed
  BY <1>1, <1>2, <1>5, <1>6
<1> QED BY <1>1, <1>2, <1>3, <1>4, <1>7, CreditSaid

LEMMA CreditReceive ==
  ASSUME Control, Flow, Flow', CreditInv, CReceive, Control'
  PROVE  CreditInv' /\ OutputStep
<1> DEFINE p == Head(tonet)
<1>1. /\ tonet # <<>>
      /\ IF p.kind \in EndPackets THEN UNCHANGED <<got, owed>>
         ELSE /\ got' = [got EXCEPT ![p.kind] = @ + p.n]
              /\ owed' = owed + p.n
      /\ UNCHANGED <<pc, open, window, made, outpipe, errpipe, cstate, fromnet>>
  BY DEF CReceive, loop, setup, output, process, pipes, asked
<1>2. OutSent' = OutSent /\ (Over => Over')
  BY <1>1 DEF OutSent, Over
<1>3. CASE UNCHANGED <<got, owed>>
  BY <1>1, <1>2, <1>3, CreditQuiet
<1>4. CASE ~UNCHANGED <<got, owed>>
  <2>1. p \in Packets /\ p.kind \in Streams /\ p.n \in Nat
    <3>1. p \in Packets /\ p.kind \notin EndPackets
      BY <1>1, <1>4, TailAt DEF Control, TypeOK
    <3> QED BY <3>1 DEF Packets
  <2>2. /\ got' = [got EXCEPT ![p.kind] = @ + p.n] /\ owed' = owed + p.n
        /\ got \in [Streams -> Nat]
    BY <1>1, <1>4 DEF Control, TypeOK
  <2> HIDE DEF p
  <2>3. Both(got)' = Both(got) + p.n
    <3>1. p.kind = "out" \/ p.kind = "err"
      BY <2>1 DEF Streams
    <3> QED BY <2>1, <2>2, <3>1 DEF Both, Streams
  <2>4. /\ OutSent \in Nat /\ Both(got) \in Nat /\ owed \in Nat
        /\ owed <= Both(got) /\ OutGranted \in Nat /\ Window \in Nat
        /\ window \in Nat
    BY FlowNumbers, BoundAssumption
  <2>5. OutGranted' = OutGranted
    BY <1>1, <2>1, <2>2, <2>3, <2>4 DEF OutGranted
  <2>6. Both(got)' \in Nat /\ Both(got)' <= OutSent
    <3>1. /\ got'["out"] <= made'["out"] - outpipe'
          /\ got'["err"] <= made'["err"] - errpipe'
      <4>1. (TypeOK => Under \in Seq(Packets) /\ Len(Under) \in Nat)'
        BY UnderSeq, PTL
      <4>2. Under' \in Seq(Packets)
        BY <4>1 DEF Control
      <4>3. /\ Carries(Under', "out", got'["out"], made'["out"] - outpipe', Whole')
            /\ Carries(Under', "err", got'["err"], made'["err"] - errpipe', Whole')
        BY DEF Flow, Carries
      <4> QED BY <4>2, <4>3, CarriesGrows DEF Streams
    <3>2. /\ got'["out"] \in Nat /\ got'["err"] \in Nat
          /\ made'["out"] \in Nat /\ made'["err"] \in Nat
          /\ outpipe' \in Nat /\ errpipe' \in Nat
      BY BoundAssumption DEF Control, TypeOK, Streams
    <3>3. /\ Both(got)' = got'["out"] + got'["err"]
          /\ OutSent' = (made'["out"] + made'["err"]) - outpipe' - errpipe'
      BY DEF OutSent, Both
    <3>4. Both(got)' \in Nat /\ Both(got)' <= OutSent'
      BY <3>1, <3>2, <3>3, BothSums
    <3> QED BY <1>2, <3>4
  <2>7. owed' <= Both(got)'
    BY <2>1, <2>2, <2>3, <2>4
  <2>8. Over' \/ Credits(fromnet, OutSent + window, OutGranted)'
    BY <1>1, <1>2, <2>5 DEF CreditInv, Credits, Over
  <2>9. CreditInv'
    BY <1>1, <2>7, <2>8 DEF CreditInv, Asked
  <2>10. ToUser!Release
    <3>1. OutGranted <= Both(got)' + Window /\ Both(got) <= Both(got)'
      BY <2>1, <2>2, <2>3, <2>4 DEF OutGranted
    <3>2. (OutSent + window)' = OutSent + window
      BY <1>1, <1>2
    <3> QED BY <1>2, <2>4, <2>5, <2>6, <3>1, <3>2 DEF ToUser!Release
  <2> QED BY <2>9, <2>10 DEF OutputStep, ToUser!Next
<1> QED BY <1>3, <1>4

LEMMA CreditRestOfServer ==
  ASSUME Control, Flow, CreditInv,
         \/ ReadOut \/ ReadErr
         \/ ChannelOpenTerminal \/ ChannelExec \/ ChannelPut \/ ChannelPutEof
         \/ ChannelClose
  PROVE  CreditInv' /\ OutputStep
<1>1. CASE ReadOut \/ ReadErr
  <2>1. /\ ~Over /\ outpipe \in Nat /\ errpipe \in Nat
        /\ made["out"] \in Nat /\ made["err"] \in Nat
    BY <1>1, FlowTypes DEF ReadOut, ReadErr, Over, Control
  <2>2. /\ Over => Over'
        /\ UNCHANGED <<open, cstate, owed, got, fromnet, made>>
    BY <1>1, <2>1 DEF ReadOut, ReadErr, setup, client, asked, heard, process
  <2>3. CASE UNCHANGED <<outpipe, errpipe, window>>
    <3>1. OutSent' = OutSent
      BY <2>2, <2>3 DEF OutSent
    <3> QED BY <2>2, <2>3, <3>1, CreditQuiet
  <2>4. CASE \E r \in Nat : /\ r <= window /\ window' = window - r
                            /\ \/ outpipe' = outpipe - r /\ errpipe' = errpipe
                               \/ errpipe' = errpipe - r /\ outpipe' = outpipe
    <3>1. PICK r \in Nat : /\ r <= window /\ window' = window - r
                           /\ \/ outpipe' = outpipe - r /\ errpipe' = errpipe
                              \/ errpipe' = errpipe - r /\ outpipe' = outpipe
      BY <2>4
    <3>2. OutSent' = OutSent + r
      BY <2>1, <2>2, <3>1 DEF OutSent, Both
    <3> QED BY <2>1, <2>2, <3>1, <3>2, CreditRead
  <2> QED BY <1>1, <2>1, <2>3, <2>4 DEF ReadOut, ReadErr, Read, pipes
<1>2. CASE \/ ChannelOpenTerminal \/ ChannelExec \/ ChannelPut \/ ChannelPutEof
           \/ ChannelClose
  <2>1. PICK kind \in {"pty-req", "exec", "data", "eof", "close"} : Process(kind)
    BY <1>2 DEF ChannelOpenTerminal, ChannelExec, ChannelPut, ChannelPutEof, ChannelClose
  <2>2. UNCHANGED <<open, window, made, outpipe, errpipe>>
    BY <1>2 DEF ChannelOpenTerminal, ChannelExec, ChannelPut, ChannelPutEof,
       ChannelClose, setup, output, process, pipes
  <2>3. OutSent' = OutSent
    BY <2>2 DEF OutSent
  <2> QED BY <2>1, <2>2, <2>3, CreditProcess
<1> QED BY <1>1, <1>2

LEMMA CreditNext ==
  ASSUME Control, Flow, CreditInv, Control', Flow', [Next]_vars
  PROVE  CreditInv' /\ OutputStep
<1> USE DEF loop, setup, output, process, pipes, client, asked, heard
<1>1. ASSUME UNCHANGED <<open, window, cstate, owed, got, fromnet, made, outpipe,
                         errpipe>>,
             Over => Over'
      PROVE  CreditInv' /\ OutputStep
  BY <1>1, CreditQuiet DEF OutSent
<1>2. CASE Poll \/ PollTimeout \/ Timeout
  BY <1>1, <1>2 DEF Poll, PollTimeout, Timeout, Return, Over
<1>3. CASE Write \/ Signal \/ Recv \/ ProcessEnd
  BY <1>1, <1>3 DEF Write, Signal, Recv, ProcessEnd, Over
<1>4. CASE Wait \/ Send
  BY <1>1, <1>4 DEF Wait, Send, Over
<1>5. CASE \/ ReadOut \/ ReadErr \/ ChannelOpenTerminal \/ ChannelExec \/ ChannelPut
           \/ ChannelPutEof \/ ChannelClose
  BY <1>5, CreditRestOfServer
<1>6. CASE ChannelOpen \/ IncrementRemoteWindow
  BY <1>6, CreditOpen, CreditIncrement
<1>7. CASE ChildPrints
  <2>1. /\ UNCHANGED <<open, window, cstate, owed, got, fromnet, pc>>
    BY <1>7 DEF ChildPrints, world
  <2>2. /\ made \in [Streams -> Nat] /\ made["out"] \in Nat /\ made["err"] \in Nat
        /\ outpipe \in Nat /\ errpipe \in Nat
    BY FlowTypes DEF Control, TypeOK
  <2>3. \/ /\ made' = [made EXCEPT !["out"] = @ + 1] /\ outpipe' = outpipe + 1
           /\ errpipe' = errpipe
        \/ /\ made' = [made EXCEPT !["err"] = @ + 1] /\ errpipe' = errpipe + 1
           /\ outpipe' = outpipe
    BY <1>7 DEF ChildPrints, Emit
  <2>4. \/ /\ made'["out"] = made["out"] + 1 /\ made'["err"] = made["err"]
           /\ outpipe' = outpipe + 1 /\ errpipe' = errpipe
        \/ /\ made'["err"] = made["err"] + 1 /\ made'["out"] = made["out"]
           /\ errpipe' = errpipe + 1 /\ outpipe' = outpipe
    BY <2>2, <2>3 DEF Streams
  <2>5. OutSent' = OutSent
    BY <2>2, <2>4 DEF OutSent, Both
  <2>6. Over => Over'
    BY <2>1 DEF Over
  <2> QED BY <2>1, <2>5, <2>6, CreditQuiet
<1>8. CASE ChildReads \/ ChildCloses
  BY <1>1, <1>8 DEF ChildReads, ChildCloses, world, Over
<1>9. CASE ChildExits
  BY <1>1, <1>9 DEF ChildExits, Return, world, Over
<1>10. CASE CRequest \/ CData \/ CEof \/ CClose \/ CAdjust \/ CReceive
  BY <1>10, CreditRequest, CreditTalk, CreditAdjust, CreditReceive
<1>11. CASE CLeave
  BY <1>1, <1>11 DEF CLeave, Over
<1>12. CASE UNCHANGED vars
  BY <1>1, <1>12 DEF vars, Over
<1> QED BY <1>2, <1>3, <1>4, <1>5, <1>6, <1>7, <1>8, <1>9, <1>10, <1>11, <1>12
        DEF Next, Server, Client

LEMMA CreditInit == Init => CreditInv /\ ToUser!Init
<1> SUFFICES ASSUME Init PROVE CreditInv /\ ToUser!Init
  OBVIOUS
<1>1. Both(got) = 0 /\ OutSent = 0 /\ OutGranted = 0 /\ window = 0 /\ owed = 0
  BY DEF Init, Both, OutSent, OutGranted, Streams
<1>2. fromnet = <<>> /\ Len(fromnet) = 0 /\ cstate = "open" /\ ~open
  BY DEF Init
<1>3. Credits(fromnet, OutSent + window, OutGranted)
  <2> DEFINE sum == [i \in 1..(Len(fromnet) + 1) |-> 0]
  <2>1. sum \in [1..(Len(fromnet) + 1) -> Nat] /\ sum[1] = 0 /\ sum[Len(fromnet) + 1] = 0
    BY <1>2
  <2> HIDE DEF sum
  <2> QED BY <1>1, <1>2, <2>1 DEF Credits
<1>4. CreditInv
  BY <1>1, <1>2, <1>3 DEF CreditInv, Asked
<1>5. ToUser!Init
  BY <1>1 DEF ToUser!Init
<1> QED BY <1>4, <1>5

\* What both outputs of the child send is one flow with credit: credit is given
\* by the client for what it has received only, learnt of once, and nothing is
\* sent beyond it, whichever of channel_read and channel_extendedread comes
\* first and also when the session dies (channel_open,
\* channel_incrementremotewindow).
THEOREM BothOutputsAreAFlow == Spec => OutputFlow
<1> DEFINE All == Control /\ EndsOrdered /\ Drain /\ Flow /\ CreditInv
<1>1. Init => All /\ ToUser!Init
  BY ControlInit, EndsInit, FlowInit, CreditInit
<1>2. All /\ [Next]_vars => All' /\ [ToUser!Next]_(ToUser!vars)
  BY ControlNext, EndsNext, DrainNext, FlowNext, CreditNext DEF OutputStep
<1> QED BY <1>1, <1>2, PTL DEF Spec, OutputFlow, ToUser!Spec

\* What follows from it by FlowSafe: the client has given credit for all that
\* has been sent, and what is on its way to it fits its first window.
THEOREM WindowRespected == Spec => [](ToUser!Ordered /\ ToUser!NoOverrun)
<1>1. Window \in Nat
  BY BoundAssumption
<1>2. ToUser!Spec => [](ToUser!Ordered /\ ToUser!NoOverrun)
  BY <1>1, ToUser!FlowSafe
<1> QED BY <1>2, BothOutputsAreAFlow, PTL DEF OutputFlow

=============================================================================
