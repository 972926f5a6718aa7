--------------------------- MODULE PosixInvariant ---------------------------
(***************************************************************************)
(* The inductive invariant behind DeathNotMissed, EndsInOrder and          *)
(* OutputComplete.  The packets between the session and the client are     *)
(* those in tonet and then those in sendbuf: packet_send moves a packet    *)
(* from one to the other and changes nothing else.                         *)
(***************************************************************************)
EXTENDS PosixSession

Names    == {"write", "out", "err", "signal", "wait", "send", "recv", "process"}
Events   == {"send", "recv", "write", "out", "err"}
Packets  == [kind : Streams \cup EndPackets, n : Nat]
Requests == [kind : {"open", "pty-req", "exec", "data", "eof", "close", "adjust"},
             n : Nat]

Under == tonet \o sendbuf

TypeOK ==
  /\ pc \in Names \cup {"poll", "finished", "dead"}
  /\ why \in {"none", "write", "left", "bug", "timeout"}
  /\ watch \subseteq Events /\ todo \in Nat
  /\ selfpipe \in {"closed", "empty", "written"} /\ handler \in BOOLEAN
  /\ open \in BOOLEAN /\ tty \in BOOLEAN /\ pid \in {"none", "child", "died"}
  /\ fd0 \in BOOLEAN /\ fd1 \in BOOLEAN /\ fd2 \in BOOLEAN
  /\ remoteeof \in BOOLEAN /\ len0 \in Nat /\ window \in Nat
  /\ eofsent \in BOOLEAN /\ closesent \in BOOLEAN /\ closegot \in BOOLEAN
  /\ child \in {"none", "running", "zombie", "waited"}
  /\ ends \subseteq {"in", "out", "err"} /\ made \in [Streams -> Nat]
  /\ inpipe \in 0..PipeSize /\ outpipe \in 0..PipeSize /\ errpipe \in 0..PipeSize
  /\ cstate \in {"open", "pty-req", "exec", "running"} /\ csent \in Nat
  /\ ceof \in BOOLEAN /\ cclose \in BOOLEAN /\ left \in BOOLEAN
  /\ owed \in Nat /\ got \in [Streams -> Nat] /\ late \in BOOLEAN
  /\ tonet \in Seq(Packets) /\ sendbuf \in Seq(Packets)
  /\ fromnet \in Seq(Requests)

----------------------------------------------------------------------------
(* The session and its child.                                              *)

\* What packet_recv has counted is there to be taken.
Counted == /\ ~Over => todo <= Len(fromnet)
           /\ pc \in (Names \ {"process"}) \cup {"poll"} => todo = 0

\* The child as channel_waitnohang knows it, and as it is.
Known ==
  /\ pid = "none"  => /\ child = "none" /\ ends = {} /\ ~fd0 /\ ~fd1 /\ ~fd2
                      /\ outpipe = 0 /\ errpipe = 0
                      /\ made["out"] = 0 /\ made["err"] = 0
  /\ pid = "child" => open /\ child \in {"running", "zombie"}
  /\ pid = "died"  => open /\ child = "waited" /\ ~fd1 /\ ~fd2
  /\ closesent <=> pid = "died"

\* A step is taken only for what poll() has reported, and once the outputs
\* have ended.
Due == /\ pc = "poll" => watch = {}
       /\ pc \in {"write", "out"} /\ "out" \in watch => fd1
       /\ pc \in {"write", "out", "err"} /\ "err" \in watch => fd2
       /\ pc = "out" => "out" \in watch
       /\ pc = "err" => "err" \in watch
       /\ pc \in {"signal", "wait"} => IsEof

\* EOF and CLOSE of the client, also on their way.
Asked(kind) == \E i \in 1..Len(fromnet) : fromnet[i].kind = kind
Crossing == /\ remoteeof \/ Asked("eof") => ceof
            /\ closegot \/ Asked("close") => cclose

\* Between waitnohang in one iteration and poll() in the next.
Watched == /\ pc = "wait" => handler
           /\ /\ pc \in {"send", "recv", "process", "poll"}
              /\ pid = "child" /\ ~fd1 /\ ~fd2
              => handler /\ (child = "zombie" => selfpipe = "written")

----------------------------------------------------------------------------
(* EOF, exit status and CLOSE.                                             *)

Rank(p) == IF p.kind = "eof" THEN 1 ELSE IF p.kind = "status" THEN 2
           ELSE IF p.kind = "close" THEN 3 ELSE 0

Finales == {<<>>, <<"eof">>, <<"eof", "status">>, <<"eof", "status", "close">>}

\* How many of the three have been sent.
Reported == IF closesent THEN 3 ELSE IF eofsent THEN 1 ELSE 0

\* Those from number a to number b are in q, in order, and no other.
Ordered(q, a, b) ==
  /\ \A i \in 1..Len(q) : Rank(q[i]) # 0 => Rank(q[i]) \in (a + 1)..b
  /\ \A i, j \in 1..Len(q) :
       i < j /\ Rank(q[i]) # 0 /\ Rank(q[j]) # 0 => Rank(q[i]) < Rank(q[j])
  /\ \A r \in (a + 1)..b : \E i \in 1..Len(q) : Rank(q[i]) = r

\* No data follow them.
NoDataAfter(q, received) ==
  /\ received => \A j \in 1..Len(q) : Rank(q[j]) # 0
  /\ \A i, j \in 1..Len(q) : i < j /\ Rank(q[i]) # 0 => Rank(q[j]) # 0

EndsOrdered ==
  /\ finale \in Finales /\ Len(finale) <= Reported
  /\ closesent => eofsent
  /\ eofsent => closesent \/ closegot
  /\ Ordered(Under, Len(finale), Reported)
  /\ ~cclose => NoDataAfter(Under, finale # <<>>)
  /\ ~late

----------------------------------------------------------------------------
(* The output of the child.                                                *)

Bytes(p, stream) == IF p.kind = stream THEN p.n ELSE 0

\* After `from' bytes of the stream, and the packets of q one by one, there
\* are `to'; all of them before EOF.
Carries(q, stream, from, to, whole) ==
  \E sum \in [1..(Len(q) + 1) -> Nat] :
    /\ sum[1] = from /\ sum[Len(q) + 1] = to
    /\ \A i \in 1..Len(q) : sum[i + 1] = sum[i] + Bytes(q[i], stream)
    /\ whole => \A i \in 1..Len(q) : Rank(q[i]) # 0 => sum[i] = to

\* Nobody has cut the output short.
Whole == ~cclose /\ ~(tty /\ ceof)

\* Why a descriptor for output is closed or about to be.
Drained(stream, pipe) == (stream \notin ends /\ pipe = 0) \/ (tty /\ ceof)
Ending(stream, pipe)  == pipe > 0 \/ stream \notin ends \/ (tty /\ ceof)

Drain ==
  /\ pid # "none" /\ ~fd1 => Drained("out", outpipe)
  /\ pid # "none" /\ ~fd2 => Drained("err", errpipe)
  /\ pc \in {"write", "out"} /\ "out" \in watch => Ending("out", outpipe)
  /\ pc \in {"write", "out", "err"} /\ "err" \in watch => Ending("err", errpipe)
  /\ pid # "none" /\ ~fd0 /\ ~Over => remoteeof

Flow ==
  /\ Carries(Under, "out", got["out"], made["out"] - outpipe, Whole)
  /\ Carries(Under, "err", got["err"], made["err"] - errpipe, Whole)
  /\ finale # <<>> /\ Whole => got = made

----------------------------------------------------------------------------

Control  == TypeOK /\ Counted /\ Known /\ Due /\ Crossing
PosixInv == Control /\ Watched /\ EndsOrdered /\ Drain /\ Flow

=============================================================================
