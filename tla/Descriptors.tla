----------------------------- MODULE Descriptors -----------------------------
(* The functions that open descriptors one after the other and give back what
   they have opened when a later call fails, and what a child has of them when
   it executes its program.  A function is the sequence of its calls: one opens,
   one may only fail, one closes; undo is what is closed when it fails. *)
EXTENDS Calls

CONSTANTS MaxFd,     \* the highest number of a descriptor
          MaxOther   \* the highest number in use before

\* There is room for three pipes; a call that finds none fails.
ASSUME FdAssumption == /\ MaxFd \in Nat /\ MaxOther \in Nat
                       /\ MaxOther >= 2 /\ MaxFd >= MaxOther + 6

Open(what, undo) == [opens |-> what, closes |-> {}, undo |-> undo]
Try(undo)        == [opens |-> {}, closes |-> {}, undo |-> undo]
Close(what)      == [opens |-> {}, closes |-> what, undo |-> {}]
\* The calls of a function that is called by another one, which closes more.
Also(calls, more) == [i \in DOMAIN calls |-> [calls[i] EXCEPT !.undo = @ \cup more]]

\* What is open after n calls; no name is given to two descriptors.
After(open, calls, n) ==
  (open \cup UNION {calls[i].opens : i \in 1 .. n})
    \ UNION {calls[i].closes : i \in 1 .. n}
\* What is open when call k fails, or in the end when k is one more.
Left(open, calls, k) ==
  After(open, calls, k - 1) \ (IF k > Len(calls) THEN {} ELSE calls[k].undo)
-----------------------------------------------------------------------------
(* The functions. *)
\* socket, bind, listen, getsockname, socket, connect, accept.
socketpair_tcpMutant(l, c, a) ==
  LET err == {l, c, a}
  IN <<Open({l}, {}), Try(err), Try(err), Try(err), Open({c}, err), Try(err),
       Open({a}, err)>>
socketpair_tcp(l, c, a) ==
  LET err == {l, c, a}
  IN <<Open({l}, {}), Try(err), Try(err), Try(err), Open({c}, err), Try(err),
       Open({a}, err), Close({l})>>
\* Two pairs, the arguments, a copy of the command, which may be missing
\* without an error, and the task.
port_exec(copied) ==
  LET ins == {"in0", "in1"}  outs == {"out0", "out1"}
      cmd == IF copied THEN {"cmd"} ELSE {}
  IN socketpair_tcp("l0", "in0", "in1")
     \o Also(socketpair_tcp("l1", "out0", "out1"), ins)
     \o <<Open({"args"} \cup cmd, ins \cup outs),
          Try(ins \cup outs \cup {"args"} \cup cmd)>>
open_pipe(r, w, undo) == <<Open({r, w}, undo)>>
\* Three pipes: the parent keeps pa, the child ch.
PipePa == <<"pa0", "pa1", "pa2">>  PipeCh == <<"ch0", "ch1", "ch2">>
Pairs6 == Range(PipePa) \cup Range(PipeCh)
channel_fork == open_pipe(PipePa[1], PipeCh[1], Pairs6)
                \o open_pipe(PipePa[2], PipeCh[2], Pairs6)
                \o open_pipe(PipePa[3], PipeCh[3], Pairs6)
                \o <<Try(Pairs6), Close(Range(PipeCh))>>
\* One of two devices, grantpt, unlockpt, ptsname and the other side.
openpty_ == <<Open({"master"}, {}), Try({"master"}), Try({"master"}), Try({"master"}),
              Open({"slave"}, {"master"})>>
channel_openpty == openpty_ \o <<Try({"master", "slave"})>>
\* With both sides open: ttyname, fork; the slave is the child's.
channel_forkpty == <<Try({}), Try({"master", "slave"}), Close({"slave"})>>
\* fork, the pipe's end, readall, and waitpid without a descriptor.
subprocess_sign == open_pipe("r", "w", {}) \o <<Try({"r", "w"}), Close({"w"}), Try({"r"}),
                                            Close({"r"}), Try({})>>
load == <<Open({"fd"}, {}), Try({"fd"}), Close({"fd"})>>
savesync == <<Open({"fd"}, {}), Try({"fd"}), Try({"fd"}), Close({"fd"})>>

Functions == {"socketpair_tcp", "port_exec", "channel_fork", "channel_openpty",
              "channel_forkpty", "subprocess_sign", "load", "savesync"}
CallsOf(f, copied) ==
  CASE f = "socketpair_tcp" -> socketpair_tcp("l", "c", "a")
    [] f = "port_exec" -> port_exec(copied)     [] f = "channel_fork" -> channel_fork
    [] f = "channel_openpty" -> channel_openpty [] f = "channel_forkpty" -> channel_forkpty
    [] f = "subprocess_sign" -> subprocess_sign [] f = "load" -> load
    [] f = "savesync" -> savesync
Before(f) == IF f = "channel_forkpty" THEN {"master", "slave"} ELSE {}
-----------------------------------------------------------------------------
(* The child, with the numbers of its descriptors: t is a function from the ones
   in use.  The lowest free number is taken; 0, 1 and 2 are the server's. *)
Lowest(t) == Min((0 .. MaxFd) \ DOMAIN t)
Numbered(t, n, what) == [i \in DOMAIN t \cup {n} |-> IF i = n THEN what ELSE t[i]]
Freed(t, n) == [i \in DOMAIN t \ {n} |-> t[i]]
Opened(t, what) == Numbered(t, Lowest(t), what)
FdOf(t, what) == CHOOSE n \in DOMAIN t : t[n] = what

\* The numbers in use before: the connection and, above, other descriptors.
Served(others) == [n \in 0 .. 2 \cup others |-> IF n <= 2 THEN "net" ELSE "other"]
\* pipe gives the end to read first; the parent writes to the first pipe only.
Pipe(t, one, two) == Opened(Opened(t, one), two)
AllPipes(t) ==
  Pipe(Pipe(Pipe(t, PipeCh[1], PipePa[1]), PipePa[2], PipeCh[2]), PipePa[3], PipeCh[3])
\* close(pa[i]); close(i); dup(ch[i]) has to be i.
Dup(t, i) ==
  LET u == Freed(Freed(t, FdOf(t, PipePa[i + 1])), i) IN Opened(u, PipeCh[i + 1])
ForkChild(t) == Dup(Dup(Dup(t, 0), 1), 2)
\* close(master); dup2 three times; the slave itself goes when it is above.
PtyChild(t) ==
  LET u == Freed(t, FdOf(t, "master"))
      s == FdOf(u, "slave")
      v == Numbered(Numbered(Numbered(u, 0, "slave"), 1, "slave"), 2, "slave")
  IN IF s > 2 THEN Freed(v, s) ELSE v
\* Pipes are opened with FD_CLOEXEC, which dup does not copy; a terminal is not.
Execed(t, pty) == IF pty THEN [n \in {m \in DOMAIN t : t[m] # "other"} |-> t[n]]
                  ELSE [n \in {m \in DOMAIN t : m <= 2} |-> t[n]]
-----------------------------------------------------------------------------
CallOpening == Idle /\ \E f \in Functions, copied \in BOOLEAN :
  \E k \in {i \in 1 .. Len(CallsOf(f, copied)) + 1 :
              i <= Len(CallsOf(f, copied)) => CallsOf(f, copied)[i].closes = {}} :
    Call([of |-> "opening", f |-> f, ok |-> k > Len(CallsOf(f, copied)), copied |-> copied,
          call |-> k, out |-> Left(Before(f), CallsOf(f, copied), k)])
CallFork == Idle /\ \E others \in SUBSET (3 .. MaxOther) :
  Call([of |-> "fork", out |-> Execed(ForkChild(AllPipes(Served(others))), FALSE)])
CallForkpty == Idle /\ \E others \in SUBSET (3 .. MaxOther) :
  Call([of |-> "forkpty",
        out |-> Execed(PtyChild(Opened(Opened(Served(others), "master"), "slave")), TRUE)])
DescriptorsNext == CallOpening \/ CallFork \/ CallForkpty
DescriptorsSpec == Idle /\ [][DescriptorsNext]_job
-----------------------------------------------------------------------------
\* What a function is to hand over, and what it may leave: ttyname of a slave
\* that fails a second time (channel_forkpty.c:123) leaves the terminal open.
Meant == [socketpair_tcp |-> {"c", "a"},
          channel_fork |-> Range(PipePa), channel_openpty |-> {"master", "slave"},
          channel_forkpty |-> {"master"}, subprocess_sign |-> {}, load |-> {}, savesync |-> {}]
MeantBy(f, copied) ==
  IF f = "port_exec" THEN {"in0", "in1", "out0", "out1", "args"} \cup
                          (IF copied THEN {"cmd"} ELSE {})
  ELSE Meant[f]

\* Whichever call of a function fails, nothing stays open that it has opened,
\* and without a failure exactly what the caller gets; a child executes its
\* program with its ends of the pipes, or the terminal, as 0, 1 and 2 and with
\* no other descriptor of the session, however the numbers fell out.
NothingLeft ==
  /\ Called("opening") =>
       job.out = IF job.ok THEN MeantBy(job.f, job.copied)
                 ELSE IF job.f = "channel_forkpty" /\ job.call = 1 THEN Before(job.f)
                 ELSE {}
  /\ Called("fork") => job.out = [n \in 0 .. 2 |-> PipeCh[n + 1]]
  /\ Called("forkpty") => job.out = [n \in 0 .. 2 |-> "slave"]
=============================================================================
