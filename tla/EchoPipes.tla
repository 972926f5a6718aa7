----------------------------- MODULE EchoPipes -----------------------------
(***************************************************************************)
(* The two socket pairs between a session and its interpreter task, as     *)
(* small as they really are (module Channel takes them to be unbounded).   *)
(*                                                                         *)
(* Both tasks block in the kernel: channel_exec never makes its sockets    *)
(* non-blocking, so channel_write's write() returns when all of buf0 has   *)
(* been taken, and the interpreter's send() when its reply has.  Bytes are *)
(* counted, as in Channel.                                                 *)
(***************************************************************************)
EXTENDS Integers

CONSTANTS
  BufSize,    \* CHANNEL_BUFSIZE
  Cap,        \* bytes a socket pair holds in one direction
  Replies,    \* bytes the interpreter may print for one byte of input
  Banner,     \* bytes it prints at the start
  MaxWindow,  \* the credit a client has outstanding at most
  MaxInput,   \* bound: bytes the client sends
  MaxPrinted  \* bound: bytes the interpreter prints

ASSUME SizeAssumption == /\ BufSize \in Nat \ {0} /\ Cap \in Nat \ {0}
                         /\ MaxWindow \in Nat \ {0}
ASSUME ReplyAssumption == Replies \subseteq Nat \ {0} /\ Banner \in Nat
ASSUME BoundAssumption == /\ MaxInput \in Nat /\ MaxPrinted \in Nat
                          /\ Banner <= MaxPrinted

VARIABLES
  pc,            \* the session: "poll", "write", "read" or "recv"
  watch,         \* what the last poll() reported
  len0,          \* channel.len0
  pending,       \* bytes of the current write() not yet taken
  remotewindow,  \* channel.remotewindow
  inp, outp,     \* bytes in the sockets to and from the interpreter
  owed,          \* bytes of the interpreter's current send() not yet taken
  eaten,         \* bytes it has read
  printed,       \* bytes it has printed or begun to
  data, credit,  \* on the way to the server: bytes, window adjustments
  csent, cgot,   \* bytes the client has sent and received
  cgrant         \* credit it has given

sessionVars == <<pc, watch, len0, pending, remotewindow>>
childVars   == <<owed, eaten, printed>>
clientVars  == <<csent, cgrant>>
vars == <<sessionVars, inp, outp, childVars, data, credit, cgot, clientVars>>

Init == /\ pc = "poll" /\ watch = {} /\ len0 = 0 /\ pending = 0
        /\ remotewindow = 0 /\ inp = 0 /\ outp = 0
        /\ owed = Banner /\ eaten = 0 /\ printed = Banner
        /\ data = 0 /\ credit = 0 /\ csent = 0 /\ cgot = 0 /\ cgrant = 0

----------------------------------------------------------------------------
(* The session.                                                            *)

ReadIsReadyMutant == remotewindow > 1
ReadIsReady == remotewindow > 0

\* What poll() waits for and what it reports.
Ready == {w \in {"tochild", "fromchild", "recv"} :
            \/ w = "tochild"   /\ len0 > 0 /\ inp < Cap
            \/ w = "fromchild" /\ ReadIsReady /\ outp > 0
            \/ w = "recv"      /\ data + credit > 0}

Poll == /\ pc = "poll" /\ Ready # {}
        /\ watch' = Ready
        /\ IF "tochild" \in Ready THEN pc' = "write" /\ pending' = len0
                                  ELSE pc' = "read" /\ UNCHANGED pending
        /\ UNCHANGED <<len0, remotewindow, inp, outp, childVars, data, credit,
                       cgot, clientVars>>

\* The kernel takes some of what the blocked write() still has.
WriteSome == /\ pc = "write" /\ pending > 0
             /\ \E n \in 1..pending : /\ inp + n <= Cap
                                      /\ inp' = inp + n
                                      /\ pending' = pending - n
             /\ UNCHANGED <<pc, watch, len0, remotewindow, outp, childVars,
                            data, credit, cgot, clientVars>>

WrittenMutant(n) == n
\* len0 after write() has returned len0.
Written(n) == 0

WriteReturns == /\ pc = "write" /\ pending = 0
                /\ len0' = Written(len0) /\ pc' = "read"
                /\ UNCHANGED <<watch, pending, remotewindow, inp, outp,
                               childVars, data, credit, cgot, clientVars>>

\* channel_read asks for no more than the client's window.
ReadLimit == IF outp <= remotewindow THEN outp ELSE remotewindow

\* The data goes straight to the client.
ReadFromChild ==
  /\ pc = "read" /\ pc' = "recv"
  /\ IF "fromchild" \in watch
     THEN \E n \in 1..ReadLimit : /\ outp' = outp - n
                                  /\ remotewindow' = remotewindow - n
                                  /\ cgot' = cgot + n
     ELSE UNCHANGED <<outp, remotewindow, cgot>>
  /\ UNCHANGED <<watch, len0, pending, inp, childVars, data, credit,
                 clientVars>>

\* Some of what has arrived is received and processed.
Receive ==
  /\ pc = "recv" /\ pc' = "poll"
  /\ IF "recv" \in watch
     THEN \E d \in 0..data, c \in 0..credit :
            /\ d + c > 0
            /\ data' = data - d /\ len0' = len0 + d
            /\ credit' = credit - c /\ remotewindow' = remotewindow + c
     ELSE UNCHANGED <<data, len0, credit, remotewindow>>
  /\ UNCHANGED <<watch, pending, inp, outp, childVars, cgot, clientVars>>

Session == Poll \/ WriteSome \/ WriteReturns \/ ReadFromChild \/ Receive

----------------------------------------------------------------------------
(* The interpreter: recv() of one byte, then send() of what it prints.     *)

Eat == /\ owed = 0 /\ inp > 0
       /\ inp' = inp - 1 /\ eaten' = eaten + 1
       /\ \E n \in Replies : /\ printed + n <= MaxPrinted
                             /\ owed' = n /\ printed' = printed + n
       /\ UNCHANGED <<sessionVars, outp, data, credit, cgot, clientVars>>

PrintSome == /\ owed > 0
             /\ \E n \in 1..owed : /\ outp + n <= Cap
                                   /\ outp' = outp + n /\ owed' = owed - n
             /\ UNCHANGED <<sessionVars, inp, eaten, printed, data, credit,
                            cgot, clientVars>>

Interpreter == Eat \/ PrintSome

----------------------------------------------------------------------------
(* The client keeps to a window of BufSize bytes (how the server counts it *)
(* is the subject of Channel) and gives credit for what it has received.   *)

ClientData == /\ csent < MaxInput
              /\ data + len0 < BufSize
              /\ csent' = csent + 1 /\ data' = data + 1
              /\ UNCHANGED <<sessionVars, inp, outp, childVars, credit, cgot,
                             cgrant>>

ClientGrant == /\ cgrant - cgot < MaxWindow
               /\ cgrant < MaxPrinted
               /\ cgrant' = cgrant + 1 /\ credit' = credit + 1
               /\ UNCHANGED <<sessionVars, inp, outp, childVars, data, cgot,
                              csent>>

----------------------------------------------------------------------------
Next == Session \/ Interpreter \/ ClientData \/ ClientGrant

Spec == Init /\ [][Next]_vars

\* Tasks run when they are not blocked, and the client goes on reading.
FairSpec == /\ Spec
            /\ WF_vars(Session) /\ WF_vars(Interpreter)
            /\ WF_vars(ClientGrant)

----------------------------------------------------------------------------
(* Properties.                                                             *)

TypeOK ==
  /\ pc \in {"poll", "write", "read", "recv"}
  /\ watch \subseteq {"tochild", "fromchild", "recv"}
  /\ len0 \in Nat /\ pending \in 0..len0 /\ remotewindow \in Nat
  /\ inp \in 0..Cap /\ outp \in 0..Cap
  /\ owed \in Nat /\ eaten \in Nat /\ printed \in 0..MaxPrinted
  /\ data \in Nat /\ credit \in Nat
  /\ csent \in 0..MaxInput /\ cgot \in Nat /\ cgrant \in Nat

\* Every byte is counted once: what the client sent and what the interpreter
\* printed are in one of the buffers between them or have arrived.
Unwritten == IF pc = "write" THEN pending ELSE len0

Conservation == /\ csent = data + Unwritten + inp + eaten
                /\ printed = owed + outp + cgot

\* The session waits in channel_write for the interpreter to read, the
\* interpreter in send() for the session to read: no event ends that.
WriteBlocked == pc = "write" /\ pending > 0 /\ inp = Cap
SendBlocked  == owed > 0 /\ outp = Cap

NotMutuallyBlocked == ~(WriteBlocked /\ SendBlocked)

\* What the client types is read, and what is printed comes back.
EchoArrives ==
  /\ \A n \in 1..MaxInput : (csent >= n) ~> (eaten >= n)
  /\ \A n \in 1..MaxPrinted : (printed >= n) ~> (cgot >= n)

============================================================================
