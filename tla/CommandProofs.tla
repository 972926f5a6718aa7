--------------------------- MODULE CommandProofs ---------------------------
(***************************************************************************)
(* Proofs about Command: whatever the order of the processes, of power     *)
(* losses and of children that are killed, the pair of keys is whole or    *)
(* not there, a signature is that of the key it is for, no server is left  *)
(* waiting and identities are dropped before anything of the user's; and   *)
(* in whatever order variables are put, replaced or refused, the list of   *)
(* the environment holds each of them once, with its last value.  And      *)
(* about Descriptors: a function that fails leaves nothing open, and a     *)
(* child has its own descriptors and no others, whatever numbers were in   *)
(* use before.                                                             *)
(***************************************************************************)
EXTENDS Command, Descriptors, FiniteSetTheorems, WellFoundedInduction, TLAPS

(* The numbers of descriptors.                                             *)

\* A set of natural numbers has a least one: what is below it does not contain
\* what is below another one.
LEMMA Least ==
  ASSUME NEW S \in SUBSET Nat, S # {}
  PROVE  \E x \in S : \A y \in S : x <= y
<1> DEFINE T == {0 .. n - 1 : n \in S}
<1>1. T # {} /\ T \subseteq FiniteSubsetsOf(Nat)
  <2> SUFFICES ASSUME NEW n \in S PROVE 0 .. n - 1 \in FiniteSubsetsOf(Nat)
    OBVIOUS
  <2>1. IsFiniteSet(0 .. n - 1) BY FS_Interval
  <2> QED BY <2>1 DEF FiniteSubsetsOf
<1>2. PICK B \in T : \A C \in T : ~(<<C, B>> \in StrictSubsetOrdering(Nat))
  <2> HIDE DEF T
  <2> QED BY <1>1, WFMin, FS_StrictSubsetOrderingWellFounded
<1>3. PICK x \in S : B = 0 .. x - 1 OBVIOUS
<1>4. ASSUME NEW y \in S, y < x PROVE FALSE
  <2>1. 0 .. y - 1 \in T OBVIOUS
  <2>2. 0 .. y - 1 \subseteq 0 .. x - 1 /\ 0 .. y - 1 # 0 .. x - 1 BY <1>4
  <2>3. <<0 .. y - 1, 0 .. x - 1>> \in StrictSubsetOrdering(Nat)
    <3> DEFINE A == 0 .. y - 1  C == 0 .. x - 1
    <3>1. A \in SUBSET Nat /\ C \in SUBSET Nat OBVIOUS
    <3>2. A \subseteq C /\ A # C BY <2>2
    <3> HIDE DEF A, C
    <3>3. <<A, C>> \in (SUBSET Nat) \X (SUBSET Nat) BY <3>1
    <3>4. <<A, C>>[1] = A /\ <<A, C>>[2] = C OBVIOUS
    <3>5. <<A, C>> \in StrictSubsetOrdering(Nat)
      BY <3>2, <3>3, <3>4, Zenon DEF StrictSubsetOrdering
    <3> QED BY <3>5 DEF A, C
  <2> QED BY <2>1, <2>3, <1>2, <1>3
<1> QED BY <1>4

\* socket, pipe and open return the lowest number, which is there and free.
LEMMA LowestFree ==
  ASSUME NEW t, NEW b \in Nat, b < MaxFd, DOMAIN t \subseteq 0 .. b
  PROVE  Lowest(t) \in 0 .. b + 1 /\ Lowest(t) \notin DOMAIN t
<1> DEFINE F == (0 .. MaxFd) \ DOMAIN t
<1>1. F \in SUBSET Nat /\ b + 1 \in F
  BY FdAssumption
<1>2. \E x \in F : \A y \in F : x <= y
  <2> HIDE DEF F
  <2> QED BY <1>1, Least
<1>3. Lowest(t) \in F /\ \A y \in F : Lowest(t) <= y
  BY <1>2 DEF Lowest, Min
<1> QED BY <1>1, <1>3

\* dup after close: what was closed is the lowest free number.
LEMMA LowestIs ==
  ASSUME NEW t, NEW i \in 0 .. MaxFd, i \notin DOMAIN t, 0 .. i - 1 \subseteq DOMAIN t
  PROVE  Lowest(t) = i
<1>1. i \in (0 .. MaxFd) \ DOMAIN t /\ \A y \in (0 .. MaxFd) \ DOMAIN t : i <= y
  OBVIOUS
<1>2. \A x \in (0 .. MaxFd) \ DOMAIN t :
        (\A y \in (0 .. MaxFd) \ DOMAIN t : x <= y) => x = i
  BY <1>1
<1> QED BY <1>1, <1>2 DEF Lowest, Min

\* A server with descriptors of these names besides the connection and others,
\* each under one number.
Serves(t, b, names) ==
  /\ t \in [DOMAIN t -> {"net", "other"} \cup names]
  /\ DOMAIN t \subseteq 0 .. b /\ 0 .. 2 \subseteq DOMAIN t
  /\ \A n \in DOMAIN t : t[n] = "net" <=> n <= 2
  /\ \A w \in names : \E n \in DOMAIN t : t[n] = w
  /\ \A m, n \in DOMAIN t : t[m] = t[n] /\ t[m] \in names => m = n

LEMMA ServedServes ==
  ASSUME NEW others \in SUBSET (3 .. MaxOther) PROVE Serves(Served(others), MaxOther, {})
BY FdAssumption DEF Serves, Served

LEMMA OpenedServes ==
  ASSUME NEW t, NEW b \in Nat, b < MaxFd, NEW names, NEW w,
         Serves(t, b, names), w \notin names \cup {"net", "other"}
  PROVE  Serves(Opened(t, w), b + 1, names \cup {w})
<1> DEFINE l == Lowest(t)  u == Opened(t, w)
<1>1. l \in 0 .. b + 1 /\ l \notin DOMAIN t
  BY LowestFree DEF Serves
<1>2. u = [n \in DOMAIN t \cup {l} |-> IF n = l THEN w ELSE t[n]]
  BY DEF Opened, Numbered
<1>3. DOMAIN u = DOMAIN t \cup {l} /\ u[l] = w /\ \A n \in DOMAIN t : u[n] = t[n]
  BY <1>1, <1>2
<1>4. l > 2
  BY <1>1 DEF Serves
<1> HIDE DEF l, u
<1>5. u \in [DOMAIN u -> {"net", "other"} \cup names \cup {w}]
  BY <1>2, <1>3 DEF Serves
<1> SUFFICES Serves(u, b + 1, names \cup {w}) BY DEF u
<1>6. DOMAIN u \subseteq 0 .. b + 1 /\ 0 .. 2 \subseteq DOMAIN u
  BY <1>1, <1>3 DEF Serves
<1>7. ASSUME NEW n \in DOMAIN u PROVE u[n] = "net" <=> n <= 2
  <2>1. CASE n = l BY <1>1, <1>3, <1>4, <2>1
  <2>2. CASE n # l BY <1>3, <2>2 DEF Serves
  <2> QED BY <2>1, <2>2
<1>8. \A x \in names \cup {w} : \E n \in DOMAIN u : u[n] = x
  BY <1>3 DEF Serves
<1>9. \A m, n \in DOMAIN u : u[m] = u[n] /\ u[m] \in names \cup {w} => m = n
  BY <1>1, <1>3 DEF Serves
<1> QED BY <1>5, <1>6, <1>7, <1>8, <1>9 DEF Serves

\* With room for one more number.
LEMMA OneMore ==
  ASSUME NEW t, NEW b \in Nat, NEW names, NEW w, Serves(t, b, names),
         w \notin names \cup {"net", "other"}, b < MaxFd,
         NEW more, more = names \cup {w}, NEW up, up = b + 1
  PROVE  Serves(Opened(t, w), up, more)
BY OpenedServes

\* channel_fork: three pipes, six names.
LEMMA PipeNames ==
  /\ PipePa[1] = "pa0" /\ PipePa[2] = "pa1" /\ PipePa[3] = "pa2"
  /\ PipeCh[1] = "ch0" /\ PipeCh[2] = "ch1" /\ PipeCh[3] = "ch2"
BY DEF PipePa, PipeCh

LEMMA AllPipesServes ==
  ASSUME NEW others \in SUBSET (3 .. MaxOther)
  PROVE  Serves(AllPipes(Served(others)), MaxOther + 6,
                {"ch0", "pa0", "pa1", "ch1", "pa2", "ch2"})
<1> DEFINE t0 == Served(others)      t1 == Opened(t0, "ch0") t2 == Opened(t1, "pa0")
           t3 == Opened(t2, "pa1")   t4 == Opened(t3, "ch1") t5 == Opened(t4, "pa2")
           t6 == Opened(t5, "ch2")
<1>0. AllPipes(t0) = t6
  BY PipeNames DEF AllPipes, Pipe
<1> HIDE DEF t0, t1, t2, t3, t4, t5, t6
<1> USE FdAssumption
<1>1. Serves(t0, MaxOther, {}) BY ServedServes DEF t0
<1>2. Serves(t1, MaxOther + 1, {"ch0"})
  <2>1. {"ch0"} = {} \cup {"ch0"} /\ "ch0" \notin {} \cup {"net", "other"}
    OBVIOUS
  <2>2. /\ MaxOther \in Nat /\ MaxOther < MaxFd
        /\ MaxOther + 1 = MaxOther + 1
    OBVIOUS
  <2> QED BY <1>1, <2>1, <2>2, OneMore, Zenon DEF t1
<1>3. Serves(t2, MaxOther + 2, {"ch0", "pa0"})
  <2>1. {"ch0", "pa0"} = {"ch0"} \cup {"pa0"} /\ "pa0" \notin {"ch0"} \cup {"net", "other"}
    OBVIOUS
  <2>2. /\ MaxOther + 1 \in Nat /\ MaxOther + 1 < MaxFd
        /\ MaxOther + 2 = MaxOther + 1 + 1
    OBVIOUS
  <2> QED BY <1>2, <2>1, <2>2, OneMore, Zenon DEF t2
<1>4. Serves(t3, MaxOther + 3, {"ch0", "pa0", "pa1"})
  <2>1. {"ch0", "pa0", "pa1"} = {"ch0", "pa0"} \cup {"pa1"} /\ "pa1" \notin {"ch0", "pa0"} \cup {"net", "other"}
    OBVIOUS
  <2>2. /\ MaxOther + 2 \in Nat /\ MaxOther + 2 < MaxFd
        /\ MaxOther + 3 = MaxOther + 2 + 1
    OBVIOUS
  <2> QED BY <1>3, <2>1, <2>2, OneMore, Zenon DEF t3
<1>5. Serves(t4, MaxOther + 4, {"ch0", "pa0", "pa1", "ch1"})
  <2>1. {"ch0", "pa0", "pa1", "ch1"} = {"ch0", "pa0", "pa1"} \cup {"ch1"} /\ "ch1" \notin {"ch0", "pa0", "pa1"} \cup {"net", "other"}
    OBVIOUS
  <2>2. /\ MaxOther + 3 \in Nat /\ MaxOther + 3 < MaxFd
        /\ MaxOther + 4 = MaxOther + 3 + 1
    OBVIOUS
  <2> QED BY <1>4, <2>1, <2>2, OneMore, Zenon DEF t4
<1>6. Serves(t5, MaxOther + 5, {"ch0", "pa0", "pa1", "ch1", "pa2"})
  <2>1. {"ch0", "pa0", "pa1", "ch1", "pa2"} = {"ch0", "pa0", "pa1", "ch1"} \cup {"pa2"} /\ "pa2" \notin {"ch0", "pa0", "pa1", "ch1"} \cup {"net", "other"}
    OBVIOUS
  <2>2. /\ MaxOther + 4 \in Nat /\ MaxOther + 4 < MaxFd
        /\ MaxOther + 5 = MaxOther + 4 + 1
    OBVIOUS
  <2> QED BY <1>5, <2>1, <2>2, OneMore, Zenon DEF t5
<1>7. Serves(t6, MaxOther + 6, {"ch0", "pa0", "pa1", "ch1", "pa2", "ch2"})
  <2>1. {"ch0", "pa0", "pa1", "ch1", "pa2", "ch2"} = {"ch0", "pa0", "pa1", "ch1", "pa2"} \cup {"ch2"} /\ "ch2" \notin {"ch0", "pa0", "pa1", "ch1", "pa2"} \cup {"net", "other"}
    OBVIOUS
  <2>2. /\ MaxOther + 5 \in Nat /\ MaxOther + 5 < MaxFd
        /\ MaxOther + 6 = MaxOther + 5 + 1
    OBVIOUS
  <2> QED BY <1>6, <2>1, <2>2, OneMore, Zenon DEF t6
<1> QED BY <1>0, <1>7 DEF t0

\* The child before its turn i: its own ends below i, the connection from there
\* on, and the parent's ends still open.
Dupped(t, i) ==
  /\ 0 .. 2 \subseteq DOMAIN t /\ DOMAIN t \subseteq Nat
  /\ \A n \in 0 .. 2 : t[n] = IF n < i THEN PipeCh[n + 1] ELSE "net"
  /\ \A j \in i .. 2 : \E n \in DOMAIN t : t[n] = PipePa[j + 1]

LEMMA DupStep ==
  ASSUME NEW t, NEW i \in 0 .. 2, Dupped(t, i) PROVE Dupped(Dup(t, i), i + 1)
<1> DEFINE p == FdOf(t, PipePa[i + 1])  u == Freed(Freed(t, p), i)
           v == Numbered(u, i, PipeCh[i + 1])
<1>0. /\ \A n, m \in 1 .. 3 : PipePa[n] # PipeCh[m] /\ PipePa[n] # "net"
      /\ \A n, m \in 1 .. 3 : n # m => PipePa[n] # PipePa[m]
  BY PipeNames
<1>1. p \in DOMAIN t /\ t[p] = PipePa[i + 1]
  <2>1. \E n \in DOMAIN t : t[n] = PipePa[i + 1] BY DEF Dupped
  <2> QED BY <2>1 DEF FdOf
<1>2. p \notin 0 .. 2
  BY <1>0, <1>1 DEF Dupped
<1> HIDE DEF p
<1>3. DOMAIN u = DOMAIN t \ {p, i} /\ \A n \in DOMAIN u : u[n] = t[n]
  BY DEF Freed
<1>4. Lowest(u) = i
  BY <1>2, <1>3, FdAssumption, LowestIs DEF Dupped
<1>5. Dup(t, i) = v
  BY <1>4 DEF Dup, Opened, p
<1> HIDE DEF u
<1>6. /\ DOMAIN v = DOMAIN u \cup {i} /\ v[i] = PipeCh[i + 1]
      /\ \A n \in DOMAIN u : n # i => v[n] = u[n]
  BY DEF Numbered
<1> HIDE DEF v
<1>7. 0 .. 2 \subseteq DOMAIN v /\ DOMAIN v \subseteq Nat
  BY <1>2, <1>3, <1>6 DEF Dupped
<1>8. \A n \in 0 .. 2 : v[n] = IF n < i + 1 THEN PipeCh[n + 1] ELSE "net"
  BY <1>2, <1>3, <1>6 DEF Dupped
<1>9. ASSUME NEW j \in i + 1 .. 2 PROVE \E n \in DOMAIN v : v[n] = PipePa[j + 1]
  <2>1. PICK n \in DOMAIN t : t[n] = PipePa[j + 1] BY DEF Dupped
  <2>2. n # p BY <1>0, <1>1, <2>1
  <2>3. n \notin 0 .. 2 BY <1>0, <2>1 DEF Dupped
  <2> QED BY <1>3, <1>6, <2>1, <2>2, <2>3
<1> QED BY <1>5, <1>7, <1>8, <1>9 DEF Dupped

LEMMA ForkedChild ==
  ASSUME NEW others \in SUBSET (3 .. MaxOther)
  PROVE  Execed(ForkChild(AllPipes(Served(others))), FALSE) = [n \in 0 .. 2 |-> PipeCh[n + 1]]
<1> DEFINE t == AllPipes(Served(others))  u == ForkChild(t)
<1>1. Dupped(t, 0)
  <2> HIDE DEF t
  <2>1. Serves(t, MaxOther + 6, {"ch0", "pa0", "pa1", "ch1", "pa2", "ch2"})
    BY AllPipesServes DEF t
  <2>2. \A j \in 0 .. 2 : PipePa[j + 1] \in {"ch0", "pa0", "pa1", "ch1", "pa2", "ch2"}
    BY PipeNames
  <2> QED BY <2>1, <2>2 DEF Serves, Dupped
<1> HIDE DEF t
<1>2. Dupped(u, 3)
  <2> DEFINE v == Dup(t, 0) w == Dup(v, 1) x == Dup(w, 2)
  <2> HIDE DEF v, w, x
  <2>1. Dupped(v, 0 + 1) BY <1>1, DupStep DEF v
  <2>2. Dupped(v, 1) BY <2>1
  <2>3. Dupped(w, 1 + 1) BY <2>2, DupStep DEF w
  <2>4. Dupped(w, 2) BY <2>3
  <2>5. Dupped(x, 2 + 1) BY <2>4, DupStep DEF x
  <2>6. u = x BY DEF ForkChild, v, w, x
  <2> QED BY <2>5, <2>6
<1> HIDE DEF u
<1>3. {m \in DOMAIN u : m <= 2} = 0 .. 2
  BY <1>2 DEF Dupped
<1>4. \A n \in 0 .. 2 : u[n] = PipeCh[n + 1]
  BY <1>2 DEF Dupped
<1>5. Execed(u, FALSE) = [n \in 0 .. 2 |-> u[n]]
  BY <1>3 DEF Execed
<1> QED BY <1>4, <1>5 DEF u, t

LEMMA ForkedPty ==
  ASSUME NEW others \in SUBSET (3 .. MaxOther)
  PROVE  Execed(PtyChild(Opened(Opened(Served(others), "master"), "slave")), TRUE)
           = [n \in 0 .. 2 |-> "slave"]
<1> DEFINE t0 == Served(others)  t1 == Opened(t0, "master")  t == Opened(t1, "slave")
<1>1. Serves(t, MaxOther + 1 + 1, {} \cup {"master"} \cup {"slave"})
  <2> HIDE DEF t0, t1, t
  <2>1. Serves(t0, MaxOther, {}) BY ServedServes DEF t0
  <2>2. Serves(t1, MaxOther + 1, {} \cup {"master"})
    BY <2>1, FdAssumption, OpenedServes DEF t1
  <2>3. "slave" \notin {} \cup {"master"} \cup {"net", "other"} OBVIOUS
  <2>4. MaxOther + 1 \in Nat /\ MaxOther + 1 < MaxFd BY FdAssumption
  <2> QED BY <2>2, <2>3, <2>4, OpenedServes DEF t
<1> SUFFICES Execed(PtyChild(t), TRUE) = [n \in 0 .. 2 |-> "slave"]
  OBVIOUS
<1> HIDE DEF t
<1> DEFINE p == FdOf(t, "master")  u == Freed(t, p)  s == FdOf(u, "slave")
           v == Numbered(Numbered(Numbered(u, 0, "slave"), 1, "slave"), 2, "slave")
<1>2. p \in DOMAIN t /\ t[p] = "master"
  <2>1. \E n \in DOMAIN t : t[n] = "master" BY <1>1 DEF Serves
  <2> QED BY <2>1 DEF FdOf
<1> HIDE DEF p
<1>3. DOMAIN u = DOMAIN t \ {p} /\ \A n \in DOMAIN u : u[n] = t[n]
  BY DEF Freed
<1> HIDE DEF u
<1>4. s \in DOMAIN u /\ u[s] = "slave"
  <2>1. \E n \in DOMAIN t : t[n] = "slave" BY <1>1 DEF Serves
  <2>2. \E n \in DOMAIN u : u[n] = "slave" BY <1>2, <1>3, <2>1
  <2> QED BY <2>2 DEF FdOf
<1> HIDE DEF s
<1>5. s > 2 /\ s \in Nat
  BY <1>1, <1>3, <1>4 DEF Serves
<1>6. /\ DOMAIN v = DOMAIN u \cup 0 .. 2
      /\ \A n \in 0 .. 2 : v[n] = "slave"
      /\ \A n \in DOMAIN u \ (0 .. 2) : v[n] = u[n]
  BY DEF Numbered
<1>7. PtyChild(t) = Freed(v, s)
  BY <1>5 DEF PtyChild, p, u, s
<1> HIDE DEF v
<1> DEFINE w == Freed(v, s)
<1>8. DOMAIN w = DOMAIN v \ {s} /\ \A n \in DOMAIN w : w[n] = v[n]
  BY DEF Freed
<1> HIDE DEF w
<1>9. \A n \in DOMAIN u : n \notin 0 .. 2 /\ n # s => u[n] = "other"
  BY <1>1, <1>2, <1>3, <1>4 DEF Serves
<1>10. {m \in DOMAIN w : w[m] # "other"} = 0 .. 2 /\ \A n \in 0 .. 2 : w[n] = "slave"
  BY <1>5, <1>6, <1>8, <1>9
<1>11. Execed(w, TRUE) = [n \in 0 .. 2 |-> w[n]]
  BY <1>10 DEF Execed
<1> QED BY <1>7, <1>10, <1>11 DEF w

-----------------------------------------------------------------------------
(* What the functions leave open.                                          *)

USE DEF Open, Try, Close

\* What call k gives back when it fails covers what is open.
LEMMA FailureCovered ==
  ASSUME NEW open, NEW calls, NEW k \in 1 .. Len(calls), open \subseteq calls[k].undo,
         \A i \in 1 .. k - 1 : \A d \in calls[i].opens :
           d \in calls[k].undo \/ \E j \in 1 .. k - 1 : d \in calls[j].closes
  PROVE  Left(open, calls, k) = {}
<1> SUFFICES ASSUME NEW d \in After(open, calls, k - 1), d \notin calls[k].undo PROVE FALSE
  BY DEF Left
<1>1. PICK i \in 1 .. k - 1 : d \in calls[i].opens
  BY DEF After
<1>2. PICK j \in 1 .. k - 1 : d \in calls[j].closes
  BY <1>1
<1> QED BY <1>2 DEF After

\* A function that leaves nothing when it fails, and this when it does not.
Clean(open, calls, meant) ==
  /\ Len(calls) \in Nat
  /\ \A k \in 1 .. Len(calls) : calls[k].closes = {} => Left(open, calls, k) = {}
  /\ Left(open, calls, Len(calls) + 1) = meant

LEMMA SocketpairClean ==
  ASSUME NEW l, NEW c, NEW a, l # c, l # a
  PROVE Clean({}, socketpair_tcp(l, c, a), {c, a})
<1> DEFINE s == socketpair_tcp(l, c, a)  err == {l, c, a}
<1>1. /\ Len(s) = 8 /\ s[1] = Open({l}, {}) /\ s[2] = Try(err) /\ s[3] = Try(err)
      /\ s[4] = Try(err) /\ s[5] = Open({c}, err) /\ s[6] = Try(err)
      /\ s[7] = Open({a}, err) /\ s[8] = Close({l})
  BY DEF socketpair_tcp
<1> HIDE DEF s
<1>2. \A i \in 1 .. 8 : /\ s[i].opens \subseteq err
                        /\ (i # 8 => s[i].closes = {}) /\ (i \in 2 .. 7 => s[i].undo = err)
  BY <1>1
<1>3. ASSUME NEW k \in 1 .. 8, s[k].closes = {} PROVE Left({}, s, k) = {}
  <2>1. k # 8 BY <1>1, <1>3
  <2>2. \A i \in 1 .. k - 1 : s[i].opens \subseteq s[k].undo BY <1>2, <2>1
  <2> HIDE DEF err
  <2> QED BY <1>1, <2>2, FailureCovered
<1>4. Left({}, s, 9) = {c, a}
  <2>1. UNION {s[i].opens : i \in 1 .. 8} = {l, c, a}
    BY <1>1
  <2>2. UNION {s[i].closes : i \in 1 .. 8} = {l}
    BY <1>1
  <2> QED BY <1>1, <2>1, <2>2 DEF Left, After
<1>6. \A k \in 1 .. Len(s) : s[k].closes = {} => Left({}, s, k) = {}
  BY <1>1, <1>3
<1>7. Left({}, s, Len(s) + 1) = {c, a}
  BY <1>1, <1>4
<1> QED BY <1>6, <1>7 DEF Clean, s

LEMMA LoadClean == Clean({}, load, {})
<1>1. /\ Len(load) = 3 /\ load[1] = Open({"fd"}, {}) /\ load[2] = Try({"fd"})
      /\ load[3] = Close({"fd"})
  BY DEF load
<1> QED BY <1>1 DEF Clean, Left, After

LEMMA SavesyncClean == Clean({}, savesync, {})
<1>1. /\ Len(savesync) = 4 /\ savesync[1] = Open({"fd"}, {}) /\ savesync[2] = Try({"fd"})
      /\ savesync[3] = Try({"fd"}) /\ savesync[4] = Close({"fd"})
  BY DEF savesync
<1> QED BY <1>1 DEF Clean, Left, After

\* channel_forkpty gives the terminal it was called with back, or keeps both
\* sides when its first call fails.
LEMMA ForkptyClean ==
  /\ Len(channel_forkpty) = 3 /\ channel_forkpty[3].closes # {}
  /\ Left(Before("channel_forkpty"), channel_forkpty, 1) = Before("channel_forkpty")
  /\ Left(Before("channel_forkpty"), channel_forkpty, 2) = {}
  /\ Left(Before("channel_forkpty"), channel_forkpty, 4) = {"master"}
<1>1. /\ Len(channel_forkpty) = 3 /\ channel_forkpty[1] = Try({})
      /\ channel_forkpty[2] = Try({"master", "slave"}) /\ channel_forkpty[3] = Close({"slave"})
  BY DEF channel_forkpty
<1> QED BY <1>1 DEF Left, After, Before

LEMMA OpenptyClean == Clean({}, channel_openpty, {"master", "slave"})
<1>1. /\ Len(channel_openpty) = 6
      /\ channel_openpty[1] = Open({"master"}, {}) /\ channel_openpty[2] = Try({"master"})
      /\ channel_openpty[3] = Try({"master"}) /\ channel_openpty[4] = Try({"master"})
      /\ channel_openpty[5] = Open({"slave"}, {"master"})
      /\ channel_openpty[6] = Try({"master", "slave"})
  BY DEF channel_openpty, openpty_
<1> QED BY <1>1 DEF Clean, Left, After

LEMMA SignClean == Clean({}, subprocess_sign, {})
<1> DEFINE s == subprocess_sign
<1>1. /\ Len(s) = 6 /\ s[1] = Open({"r", "w"}, {}) /\ s[2] = Try({"r", "w"})
      /\ s[3] = Close({"w"}) /\ s[4] = Try({"r"}) /\ s[5] = Close({"r"}) /\ s[6] = Try({})
  <2> HIDE DEF s
  <2> DEFINE a == Open({"r", "w"}, {})  b == Try({"r", "w"})  c == Close({"w"})
             d == Try({"r"})  x == Close({"r"})  y == Try({})
             calls == <<a>> \o <<b, c, d, x, y>>
  <2>1. s = calls
    BY Zenon DEF s, subprocess_sign, open_pipe
  <2> HIDE DEF a, b, c, d, x, y
  <2>2. /\ Len(calls) = 6 /\ calls[1] = a /\ calls[2] = b /\ calls[3] = c
        /\ calls[4] = d /\ calls[5] = x /\ calls[6] = y
    OBVIOUS
  <2> HIDE DEF calls
  <2> QED BY <2>1, <2>2, Zenon DEF a, b, c, d, x, y
<1> HIDE DEF s
<1>2. After({}, s, 0) = {} /\ After({}, s, 1) \subseteq {"r", "w"}
  BY <1>1 DEF After
<1>3. After({}, s, 3) \subseteq {"r"}
  BY <1>1 DEF After
<1>4. After({}, s, 5) = {}
  BY <1>1 DEF After
<1>5. After({}, s, 6) = {}
  BY <1>1 DEF After
<1>6. ASSUME NEW k \in 1 .. 6, s[k].closes = {} PROVE Left({}, s, k) = {}
  <2>1. k \in {1, 2, 4, 6} BY <1>1, <1>6
  <2> QED BY <1>1, <1>2, <1>3, <1>4, <2>1 DEF Left
<1>7. Left({}, s, 7) = {}
  BY <1>1, <1>5 DEF Left
<1> QED BY <1>1, <1>6, <1>7 DEF Clean, s

LEMMA ChannelForkClean == Clean({}, channel_fork, {"pa0", "pa1", "pa2"})
<1> DEFINE s == channel_fork  all == {"pa0", "pa1", "pa2", "ch0", "ch1", "ch2"}
<1>1. /\ PipePa[1] = "pa0" /\ PipePa[2] = "pa1" /\ PipePa[3] = "pa2"
      /\ PipeCh[1] = "ch0" /\ PipeCh[2] = "ch1" /\ PipeCh[3] = "ch2"
  BY DEF PipePa, PipeCh
<1>2. Pairs6 = all /\ Range(PipeCh) = {"ch0", "ch1", "ch2"}
  BY DEF Pairs6, PipePa, PipeCh, Range, all
<1> HIDE DEF all
<1>5. /\ Len(s) = 5
      /\ s[1] = Open({"pa0", "ch0"}, all) /\ s[2] = Open({"pa1", "ch1"}, all)
      /\ s[3] = Open({"pa2", "ch2"}, all) /\ s[4] = Try(all)
      /\ s[5] = Close({"ch0", "ch1", "ch2"})
  <2> HIDE DEF s
  <2> DEFINE a == Open({"pa0", "ch0"}, all)  b == Open({"pa1", "ch1"}, all)
             c == Open({"pa2", "ch2"}, all)
             d == Try(all)  x == Close({"ch0", "ch1", "ch2"})
             calls == <<a>> \o <<b>> \o <<c>> \o <<d, x>>
  <2>1. s = calls
    BY <1>1, <1>2, Zenon DEF s, channel_fork, open_pipe
  <2> HIDE DEF a, b, c, d, x
  <2>2. /\ Len(calls) = 5 /\ calls[1] = a /\ calls[2] = b /\ calls[3] = c
        /\ calls[4] = d /\ calls[5] = x
    OBVIOUS
  <2> HIDE DEF calls
  <2> QED BY <2>1, <2>2, Zenon DEF a, b, c, d, x
<1> HIDE DEF s
<1>6. ASSUME NEW k \in 1 .. 5, s[k].closes = {} PROVE Left({}, s, k) = {}
  <2>1. k # 5 BY <1>5, <1>6
  <2>2. s[k].undo = all /\ \A i \in 1 .. k - 1 : s[i].opens \subseteq all
    BY <1>5, <2>1 DEF all
  <2> QED BY <1>5, <2>2, FailureCovered
<1>7. Left({}, s, 6) = {"pa0", "pa1", "pa2"}
  <2>1. UNION {s[i].opens : i \in 1 .. 5} = all
    BY <1>5 DEF all
  <2>2. UNION {s[i].closes : i \in 1 .. 5} = {"ch0", "ch1", "ch2"}
    BY <1>5
  <2> QED BY <1>5, <2>1, <2>2 DEF Left, After, all
<1> QED BY <1>5, <1>6, <1>7 DEF Clean, s

\* Calls 1 to 8 are the first pair, 9 to 16 the second, which close the first
\* one too; then the arguments and the task.
LEMMA PortExecClean ==
  ASSUME NEW copied \in BOOLEAN
  PROVE  Clean({}, port_exec(copied), MeantBy("port_exec", copied))
<1> DEFINE s == port_exec(copied)
           cmd == IF copied THEN {"cmd"} ELSE {}
           ins == {"l0", "in0", "in1"}  outs == {"l1", "out0", "out1", "in0", "in1"}
           all == {"in0", "in1", "out0", "out1", "args"} \cup cmd
<1>1. /\ Len(s) = 18
      /\ s[1] = Open({"l0"}, {}) /\ s[2] = Try(ins) /\ s[3] = Try(ins) /\ s[4] = Try(ins)
      /\ s[5] = Open({"in0"}, ins) /\ s[6] = Try(ins) /\ s[7] = Open({"in1"}, ins)
      /\ s[8] = Close({"l0"})
  BY DEF port_exec, socketpair_tcp, Also
<1>2. /\ s[9].opens = {"l1"} /\ s[9].closes = {} /\ s[9].undo = {"in0", "in1"}
      /\ \A i \in {10, 11, 12, 14} : s[i].opens = {} /\ s[i].closes = {} /\ s[i].undo = outs
      /\ s[13].opens = {"out0"} /\ s[13].closes = {} /\ s[13].undo = outs
      /\ s[15].opens = {"out1"} /\ s[15].closes = {} /\ s[15].undo = outs
      /\ s[16].opens = {} /\ s[16].closes = {"l1"}
  <2>1. s[9].opens = {"l1"} /\ s[9].closes = {} /\ s[9].undo = {"in0", "in1"}
    BY DEF port_exec, socketpair_tcp, Also
  <2>2. \A i \in {10, 11, 12} : s[i].opens = {} /\ s[i].closes = {} /\ s[i].undo = outs
    BY DEF port_exec, socketpair_tcp, Also
  <2>3. s[13].opens = {"out0"} /\ s[13].closes = {} /\ s[13].undo = outs
    BY DEF port_exec, socketpair_tcp, Also
  <2>4. s[14].opens = {} /\ s[14].closes = {} /\ s[14].undo = outs
    BY DEF port_exec, socketpair_tcp, Also
  <2>5. s[15].opens = {"out1"} /\ s[15].closes = {} /\ s[15].undo = outs
    BY DEF port_exec, socketpair_tcp, Also
  <2>6. s[16].opens = {} /\ s[16].closes = {"l1"}
    BY DEF port_exec, socketpair_tcp, Also
  <2> HIDE DEF s
  <2> QED BY <2>1, <2>2, <2>3, <2>4, <2>5, <2>6
<1>3. /\ s[17] = Open({"args"} \cup cmd, {"in0", "in1", "out0", "out1"})
      /\ s[18] = Try(all)
  BY DEF port_exec, socketpair_tcp, Also
<1> HIDE DEF s
<1>4. ASSUME NEW k \in 1 .. 18, s[k].closes = {} PROVE Left({}, s, k) = {}
  <2>0. k # 8 /\ k # 16 BY <1>1, <1>2, <1>4
  <2>1. CASE k \in 1 .. 7
    <3>1. \A i \in 1 .. k - 1 : s[i].opens \subseteq s[k].undo BY <1>1, <2>1
    <3> QED BY <1>1, <3>1, FailureCovered
  <2>2. CASE k \in 9 .. 15
    <3>1. s[k].undo \in {{"in0", "in1"}, outs} /\ {"in0", "in1"} \subseteq s[k].undo
      BY <1>2, <2>2
    <3>2. \A i \in 1 .. 8 : s[i].opens \subseteq {"l0", "in0", "in1"}
      BY <1>1
    <3>3. \A i \in 9 .. k - 1 : s[i].opens \subseteq s[k].undo
      BY <1>2, <2>2
    <3>4. "l0" \in s[8].closes /\ 8 \in 1 .. k - 1
      BY <1>1, <2>2
    <3>5. ASSUME NEW i \in 1 .. k - 1, NEW d \in s[i].opens
          PROVE  d \in s[k].undo \/ \E j \in 1 .. k - 1 : d \in s[j].closes
      <4>1. CASE i \in 1 .. 8 BY <3>1, <3>2, <3>4, <3>5, <4>1
      <4>2. CASE i \notin 1 .. 8 BY <3>3, <3>5, <4>2
      <4> QED BY <4>1, <4>2
    <3> QED BY <1>1, <3>5, FailureCovered
  <2>3. CASE k \in 17 .. 18
    <3>1. \A i \in 1 .. k - 1 : s[i].opens \subseteq s[k].undo \cup {"l0", "l1"}
      <4>1. \A i \in 1 .. 16 : s[i].opens \subseteq {"l0", "l1", "in0", "in1", "out0", "out1"}
        BY <1>1, <1>2
      <4>2. {"in0", "in1", "out0", "out1"} \subseteq s[k].undo
        BY <1>3, <2>3
      <4>3. k = 18 => s[17].opens \subseteq s[k].undo
        BY <1>3
      <4> QED BY <4>1, <4>2, <4>3, <2>3
    <3>2. "l0" \in s[8].closes /\ "l1" \in s[16].closes /\ 8 \in 1 .. k - 1 /\ 16 \in 1 .. k - 1
      BY <1>1, <1>2, <2>3
    <3>3. \A i \in 1 .. k - 1 : \A d \in s[i].opens :
            d \in s[k].undo \/ \E j \in 1 .. k - 1 : d \in s[j].closes
      BY <3>1, <3>2
    <3> QED BY <1>1, <3>3, FailureCovered
  <2> QED BY <2>0, <2>1, <2>2, <2>3
<1>5. Left({}, s, 19) = all
  <2>1. UNION {s[i].opens : i \in 1 .. 18} = all \cup {"l0", "l1"}
    <3>1. \A i \in 1 .. 18 : s[i].opens \subseteq all \cup {"l0", "l1"}
      BY <1>1, <1>2, <1>3
    <3>2. /\ "l0" \in s[1].opens /\ "in0" \in s[5].opens /\ "in1" \in s[7].opens
          /\ "l1" \in s[9].opens /\ "out0" \in s[13].opens /\ "out1" \in s[15].opens
          /\ {"args"} \cup cmd \subseteq s[17].opens
      BY <1>1, <1>2, <1>3
    <3>3. ASSUME NEW d \in all \cup {"l0", "l1"} PROVE \E i \in 1 .. 18 : d \in s[i].opens
      BY <3>2
    <3> QED BY <3>1, <3>3
  <2>2. UNION {s[i].closes : i \in 1 .. 18} = {"l0", "l1"}
    <3>1. \A i \in 1 .. 18 : s[i].closes \subseteq {"l0", "l1"}
      BY <1>1, <1>2, <1>3
    <3>2. "l0" \in s[8].closes /\ "l1" \in s[16].closes
      BY <1>1, <1>2
    <3> QED BY <3>1, <3>2
  <2>3. "l0" \notin all /\ "l1" \notin all
    OBVIOUS
  <2> HIDE DEF all
  <2> QED BY <1>1, <2>1, <2>2, <2>3 DEF Left, After
<1>6. MeantBy("port_exec", copied) = all
  BY DEF MeantBy
<1> HIDE DEF all
<1> QED BY <1>1, <1>4, <1>5, <1>6 DEF Clean, s

\* Whatever function and whichever of its calls.
LEMMA OpeningLeaves ==
  ASSUME NEW f \in Functions, NEW copied \in BOOLEAN,
         NEW k \in {i \in 1 .. Len(CallsOf(f, copied)) + 1 :
              i <= Len(CallsOf(f, copied)) => CallsOf(f, copied)[i].closes = {}}
  PROVE  Left(Before(f), CallsOf(f, copied), k) =
           IF k > Len(CallsOf(f, copied)) THEN MeantBy(f, copied)
           ELSE IF f = "channel_forkpty" /\ k = 1 THEN Before(f) ELSE {}
<1> DEFINE c == CallsOf(f, copied)
<1>1. CASE f = "channel_forkpty"
  <2>1. c = channel_forkpty /\ MeantBy(f, copied) = {"master"}
    BY <1>1 DEF CallsOf, MeantBy, Meant
  <2>2. Len(c) = 3 /\ k \in 1 .. 4 /\ k # 3
    BY <2>1, ForkptyClean
  <2> HIDE DEF c
  <2> SUFFICES Left(Before(f), c, k) = IF k > Len(c) THEN MeantBy(f, copied)
                 ELSE IF f = "channel_forkpty" /\ k = 1 THEN Before(f) ELSE {}
    BY DEF c
  <2>3. CASE k = 1 BY <1>1, <2>1, <2>2, <2>3, ForkptyClean
  <2>4. CASE k = 2 BY <1>1, <2>1, <2>2, <2>4, ForkptyClean
  <2>5. CASE k = 4
    <3>1. Left(Before(f), c, k) = {"master"} BY <1>1, <2>1, <2>5, ForkptyClean
    <3> QED BY <2>1, <2>2, <2>5, <3>1
  <2> QED BY <2>2, <2>3, <2>4, <2>5
<1>2. CASE f # "channel_forkpty"
  <2>1. Clean({}, c, MeantBy(f, copied))
    <3>1. CASE f = "socketpair_tcp"
      <4>1. c = socketpair_tcp("l", "c", "a") /\ MeantBy(f, copied) = {"c", "a"}
        BY <3>1 DEF CallsOf, MeantBy, Meant
      <4> QED BY <4>1, SocketpairClean
    <3>2. CASE f = "port_exec"
      BY <3>2, PortExecClean DEF CallsOf
    <3>3. CASE f = "channel_fork"
      <4>1. c = channel_fork /\ MeantBy(f, copied) = {"pa0", "pa1", "pa2"}
        BY <3>3 DEF CallsOf, MeantBy, Meant, PipePa, Range
      <4> QED BY <4>1, ChannelForkClean
    <3>4. CASE f = "channel_openpty"
      <4>1. c = channel_openpty /\ MeantBy(f, copied) = {"master", "slave"}
        BY <3>4 DEF CallsOf, MeantBy, Meant
      <4> QED BY <4>1, OpenptyClean
    <3>5. CASE f = "subprocess_sign"
      <4>1. c = subprocess_sign /\ MeantBy(f, copied) = {}
        BY <3>5 DEF CallsOf, MeantBy, Meant
      <4> QED BY <4>1, SignClean
    <3>6. CASE f = "load"
      <4>1. c = load /\ MeantBy(f, copied) = {}
        BY <3>6 DEF CallsOf, MeantBy, Meant
      <4> QED BY <4>1, LoadClean
    <3>7. CASE f = "savesync"
      <4>1. c = savesync /\ MeantBy(f, copied) = {}
        BY <3>7 DEF CallsOf, MeantBy, Meant
      <4> QED BY <4>1, SavesyncClean
    <3> QED BY <1>2, <3>1, <3>2, <3>3, <3>4, <3>5, <3>6, <3>7 DEF Functions
  <2>2. Before(f) = {} BY <1>2 DEF Before
  <2> HIDE DEF c
  <2> QED BY <1>2, <2>1, <2>2 DEF Clean, c
<1> QED BY <1>1, <1>2

LEMMA NothingLeftStep == NothingLeft /\ [DescriptorsNext]_job => NothingLeft'
<1> SUFFICES ASSUME NothingLeft, [DescriptorsNext]_job PROVE NothingLeft'
  OBVIOUS
<1>1. CASE CallOpening
  <2>1. PICK f \in Functions, copied \in BOOLEAN :
    \E k \in {i \in 1 .. Len(CallsOf(f, copied)) + 1 :
                i <= Len(CallsOf(f, copied)) => CallsOf(f, copied)[i].closes = {}} :
      job' = [of |-> "opening", f |-> f, ok |-> k > Len(CallsOf(f, copied)),
              copied |-> copied, call |-> k,
              out |-> Left(Before(f), CallsOf(f, copied), k)]
    BY <1>1, Zenon DEF CallOpening, Call
  <2>2. PICK k \in {i \in 1 .. Len(CallsOf(f, copied)) + 1 :
                i <= Len(CallsOf(f, copied)) => CallsOf(f, copied)[i].closes = {}} :
      job' = [of |-> "opening", f |-> f, ok |-> k > Len(CallsOf(f, copied)),
              copied |-> copied, call |-> k,
              out |-> Left(Before(f), CallsOf(f, copied), k)]
    BY <2>1, Zenon
  <2> DEFINE c == CallsOf(f, copied)  o == Left(Before(f), c, k)  b == k > Len(c)
  <2>3. o = IF b THEN MeantBy(f, copied)
            ELSE IF f = "channel_forkpty" /\ k = 1 THEN Before(f) ELSE {}
    BY <2>2, OpeningLeaves, Zenon
  <2> HIDE DEF o, b
  <2>4. job' = [of |-> "opening", f |-> f, ok |-> b, copied |-> copied, call |-> k, out |-> o]
    BY <2>2, Zenon DEF o, b
  <2>5. /\ job'.of = "opening" /\ job'.f = f /\ (job'.ok <=> b) /\ job'.copied = copied
        /\ job'.call = k /\ job'.out = o
    BY <2>4
  <2> HIDE DEF c
  <2> QED BY <2>3, <2>5 DEF NothingLeft, Called
<1>2. CASE CallFork
  <2>1. PICK others \in SUBSET (3 .. MaxOther) :
    job' = [of |-> "fork", out |-> Execed(ForkChild(AllPipes(Served(others))), FALSE)]
    BY <1>2 DEF CallFork, Call
  <2>2. job'.of = "fork" /\ job'.out = [n \in 0 .. 2 |-> PipeCh[n + 1]]
    BY <2>1, ForkedChild
  <2> QED BY <2>2 DEF NothingLeft, Called
<1>3. CASE CallForkpty
  <2>1. PICK others \in SUBSET (3 .. MaxOther) :
    job' = [of |-> "forkpty",
        out |-> Execed(PtyChild(Opened(Opened(Served(others), "master"), "slave")), TRUE)]
    BY <1>3 DEF CallForkpty, Call
  <2>2. job'.of = "forkpty" /\ job'.out = [n \in 0 .. 2 |-> "slave"]
    BY <2>1, ForkedPty
  <2> QED BY <2>2 DEF NothingLeft, Called
<1>4. CASE UNCHANGED job
  BY <1>4 DEF NothingLeft, Called
<1> QED BY <1>1, <1>2, <1>3, <1>4 DEF DescriptorsNext

\* NothingLeft (port_channel.c:66, channel_fork.c:34, channel_forkpty.c:36): for
\* any call that fails and any numbers in use.
THEOREM NothingStaysOpen == DescriptorsSpec => []NothingLeft
<1>1. Idle => NothingLeft
  BY DEF Idle, None, NothingLeft, Called
<1> QED BY <1>1, NothingLeftStep, PTL DEF DescriptorsSpec

HIDE DEF Open, Try, Close

----------------------------------------------------------------------------
(* The processes around a session.                                         *)

USE FileAssumption

Files == [key : Nat, parts : Nat, synced : Nat]
Users == {"root", "user", "other"}
Creds == [uid : Users, gid : Users, groups : Users]
Keydirs == [exists : BOOLEAN, made : Nat, pk : Files, sk : Files,
            reported : Nat, printed : Nat]
Makers == [at : {"idle", "pk", "sk", "done", "failed"}, key : Nat]
Helpers == [at : {"none", "load", "write", "account", "keys", "drop", "shell",
                  "exit0", "exit111", "killed"},
            key : Nat, cred : Creds, from : Users, tty : Users \cup {"none"}]
Pipes == [writers : SUBSET {"parent", "child"}, parts : Nat]
\* A process with any set of types, which the options leave.
Servers(types) ==
  [at : {"down", "start", "kex", "close", "read", "wait", "auth", "authwait",
         "serve", "over"},
   cred : Creds, types : {types}, key : Nat, got : Nat, sig : Nat]

StartType ==
  /\ keydir \in Keydirs /\ maker \in Makers /\ server \in Servers(server.types)
  /\ pipe \in Pipes /\ helper \in Helpers

Ended(h) == h.at \in {"exit0", "exit111", "killed"}

\* A file belongs to the last pair that was begun; what is on the disk of it is
\* the beginning of what was written.
FileKept(f) == /\ f.key \in {0, keydir.made} /\ f.synced <= f.parts
               /\ f.parts <= FileParts /\ (f.key = 0 => f = Absent)

\* The pair: while makekey is at it nothing has been reported; what was reported
\* is on the disk.
DirInv ==
  /\ FileKept(keydir.pk) /\ FileKept(keydir.sk)
  /\ keydir.reported \in {0, keydir.made} /\ keydir.printed \in {0, keydir.made}
  /\ ~keydir.exists => /\ keydir.pk = Absent /\ keydir.sk = Absent
                       /\ keydir.reported = 0 /\ keydir.printed = 0
  /\ keydir.reported # 0 =>
       /\ keydir.pk.key # 0 => keydir.pk.synced = FileParts
       /\ keydir.sk.key # 0 => keydir.sk.synced = FileParts
  /\ maker.at \in {"pk", "sk"} =>
       /\ keydir.exists /\ maker.key = keydir.made /\ maker.key # 0
       /\ keydir.reported = 0
  /\ maker.at = "pk" => keydir.sk = Absent
  /\ maker.at = "sk" => keydir.pk.key # 0 /\ keydir.pk.synced = FileParts

\* The key the server offers is that of the last pair or of one that is gone,
\* and a signature it has is that of the last pair when it offers that.
Signed(k) == k # 0 /\ (server.key = keydir.made => k = server.key)
ServerInv ==
  /\ server.cred = Cred(server.cred.uid)
  /\ server.at \in {"kex", "close", "read", "wait", "auth", "authwait", "serve"}
       => server.key # 0 /\ server.key <= keydir.made
  /\ server.at \in {"down", "start", "kex", "auth"} => helper.at = "none"
  /\ server.at \in {"close", "read", "wait"} =>
       /\ helper.at \in {"load", "write", "exit0", "exit111", "killed"}
       /\ helper.at \in {"write", "exit0"} => Signed(helper.key)
  /\ server.at = "authwait" =>
       helper.at \in {"account", "keys", "exit0", "exit111", "killed"}
  /\ server.at \in {"wait", "auth", "authwait", "serve"} => server.got = FileParts
  /\ server.at \in {"auth", "authwait", "serve"} => Signed(server.sig)
  /\ pipe.parts <= FileParts
  /\ server.at = "read" => pipe.writers \subseteq {"child"}
  /\ server.at \in {"close", "read"} /\ Ended(helper) => "child" \notin pipe.writers

\* Who a child runs as before and after dropuidgid.
HelperInv ==
  /\ helper.at \in {"account", "drop"} =>
       helper.cred = Cred(helper.from) /\ helper.tty \in {"none", helper.from}
  /\ helper.at = "account" => helper.tty = "none"
  /\ IdentityDropped

StartInv == StartType /\ DirInv /\ ServerInv /\ HelperInv

----------------------------------------------------------------------------
(* Types.                                                                  *)

LEMMA CredType ==
  ASSUME NEW c \in Creds
  PROVE  /\ dropuidgid(c) \in Creds
         /\ \A who \in Users : Cred(who) \in Creds
  BY DEF Creds, Users, Cred, dropuidgid, UserSet, GroupsSet

LEMMA FileType ==
  ASSUME NEW f \in Files
  PROVE  /\ Absent \in Files
         /\ \A k \in Nat : Created(f, k) \in Files
         /\ \A n \in Nat : Written(f, n) \in Files
         /\ Synced(f) \in Files
         /\ Kept(f) \subseteq Files
<1>1. Absent \in Files BY DEF Absent, Files
<1>2. ASSUME NEW n \in f.synced .. f.parts
      PROVE  [f EXCEPT !.parts = n, !.synced = n] \in Files
  <2>1. f.synced \in Nat /\ f.parts \in Nat BY DEF Files
  <2>2. n \in Nat BY <2>1
  <2> QED BY <2>2 DEF Files
<1>3. Kept(f) \subseteq Files BY <1>1, <1>2 DEF Kept
<1>4. ASSUME NEW n \in Nat
      PROVE  Created(f, n) \in Files /\ Written(f, n) \in Files
  BY DEF Files, Created, Written
<1>5. Synced(f) \in Files BY DEF Files, Synced
<1> QED BY <1>1, <1>3, <1>4, <1>5

LEMMA ServerAtType ==
  ASSUME server \in Servers(server.types), NEW at, ServerAt(at),
         at \in {"down", "start", "kex", "close", "read", "wait", "auth",
                 "authwait", "serve", "over"}
  PROVE  /\ server' \in Servers(server'.types)
         /\ server'.at = at /\ server'.cred = server.cred
         /\ server'.key = server.key /\ server'.got = server.got
         /\ server'.sig = server.sig
<1>1. server' = [server EXCEPT !.at = at] BY DEF ServerAt
<1> QED BY <1>1 DEF Servers

LEMMA TypeStep ==
  ASSUME StartType, [StartNext]_startVars
  PROVE  StartType'
<1> USE DEF StartType
<1>1. CASE UNCHANGED startVars
  BY <1>1 DEF startVars
<1>2. CASE Mkdir
  <2>1. keydir.made \in Nat
    BY DEF Keydirs
  <2>2. keydir' \in Keydirs
    <3>1. keydir' = [keydir EXCEPT !.exists = TRUE, !.made = @ + 1]
      BY <1>2 DEF Mkdir
    <3>2. keydir.made + 1 \in Nat
      BY <2>1
    <3>3. keydir' = [keydir EXCEPT !.exists = TRUE, !.made = keydir.made + 1]
      BY <3>1
    <3> QED BY <3>2, <3>3 DEF Keydirs
  <2>3. maker' \in Makers
    BY <1>2, <2>1 DEF Mkdir, Makers
  <2> QED BY <1>2, <2>2, <2>3 DEF Mkdir
<1>3. CASE SaveOpen
  <2>1. PICK f \in {"pk", "sk"} : keydir' = [keydir EXCEPT ![f] = Created(@, maker.key)]
    BY <1>3 DEF SaveOpen
  <2>2. keydir[f] \in Files /\ maker.key \in Nat
    BY DEF Keydirs, Makers
  <2>3. Created(keydir[f], maker.key) \in Files
    BY <2>2, FileType
  <2>4. keydir' \in Keydirs
    BY <2>1, <2>3 DEF Keydirs
  <2> QED BY <1>3, <2>4 DEF SaveOpen
<1>4. CASE SaveWrite
  <2>1. PICK f \in {"pk", "sk"}, n \in 1 .. FileParts :
               keydir' = [keydir EXCEPT ![f] = Written(@, n)]
    BY <1>4 DEF SaveWrite
  <2>2. keydir[f] \in Files /\ n \in Nat
    BY DEF Keydirs
  <2>3. Written(keydir[f], n) \in Files
    BY <2>2, FileType
  <2>4. keydir' \in Keydirs
    BY <2>1, <2>3 DEF Keydirs
  <2> QED BY <1>4, <2>4 DEF SaveWrite
<1>5. CASE \E f \in {"pk", "sk"} : SaveEnd(f)
  <2>1. PICK f \in {"pk", "sk"} : SaveEnd(f)
    BY <1>5
  <2>2. keydir[f] \in Files /\ maker.key \in Nat /\ keydir \in Keydirs
    BY DEF Keydirs, Makers
  <2>3. Synced(keydir[f]) \in Files
    BY <2>2, FileType
  <2>4. keydir' \in Keydirs
    <3>1. keydir' = [keydir EXCEPT ![f] = Synced(@),
                              !.reported = IF f = "sk" THEN maker.key ELSE @]
      BY <2>1 DEF SaveEnd
    <3> QED BY <3>1, <2>2, <2>3 DEF Keydirs
  <2>5. maker' \in Makers
    <3>1. maker' = [maker EXCEPT !.at = Following(f)]
      BY <2>1 DEF SaveEnd, MakerSays
    <3>2. Following(f) \in {"sk", "done"}
      BY DEF Following
    <3> QED BY <3>1, <3>2 DEF Makers
  <2> QED BY <2>1, <2>4, <2>5 DEF SaveEnd
<1>6. CASE MakeFails
  BY <1>6 DEF MakeFails, MakerSays, Makers
<1>7. CASE MakeEnds
  BY <1>7 DEF MakeEnds, Gone, Makers
<1>8. CASE Printkey
  BY <1>8 DEF Printkey, Keydirs, Files
<1>9. CASE RemoveDir
  BY <1>9, FileType DEF RemoveDir, NoDir, Keydirs, Absent, Files
<1>10. CASE StartServer
  <2>1. PICK word \in OptionWords, who \in Users :
               server' = [ServerDown EXCEPT !.types = Options(word).types, !.cred = Cred(who),
                            !.at = IF Options(word).usage THEN "over" ELSE "start"]
    BY <1>10 DEF StartServer, Users
  <2>2. Cred(who) \in Creds
    BY DEF Cred, Creds
  <2>3. server' \in Servers(server'.types)
    BY <2>1, <2>2 DEF ServerDown, Servers
  <2> QED BY <1>10, <2>3 DEF StartServer
<1>11. CASE ReadKeys
  <2>1. server' \in Servers(server'.types)
    <3>1. CASE server' = [server EXCEPT !.at = "kex", !.key = keydir.pk.key]
      BY <3>1 DEF Servers, Keydirs, Files
    <3>2. CASE ServerAt("over")
      BY <3>2, ServerAtType
    <3> QED BY <1>11, <3>1, <3>2 DEF ReadKeys
  <2> QED BY <1>11, <2>1 DEF ReadKeys
<1>12. CASE EndServer
  <2>1. server' \in Servers(server'.types) /\ helper' \in Helpers /\ pipe' \in Pipes
    BY <1>12 DEF EndServer, ServerDown, NoHelper, NoPipe, Servers, Helpers, Pipes, Cred, Creds, Users
  <2> QED BY <1>12, <2>1 DEF EndServer
<1>13. CASE SignFork
  <2>1. server' \in Servers(server'.types)
    BY <1>13, ServerAtType DEF SignFork
  <2>2. pipe' \in Pipes /\ helper' \in Helpers
    BY <1>13 DEF SignFork, NoHelper, Pipes, Helpers, Cred, Creds, Users
  <2> QED BY <1>13, <2>1, <2>2 DEF SignFork
<1>14. CASE SignLoad
  <2>1. keydir.sk.key \in Nat
    BY DEF Keydirs, Files
  <2>2. helper' \in Helpers
    BY <1>14, <2>1 DEF SignLoad, Exited, Helpers
  <2>3. pipe' \in Pipes
    BY <1>14 DEF SignLoad, Pipes
  <2> QED BY <1>14, <2>2, <2>3 DEF SignLoad
<1>15. CASE SignWrite
  <2>1. PICK n \in 1 .. FileParts - pipe.parts :
               pipe' = [pipe EXCEPT !.parts = @ + n]
    BY <1>15 DEF SignWrite
  <2>2. pipe.parts \in Nat /\ n \in Nat
    BY DEF Pipes
  <2>3. pipe' \in Pipes
    BY <2>1, <2>2 DEF Pipes
  <2> QED BY <1>15, <2>3 DEF SignWrite
<1>16. CASE SignExit
  BY <1>16 DEF SignExit, Exited, Helpers, Pipes
<1>17. CASE ParentClose
  BY <1>17, ServerAtType DEF ParentClose, Pipes
<1>18. CASE ParentRead
  <2>1. server' \in Servers(server'.types)
    <3>1. CASE ServerAt("over")
      BY <3>1, ServerAtType
    <3>2. CASE server' = [server EXCEPT !.got = pipe.parts,
                         !.at = IF pipe.parts = FileParts THEN "wait" ELSE "read"]
      BY <3>2 DEF Servers, Pipes
    <3> QED BY <1>18, <3>1, <3>2 DEF ParentRead
  <2> QED BY <1>18, <2>1 DEF ParentRead
<1>19. CASE ParentWait
  BY <1>19 DEF ParentWait, NoHelper, Helpers, Servers, Cred, Creds, Users
<1>20. CASE AuthFork
  <2>1. server' \in Servers(server'.types)
    BY <1>20, ServerAtType DEF AuthFork
  <2>2. helper' \in Helpers
    <3>1. server.cred \in Creds /\ server.cred.uid \in Users
      BY DEF Servers, Creds
    <3>2. [NoHelper EXCEPT !.at = "account", !.cred = server.cred,
                           !.from = server.cred.uid] \in Helpers
      BY <3>1 DEF NoHelper, Helpers
    <3> QED BY <1>20, <3>2 DEF AuthFork
  <2> QED BY <1>20, <2>1, <2>2 DEF AuthFork
<1>21. CASE AuthDrop
  <2>1. helper.cred \in Creds
    BY DEF Helpers
  <2>2. dropuidgid(helper.cred) \in Creds
    BY <2>1, CredType
  <2>3. helper' \in Helpers
    BY <1>21, <2>2 DEF AuthDrop, Exited, Helpers
  <2> QED BY <1>21, <2>3 DEF AuthDrop
<1>22. CASE AuthKeys
  BY <1>22 DEF AuthKeys, Exited, Helpers
<1>23. CASE AuthWait
  <2>1. server' \in Servers(server'.types)
    BY <1>23, ServerAtType DEF AuthWait
  <2>2. helper' \in Helpers
    BY <1>23 DEF AuthWait, NoHelper, Helpers, Cred, Creds, Users
  <2> QED BY <1>23, <2>1, <2>2 DEF AuthWait
<1>24. CASE ShellFork
  <2>1. server.cred \in Creds /\ server.cred.uid \in Users
    BY DEF Servers, Creds
  <2>2. PICK tty \in {"none", server.cred.uid} :
              helper' = [NoHelper EXCEPT !.at = "drop", !.cred = server.cred,
                          !.from = server.cred.uid, !.tty = tty]
    BY <1>24 DEF ShellFork
  <2>3. helper' \in Helpers
    BY <2>1, <2>2 DEF NoHelper, Helpers
  <2> QED BY <1>24, <2>3 DEF ShellFork
<1>25. CASE ShellDrop
  <2>1. helper.cred \in Creds
    BY DEF Helpers
  <2>2. dropuidgid(helper.cred) \in Creds
    BY <2>1, CredType
  <2>3. helper' \in Helpers
    BY <1>25, <2>2 DEF ShellDrop, Exited, Chowned, Helpers, Users
  <2> QED BY <1>25, <2>3 DEF ShellDrop
<1>26. CASE ShellEnds
  BY <1>26 DEF ShellEnds, Exited, Helpers
<1>27. CASE ShellSeen
  BY <1>27, ServerAtType DEF ShellSeen
<1>28. CASE Killed
  BY <1>28 DEF Killed, Exited, Helpers, Pipes
<1>29. CASE PowerLoss
  <2>1. keydir' \in Keydirs
    <3>1. CASE keydir' = [NoDir EXCEPT !.made = keydir.made]
      BY <3>1 DEF NoDir, Keydirs, Absent, Files
    <3>2. ASSUME NEW p \in Kept(keydir.pk), NEW s \in Kept(keydir.sk),
                 keydir' = [keydir EXCEPT !.pk = p, !.sk = s]
          PROVE  keydir' \in Keydirs
      <4>1. keydir.pk \in Files /\ keydir.sk \in Files
        BY DEF Keydirs
      <4>2. p \in Files /\ s \in Files
        BY <4>1, FileType
      <4> QED BY <3>2, <4>2 DEF Keydirs
    <3> QED BY <1>29, <3>1, <3>2 DEF PowerLoss
  <2>2. /\ server' \in Servers(server'.types) /\ helper' \in Helpers
        /\ pipe' \in Pipes /\ maker' \in Makers
    BY <1>29 DEF PowerLoss, ServerDown, NoHelper, NoPipe, Gone, Servers, Helpers,
         Pipes, Makers, Cred, Creds, Users
  <2> QED BY <2>1, <2>2
<1> QED
  BY <1>1, <1>2, <1>3, <1>4, <1>5, <1>6, <1>7, <1>8, <1>9, <1>10, <1>11, <1>12,
     <1>13, <1>14, <1>15, <1>16, <1>17, <1>18, <1>19, <1>20, <1>21, <1>22, <1>23,
     <1>24, <1>25, <1>26, <1>27, <1>28, <1>29
  DEF StartNext, MakerStep, ChildStep, ServerStep

----------------------------------------------------------------------------
(* The pair of keys on the disk.                                           *)

LEMMA KeptFile ==
  ASSUME NEW f \in Files, FileKept(f), NEW g \in Kept(f)
  PROVE  /\ FileKept(g) /\ g.key \in {0, f.key}
         /\ g.key # 0 /\ f.synced = FileParts => g.synced = FileParts
<1>1. f.synced \in Nat /\ f.parts \in Nat /\ f.key \in Nat BY DEF Files
<1>2. CASE g = Absent BY <1>1, <1>2 DEF Absent, FileKept
<1>3. ASSUME NEW n \in f.synced .. f.parts, g = [f EXCEPT !.parts = n, !.synced = n]
      PROVE  /\ FileKept(g) /\ g.key \in {0, f.key}
             /\ g.key # 0 /\ f.synced = FileParts => g.synced = FileParts
  <2>1. n \in Nat /\ f.synced <= n /\ n <= f.parts BY <1>1
  <2>2. g.key = f.key /\ g.parts = n /\ g.synced = n BY <1>3 DEF Files
  <2>3. f.key = 0 => n = 0 /\ f = Absent BY <2>1 DEF FileKept, Absent
  <2>4. f.key = 0 => g = Absent BY <1>3, <2>3 DEF Absent
  <2>5. f.parts <= FileParts /\ f.key \in {0, keydir.made} BY DEF FileKept
  <2> QED BY <1>1, <2>1, <2>2, <2>4, <2>5 DEF FileKept
<1> QED BY <1>2, <1>3 DEF Kept

LEMMA DirStep ==
  ASSUME StartType, DirInv, [StartNext]_startVars
  PROVE  DirInv'
<1>0. /\ keydir \in Keydirs /\ keydir.pk \in Files /\ keydir.sk \in Files
      /\ keydir.made \in Nat /\ keydir.reported \in Nat /\ keydir.printed \in Nat
      /\ maker \in Makers /\ maker.key \in Nat
  BY DEF StartType, Keydirs, Makers
<1>1. CASE UNCHANGED <<keydir, maker>>
  BY <1>1 DEF DirInv, FileKept
<1>2. CASE Mkdir
  <2>1. keydir' = [keydir EXCEPT !.exists = TRUE, !.made = keydir.made + 1]
    <3>1. keydir' = [keydir EXCEPT !.exists = TRUE, !.made = @ + 1]
      BY <1>2 DEF Mkdir
    <3> QED BY <3>1
  <2>2. /\ keydir'.exists = TRUE /\ keydir'.made = keydir.made + 1
        /\ keydir'.pk = keydir.pk /\ keydir'.sk = keydir.sk
        /\ keydir'.reported = keydir.reported /\ keydir'.printed = keydir.printed
    BY <2>1, <1>0 DEF Keydirs
  <2>3. /\ keydir.pk = Absent /\ keydir.sk = Absent
        /\ keydir.reported = 0 /\ keydir.printed = 0
    BY <1>2 DEF Mkdir, DirInv
  <2>4. maker'.at = "pk" /\ maker'.key = keydir.made + 1
    BY <1>2 DEF Mkdir
  <2> QED BY <1>0, <2>2, <2>3, <2>4 DEF DirInv, FileKept, Absent
<1>3. CASE SaveOpen
  <2>1. PICK f \in {"pk", "sk"} :
               /\ maker.at = f /\ keydir[f].key = 0
               /\ keydir' = [keydir EXCEPT ![f] = Created(@, maker.key)]
    BY <1>3 DEF SaveOpen
  <2>2. keydir[f] = Absent /\ maker.key = keydir.made /\ keydir.exists /\ keydir.reported = 0
    BY <2>1 DEF DirInv, FileKept
  <2> DEFINE g == Created(keydir[f], maker.key)
  <2>3. g.key = maker.key /\ g.parts = 0 /\ g.synced = 0
    BY <2>2 DEF Created, Absent
  <2>4. /\ keydir'.exists = keydir.exists /\ keydir'.made = keydir.made
        /\ keydir'.pk = (IF f = "pk" THEN g ELSE keydir.pk)
        /\ keydir'.sk = (IF f = "sk" THEN g ELSE keydir.sk)
        /\ keydir'.reported = keydir.reported /\ keydir'.printed = keydir.printed
    BY <2>1, <1>0 DEF Keydirs
  <2>5. maker' = maker BY <1>3 DEF SaveOpen
  <2> HIDE DEF g
  <2> QED BY <1>0, <2>1, <2>2, <2>3, <2>4, <2>5 DEF DirInv, FileKept
<1>4. CASE SaveWrite
  <2>1. PICK f \in {"pk", "sk"}, n \in 1 .. FileParts :
               /\ maker.at = f /\ keydir[f].key # 0 /\ keydir[f].parts + n <= FileParts
               /\ keydir' = [keydir EXCEPT ![f] = Written(@, n)]
    BY <1>4 DEF SaveWrite
  <2> DEFINE g == Written(keydir[f], n)
  <2>2. keydir[f] \in Files /\ keydir[f].parts \in Nat /\ keydir[f].synced \in Nat /\ n \in Nat
    BY <1>0 DEF Files
  <2>3. g.key = keydir[f].key /\ g.parts = keydir[f].parts + n /\ g.synced = keydir[f].synced
    BY <2>2 DEF Written, Files
  <2>4. /\ keydir'.exists = keydir.exists /\ keydir'.made = keydir.made
        /\ keydir'.pk = (IF f = "pk" THEN g ELSE keydir.pk)
        /\ keydir'.sk = (IF f = "sk" THEN g ELSE keydir.sk)
        /\ keydir'.reported = keydir.reported /\ keydir'.printed = keydir.printed
    BY <2>1, <1>0 DEF Keydirs
  <2>5. maker' = maker BY <1>4 DEF SaveWrite
  <2>6. FileKept(keydir[f]) BY <2>1 DEF DirInv
  <2> HIDE DEF g
  <2>7. g.key \in {0, keydir.made} /\ g.key # 0 /\ g.synced <= g.parts /\ g.parts <= FileParts
    BY <2>1, <2>2, <2>3, <2>6 DEF FileKept
  <2> QED BY <1>0, <2>1, <2>3, <2>4, <2>5, <2>7 DEF DirInv, FileKept
<1>5. CASE \E f \in {"pk", "sk"} : SaveEnd(f)
  <2>1. PICK f \in {"pk", "sk"} : SaveEnd(f)
    BY <1>5
  <2> DEFINE g == Synced(keydir[f])
  <2>2. keydir[f] \in Files /\ keydir[f].parts \in Nat /\ FileKept(keydir[f])
    BY <1>0 DEF Files, DirInv
  <2>3. g.key = keydir[f].key /\ g.parts = FileParts /\ g.synced = FileParts
    BY <2>1, <2>2 DEF SaveEnd, Synced, Files, Whole
  <2>4. keydir' = [keydir EXCEPT ![f] = g,
                              !.reported = IF f = "sk" THEN maker.key ELSE keydir.reported]
    BY <2>1, <1>0 DEF SaveEnd, Keydirs
  <2>5. /\ keydir'.exists = keydir.exists /\ keydir'.made = keydir.made
        /\ keydir'.pk = (IF f = "pk" THEN g ELSE keydir.pk)
        /\ keydir'.sk = (IF f = "sk" THEN g ELSE keydir.sk)
        /\ keydir'.reported = (IF f = "sk" THEN maker.key ELSE keydir.reported)
        /\ keydir'.printed = keydir.printed
    BY <2>4, <1>0 DEF Keydirs
  <2>6. maker.at = f /\ maker'.at = Following(f) /\ maker'.key = maker.key
    BY <2>1, <1>0 DEF SaveEnd, MakerSays, Makers
  <2>7. keydir[f].key # 0
    <3>1. keydir[f].parts = FileParts BY <2>1 DEF SaveEnd, Whole
    <3>2. Absent.parts = 0 BY DEF Absent
    <3>3. keydir[f] # Absent BY <3>1, <3>2
    <3> QED BY <2>2, <3>3 DEF FileKept
  <2>8. Following("pk") = "sk" /\ Following("sk") = "done"
    BY DEF Following
  <2>9. g.key = keydir.made BY <2>2, <2>3, <2>7 DEF FileKept
  <2> HIDE DEF g
  <2>10. CASE f = "pk"
    BY <1>0, <2>3, <2>5, <2>6, <2>7, <2>8, <2>9, <2>10 DEF DirInv, FileKept
  <2>11. CASE f = "sk"
    BY <1>0, <2>3, <2>5, <2>6, <2>7, <2>8, <2>9, <2>11 DEF DirInv, FileKept
  <2> QED BY <2>10, <2>11
<1>6. CASE MakeFails \/ MakeEnds
  <2>1. keydir' = keydir /\ maker'.at \in {"failed", "idle"}
    BY <1>6, <1>0 DEF MakeFails, MakeEnds, MakerSays, Gone, Makers
  <2> QED BY <2>1 DEF DirInv, FileKept
<1>7. CASE Printkey
  <2>1. /\ keydir'.exists = keydir.exists /\ keydir'.made = keydir.made
        /\ keydir'.pk = keydir.pk /\ keydir'.sk = keydir.sk
        /\ keydir'.reported = keydir.reported /\ keydir'.printed = keydir.pk.key
        /\ maker' = maker /\ keydir.exists
    BY <1>7, <1>0 DEF Printkey, Keydirs
  <2> QED BY <2>1 DEF DirInv, FileKept
<1>8. CASE RemoveDir
  <2>1. /\ keydir'.exists = FALSE /\ keydir'.made = keydir.made
        /\ keydir'.pk = Absent /\ keydir'.sk = Absent
        /\ keydir'.reported = 0 /\ keydir'.printed = 0
        /\ maker' = maker /\ maker.at = "idle"
    BY <1>8, <1>0 DEF RemoveDir, NoDir
  <2> QED BY <2>1 DEF DirInv, FileKept, Absent
<1>9. CASE PowerLoss
  <2>1. maker'.at = "idle" BY <1>9 DEF PowerLoss, Gone
  <2>2. CASE keydir' = [NoDir EXCEPT !.made = keydir.made]
    BY <2>1, <2>2 DEF NoDir, DirInv, FileKept, Absent
  <2>3. ASSUME NEW p \in Kept(keydir.pk), NEW s \in Kept(keydir.sk),
               keydir' = [keydir EXCEPT !.pk = p, !.sk = s]
        PROVE  DirInv'
    <3>1. /\ FileKept(p) /\ p.key \in {0, keydir.pk.key}
          /\ p.key # 0 /\ keydir.pk.synced = FileParts => p.synced = FileParts
      BY <1>0, KeptFile DEF DirInv
    <3>2. /\ FileKept(s) /\ s.key \in {0, keydir.sk.key}
          /\ s.key # 0 /\ keydir.sk.synced = FileParts => s.synced = FileParts
      BY <1>0, KeptFile DEF DirInv
    <3>3. /\ keydir'.exists = keydir.exists /\ keydir'.made = keydir.made
          /\ keydir'.pk = p /\ keydir'.sk = s
          /\ keydir'.reported = keydir.reported /\ keydir'.printed = keydir.printed
      BY <2>3, <1>0 DEF Keydirs
    <3>4. p.key = 0 => p = Absent BY <3>1 DEF FileKept
    <3>5. s.key = 0 => s = Absent BY <3>2 DEF FileKept
    <3>6. ~keydir.exists => p = Absent /\ s = Absent
      BY <3>1, <3>2, <3>4, <3>5 DEF DirInv, Absent
    <3> QED BY <2>1, <3>1, <3>2, <3>3, <3>6 DEF DirInv, FileKept
  <2> QED BY <1>9, <2>2, <2>3 DEF PowerLoss
<1>10. CASE UNCHANGED startVars \/ StartServer \/ ServerStep \/ AuthFork \/ ShellSeen
            \/ EndServer \/ ChildStep \/ ShellFork \/ ShellEnds \/ Killed
  <2>1. UNCHANGED <<keydir, maker>>
    BY <1>10 DEF startVars, StartServer, ServerStep, ReadKeys, SignFork, ParentClose,
      ParentRead, ParentWait, AuthWait, AuthFork, ShellSeen, EndServer, ChildStep,
      SignLoad, SignWrite, SignExit, AuthDrop, AuthKeys, ShellDrop, ShellFork,
      ShellEnds, Killed
  <2> QED BY <1>1, <2>1
<1> QED
  BY <1>2, <1>3, <1>4, <1>5, <1>6, <1>7, <1>8, <1>9, <1>10 DEF StartNext, MakerStep

----------------------------------------------------------------------------
(* The server, its pipe and its child.                                     *)

\* What of the server an action of somebody else leaves true.
LEMMA ServerKeeps ==
  ASSUME StartType, ServerInv, UNCHANGED <<server, pipe, helper>>,
         keydir'.made \in Nat,
         keydir'.made = keydir.made \/ keydir'.made = keydir.made + 1
  PROVE  ServerInv'
<1>0. keydir.made \in Nat /\ server.key \in Nat
  BY DEF StartType, Keydirs, Servers
<1>1. ASSUME NEW k, Signed(k), server.key <= keydir.made
      PROVE  Signed(k)'
  BY <1>0, <1>1 DEF Signed
<1>2. server.key <= keydir.made => server.key <= keydir'.made
  BY <1>0
<1> QED
  BY <1>0, <1>1, <1>2 DEF ServerInv, Signed, Ended

LEMMA ServerStepKeeps ==
  ASSUME StartType, DirInv, ServerInv, [StartNext]_startVars
  PROVE  ServerInv'
<1>0. /\ keydir \in Keydirs /\ keydir.made \in Nat /\ keydir.pk.key \in Nat
      /\ keydir.sk.key \in Nat /\ server \in Servers(server.types)
      /\ server.key \in Nat /\ server.got \in Nat /\ helper \in Helpers
      /\ helper.key \in Nat /\ pipe \in Pipes /\ pipe.parts \in Nat
  BY DEF StartType, Keydirs, Files, Servers, Helpers, Pipes
<1>1. CASE UNCHANGED <<server, pipe, helper>> /\ UNCHANGED keydir
  BY <1>1, <1>0, ServerKeeps
<1>2. CASE MakerStep \/ Printkey \/ RemoveDir
  <2>1. UNCHANGED <<server, pipe, helper>>
    BY <1>2 DEF MakerStep, Mkdir, SaveOpen, SaveWrite, SaveEnd, MakeFails, MakeEnds,
      Printkey, RemoveDir
  <2>2. keydir'.made = keydir.made \/ keydir'.made = keydir.made + 1
    <3>1. CASE Mkdir
      <4>1. keydir' = [keydir EXCEPT !.exists = TRUE, !.made = @ + 1]
        BY <3>1 DEF Mkdir
      <4> QED BY <4>1, <1>0 DEF Keydirs
    <3>2. CASE SaveOpen BY <3>2, <1>0 DEF SaveOpen, Keydirs
    <3>3. CASE SaveWrite BY <3>3, <1>0 DEF SaveWrite, Keydirs
    <3>4. CASE \E f \in {"pk", "sk"} : SaveEnd(f)
      <4>1. PICK f \in {"pk", "sk"} : SaveEnd(f) BY <3>4
      <4> QED BY <4>1, <1>0 DEF SaveEnd, Keydirs
    <3>5. CASE MakeFails \/ MakeEnds BY <3>5 DEF MakeFails, MakeEnds
    <3>6. CASE Printkey BY <3>6, <1>0 DEF Printkey, Keydirs
    <3>7. CASE RemoveDir BY <3>7, <1>0 DEF RemoveDir, NoDir
    <3> QED BY <1>2, <3>1, <3>2, <3>3, <3>4, <3>5, <3>6, <3>7 DEF MakerStep
  <2> QED BY <2>1, <2>2, <1>0, ServerKeeps
<1>3. CASE StartServer
  <2>1. PICK word \in OptionWords, who \in Users :
               server' = [ServerDown EXCEPT !.types = Options(word).types, !.cred = Cred(who),
                            !.at = IF Options(word).usage THEN "over" ELSE "start"]
    BY <1>3 DEF StartServer, Users
  <2>2. server'.at \in {"over", "start"} /\ server'.cred = Cred(who)
    BY <2>1 DEF ServerDown
  <2>3. Cred(who) = Cred(Cred(who).uid)
    BY DEF Cred
  <2>4. helper.at = "none" /\ UNCHANGED <<pipe, helper, keydir>>
    BY <1>3 DEF StartServer
  <2> QED BY <2>2, <2>3, <2>4 DEF ServerInv
<1>4. CASE ReadKeys
  <2>1. UNCHANGED <<keydir, pipe, helper>> /\ server.at = "start"
    BY <1>4 DEF ReadKeys
  <2>2. CASE /\ Load(keydir.pk) = "loaded"
             /\ server' = [server EXCEPT !.at = "kex", !.key = keydir.pk.key]
    <3>1. keydir.pk.key # 0 BY <2>2 DEF Load
    <3>2. keydir.pk.key = keydir.made BY <3>1 DEF DirInv, FileKept
    <3>3. /\ server'.at = "kex" /\ server'.key = keydir.made /\ server'.cred = server.cred
      BY <2>2, <3>2, <1>0 DEF Servers
    <3> QED BY <1>0, <2>1, <3>1, <3>2, <3>3 DEF ServerInv
  <2>3. CASE ServerAt("over")
    <3>1. server'.at = "over" /\ server'.cred = server.cred
      BY <2>3, <1>0, ServerAtType
    <3> QED BY <2>1, <3>1 DEF ServerInv
  <2> QED BY <1>4, <2>2, <2>3 DEF ReadKeys
<1>5. CASE EndServer \/ PowerLoss
  <2>1. server' = ServerDown /\ helper' = NoHelper /\ pipe' = NoPipe
    BY <1>5 DEF EndServer, PowerLoss
  <2>2. /\ server'.at = "down" /\ helper'.at = "none" /\ pipe'.parts = 0
        /\ server'.cred = Cred(server'.cred.uid)
    BY <2>1 DEF ServerDown, NoHelper, NoPipe, Cred
  <2> QED BY <2>2 DEF ServerInv
<1>6. CASE SignFork
  <2>1. UNCHANGED keydir /\ server.at = "kex" BY <1>6 DEF SignFork
  <2>2. CASE ServerAt("over") /\ UNCHANGED <<pipe, helper>>
    <3>1. server'.at = "over" /\ server'.cred = server.cred
      BY <2>2, <1>0, ServerAtType
    <3> QED BY <2>2, <2>1, <3>1 DEF ServerInv
  <2>3. CASE /\ ServerAt("close")
             /\ pipe' = [writers |-> {"parent", "child"}, parts |-> 0]
             /\ helper' = [NoHelper EXCEPT !.at = "load"]
    <3>1. /\ server'.at = "close" /\ server'.cred = server.cred
          /\ server'.key = server.key
      BY <2>3, <1>0, ServerAtType
    <3>2. helper'.at = "load" /\ pipe'.parts = 0
      BY <2>3 DEF NoHelper
    <3> QED BY <2>1, <3>1, <3>2 DEF ServerInv, Ended
  <2> QED BY <1>6, <2>2, <2>3 DEF SignFork
<1>7. CASE SignLoad
  <2>1. UNCHANGED <<keydir, server>> /\ helper.at = "load" BY <1>7 DEF SignLoad
  <2>2. CASE /\ Load(keydir.sk) = "loaded" /\ UNCHANGED pipe
             /\ helper' = [helper EXCEPT !.at = "write", !.key = keydir.sk.key]
    <3>1. keydir.sk.key # 0 BY <2>2 DEF Load
    <3>2. keydir.sk.key = keydir.made BY <3>1 DEF DirInv, FileKept
    <3>3. helper'.at = "write" /\ helper'.key = keydir.made
      BY <2>2, <3>2, <1>0 DEF Helpers
    <3>4. server.at \notin {"down", "start", "kex", "auth", "authwait"}
      BY <2>1 DEF ServerInv
    <3> QED BY <2>1, <2>2, <3>1, <3>2, <3>3, <3>4 DEF ServerInv, Signed, Ended
  <2>3. CASE /\ helper' = Exited(helper, "exit111")
             /\ pipe' = [pipe EXCEPT !.writers = @ \ {"child"}]
    <3>1. /\ helper'.at = "exit111" /\ pipe'.parts = pipe.parts
          /\ pipe'.writers = pipe.writers \ {"child"}
      BY <2>3, <1>0 DEF Exited, Helpers, Pipes
    <3>2. server.at \notin {"down", "start", "kex", "auth", "authwait"}
      BY <2>1 DEF ServerInv
    <3> QED BY <2>1, <3>1, <3>2 DEF ServerInv, Signed, Ended
  <2> QED BY <1>7, <2>2, <2>3 DEF SignLoad
<1>8. CASE SignWrite
  <2>1. PICK n \in 1 .. FileParts - pipe.parts :
               pipe' = [pipe EXCEPT !.parts = @ + n]
    BY <1>8 DEF SignWrite
  <2>2. pipe'.parts = pipe.parts + n /\ pipe'.writers = pipe.writers
    BY <2>1, <1>0 DEF Pipes
  <2>3. pipe'.parts <= FileParts
    BY <2>1, <2>2, <1>0
  <2>4. UNCHANGED <<keydir, server, helper>> BY <1>8 DEF SignWrite
  <2> QED BY <2>2, <2>3, <2>4 DEF ServerInv, Signed, Ended
<1>9. CASE SignExit
  <2>1. /\ helper.at = "write" /\ helper'.at = "exit0" /\ helper'.key = helper.key
        /\ pipe'.parts = pipe.parts /\ pipe'.writers = pipe.writers \ {"child"}
        /\ UNCHANGED <<keydir, server>>
    BY <1>9, <1>0 DEF SignExit, Exited, Helpers, Pipes
  <2> QED BY <2>1 DEF ServerInv, Signed, Ended
<1>10. CASE ParentClose
  <2>1. /\ server.at = "close" /\ server'.at = "read" /\ server'.cred = server.cred
        /\ server'.key = server.key
    BY <1>10, <1>0, ServerAtType DEF ParentClose
  <2>2. /\ pipe'.parts = pipe.parts /\ pipe'.writers = pipe.writers \ {"parent"}
        /\ pipe.writers \in SUBSET {"parent", "child"}
        /\ UNCHANGED <<keydir, helper>>
    BY <1>10, <1>0 DEF ParentClose, Pipes
  <2> QED BY <2>1, <2>2 DEF ServerInv, Signed, Ended
<1>11. CASE ParentRead
  <2>1. server.at = "read" /\ UNCHANGED <<keydir, pipe, helper>>
    BY <1>11 DEF ParentRead
  <2>2. CASE ServerAt("over")
    <3>1. server'.at = "over" /\ server'.cred = server.cred
      BY <2>2, <1>0, ServerAtType
    <3> QED BY <2>1, <3>1 DEF ServerInv
  <2>3. CASE server' = [server EXCEPT !.got = pipe.parts,
                         !.at = IF pipe.parts = FileParts THEN "wait" ELSE "read"]
    <3>1. /\ server'.at = (IF pipe.parts = FileParts THEN "wait" ELSE "read")
          /\ server'.got = pipe.parts /\ server'.cred = server.cred
          /\ server'.key = server.key
      BY <2>3, <1>0 DEF Servers
    <3>2. CASE pipe.parts = FileParts
      BY <2>1, <3>1, <3>2 DEF ServerInv, Signed
    <3>3. CASE pipe.parts # FileParts
      BY <2>1, <3>1, <3>3 DEF ServerInv, Signed, Ended
    <3> QED BY <3>2, <3>3
  <2> QED BY <1>11, <2>2, <2>3 DEF ParentRead
<1>12. CASE ParentWait
  <2>1. /\ server.at = "wait" /\ UNCHANGED <<keydir, pipe>>
        /\ server'.at = (IF helper.at = "exit0" THEN "auth" ELSE "over")
        /\ server'.sig = helper.key /\ server'.got = server.got
        /\ server'.cred = server.cred /\ server'.key = server.key
        /\ helper'.at = "none"
    BY <1>12, <1>0 DEF ParentWait, Servers, NoHelper
  <2>2. CASE helper.at = "exit0"
    BY <2>1, <2>2 DEF ServerInv, Signed
  <2>3. CASE helper.at # "exit0"
    BY <2>1, <2>3 DEF ServerInv
  <2> QED BY <2>2, <2>3
<1>13. CASE AuthFork
  <2>1. server.at = "auth" /\ UNCHANGED <<keydir, pipe>> BY <1>13 DEF AuthFork
  <2>2. PICK at \in {"auth", "over", "authwait"} :
          /\ ServerAt(at)
          /\ at = "authwait" =>
               helper' = [NoHelper EXCEPT !.at = "account", !.cred = server.cred,
                                              !.from = server.cred.uid]
          /\ at # "authwait" => UNCHANGED helper
    BY <1>13 DEF AuthFork
  <2>3. /\ server'.at = at /\ server'.cred = server.cred /\ server'.key = server.key
        /\ server'.got = server.got /\ server'.sig = server.sig
    BY <2>2, <1>0, ServerAtType
  <2>4. IF at = "authwait" THEN helper'.at = "account" ELSE helper'.at = "none"
    BY <2>1, <2>2 DEF NoHelper, ServerInv
  <2> QED BY <2>1, <2>3, <2>4 DEF ServerInv, Signed
<1>14. CASE AuthDrop \/ AuthKeys \/ ShellDrop \/ ShellEnds
  <2>1. /\ UNCHANGED <<keydir, server, pipe>>
        /\ helper.at \in {"account", "keys", "drop", "shell"}
        /\ helper.at = "account" => helper'.at \in {"exit111", "keys"}
        /\ helper.at = "keys" => helper'.at \in {"exit0", "exit111"}
        /\ helper.at = "drop" => helper'.at \in {"exit111", "shell"}
        /\ helper.at = "shell" => helper'.at = "exit0"
    BY <1>14, <1>0 DEF AuthDrop, AuthKeys, ShellDrop, ShellEnds, Exited, Helpers
  <2>2. server.at \in {"authwait", "serve", "over"}
    BY <2>1, <1>0 DEF ServerInv, Servers
  <2>3. server.at = "authwait" => helper.at \in {"account", "keys"}
    BY <2>1 DEF ServerInv
  <2> QED BY <2>1, <2>2, <2>3 DEF ServerInv, Signed
<1>15. CASE AuthWait
  <2>1. PICK at \in {"serve", "auth"} : ServerAt(at)
    BY <1>15 DEF AuthWait
  <2>2. /\ server'.at = at /\ server'.cred = server.cred /\ server'.key = server.key
        /\ server'.got = server.got /\ server'.sig = server.sig
    BY <2>1, <1>0, ServerAtType
  <2>3. server.at = "authwait" /\ UNCHANGED <<keydir, pipe>> /\ helper'.at = "none"
    BY <1>15 DEF AuthWait, NoHelper
  <2> QED BY <2>2, <2>3 DEF ServerInv, Signed
<1>16. CASE ShellFork
  <2>1. server.at = "serve" /\ UNCHANGED <<keydir, server, pipe>>
    BY <1>16 DEF ShellFork
  <2> QED BY <2>1 DEF ServerInv, Signed
<1>17. CASE ShellSeen
  <2>1. server'.at = "over" /\ server'.cred = server.cred
    BY <1>17, <1>0, ServerAtType DEF ShellSeen
  <2>2. UNCHANGED <<keydir, pipe, helper>> BY <1>17 DEF ShellSeen
  <2> QED BY <2>1, <2>2 DEF ServerInv
<1>18. CASE Killed
  <2>1. /\ helper.at # "none" /\ helper'.at = "killed" /\ helper'.key = helper.key
        /\ pipe'.parts = pipe.parts /\ pipe'.writers = pipe.writers \ {"child"}
        /\ UNCHANGED <<keydir, server>>
    BY <1>18, <1>0 DEF Killed, Exited, Helpers, Pipes
  <2> QED BY <2>1 DEF ServerInv, Signed, Ended
<1> QED
  BY <1>1, <1>2, <1>3, <1>4, <1>5, <1>6, <1>7, <1>8, <1>9, <1>10, <1>11, <1>12,
     <1>13, <1>14, <1>15, <1>16, <1>17, <1>18
  DEF StartNext, ServerStep, ChildStep, startVars

----------------------------------------------------------------------------
(* Identities of the children.                                             *)

\* dropuidgid takes the groups before the user: root has everything of the
\* user's afterwards, anyone else is the user or is refused.
LEMMA DropGivesUser ==
  ASSUME NEW who \in Users, Dropped(Cred(who))
  PROVE  /\ dropuidgid(Cred(who)).uid = "user"
         /\ who = "root" => dropuidgid(Cred(who)) = Cred("user")
  BY DEF Users, Dropped, dropuidgid, UserSet, GroupsSet, Cred

LEMMA HelperStep ==
  ASSUME StartType, ServerInv, HelperInv, [StartNext]_startVars
  PROVE  HelperInv'
<1>0. /\ helper \in Helpers /\ helper.from \in Users /\ helper.cred \in Creds
      /\ server.cred.uid \in Users /\ server.cred = Cred(server.cred.uid)
  BY DEF StartType, Helpers, Servers, Creds, ServerInv
<1>1. CASE UNCHANGED helper
  BY <1>1 DEF HelperInv, IdentityDropped
<1>2. CASE helper'.at \notin {"account", "drop", "keys", "shell"}
  BY <1>2 DEF HelperInv, IdentityDropped
<1>3. CASE AuthFork
  <2>1. CASE helper' = [NoHelper EXCEPT !.at = "account", !.cred = server.cred,
                                              !.from = server.cred.uid]
    <3>1. /\ helper'.at = "account" /\ helper'.cred = server.cred
          /\ helper'.from = server.cred.uid /\ helper'.tty = "none"
      BY <2>1 DEF NoHelper
    <3> QED BY <1>0, <3>1 DEF HelperInv, IdentityDropped
  <2> QED BY <1>1, <1>3, <2>1 DEF AuthFork
<1>4. CASE ShellFork
  <2>1. PICK tty \in {"none", server.cred.uid} :
               helper' = [NoHelper EXCEPT !.at = "drop", !.cred = server.cred,
                              !.from = server.cred.uid, !.tty = tty]
    BY <1>4 DEF ShellFork
  <2>2. /\ helper'.at = "drop" /\ helper'.cred = server.cred
        /\ helper'.from = server.cred.uid /\ helper'.tty = tty
    BY <2>1 DEF NoHelper
  <2> QED BY <1>0, <2>2 DEF HelperInv, IdentityDropped
<1>5. CASE AuthDrop
  <2>1. CASE /\ Dropped(helper.cred)
             /\ helper' = [helper EXCEPT !.at = "keys", !.cred = dropuidgid(@)]
    <3>1. helper.cred = Cred(helper.from) /\ helper.tty = "none"
      BY <1>5 DEF AuthDrop, HelperInv
    <3>2. /\ helper'.at = "keys" /\ helper'.cred = dropuidgid(Cred(helper.from))
          /\ helper'.from = helper.from /\ helper'.tty = helper.tty
      BY <2>1, <3>1, <1>0 DEF Helpers
    <3> QED BY <1>0, <2>1, <3>1, <3>2, DropGivesUser DEF HelperInv, IdentityDropped
  <2>2. CASE helper' = Exited(helper, "exit111")
    BY <2>2, <1>0, <1>2 DEF Exited, Helpers
  <2> QED BY <1>5, <2>1, <2>2 DEF AuthDrop
<1>6. CASE ShellDrop
  <2>1. CASE /\ ChownAllowed(helper) /\ Dropped(helper.cred)
             /\ helper' = [helper EXCEPT !.at = "shell", !.cred = dropuidgid(@),
                                             !.tty = Chowned(helper)]
    <3>1. helper.cred = Cred(helper.from)
      BY <1>6 DEF ShellDrop, HelperInv
    <3>2. /\ helper'.at = "shell" /\ helper'.cred = dropuidgid(Cred(helper.from))
          /\ helper'.from = helper.from /\ helper'.tty = Chowned(helper)
      BY <2>1, <3>1, <1>0 DEF Helpers
    <3>3. Chowned(helper) \in {"none", "user"}
      BY DEF Chowned
    <3> QED BY <1>0, <2>1, <3>1, <3>2, <3>3, DropGivesUser DEF HelperInv, IdentityDropped
  <2>2. CASE helper' = Exited(helper, "exit111")
    BY <2>2, <1>0, <1>2 DEF Exited, Helpers
  <2> QED BY <1>6, <2>1, <2>2 DEF ShellDrop
<1>7. CASE SignFork \/ SignLoad \/ SignExit \/ ParentWait \/ AuthKeys \/ AuthWait
           \/ EndServer \/ ShellEnds \/ Killed \/ PowerLoss
  <2>1. UNCHANGED helper \/ helper'.at \notin {"account", "drop", "keys", "shell"}
    <3>1. CASE SignFork BY <3>1 DEF SignFork, NoHelper
    <3>2. CASE SignLoad \/ SignExit
      BY <3>2, <1>0 DEF SignLoad, SignExit, Exited, Helpers
    <3>3. CASE ParentWait \/ AuthWait \/ EndServer \/ PowerLoss
      <4>1. helper' = NoHelper
        BY <3>3 DEF ParentWait, AuthWait, EndServer, PowerLoss
      <4> QED BY <4>1 DEF NoHelper
    <3>4. CASE AuthKeys \/ ShellEnds \/ Killed
      BY <3>4, <1>0 DEF AuthKeys, ShellEnds, Killed, Exited, Helpers
    <3> QED BY <1>7, <3>1, <3>2, <3>3, <3>4
  <2> QED BY <2>1, <1>1, <1>2
<1>8. CASE \/ UNCHANGED startVars \/ MakerStep \/ Printkey \/ RemoveDir \/ StartServer
           \/ ReadKeys \/ ParentClose \/ ParentRead \/ ShellSeen \/ SignWrite
  <2>1. UNCHANGED helper
    BY <1>8 DEF startVars, MakerStep, Mkdir, SaveOpen, SaveWrite, SaveEnd, MakeFails,
      MakeEnds, Printkey, RemoveDir, StartServer, ReadKeys, ParentClose, ParentRead,
      ShellSeen, SignWrite
  <2> QED BY <2>1, <1>1
<1> QED
  BY <1>3, <1>4, <1>5, <1>6, <1>7, <1>8 DEF StartNext, ServerStep, ChildStep

LEMMA StartInvInit == StartInit => StartInv
<1> SUFFICES ASSUME StartInit PROVE StartInv OBVIOUS
<1>1. /\ keydir \in Keydirs /\ maker \in Makers /\ server \in Servers(server.types)
      /\ pipe \in Pipes /\ helper \in Helpers
  BY DEF StartInit, NoDir, Absent, Gone, ServerDown, NoPipe, NoHelper, Keydirs,
     Makers, Servers, Pipes, Helpers, Files, Creds, Cred, Users
<1>2. DirInv
  BY DEF StartInit, NoDir, Absent, Gone, DirInv, FileKept
<1>3. ServerInv
  BY DEF StartInit, ServerDown, NoPipe, NoHelper, ServerInv, Cred
<1>4. HelperInv
  BY DEF StartInit, NoHelper, HelperInv, IdentityDropped
<1> QED BY <1>1, <1>2, <1>3, <1>4 DEF StartInv, StartType

----------------------------------------------------------------------------
(* The environment of a command.                                           *)

LEMMA ListLength == NewenvLen \in Nat /\ NewenvLen # 0 BY EnvAssumption
LEMMA NamesProper == "" \notin Names /\ IsFiniteSet(Names) BY EnvAssumption, Zenon
LEMMA SizesProper == NewenvSpace \in Nat /\ Sizes \subseteq Nat BY EnvAssumption, Zenon
USE ListLength

Pointers == [name : Names \cup {""}, size : Nat]
EnvType ==
  /\ e \in [Slots -> Pointers] /\ elen \in 0 .. NewenvLen /\ eslen \in Nat
  /\ wanted \in [Names -> Nat \cup {Unset}] /\ spoiled \in BOOLEAN

\* After newenv_purge the list counts as full and is empty.
Purged == /\ elen = NewenvLen /\ \A i \in Slots : e[i] = Null
          /\ \A s \in Names : wanted[s] = Unset

\* Otherwise elen is where the list ends, and it has every variable that is
\* wanted, with its value, and no variable twice.
Taken == {i \in Slots : i < elen}
Listed ==
  /\ elen < NewenvLen /\ e[elen] = Null
  /\ \A i \in Taken : e[i].name \in Names /\ wanted[e[i].name] = e[i].size
  /\ \A i, j \in Taken : e[i].name = e[j].name => i = j
  /\ \A s \in Names : wanted[s] # Unset => \E i \in Taken : e[i].name = s

EnvInv == EnvType /\ (~spoiled => Purged \/ Listed)

LEMMA SlotFacts == /\ 0 \in Slots
                   /\ \A i \in Slots : i \in Nat /\ 0 .. i \subseteq Slots
                   /\ \A i \in Nat : i < NewenvLen => i \in Slots
  BY DEF Slots

LEMMA EmptyType == /\ [i \in Slots |-> Null] \in [Slots -> Pointers]
                   /\ [s \in Names |-> Unset] \in [Names -> Nat \cup {Unset}]
                   /\ 0 \in 0 .. NewenvLen /\ NewenvLen \in 0 .. NewenvLen
<1>1. Null \in Pointers BY DEF Null, Pointers
<1> QED BY <1>1

LEMMA PurgedVisible == Purged => Visible = {}
<1> SUFFICES ASSUME Purged, NEW i \in Visible PROVE FALSE OBVIOUS
<1>1. i \in Slots /\ e[0] # Null
  BY SlotFacts DEF Visible
<1> QED BY <1>1, SlotFacts DEF Purged

LEMMA ListedVisible ==
  ASSUME EnvType, Listed
  PROVE  Visible = Taken
<1>1. elen \in Slots /\ elen \in Nat
  BY SlotFacts DEF EnvType, Listed
<1>2. ASSUME NEW i \in Taken PROVE i \in Visible
  <2>1. i \in Slots /\ i < elen /\ i \in Nat BY SlotFacts DEF Taken
  <2>2. ASSUME NEW j \in 0 .. i PROVE e[j] # Null
    <3>1. j \in Taken BY <2>1, <1>1, SlotFacts DEF Taken
    <3>2. e[j].name # ""
      <4>1. e[j].name \in Names BY <3>1 DEF Listed
      <4> QED BY <4>1, NamesProper
    <3>3. Null.name = "" BY DEF Null
    <3> QED BY <3>2, <3>3
  <2> QED BY <2>1, <2>2 DEF Visible
<1>3. ASSUME NEW i \in Visible PROVE i \in Taken
  <2>1. i \in Slots /\ i \in Nat /\ \A j \in 0 .. i : e[j] # Null
    BY SlotFacts DEF Visible
  <2>2. e[elen] = Null BY DEF Listed
  <2>3. elen \notin 0 .. i BY <2>1, <2>2
  <2> QED BY <2>1, <2>3, <1>1 DEF Taken
<1> QED BY <1>2, <1>3

\* The first pointer with a name is the only one.
LEMMA FoundAt ==
  ASSUME EnvType, Listed, NEW k \in Taken
  PROVE  LET at == {i \in Visible : e[i].name = e[k].name}
         IN at = {k} /\ (CHOOSE i \in at : \A j \in at : i <= j) = k
<1> DEFINE at == {i \in Visible : e[i].name = e[k].name}
<1>1. at = {k} BY ListedVisible DEF Listed
<1>2. k \in Int BY SlotFacts DEF Taken
<1>3. \A i \in at : (\A j \in at : i <= j) <=> i = k BY <1>1, <1>2
<1> HIDE DEF at
<1>4. k \in at /\ \A j \in at : k <= j BY <1>1, <1>2
<1>5. (CHOOSE i \in at : \A j \in at : i <= j) = k BY <1>1, <1>3, <1>4
<1> QED BY <1>1, <1>5 DEF at

LEMMA EnvStep ==
  ASSUME EnvInv, [EnvNext]_envVars
  PROVE  EnvInv'
<1>0. /\ e \in [Slots -> Pointers] /\ elen \in 0 .. NewenvLen /\ eslen \in Nat
      /\ wanted \in [Names -> Nat \cup {Unset}] /\ spoiled \in BOOLEAN
      /\ Null \in Pointers
  BY DEF EnvInv, EnvType, Null, Pointers
<1>1. CASE UNCHANGED envVars
  BY <1>1 DEF envVars, EnvInv, EnvType, Purged, Listed, Taken
<1>2. ASSUME NewenvInit PROVE EnvInv'
  <2>1. EnvType' BY <1>2, <1>0, EmptyType DEF NewenvInit, EnvType
  <2>2. Listed' BY <1>2, SlotFacts DEF NewenvInit, Listed, Taken
  <2> QED BY <2>1, <2>2 DEF EnvInv
<1>3. CASE NewenvPurge
  <2>1. EnvType' BY <1>3, <1>0, EmptyType, SizesProper DEF NewenvPurge, EnvType
  <2>2. Purged' BY <1>3 DEF NewenvPurge, Purged
  <2> QED BY <2>1, <2>2 DEF EnvInv
<1>4. ASSUME NEW x \in {1, 2}, NEW s \in Names, NEW t \in Nat, elen = 0, PutFirst(x, s, t)
      PROVE  EnvInv'
  <2>1. CASE NewenvInit BY <2>1, <1>2
  <2>2. CASE /\ 2 <= NewenvLen \div x
             /\ e' = [i \in Slots |-> IF i = 0 THEN [name |-> s, size |-> t] ELSE Null]
             /\ elen' = 1 /\ eslen' = StringLen(t)
             /\ wanted' = [n \in Names |-> IF n = s THEN t ELSE Unset]
             /\ spoiled' = FALSE
    <3>1. 1 < NewenvLen
      BY <2>2
    <3>2. [name |-> s, size |-> t] \in Pointers
      BY DEF Pointers
    <3>3. EnvType'
      <4>1. e' \in [Slots -> Pointers] BY <2>2, <3>2, <1>0
      <4>2. wanted' \in [Names -> Nat \cup {Unset}] BY <2>2
      <4>3. elen' \in 0 .. NewenvLen BY <2>2, <3>1
      <4>4. eslen' \in Nat BY <2>2 DEF StringLen
      <4>5. spoiled' \in BOOLEAN BY <2>2
      <4> QED BY <4>1, <4>2, <4>3, <4>4, <4>5 DEF EnvType
    <3>4. Taken' = {0}
      BY <2>2, SlotFacts DEF Taken
    <3>5. 1 \in Slots BY <3>1, SlotFacts
    <3>6. e'[0] = [name |-> s, size |-> t] /\ e'[1] = Null
      BY <2>2, <3>5, SlotFacts
    <3>7. wanted'[s] = t /\ \A n \in Names : n # s => wanted'[n] = Unset
      BY <2>2
    <3>8. e'[0].name = s /\ e'[0].size = t BY <3>6
    <3>9. Listed'
      BY <2>2, <3>1, <3>4, <3>6, <3>7, <3>8 DEF Listed
    <3> QED BY <3>3, <3>9 DEF EnvInv
  <2> QED BY <1>4, <2>1, <2>2 DEF PutFirst
<1>5. ASSUME NEW x \in {1, 2}, NEW s \in Names, NEW t \in Nat, elen # 0, Put(x, s, t)
      PROVE  EnvInv'
  <2> DEFINE at == {i \in Visible : e[i].name = s}
             k  == CHOOSE i \in at : \A j \in at : i <= j
             p  == [name |-> s, size |-> t]
  <2>1. elen - 1 \in Slots /\ e[elen - 1] \in Pointers /\ p \in Pointers
    <3>1. elen - 1 \in Nat /\ elen - 1 < NewenvLen BY <1>0, <1>5
    <3>2. elen - 1 \in Slots BY <3>1, SlotFacts
    <3>3. p \in Pointers BY DEF Pointers
    <3> QED BY <1>0, <3>2, <3>3
  <2>2. Without(s) \in [Slots -> Pointers] /\ LenWithout(s) \in 0 .. elen
    <3>1. Without(s) = e \/ Without(s) = [e EXCEPT ![k] = e[elen - 1]]
      BY DEF Without
    <3> HIDE DEF k
    <3> QED BY <3>1, <2>1, <1>0, <1>5 DEF LenWithout
  <2>3. CASE Fits(x, s, t)
    <3>1. LenWithout(s) + 2 <= NewenvLen
      BY <2>3, <2>2, <1>0 DEF Fits
    <3> DEFINE m == LenWithout(s)
    <3>2. m \in Nat /\ m \in Slots /\ m + 1 \in Slots /\ m + 1 \in 0 .. NewenvLen
      BY <3>1, <2>2, <1>0, SlotFacts
    <3>3. /\ e' = [Without(s) EXCEPT ![m] = p, ![m + 1] = Null]
          /\ elen' = m + 1 /\ eslen' = eslen + StringLen(t)
          /\ wanted' = [wanted EXCEPT ![s] = t] /\ spoiled' = spoiled
      BY <1>5, <2>3 DEF Put
    <3> HIDE DEF m
    <3>4. /\ e' \in [Slots -> Pointers] /\ e'[m] = p /\ e'[m + 1] = Null
          /\ \A i \in Slots : i # m /\ i # m + 1 => e'[i] = Without(s)[i]
      BY <3>2, <3>3, <2>1, <2>2, <1>0
    <3>5. /\ wanted'[s] = t /\ wanted' \in [Names -> Nat \cup {Unset}]
          /\ \A n \in Names : n # s => wanted'[n] = wanted[n]
      BY <3>3, <1>0
    <3>6. EnvType'
      BY <3>2, <3>3, <3>4, <3>5, <1>0 DEF EnvType, StringLen
    <3>7. ASSUME ~spoiled PROVE Listed'
      <4>1. ~Purged
        <5>1. SUFFICES ASSUME Purged PROVE FALSE OBVIOUS
        <5>2. ~Replaces(s) BY <5>1, PurgedVisible DEF Replaces
        <5>3. LenWithout(s) = NewenvLen BY <5>1, <5>2 DEF Purged, LenWithout
        <5> QED BY <3>1, <5>3
      <4>2. Listed BY <3>7, <4>1 DEF EnvInv
      <4>3. Visible = Taken BY <4>2, <1>0, ListedVisible DEF EnvType
      <4>4. Taken' = {i \in Slots : i < m + 1}
        BY <3>3 DEF Taken
      <4>5. p.name = s /\ p.size = t OBVIOUS
      <4> HIDE DEF p
      <4>6. CASE ~Replaces(s)
        <5>1. m = elen /\ Without(s) = e /\ \A i \in Taken : e[i].name # s
          BY <4>6, <4>3 DEF m, LenWithout, Without, Replaces
        <5>2. Taken' = Taken \cup {elen} /\ elen \notin Taken
          <6>1. elen \in Nat BY <5>1, <3>2
          <6>2. elen \in Slots BY <5>1, <3>2
          <6>3. \A i \in Slots : i \in Nat BY SlotFacts
          <6>4. \A i \in Slots : i < elen + 1 <=> i < elen \/ i = elen BY <6>1, <6>3
          <6>5. ~(elen < elen) BY <6>1
          <6>6. Taken' = {i \in Slots : i < elen + 1} BY <4>4, <5>1
          <6> QED BY <6>2, <6>4, <6>5, <6>6 DEF Taken
        <5>3. \A i \in Taken : i # m /\ i # m + 1 /\ i \in Slots
          BY <5>1, <3>2, SlotFacts DEF Taken
        <5>4. \A i \in Taken : e'[i] = e[i] BY <5>3, <5>1, <3>4
        <5>5. e'[elen] = p BY <5>1, <3>4
        <5>6. \A i \in Taken' : e'[i].name \in Names /\ wanted'[e'[i].name] = e'[i].size
          BY <5>1, <5>2, <5>4, <5>5, <4>2, <4>5, <3>5 DEF Listed
        <5>7. \A i, j \in Taken' : e'[i].name = e'[j].name => i = j
          BY <5>1, <5>2, <5>4, <5>5, <4>2, <4>5 DEF Listed
        <5>8. \A n \in Names : wanted'[n] # Unset => \E i \in Taken' : e'[i].name = n
          BY <5>2, <5>4, <5>5, <4>2, <4>5, <3>5 DEF Listed
        <5>9. elen' < NewenvLen /\ e'[elen'] = Null
          BY <3>1, <3>3, <3>4, <2>2, <1>0 DEF m
        <5> QED BY <5>6, <5>7, <5>8, <5>9 DEF Listed
      <4>7. CASE Replaces(s)
        <5>1. PICK r \in Taken : e[r].name = s BY <4>7, <4>3 DEF Replaces
        <5>2. at = {r} /\ k = r
          BY <5>1, <4>2, <1>0, FoundAt DEF EnvType
        <5>3. Without(s) = [e EXCEPT ![r] = e[elen - 1]] /\ m = elen - 1
          BY <5>2, <4>7 DEF Without, m, LenWithout
        <5>4. r \in Slots /\ r < elen /\ r \in Nat BY SlotFacts DEF Taken
        <5>5. Taken' = Taken
          BY <4>4, <5>3, <1>0, SlotFacts DEF Taken
        <5>6. elen - 1 \in Taken BY <2>1, <1>0 DEF Taken
        <5>7. \A i \in Taken : i # elen - 1 => /\ i \in Slots /\ i # m /\ i # m + 1
          BY <5>3, <1>0, SlotFacts DEF Taken
        <5>8. \A i \in Taken : i # elen - 1 /\ i # r => e'[i] = e[i]
          BY <5>7, <5>3, <3>4, <1>0
        <5>9. r # elen - 1 => e'[r] = e[elen - 1]
          BY <5>7, <5>3, <5>4, <3>4, <1>0
        <5>10. e'[elen - 1] = p BY <5>3, <3>4
        <5>11. \A i \in Taken : i # r => e[i].name # s BY <5>1, <4>2 DEF Listed
        <5>12. ASSUME NEW i \in Taken
               PROVE  e'[i].name \in Names /\ wanted'[e'[i].name] = e'[i].size
          <6>1. CASE i = elen - 1 BY <6>1, <5>10, <4>5, <3>5
          <6>2. CASE i # elen - 1 /\ i = r
            BY <6>2, <5>9, <5>6, <5>11, <4>2, <3>5 DEF Listed
          <6>3. CASE i # elen - 1 /\ i # r
            BY <6>3, <5>8, <5>11, <4>2, <3>5 DEF Listed
          <6> QED BY <6>1, <6>2, <6>3
        <5>13. ASSUME NEW i \in Taken, NEW j \in Taken, e'[i].name = e'[j].name
               PROVE  i = j
          <6>1. ASSUME NEW a \in Taken, a # elen - 1 PROVE e'[a].name # s
            BY <6>1, <5>6, <5>8, <5>9, <5>11
          <6>2. CASE i = elen - 1 \/ j = elen - 1
            BY <6>1, <6>2, <5>13, <5>10, <4>5
          <6>3. CASE i # elen - 1 /\ j # elen - 1
            BY <6>3, <5>13, <5>6, <5>8, <5>9, <4>2 DEF Listed
          <6> QED BY <6>2, <6>3
        <5>14. ASSUME NEW n \in Names, wanted'[n] # Unset
               PROVE  \E i \in Taken : e'[i].name = n
          <6>1. CASE n = s BY <6>1, <5>6, <5>10, <4>5
          <6>2. CASE n # s
            <7>1. PICK i \in Taken : e[i].name = n
              BY <6>2, <5>14, <3>5, <4>2 DEF Listed
            <7>2. i # r BY <7>1, <5>1, <6>2
            <7>3. CASE i = elen - 1
              BY <7>1, <7>2, <7>3, <5>9
            <7>4. CASE i # elen - 1
              BY <7>1, <7>2, <7>4, <5>8
            <7> QED BY <7>3, <7>4
          <6> QED BY <6>1, <6>2
        <5>15. elen' < NewenvLen /\ e'[elen'] = Null
          BY <3>1, <3>3, <3>4, <2>2, <1>0 DEF m
        <5> QED BY <5>5, <5>12, <5>13, <5>14, <5>15 DEF Listed
      <4> QED BY <4>6, <4>7
    <3> QED BY <3>3, <3>6, <3>7 DEF EnvInv
  <2>4. CASE ~Fits(x, s, t)
    <3>1. /\ e' = Without(s) /\ elen' = LenWithout(s) /\ eslen' = eslen
          /\ wanted' = wanted /\ spoiled' = (spoiled \/ Replaces(s))
      BY <1>5, <2>4 DEF Put
    <3>2. EnvType'
      <4>1. spoiled' \in BOOLEAN BY <3>1, <1>0 DEF Replaces
      <4> QED BY <3>1, <4>1, <2>2, <1>0 DEF EnvType
    <3>3. ASSUME ~spoiled' PROVE (Purged \/ Listed)'
      <4>1. ~spoiled /\ ~Replaces(s) BY <3>1, <3>3
      <4>2. e' = e /\ elen' = elen
        BY <4>1, <3>1 DEF Without, LenWithout, Replaces
      <4> QED BY <4>1, <4>2, <3>1 DEF EnvInv, Purged, Listed, Taken
    <3> QED BY <3>2, <3>3 DEF EnvInv
  <2> QED BY <2>3, <2>4
<1>6. ASSUME NEW x \in {1, 2}, NEW s \in Names, NEW t \in Nat, Newenv(x, s, t)
      PROVE  EnvInv'
  BY <1>4, <1>5, <1>6 DEF Newenv
<1>7. CASE NewenvEnv
  BY <1>6, <1>7, SizesProper DEF NewenvEnv
<1>8. CASE NewenvCopyenv
  <2>1. PICK s \in Names : Environ[s] # Unset /\ Newenv(1, s, Environ[s])
    BY <1>8 DEF NewenvCopyenv
  <2>2. Environ[s] \in Nat BY <2>1, EnvAssumption
  <2> QED BY <1>6, <2>1, <2>2
<1> QED BY <1>1, <1>2, <1>3, <1>7, <1>8 DEF EnvNext

LEMMA EnvStart == EmptyEnv => EnvInv
<1> SUFFICES ASSUME EmptyEnv PROVE EnvInv OBVIOUS
<1>2. EnvType BY EmptyType DEF EmptyEnv, EnvType
<1>3. Listed BY SlotFacts DEF EmptyEnv, Listed, Taken
<1> QED BY <1>2, <1>3 DEF EnvInv

LEMMA EnvKept == EnvInv => EnvironmentKept
<1> SUFFICES ASSUME EnvInv, ~spoiled
             PROVE  /\ \A s \in Names : EnvGet(s) = wanted[s]
                    /\ Cardinality(Visible) = Cardinality({s \in Names : wanted[s] # Unset})
  BY DEF EnvironmentKept
<1> DEFINE W == {s \in Names : wanted[s] # Unset}
<1>0. EnvType BY DEF EnvInv
<1>1. CASE Purged
  <2>1. Visible = {} BY <1>1, PurgedVisible
  <2>2. W = {} BY <1>1 DEF Purged
  <2>3. \A s \in Names : EnvGet(s) = Unset BY <2>1 DEF EnvGet
  <2> QED BY <1>1, <2>1, <2>2, <2>3 DEF Purged
<1>2. CASE Listed
  <2>1. Visible = Taken BY <1>0, <1>2, ListedVisible
  <2>2. ASSUME NEW s \in Names PROVE EnvGet(s) = wanted[s]
    <3> DEFINE at == {i \in Visible : e[i].name = s}
    <3>1. CASE at = {}
      <4>1. EnvGet(s) = Unset BY <3>1 DEF EnvGet
      <4>2. wanted[s] = Unset BY <3>1, <2>1, <1>2 DEF Listed
      <4> QED BY <4>1, <4>2
    <3>2. CASE at # {}
      <4>1. PICK k \in Taken : e[k].name = s BY <3>2, <2>1
      <4>2. at = {k} /\ (CHOOSE i \in at : \A j \in at : i <= j) = k
        BY <4>1, <1>0, <1>2, FoundAt
      <4>3. EnvGet(s) = e[k].size BY <4>2, <3>2 DEF EnvGet
      <4> QED BY <4>1, <4>3, <1>2 DEF Listed
    <3> QED BY <3>1, <3>2
  <2>3. IsFiniteSet(W) BY NamesProper, FS_Subset
  <2> DEFINE f == [s \in W |-> CHOOSE i \in Taken : e[i].name = s]
  <2>4. \A s \in W : f[s] \in Taken /\ e[f[s]].name = s
    BY <1>2 DEF Listed
  <2>5. \A i \in Taken : e[i].name \in W /\ f[e[i].name] = i
    <3> SUFFICES ASSUME NEW i \in Taken PROVE e[i].name \in W /\ f[e[i].name] = i
      OBVIOUS
    <3>1. e[i].name \in Names /\ wanted[e[i].name] = e[i].size BY <1>2 DEF Listed
    <3>2. e[i].size \in Nat BY <1>0 DEF EnvType, Taken, Pointers
    <3>3. e[i].name \in W BY <3>1, <3>2 DEF Unset
    <3>4. f[e[i].name] \in Taken /\ e[f[e[i].name]].name = e[i].name BY <2>4, <3>3
    <3> QED BY <3>3, <3>4, <1>2 DEF Listed
  <2>6. f \in [W -> Taken] BY <2>4
  <2> HIDE DEF f, W
  <2>7. f \in Injection(W, Taken)
    BY <2>4, <2>6 DEF Injection, IsInjective
  <2>8. f \in Surjection(W, Taken)
    BY <2>5, <2>6 DEF Surjection
  <2>9. ExistsBijection(W, Taken)
    BY <2>7, <2>8 DEF ExistsBijection, Bijection
  <2>10. Cardinality(Taken) = Cardinality(W)
    BY <2>3, <2>9, FS_Bijection
  <2> QED BY <2>1, <2>2, <2>10 DEF W
<1> QED BY <1>0, <1>1, <1>2 DEF EnvInv

----------------------------------------------------------------------------
(* The theorems.                                                           *)

LEMMA CommandSteps ==
  ASSUME [CommandNext]_commandVars
  PROVE  [StartNext]_startVars /\ [EnvNext]_envVars
  BY DEF CommandNext, commandVars

\* The invariant of the processes around a session: the pair is complete and
\* synced from the moment makekey reports it, a server that is not down offers
\* a key that was made and has the child its state names.
THEOREM StartInvariance == CommandSpec => []StartInv
<1>1. CommandInit => StartInv BY StartInvInit DEF CommandInit
<1>2. StartInv /\ [CommandNext]_commandVars => StartInv'
  BY CommandSteps, TypeStep, DirStep, ServerStepKeeps, HelperStep DEF StartInv
<1> QED BY <1>1, <1>2, PTL DEF CommandSpec

\* The invariant of newenv.c: the list ends where elen says and holds every
\* variable that is wanted once, unless a replacement has failed.
THEOREM EnvInvariance == CommandSpec => []EnvInv
<1>1. CommandInit => EnvInv BY EnvStart DEF CommandInit
<1>2. EnvInv /\ [CommandNext]_commandVars => EnvInv'
  BY CommandSteps, EnvStep
<1> QED BY <1>1, <1>2, PTL DEF CommandSpec

\* Of a pair that makekey reported nothing is found later but the whole of it,
\* after a power loss too; a session that was signed for has the signature of
\* the key it offered; and the key printkey showed is the one on the disk.
THEOREM KeysStayWhole == CommandSpec => []KeysWhole
<1>1. StartInv => KeysWhole
  <2> SUFFICES ASSUME StartInv PROVE KeysWhole OBVIOUS
  <2>1. /\ keydir.pk \in Files /\ keydir.sk \in Files /\ keydir.made \in Nat
        /\ DirInv /\ ServerInv
    BY DEF StartInv, StartType, Keydirs
  <2>2. ASSUME keydir.reported # 0, NEW f \in {"pk", "sk"}, keydir[f].key # 0
        PROVE  Whole(keydir[f]) /\ keydir[f].key = keydir.reported
    <3>1. /\ keydir[f] \in Files /\ FileKept(keydir[f])
          /\ keydir[f].synced = FileParts /\ keydir.reported = keydir.made
      BY <2>1, <2>2 DEF DirInv
    <3>2. keydir[f].parts \in Nat /\ keydir[f].synced <= keydir[f].parts
          /\ keydir[f].parts <= FileParts /\ keydir[f].key \in {0, keydir.made}
      BY <3>1 DEF Files, FileKept
    <3> QED BY <2>2, <3>1, <3>2 DEF Whole
  <2>3. ASSUME server.at \in {"auth", "authwait", "serve"}
        PROVE  /\ server.got = FileParts /\ server.sig # 0
               /\ keydir.pk.key = server.key => server.sig = server.key
    <3>1. server.got = FileParts /\ Signed(server.sig) /\ server.key # 0
      BY <2>1, <2>3 DEF ServerInv
    <3>2. keydir.pk.key \in {0, keydir.made}
      BY <2>1 DEF DirInv, FileKept
    <3> QED BY <3>1, <3>2 DEF Signed
  <2>4. keydir.printed # 0 => keydir.pk.key \in {0, keydir.printed}
    BY <2>1 DEF DirInv, FileKept
  <2> QED BY <2>2, <2>3, <2>4 DEF KeysWhole
<1> QED BY <1>1, StartInvariance, PTL

\* While a server has read all there is and the pipe has a writer, the child
\* that writes has not ended; and a server that waits for a process has one.
THEOREM ChildrenAnswer == CommandSpec => []SubprocessAnswers
<1>1. StartInv => SubprocessAnswers
  <2> SUFFICES ASSUME StartInv PROVE SubprocessAnswers OBVIOUS
  <2>1. ServerInv BY DEF StartInv
  <2>2. ASSUME server.at = "read", pipe.writers # {}
        PROVE  ~HelperEnded
    <3>1. "child" \in pipe.writers
      BY <2>1, <2>2 DEF ServerInv
    <3> QED BY <2>1, <2>2, <3>1 DEF ServerInv, Ended, HelperEnded
  <2>3. server.at \in {"wait", "authwait"} => helper.at # "none"
    BY <2>1 DEF ServerInv
  <2> QED BY <2>2, <2>3 DEF SubprocessAnswers
<1> QED BY <1>1, StartInvariance, PTL

\* A child that reads the user's files or becomes his shell runs as the user,
\* in his groups when the server was root, and on no terminal of the server's;
\* and the command finds the variables that were put, as long as no replacement
\* has failed.
THEOREM CommandsPrepared == CommandSpec => []CommandPrepared
<1>1. StartInv => IdentityDropped
  BY DEF StartInv, HelperInv
<1>2. StartInv /\ EnvInv => CommandPrepared
  BY <1>1, EnvKept DEF CommandPrepared
<1> QED BY <1>2, StartInvariance, EnvInvariance, PTL

============================================================================
