-------------------------------- MODULE Text --------------------------------
(* The functions that write numbers and addresses as text, and those that read
   lines, keys and paths.  A string is a sequence of characters without the
   final zero byte; a character is a string of length one. *)
EXTENDS Calls

CONSTANTS NumWidth,    \* bits of a long long
          NumtostrLen, \* NUMTOSTR_LEN
          IptostrLen,  \* IPTOSTR_LEN
          LineMax,     \* size of the buffer getln reads into
          Addresses,   \* addresses, sixteen bytes each
          MaxText,     \* length of the files, paths and hello lines tried
          SubsystemMax \* CHANNEL_SUBSYSTEM_MAX

Digit(d) == <<"0", "1", "2", "3", "4", "5", "6", "7", "8", "9",
              "a", "b", "c", "d", "e", "f">>[d + 1]

RECURSIVE InBase(_, _)
InBase(b, n) == IF n < b THEN <<Digit(n)>>
                ELSE Append(InBase(b, n \div b), Digit(n % b))

\* n2 = -(unsigned long long)n is right for the smallest number as well.
Magnitude(n) == IF n < 0 THEN (2 ^ NumWidth - (n % 2 ^ NumWidth)) % 2 ^ NumWidth
                ELSE n
numtostr(n) == (IF n < 0 THEN <<"-">> ELSE <<>>) \o InBase(10, Magnitude(n))

porttostr(port) == InBase(10, port[1] * 256 + port[2])

\* iptostr: sixteen bytes, an IPv4 address in its mapped form.
iptostr4(ip) == InBase(10, ip[1]) \o <<".">> \o InBase(10, ip[2]) \o <<".">>
                \o InBase(10, ip[3]) \o <<".">> \o InBase(10, ip[4])

\* countz: for each group the zeros that end there, then the first longest run.
ZerosTo(g) == LET count[i \in 0 .. 7] ==
                    IF g[i] # 0 THEN 0
                    ELSE 1 + (IF i = 0 THEN 0 ELSE count[i - 1])
              IN count
LastZero(g) == LET count == ZerosTo(g) IN
  CHOOSE j \in 0 .. 7 : \A i \in 0 .. 7 :
    count[i] < count[j] \/ (count[i] = count[j] /\ j <= i)
FirstZero(g) == LastZero(g) - ZerosTo(g)[LastZero(g)] + 1

GroupText(g, i) ==
  IF FirstZero(g) # LastZero(g) /\ i \in FirstZero(g) .. LastZero(g)
  THEN (IF i = 7 THEN <<":">> ELSE <<>>)
       \o (IF i = LastZero(g) THEN <<":">> ELSE <<>>)
  ELSE (IF i > 0 THEN <<":">> ELSE <<>>) \o InBase(16, g[i])

iptostr6(ip) == LET g == [i \in 0 .. 7 |-> ip[2 * i + 1] * 256 + ip[2 * i + 2]]
                IN FlattenSeq([i \in 1 .. 8 |-> GroupText(g, i - 1)])

MappedPrefix == <<0, 0, 0, 0, 0, 0, 0, 0, 0, 0, 255, 255>>
iptostr(ip) == IF SubSeq(ip, 1, 12) = MappedPrefix
               THEN iptostr4(SubSeq(ip, 13, 16)) ELSE iptostr6(ip)

\* "-sh" for "/bin/sh", cut to the buffer.
loginshell(outlen, in) ==
  LET from == Max({0} \cup {i \in 1 .. Len(in) : in[i] = "/"})
      name == SubSeq(in, from + 1, Len(in))
  IN <<"-">> \o SubSeq(name, 1, Min({Len(name), outlen - 2}))

str_start(s, t) == IsPrefix(t, s)
str_copyn(ylen, x) == [ret |-> Len(x) <= ylen - 1,
                       y   |-> SubSeq(x, 1, Min({Len(x), ylen - 1}))]
-----------------------------------------------------------------------------
(* connectioninfo: four fields, from the variables of tcpserver, those of the
   CurveCP server, or the socket.  Each source fills fields until one fails. *)
Fields4 == <<"localip", "localport", "remoteip", "remoteport">>

\* n fields of source w have been written over those of info.
Filled(info, w, n) == [f \in Range(Fields4) |->
                         IF \E i \in 1 .. n : Fields4[i] = f THEN w ELSE info[f]]

\* good[w] is the number of fields source w can give; a socket that fails with
\* its second address has given two.
connectioninfo(good) ==
  LET tcp   == Filled([f \in Range(Fields4) |-> "none"], "tcpserver",
                      good["tcpserver"])
      curve == Filled(tcp, "curvecp", good["curvecp"])
      sock  == Filled(curve, "socket", good["socket"])
  IN IF good["tcpserver"] = 4 THEN tcp
     ELSE IF good["curvecp"] = 4 THEN curve
     ELSE IF good["socket"] = 4 THEN sock
     ELSE Filled(sock, "unknown", 4)
-----------------------------------------------------------------------------
(* Lines and keys. *)

\* getln on what is left of a file: a line that ends with a newline, the rest of
\* the file (r = 0), or an error when the buffer is full (r = -1).
getln(s) ==
  LET ends == {i \in 1 .. Len(s) : s[i] \in {"\n", "NUL"}}
      n    == IF ends = {} THEN Len(s) ELSE Min(ends)
      line == [i \in 1 .. n |-> IF s[i] = "NUL" THEN "\n" ELSE s[i]]
  IN IF n > LineMax - 1 \/ (ends = {} /\ n = LineMax - 1)
     THEN [r |-> -1, line |-> SubSeq(line, 1, LineMax - 1),
           rest |-> SubSeq(s, LineMax, Len(s))]
     ELSE [r |-> IF ends = {} THEN 0 ELSE 1, line |-> line,
           rest |-> SubSeq(s, n + 1, Len(s))]

findnameandkey(keyname, key, x) ==
  LET k == Len(keyname) + 1
      n == k + Len(key) + 1
  IN /\ str_start(x, keyname) /\ Len(x) >= k /\ x[k] = " "
     /\ str_start(SubSeq(x, k + 1, Len(x)), key)
     /\ Len(x) < n \/ x[n] \in {" ", "\n", "\r"}

\* Line after line until one lists the key; a line that does not fit the buffer
\* ends the search.
RECURSIVE authorizedkeys(_, _, _)
authorizedkeys(keyname, key, file) ==
  LET l == getln(file) IN
  /\ l.r # -1
  /\ \/ findnameandkey(keyname, key, l.line)
     \/ l.r > 0 /\ authorizedkeys(keyname, key, l.rest)

\* The port has one line, the string in NVS; nothing is stored at first.
nvs_auth(keyname, key, stored) == findnameandkey(keyname, key, stored)

\* The path and every path it lies in, the root excepted, cut at the last '/'
\* each time; bad holds the paths that are writable by or belong to others.
RECURSIVE checkedpaths(_)
checkedpaths(path) ==
  LET slash == Max({0} \cup {i \in 1 .. Len(path) : path[i] = "/"})
  IN {path} \cup (IF slash > 1 THEN checkedpaths(SubSeq(path, 1, slash - 1))
                  ELSE {})
checkpath(path, bad) == checkedpaths(path) \cap bad = {}

\* packet_hello_receive keeps the client's line without CR LF.
Magic == <<"S", "-">>
helloreceive(in) ==
  LET l  == getln(in)
      ln == IF Last(l.line) = "\n" THEN Front(l.line) ELSE l.line
      lr == IF ln # <<>> /\ Last(ln) = "\r" THEN Front(ln) ELSE ln
  IN IF l.r # 1 \/ Len(l.line) < Len(Magic) + 2 \/ ~IsPrefix(Magic, lr)
     THEN [ok |-> FALSE, hello |-> <<>>] ELSE [ok |-> TRUE, hello |-> lr]

\* packet_hello_send: on the wire with CR LF, kept without.
hellosend(id) == LET b == Magic \o id \o <<"\r", "\n">>
                 IN [wire |-> b, kept |-> SubSeq(b, 1, Len(b) - 2)]

\* channel_subsystem_add and _get: a table of "name=command" strings.
subsystem_add(table, x, max) == IF Len(table) >= max THEN table
                                ELSE Append(table, x)
subsystem_get(table, x) ==
  LET at == {i \in 1 .. Len(table) :
               /\ str_start(table[i], x) /\ Len(table[i]) > Len(x)
               /\ table[i][Len(x) + 1] = "="}
  IN IF at = {} THEN <<"none">>
     ELSE SubSeq(table[Min(at)], Len(x) + 2, Len(table[Min(at)]))
-----------------------------------------------------------------------------
(* The calls. *)
Texts(characters) == SeqsUpTo(characters, MaxText)
Files == Texts({"a", " ", "\n", "\r"})
Paths == {p \in Texts({"a", "/"}) : p # <<>> /\ p[1] = "/"}
Keys  == {<<"a">>, <<"a", "a">>}
Words == {<<"a">>, <<"a", "b">>, <<"b">>}

CallNumber == Idle /\ \E n \in -(2 ^ (NumWidth - 1)) .. 2 ^ (NumWidth - 1) - 1 :
  Call([of |-> "numtostr", in |-> n, out |-> numtostr(n)])
CallPort == Idle /\ \E h \in {0, 1, 255}, l \in 0 .. 255 :
  Call([of |-> "porttostr", in |-> <<h, l>>, out |-> porttostr(<<h, l>>)])
CallAddress == Idle /\ \E ip \in Addresses :
  Call([of |-> "iptostr", in |-> ip, out |-> iptostr(ip)])
CallShell == Idle /\ \E in \in Texts({"a", "/"}), n \in {2, 3, MaxText} :
  Call([of |-> "loginshell", in |-> in, max |-> n, out |-> loginshell(n, in)])
CallInfo == Idle /\ \E good \in [{"tcpserver", "curvecp"} -> 0 .. 4],
               socket \in {0, 2, 4} :
  LET g == [w \in {"tcpserver", "curvecp", "socket"} |->
              IF w = "socket" THEN socket ELSE good[w]]
  IN Call([of |-> "connectioninfo", in |-> g, out |-> connectioninfo(g)])
CallHello == Idle /\ \E in \in Files :
  LET line == Magic \o in
  IN Call([of |-> "hello", in |-> line, out |-> helloreceive(line)])
CallAuth == Idle /\ \E file \in Files, key \in Keys :
  Call([of |-> "auth", in |-> file, key |-> key,
        out |-> authorizedkeys(<<"a">>, key, file)])
CallNvs == Idle /\ \E file \in Files, key \in Keys :
  Call([of |-> "nvs", in |-> file, key |-> key,
        out |-> nvs_auth(<<"a">>, key, file)])
CallCheck == Idle /\ \E path \in Paths : \E bad \in SUBSET {path, Front(path)} :
  Call([of |-> "checkpath", in |-> path, bad |-> bad,
        out |-> checkpath(path, bad)])
CallSubsystem == Idle /\ \E a, b \in Words, x \in Words :
  LET table == subsystem_add(subsystem_add(<<>>, a \o <<"=">> \o b, SubsystemMax),
                             b \o <<"=">> \o a, SubsystemMax)
  IN Call([of |-> "subsystem", in |-> <<a, b>>, x |-> x,
           out |-> subsystem_get(table, x)])

TextNext == \/ CallNumber \/ CallPort \/ CallAddress \/ CallShell \/ CallInfo
            \/ CallHello \/ CallAuth \/ CallNvs \/ CallCheck \/ CallSubsystem
-----------------------------------------------------------------------------
(* How such a text is read. *)
ValueOf(c) == (CHOOSE i \in 0 .. 15 : Digit(i) = c)
ReadIn(b, s) == FoldLeft(LAMBDA n, c : n * b + ValueOf(c), 0, s)
ReadNum(s) == IF s[1] = "-" THEN -ReadIn(10, Tail(s)) ELSE ReadIn(10, s)

GroupsOf(s) == IF s = <<>> THEN <<>>
               ELSE [i \in DOMAIN Split(s, ":") |-> ReadIn(16, Split(s, ":")[i])]

\* RFC 4291: one "::" stands for all the zero groups that are missing.
Ip6Groups(s) ==
  LET gap == {i \in 1 .. Len(s) - 1 : s[i] = ":" /\ s[i + 1] = ":"}
      i == Min(gap)
      l == GroupsOf(SubSeq(s, 1, i - 1))
      r == GroupsOf(SubSeq(s, i + 2, Len(s)))
  IN IF gap = {} THEN GroupsOf(s)
     ELSE l \o [k \in 1 .. 8 - Len(l) - Len(r) |-> 0] \o r
ReadIp(s) == IF \E i \in DOMAIN s : s[i] = "."
             THEN MappedPrefix \o [i \in 1 .. 4 |-> ReadIn(10, Split(s, ".")[i])]
             ELSE [i \in 1 .. 16 |-> LET g == Ip6Groups(s)[(i + 1) \div 2] IN
                     IF i % 2 = 1 THEN g \div 256 ELSE g % 256]

\* What a line lists is its first two words; the second ends at a "\r" too.
ListsKey(line, keyname, key) ==
  LET words == Split(line, " ")
  IN /\ Len(words) >= 2 /\ words[1] = keyname
     /\ Split(words[2], "\r")[1] = key
LinesOf(s) == Split(s, "\n")

\* What the functions write is read back as what they were given, and fits the
\* buffer they are promised (iptostr.c:117 moves the text inside it); what they
\* read is what the text says: a login shell's last part, a hello line without
\* its end, a key on a line of its own that no line too long precedes, a path
\* all of whose parents are sound, fields of a connection from one source.
TextReadsBack ==
  /\ Called("numtostr") => ReadNum(job.out) = job.in /\ Len(job.out) < NumtostrLen
  /\ Called("porttostr") => ReadNum(job.out) = job.in[1] * 256 + job.in[2]
  /\ Called("iptostr") => ReadIp(job.out) = job.in /\ Len(job.out) < IptostrLen
  /\ Called("loginshell") =>
       /\ Len(job.out) < job.max
       /\ IsPrefix(Tail(job.out), Last(Split(job.in, "/")))
  /\ Called("connectioninfo") => Cardinality(Range(job.out)) = 1
  /\ Called("hello") =>
       (job.out.ok <=> /\ "\n" \in Range(job.in)
                       /\ Len(LinesOf(job.in)[1]) \in 3 .. LineMax - 2)
  /\ Called("nvs") => (job.out <=> ListsKey(LinesOf(job.in)[1], <<"a">>, job.key))
  /\ Called("auth") =>
       (job.out <=> \E i \in DOMAIN LinesOf(job.in) :
          /\ ListsKey(LinesOf(job.in)[i], <<"a">>, job.key)
          /\ \A j \in 1 .. i : Len(LinesOf(job.in)[j]) < LineMax - 1)
  /\ Called("checkpath") =>
       (job.out <=> \A p \in job.bad : p = <<>> \/ ~(IsPrefix(p, job.in)
          /\ (p = job.in \/ job.in[Len(p) + 1] = "/")))
  /\ Called("subsystem") =>
       job.out = IF job.x = job.in[1] THEN job.in[2]
                 ELSE IF job.x = job.in[2] /\ SubsystemMax > 1 THEN job.in[1]
                 ELSE <<"none">>
=============================================================================
