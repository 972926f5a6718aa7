------------------------------- MODULE Startup -------------------------------
(* The processes around a session of the original program: tinysshd-makekey
   makes the directory of the host key, tinysshd-printkey shows the key,
   tinysshd offers it, has a child sign with it (subprocess_sign.c) and another
   one look for the user's key (subprocess_auth.c), and starts the user's shell
   under his identity (channel_drop.c).  Processes take turns at any system
   call, a power loss ends them all and keeps of a file what was synced, and the
   administrator may remove the directory. *)
EXTENDS Integers, Sequences, FiniteSets, SequencesExt

CONSTANTS OptionWords, \* words of options, as sequences of letters
          FileParts,   \* the parts a file or a signature is written in
          MaxKeys, MaxLosses, MaxKills

ASSUME FileAssumption == FileParts \in Nat \ {0}

VARIABLES keydir,   \* pk and sk, the key makekey reported, the key printkey showed
          maker,    \* tinysshd-makekey
          server,   \* tinysshd
          pipe,     \* from the signing child
          helper,   \* the child of the server
          losses, kills

startVars == <<keydir, maker, server, pipe, helper, losses, kills>>

\* A file holds a key, in parts of which the first ones are on the disk.
Absent == [key |-> 0, parts |-> 0, synced |-> 0]
Whole(f) == f.parts = FileParts
NoDir == [exists |-> FALSE, made |-> 0, pk |-> Absent, sk |-> Absent,
          reported |-> 0, printed |-> 0]
\* Identities: the first server user, "user" the account, "other" anyone else.
Cred(who) == [uid |-> who, gid |-> who, groups |-> who]
NoHelper == [at |-> "none", key |-> 0, cred |-> Cred("root"), from |-> "root", tty |-> "none"]
NoPipe == [writers |-> {}, parts |-> 0]
ServerDown == [at |-> "down", cred |-> Cred("root"), types |-> {}, key |-> 0, got |-> 0, sig |-> 0]
Gone == [at |-> "idle", key |-> 0]

StartInit == /\ keydir = NoDir /\ maker = Gone /\ server = ServerDown /\ pipe = NoPipe
             /\ helper = NoHelper /\ losses = 0 /\ kills = 0
-----------------------------------------------------------------------------
(* Files. *)
\* open_write creates the file and does not truncate it.
Created(f, k) == [f EXCEPT !.key = k]
\* One write of writeall takes n parts; fsync then makes them last.
Written(f, n) == [f EXCEPT !.parts = @ + n]
Synced(f) == [f EXCEPT !.synced = f.parts]
\* load: the whole file, or -1; a file that ends too early is EPROTO.
Load(f) == IF f.key = 0 THEN "ENOENT" ELSE IF Whole(f) THEN "loaded" ELSE "EPROTO"
\* After a power loss: no file, or one cut anywhere behind what was synced.
Kept(f) == {Absent} \cup {[f EXCEPT !.parts = n, !.synced = n] : n \in f.synced .. f.parts}
-----------------------------------------------------------------------------
(* tinysshd-makekey: mkdir fails where there is a directory already; the public
   key is written before the secret one, each of them through savesync. *)
MakerSays(at) == maker' = [maker EXCEPT !.at = at]
Mkdir == /\ maker.at = "idle" /\ keydir.made < MaxKeys /\ ~keydir.exists
         /\ keydir' = [keydir EXCEPT !.exists = TRUE, !.made = @ + 1]
         /\ maker' = [at |-> "pk", key |-> keydir.made + 1]
         /\ UNCHANGED <<server, pipe, helper, losses, kills>>

Following(f) == CASE f = "pk" -> "sk" [] f = "sk" -> "done"
SaveOpen == \E f \in {"pk", "sk"} :
  /\ maker.at = f /\ keydir[f].key = 0
  /\ keydir' = [keydir EXCEPT ![f] = Created(@, maker.key)]
  /\ UNCHANGED <<maker, server, pipe, helper, losses, kills>>
SaveWrite == \E f \in {"pk", "sk"}, n \in 1 .. FileParts :
  /\ maker.at = f /\ keydir[f].key # 0 /\ keydir[f].parts + n <= FileParts
  /\ keydir' = [keydir EXCEPT ![f] = Written(@, n)]
  /\ UNCHANGED <<maker, server, pipe, helper, losses, kills>>
\* create of makekey after writeall: fsync and the next file, or the end.
SaveEndMutant(f) ==
  /\ maker.at = f /\ Whole(keydir[f])
  /\ keydir' = [keydir EXCEPT !.reported = IF f = "sk" THEN maker.key ELSE @]
  /\ MakerSays(Following(f))
  /\ UNCHANGED <<server, pipe, helper, losses, kills>>
SaveEnd(f) ==
  /\ maker.at = f /\ Whole(keydir[f])
  /\ keydir' = [keydir EXCEPT ![f] = Synced(@),
                              !.reported = IF f = "sk" THEN maker.key ELSE @]
  /\ MakerSays(Following(f))
  /\ UNCHANGED <<server, pipe, helper, losses, kills>>
\* Any call of it may fail: die_fatal leaves what there is.
MakeFails == /\ maker.at \in {"pk", "sk"} /\ MakerSays("failed")
             /\ UNCHANGED <<keydir, server, pipe, helper, losses, kills>>
MakeEnds == /\ maker.at \in {"done", "failed"} /\ maker' = Gone
            /\ UNCHANGED <<keydir, server, pipe, helper, losses, kills>>

\* tinysshd-printkey shows a key it can read whole.
Printkey == /\ keydir.exists /\ Load(keydir.pk) = "loaded"
            /\ keydir' = [keydir EXCEPT !.printed = keydir.pk.key]
            /\ UNCHANGED <<maker, server, pipe, helper, losses, kills>>

\* The administrator does not remove the directory under makekey's feet.
RemoveDir == /\ keydir.exists /\ maker.at = "idle"
             /\ keydir' = [NoDir EXCEPT !.made = keydir.made]
             /\ UNCHANGED <<maker, server, pipe, helper, losses, kills>>
-----------------------------------------------------------------------------
(* tinysshd up to the session: options, tables, public key. *)
Adds  == [o |-> "old", s |-> "new", p |-> "pq"]
Drops == [O |-> "old", S |-> "new", P |-> "pq"]
Flags == {"q", "Q", "v", "l", "L"}   \* those that change no type
\* x takes the rest of the word, or the next word, which is the directory.
OptionAt(o, word, i) ==
  CASE o.stop \/ o.usage           -> o
    [] word[i] \in DOMAIN Adds     -> [o EXCEPT !.types = @ \cup {Adds[word[i]]}]
    [] word[i] \in DOMAIN Drops    -> [o EXCEPT !.types = @ \ {Drops[word[i]]}]
    [] word[i] \in Flags           -> o
    [] word[i] = "x"               -> [o EXCEPT !.stop = TRUE, !.usage = i = Len(word)]
    [] OTHER                       -> [o EXCEPT !.usage = TRUE]
Options(word) ==
  FoldLeft(LAMBDA o, i : OptionAt(o, word, i),
           [types |-> {"new", "pq"}, stop |-> FALSE, usage |-> FALSE],
           [i \in 1 .. Len(word) |-> i])

\* cryptotype of every row of the tables.
sshcrypto_keys == [ed25519 |-> {"new"}]
sshcrypto_kexs == [curve25519 |-> {"new"}, libssh |-> {"new"}, sntrup761 |-> {"pq"}]
sshcrypto_ciphers == [chacha20 |-> {"new", "pq"}]
EnabledRows(table, types) == {row \in DOMAIN table : table[row] \cap types # {}}
\* packet_kex_receive finds one of each that the client knows too.
Agreeable(types) == /\ EnabledRows(sshcrypto_keys, types) # {}
                    /\ EnabledRows(sshcrypto_kexs, types) # {}
                    /\ EnabledRows(sshcrypto_ciphers, types) # {}

ServerAt(at) == server' = [server EXCEPT !.at = at]
StartServer == /\ server.at = "down" /\ helper.at = "none"
               /\ \E word \in OptionWords, who \in {"root", "user", "other"} :
                    server' = [ServerDown EXCEPT !.types = Options(word).types, !.cred = Cred(who),
                                 !.at = IF Options(word).usage THEN "over" ELSE "start"]
               /\ UNCHANGED <<keydir, maker, pipe, helper, losses, kills>>
\* A key that is not there is not offered and a short one is fatal, as is a
\* directory that is not there; without a key nothing is agreed upon.
ReadKeys == /\ server.at = "start"
            /\ IF keydir.exists /\ Agreeable(server.types) /\ Load(keydir.pk) = "loaded"
               THEN server' = [server EXCEPT !.at = "kex", !.key = keydir.pk.key]
               ELSE ServerAt("over")
            /\ UNCHANGED <<keydir, maker, pipe, helper, losses, kills>>
EndServer == /\ server.at = "over" /\ server' = ServerDown /\ pipe' = NoPipe
             /\ helper' = NoHelper   \* not the parent's any more
             /\ UNCHANGED <<keydir, maker, losses, kills>>
-----------------------------------------------------------------------------
(* subprocess_sign. *)
SignFork == /\ server.at = "kex"
            /\ \/ /\ ServerAt("over")    \* open_pipe or fork fails
                  /\ UNCHANGED <<pipe, helper>>
               \/ /\ ServerAt("close")
                  /\ pipe' = [writers |-> {"parent", "child"}, parts |-> 0]
                  /\ helper' = [NoHelper EXCEPT !.at = "load"]
            /\ UNCHANGED <<keydir, maker, losses, kills>>
\* global_die in the child: a process that ended with 0 or 111; any of its calls
\* may fail.
Exited(c, at) == [c EXCEPT !.at = at]
SignLoad == /\ helper.at = "load"
            /\ \/ /\ keydir.exists /\ Load(keydir.sk) = "loaded"
                  /\ helper' = [helper EXCEPT !.at = "write", !.key = keydir.sk.key]
                  /\ UNCHANGED pipe
               \/ /\ helper' = Exited(helper, "exit111")
                  /\ pipe' = [pipe EXCEPT !.writers = @ \ {"child"}]
            /\ UNCHANGED <<keydir, maker, server, losses, kills>>
SignWrite == /\ helper.at = "write"
             /\ \E n \in 1 .. FileParts - pipe.parts :
                  pipe' = [pipe EXCEPT !.parts = @ + n]
             /\ UNCHANGED <<keydir, maker, server, helper, losses, kills>>
SignExit == /\ helper.at = "write" /\ pipe.parts = FileParts
            /\ helper' = Exited(helper, "exit0")
            /\ pipe' = [pipe EXCEPT !.writers = @ \ {"child"}]
            /\ UNCHANGED <<keydir, maker, server, losses, kills>>
\* The parent closes its copy of the end to write, else readall would never
\* see the end of the pipe.
ParentCloseMutant == /\ server.at = "close" /\ ServerAt("read")
               /\ UNCHANGED <<pipe, keydir, maker, helper, losses, kills>>
ParentClose == /\ server.at = "close" /\ ServerAt("read")
               /\ pipe' = [pipe EXCEPT !.writers = @ \ {"parent"}]
               /\ UNCHANGED <<keydir, maker, helper, losses, kills>>
\* readall: what is there, and -1 at the end; then the child is not waited for.
ParentRead == /\ server.at = "read"
              /\ \/ /\ server.got < pipe.parts
                    /\ server' = [server EXCEPT !.got = pipe.parts,
                         !.at = IF pipe.parts = FileParts THEN "wait" ELSE "read"]
                 \/ /\ server.got = pipe.parts /\ pipe.writers = {}
                    /\ ServerAt("over")
              /\ UNCHANGED <<keydir, maker, pipe, helper, losses, kills>>
HelperEnded == helper.at \in {"exit0", "exit111", "killed"}
\* waitpid; packet_kexdh goes on with status 0 only.
ParentWait == /\ server.at = "wait" /\ HelperEnded
              /\ server' = [server EXCEPT !.at = IF helper.at = "exit0" THEN "auth" ELSE "over",
                                          !.sig = helper.key]
              /\ helper' = NoHelper
              /\ UNCHANGED <<keydir, maker, pipe, losses, kills>>
-----------------------------------------------------------------------------
(* dropuidgid: the groups as long as the process is root, then the user; a
   process that is neither root nor the user cannot become him. *)
GroupsSet(c) == IF c.uid = "root" THEN [c EXCEPT !.gid = "user", !.groups = "user"] ELSE c
UserSet(c) == IF c.uid = "root" THEN [c EXCEPT !.uid = "user"] ELSE c
dropuidgidMutant(c) == GroupsSet(UserSet(c))
dropuidgid(c) == UserSet(GroupsSet(c))
Dropped(c) == dropuidgid(c).uid = "user"

(* subprocess_auth. *)
AuthFork == /\ server.at = "auth"
            /\ \/ ServerAt("auth") /\ UNCHANGED helper       \* fork fails: FAILURE
               \/ ServerAt("over") /\ UNCHANGED helper       \* 32 attempts
               \/ /\ ServerAt("authwait")
                  /\ helper' = [NoHelper EXCEPT !.at = "account", !.cred = server.cred,
                                              !.from = server.cred.uid]
            /\ UNCHANGED <<keydir, maker, pipe, losses, kills>>
\* getpwnam, dropuidgid and chdir, each of which may fail.
AuthDrop == /\ helper.at = "account"
            /\ \/ helper' = Exited(helper, "exit111")
               \/ /\ Dropped(helper.cred)
                  /\ helper' = [helper EXCEPT !.at = "keys", !.cred = dropuidgid(@)]
            /\ UNCHANGED <<keydir, maker, server, pipe, losses, kills>>
\* checkpath and authorizedkeys.
AuthKeys == /\ helper.at = "keys"
            /\ \E at \in {"exit0", "exit111"} : helper' = Exited(helper, at)
            /\ UNCHANGED <<keydir, maker, server, pipe, losses, kills>>
AuthWait == /\ server.at = "authwait" /\ HelperEnded
            /\ ServerAt(IF helper.at = "exit0" THEN "serve" ELSE "auth")
            /\ helper' = NoHelper
            /\ UNCHANGED <<keydir, maker, pipe, losses, kills>>
-----------------------------------------------------------------------------
(* channel_droppriv in the child of channel_exec.  A terminal belongs to the
   server until it is given away, which only root can do. *)
ShellFork == /\ server.at = "serve" /\ helper.at = "none"
             /\ \E tty \in {"none", server.cred.uid} :
                  helper' = [NoHelper EXCEPT !.at = "drop", !.cred = server.cred,
                              !.from = server.cred.uid, !.tty = tty]
             /\ UNCHANGED <<keydir, maker, server, pipe, losses, kills>>
Chowned(c) == IF c.tty = "none" THEN "none" ELSE "user"
ChownAllowed(c) == c.tty = "none" \/ c.cred.uid = "root" \/ c.tty = "user"
ShellDrop == /\ helper.at = "drop"
             /\ \/ helper' = Exited(helper, "exit111")
                \/ /\ ChownAllowed(helper) /\ Dropped(helper.cred)
                   /\ helper' = [helper EXCEPT !.at = "shell", !.cred = dropuidgid(@),
                                             !.tty = Chowned(helper)]
             /\ UNCHANGED <<keydir, maker, server, pipe, losses, kills>>
ShellEnds == /\ helper.at = "shell" /\ helper' = Exited(helper, "exit0")
             /\ UNCHANGED <<keydir, maker, server, pipe, losses, kills>>
ShellSeen == /\ server.at = "serve" /\ HelperEnded /\ ServerAt("over")
               /\ UNCHANGED <<keydir, maker, pipe, helper, losses, kills>>
-----------------------------------------------------------------------------
(* The rest of the world. *)
Killed == /\ kills < MaxKills /\ ~HelperEnded /\ helper.at # "none"
          /\ kills' = kills + 1
          /\ helper' = Exited(helper, "killed")
          /\ pipe' = [pipe EXCEPT !.writers = @ \ {"child"}]
          /\ UNCHANGED <<keydir, maker, server, losses>>
PowerLoss == /\ losses < MaxLosses /\ losses' = losses + 1
             /\ \/ \E p \in Kept(keydir.pk), s \in Kept(keydir.sk) :
                     keydir' = [keydir EXCEPT !.pk = p, !.sk = s]
                \/ keydir' = [NoDir EXCEPT !.made = keydir.made]
             /\ maker' = Gone /\ server' = ServerDown /\ pipe' = NoPipe /\ helper' = NoHelper
             /\ UNCHANGED kills

MakerStep == Mkdir \/ SaveOpen \/ SaveWrite \/ (\E f \in {"pk", "sk"} : SaveEnd(f))
             \/ MakeFails \/ MakeEnds
ChildStep == SignLoad \/ SignWrite \/ SignExit \/ AuthDrop \/ AuthKeys \/ ShellDrop
ServerStep == \/ ReadKeys \/ SignFork \/ ParentClose \/ ParentRead \/ ParentWait
              \/ AuthWait
StartNext == \/ MakerStep \/ Printkey \/ RemoveDir
             \/ StartServer \/ ServerStep \/ AuthFork \/ ShellSeen \/ EndServer
             \/ ChildStep \/ ShellFork \/ ShellEnds \/ Killed \/ PowerLoss
-----------------------------------------------------------------------------
\* What makekey reported stays true: whatever is found of the pair later, after
\* a power loss too, is whole and of that key.  A signature the server goes on
\* with is that of the key it offered, as long as the directory still has it,
\* and the key an administrator was shown is the one on the disk.
KeysWhole ==
  /\ keydir.reported # 0 => \A f \in {"pk", "sk"} :
       keydir[f].key # 0 => Whole(keydir[f]) /\ keydir[f].key = keydir.reported
  /\ server.at \in {"auth", "authwait", "serve"} =>
       /\ server.got = FileParts /\ server.sig # 0
       /\ keydir.pk.key = server.key => server.sig = server.key
  /\ keydir.printed # 0 => keydir.pk.key \in {0, keydir.printed}

\* The user's files are read and the shell runs as the user, with no group and
\* on no terminal of the server's (dropuidgid.c:23, channel_drop.c:26).
IdentityDropped ==
  helper.at \in {"keys", "shell"} =>
    /\ helper.cred.uid = "user" /\ helper.tty \in {"none", "user"}
    /\ helper.from = "root" => helper.cred = Cred("user")

\* A server that waits for its child is never left waiting by it: while there is
\* no answer the child is still there to give one, and when it has ended, killed
\* or without a key, the server can read the rest or the end of the pipe
\* (subprocess_sign.c:78), and waitpid has a child to find.
SubprocessAnswers ==
  /\ server.at = "read" /\ server.got = pipe.parts /\ pipe.writers # {} => ~HelperEnded
  /\ server.at \in {"wait", "authwait"} => helper.at # "none"
=============================================================================
