# A specification of the ESP-IDF port of TinySSH

The repository is an SSH server for ESP32 boards: a FreeRTOS port of TinySSH
(`src/components/tinyssh`), the beginning of a TLS 1.3 client
(`src/components/glo_mtls`) and an application that starts them (`src/main`).
This directory models its behaviour in TLA+, checks it with TLC on small
instances and proves the central properties with TLAPS for all instances.

`T` below is `src/components/tinyssh/tinyssh/tinyssh`, `P` is
`src/components/tinyssh`.

## Inventory

| component | state | operations | hard behaviours | what makes it correct |
|---|---|---|---|---|
| channel and event loop (`P/port_channel.c`, `P/port_main_tinysshd.c`, `T/packet_channel_*.c`) | `struct channel` (windows, `buf0`, descriptors, dummy pid), flags, `recvbuf`, `sendbuf` | one handler per packet, `channel_write`, `channel_read`, window adjustment | two windows kept by two ends with packets in flight; EOF against buffered data; end of the child against unsent output | no overflow, no credit lost or invented, EOF after data, windows reopen |
| interpreter task (`P/port_channel.c:330-454`) | a line, two sockets | echo, print, exit, see EOF | blocking `send` against blocking `write` of the session | all input is read, the task ends |
| listener and sessions (`P/port_listener.c`, `P/port_global.c`, `P/port_packet.c`) | socket, `__thread` pointers, `longjmp` target | accept, spawn, die | one global `channel` for all sessions, globals purged by whichever session ends first | sessions do not disturb each other |
| algorithm negotiation (`T/sshcrypto*.c`, `T/packet_kex.c`) | constant tables with enable flags, the selected algorithm in globals | enable, put, select, purge | tables zeroed for good, selections that stick across sessions | a client with a common algorithm gets one |
| key exchange, re-keying (`T/packet_kexdh.c`, main loop) | keys, `flagrekeying`, `kex_packet_follows`, `kex_guess` | KEXINIT, KEXDH, NEWKEYS | guessed packets, keys changing between two packets | both ends switch keys at the same packet |
| authentication (`T/packet_auth.c`, `P/port_auth.c`) | tries, packet count | none, public key with and without signature | two limits on one client | no channel without authorisation |
| packet buffers (`T/packet_*.c`, `P/port_sshcrypto_cipher_chachapoly.c`) | `recvbuf`, `sendbuf`, remembered length, packet numbers | recv, get, put, send | packets in pieces, remembered length, change of keys, buffers full | no overflow, every packet is read with the number, keys and length it was made with, and is handled |
| host keys (`P/port_load.c`, `P/port_sign.c`) | two NVS blobs | load, generate, sign, erase | two generators, a crash between two writes, an erase at a start | secret and public key match; a complete pair changes only by the erase |
| TLS record layer (`src/components/glo_mtls/src`) | sequence number (caller's) | seal, open, derive | lengths at the limit, padding, failed allocation | open inverts seal within the declared overhead |
| parsers and formats (`T/buf.c`, `T/packetparser.c`, `T/stringparser.c`, `T/numtostr.c`, `T/iptostr.c`, `T/getln.c`, hello lines) | position, length | put, skip, copy, end, split, print | bounds, zero, the smallest number | what is put is read back, nothing is read past the end |
| cryptographic primitives (`tinyssh/crypto`) | none | key exchange, signature, KEM, MAC, hash, sort | carries and reductions at the edge, decoding of damaged input | inverse functions invert, the group laws hold, damage is refused |
| original POSIX layer (`T/channel.c`, `T/channel_fork*.c`, `T/main_tinysshd.c`), replaced in this build by `port_*.c` | `struct channel`, child process, self-pipe | fork, read, write, `waitnohang`, trigger | SIGCHLD against `poll`, descendants that keep pipes, CLOSE crossing data | all output, then EOF, status and CLOSE, once each |
| programs around a session (`T/main_tinysshd_makekey.c`, `T/subprocess_*.c`, `T/dropuidgid.c`, `T/channel_drop.c`), also not in this build | the directory of the key, a pipe, identities | make, show, load, sign, authenticate, start a shell | power lost between two files, a child killed, privileges dropped in the wrong order | a reported key is whole, nobody waits for ever, the command is the user's |
| helpers (`T/newenv.c`, `T/connectioninfo.c`, `T/loginshell.c`, `T/channel_subsystem.c`, ...) | the environment of the command | put, copy, exec | an array and a buffer at their limit | a variable has one value, the last one put |
| application (`src/main/main.c`) | Wi-Fi driver, NVS | start, reconnect, provision | event callbacks | reconnects |

The parts of the build meet at four places: the session task calls the channel functions
from its loop; the session and the interpreter share two socket pairs; all
sessions share the globals `channel` and the algorithm tables; the session and
the client share one TCP connection.

## Modules

| module | models |
|---|---|
| `Channel` | one authenticated session: channel, handlers, event loop, interpreter task and client |
| `ChannelInvariant` | the inductive invariant of its windows and of EOF |
| `CreditFlow` | the abstract specification of a windowed byte stream |
| `ChannelFlow` | the two refinement mappings from `Channel` to `CreditFlow` |
| `ChannelProofs` | theorems about `Channel` and the refinement |
| `Handshake` | one connection up to its main loop: negotiation, key exchange, re-keying, authentication, and a client |
| `KeyChange` | the abstract specification of keys that change in step at two ends |
| `HandshakeInvariant` | where either end is and where the packets on their way will bring it |
| `HandshakeProofs` | theorems about `Handshake` |
| `PacketBuffers` | `recvbuf` and `sendbuf`, byte by byte, from the key exchange into the main loop |
| `BuffersProofs` | theorems about `PacketBuffers` |
| `EchoPipes` | the two socket pairs between session and interpreter with their real, bounded size |
| `EchoProofs` | theorems about `EchoPipes` |
| `HostKey` | the host key in NVS, its erase, and `load()`; part of `Sessions` |
| `Sessions` | listener and session tasks, what they share, their children, resets of the device |
| `SessionsProofs` | theorems about `Sessions`, with the invariant of the host key |
| `PosixSession` | the original session with a child process, pipes or a terminal, and SIGCHLD |
| `PosixInvariant` | what the session knows of its child, and what the packets it has sent add up to |
| `PosixFlow` | the refinement mapping from `PosixSession` to `CreditFlow`, for the output of the child |
| `PosixProofs` | theorems about `PosixSession` and the refinement |
| `Calls` | one call of one function: the state of the modules below |
| `Text` | numbers, addresses, lines, hello strings, authorized keys, paths |
| `Wire` | `buf`, the parsers, and every format built from them, with the lists of algorithms |
| `Kem` | `crypto_kem_sntrup761.c` and `crypto_sort_uint32.c` |
| `Field`, `Curve` | field arithmetic; `ge25519`, `sc25519`, Ed25519, X25519 and the hybrid key exchange |
| `Record` | TLS records, HKDF and the key schedule, with Poly1305, the padding of SHA-2 and the key stream |
| `Blocks` | the block of ChaCha20, twice, and of SHA-256 and SHA-512 |
| `Descriptors` | functions that open several descriptors, and what a child has of them |
| `Environment` | `newenv.c` |
| `Startup` | makekey, printkey, the start of the server, its children for signing, authentication and the shell |
| `Command` | `Environment` and `Startup` together: how a command comes to run |
| `CommandProofs` | theorems about `Command` and `Descriptors` |
| `Algorithms` | the choice among all calls of `Text` to `Descriptors`, and `Command` |
| `MC...` | the same for TLC; the constants are in the `.cfg` files |

`Sessions` has the life of every session with the inside of its phases left
out; `Handshake` is the inside of its phases `kex` to `auth`, `Channel` that of
`loop`. `EchoPipes` is a part of `Channel` under a closer look, `PacketBuffers`
one of `Channel` and `Handshake`: there the packets are counted and their
content matters, here the bytes are counted and the content does not.
`PosixSession` is what `Channel` was before the port.

### Channel

*State.* `pc` is the place in one iteration of the main loop: `poll` (the
`poll()` call), `tochild` (`channel_write` and the window adjustment),
`fromchild` (`packet_channel_send_data` and the check of the child), `send`,
`recv`, `process` (the inner loop, one packet per step), or `dead`. `watch` is
the set of descriptors the last `poll()` reported, read later in the same
iteration as in the code. `maxpacket`, `pid`, `fd0`, `fd1`, `remoteeof`,
`len0`, `localwindow`, `remotewindow` are the fields of `struct channel`;
`eofsent`, `closercvd` two flags of the packet structure. `inpipe` and
`outpipe` are the bytes in the two socket pairs.

*Bytes are counted.* No property depends on what the bytes are. A direction of
the TCP connection is one queue of packets (`toServer`, `toClient`);
`packet.recvbuf` is the first `inbuf` packets of `toServer` and
`packet.sendbuf` the last `outbuf` of `toClient`, so that "received but not
processed" and "queued but not sent" are kept apart. A read or a write moves
any number of bytes or packets that the code allows, by `\E`.

*History.* `rcvd`, `ssent` (server), `csent`, `cgot`, `crcvd`, `cgrant`
(client) and the fields `sent`, `granted` of packets are running totals that
no guard of the server reads. A polite client reads its own totals: it keeps to
the window it has been given.

*Actions.* One per handler (`ProcOpen`, `ProcExec`, `ProcData`, `ProcAdjust`,
`ProcEof`, `ProcClose`, `ProcOther`, `ProcIgnore`) and one per step of the loop
(`Poll`, `PollTimeout`, `WriteToChild`, `ReadFromChild`, `SendToNet`,
`RecvFromNet`, `ProcDone`). `Die` is `die_fatal` and the `bug_*` macros: they
all reach `global_die`, which purges the channel. The state `pid = -1` of the
upstream state table is never entered, see `ChildDeathSeen`; hence the guards
of the code that mention it stay in the model and never hold.

*Left out.* Channel numbers and the layout of packets (a malformed packet is
one more way to `Die`), re-keying inside the loop (`Handshake`), replies when
`sendbuf` is full (`PacketBuffers`), sockets to the interpreter that are full
(`EchoPipes`), several sessions at once (`Sessions`).

*External.* The client is not part of the repository. `Client*` describe it
from what the handlers accept: with `Polite` it is a client that follows
RFC 4254, without it sends any packet at any time.

*What it implements.* `CreditFlow` says of one direction of a channel: the
receiver has room for `Room` bytes and gives credit for free room only, the
sender learns of credit later than it is given and spends it once. `ChannelFlow`
maps `Channel` to it twice. From client to shell the room is `buf0`, `sent` the
client's bytes, `taken` what has left `buf0`; `granted` is not
`channel.localwindow`, which loses its meaning when `channel_purge` zeroes it,
but what the last adjustment in flight has promised. From shell to client
`known` is what the server has learnt of, `granted` what the client has given.
`InputFlow` and `OutputFlow` are the abstract specification under these
mappings, checked by runs `input` and `output` and proved in `ChannelProofs`. That
the client is never sent more than it gave credit for follows from
`OutputFlow`; it is also the theorem `ClientSafe`.

### Handshake

*State.* `spc` is the packet the server waits for: `kexinit` (packet_kex_receive),
`skip` and `dh` (the two `packet_getall` of `packet_kexdh`), `newkeys` (its
loop), `service` and `auth` (`packet_auth`), `loop`. `follows`, `guess`,
`rekeying`, `authorized`, `kexrecv`, `kexsend`, `sessionid`, `recvid` are
fields of the packet structure under their names there, `skey` its keys,
`count` the loop variable of `packet_auth`, `kexname` the selected key
exchange. `first` is a history variable of the client: whether a guess came with
its first KEXINIT.

*Data.* The hash of an exchange is the tuple of what goes into it (both
KEXINITs, the client's public key, the algorithm), so two hashes are equal
exactly when both ends hashed the same. A key is the pair of the hash it is
derived from and the session id. Every packet names the key it was encrypted
with and can be read by who has that key. So a mistake in *when* keys change
shows as a packet that cannot be read, one in *what* is hashed as a signature
the client does not accept.

*Actions.* One per `packet_getall` and what the code does up to the next one:
`KexReceive`, `SkipGuess`, `KexDh`, `NewKeys`, `DropBeforeNewKeys`, `Service`,
`AuthRejected`, `AuthSigned`, `Rekey`, `Channel`, `Unimplemented`; `Refuse`,
`Ignore`, `Disconnect` and `Hangup` are what `packet_get` and `packet_recv` do
by themselves; `Output` is everything the main loop sends. DISCONNECT ends a
session inside `packet_getall`; in the main loop it only ends that call, and
the session when the connection is closed.

*What a right guess is.* RFC 4253 takes a guess to be right when the first
entries of both sides' lists agree. The code takes it to be right when the
client's first entry is one it supports. The client of the model takes it to be
right when its first algorithm is the one negotiated, which is the code's
notion.

*Left out.* The hello strings (their lines are in `Text`), the lists of host
keys, ciphers and MACs (chosen in the same way as the key exchange, see `Wire`),
the arithmetic (`Kem`, `Curve`), which key NVS lists (`AuthRejected` or
`AuthSigned`, by choice; the comparison is in `Text`). The globals of
`sshcrypto_*` are those of a first session after a reset; what a second one
finds is in `Sessions`.

*What it implements.* `KeyChange` says what the exchanges and the login of a
connection promise, without a packet: the client takes new keys for sending
first, then those for receiving, the server both at once; whoever is second
takes what the first has; nobody begins before all three are the same; every key
is of the next exchange and of the one session both ends name; and the client is
authorised once, while both directions use the same keys. `KeysInStep` is
`KeyChange` under the mapping in `Handshake`: `keyOut`, `keyIn` and `skey`,
`sessionid` and `csid`, `authorized`, and who is still there. Which packets
bring this about is the matter of `Handshake`; most of its steps stutter. Run
`first` checks it and `HandshakeProofs` proves it, together with
`Keys!Together`, which follows from `KeyChange` alone: never more than two keys
are in use, and those are of neighbouring exchanges.

### PacketBuffers

*State.* `fill` is what `recvbuf` holds of the client's packets `inq` behind its
zero bytes, `unread` what TCP still holds, `plen` the length that
`chachapoly_packet_get` decrypts once and remembers, `recvid` the nonce. A
packet carries the number, the keys and the length its maker used, and the
server reads it correctly only if its own state agrees (`Authentic`); otherwise it
ends in `crypto_verify_16` or acts on a wrong length. `outq` is `sendbuf`:
where each packet ends and whether it is an answer, which is put without
`packet_putisready`; `write()` moves the ends to the front.

*Actions.* `packet_getall` of the handshake, with its `getall` loop of `get`,
`send` and `recv`, then the steps of the main loop in the order of
`port_main_tinysshd.c`. `read()` returns one of `ReadSizes` or all there is, and
so packets arrive in pieces or several at once. `write()` takes one of
`WriteSizes` or all there is, and may end inside a packet too.

*What it shows of the sizes.* An encrypted answer has at most 52 bytes (a
CHANNEL_SUCCESS or a window adjustment with its padding and authenticator), the largest packet of output
4140, and `chachapoly_packet_put` needs 60 more for a moment: 4140 + 52 + 60 =
4252 is within the 4300 of `PACKET_FULLLIMIT` that `packet_putisready` keeps
free, so one outstanding answer always fits. Two, 4304, do not: a client that
sends a second request before the answer to the first may end its session by
`bug_nomem` when the connection is stuffed at that moment. `AnswersFit` states
the relation between the constants, for `MaxWaiting` answers.

When `packet_get` takes a packet it moves and clears 40 bytes more than
`recvbuf` holds, since header and authenticator are added to what is left where
they should be subtracted. `RecvAssumption` states what that takes: a part
of a packet, a full read and 40 bytes, for which four slots of 4300 bytes do.
They do not when an `IGNORE` or `DEBUG` has ended the inner loop and left
complete packets in `recvbuf`: `packet_recvisready` lets it fill up to 17264 of
its 17265 bytes, and the compaction of the next packet ends at 17304, in
`sendbufspace`. `CompactionReach` says
that it takes such an `IGNORE`, and how far the code gets at most; that it does
leave `recvbuf` is what TLC answers when `left` is taken out of it. The model
counts what is touched and does not carry out the damage to `sendbuf`.

*Left out.* The bytes, compression (there is none).

### EchoPipes

`channel_exec` never makes its sockets non-blocking. `write()` in
`channel_write` therefore returns when the kernel has taken all of `buf0`
(`WriteSome`, `WriteReturns`), `send()` of the interpreter when all of a reply
has gone (`PrintSome`). A socket pair holds `Cap` bytes in one direction; a
byte of input makes the interpreter print any number of bytes in `Replies`
(an echo, a prompt, the answer to a command); `Banner` is printed at the start.
The network is never full here and a reply is never delayed by `sendbuf`, so
what blocks does so for the two socket pairs alone. How the server counts the
window is the subject of `Channel`: the client simply keeps to `BufSize`
outstanding bytes.

### Sessions and HostKey

*Shared and not.* The packet structure, the work buffers, the socket and the
jump target are `__thread`. Shared between the tasks are `channel`, the tables
of `sshcrypto_*` with the public host key in them, the names selected from
them, and NVS. Each call that touches one of these is a step, `channel_init`
two (`purge()`, then the fields that become -1), since FreeRTOS may switch
tasks anywhere; `load()` is split at `init_nvs`, at `nvs_get_blob` and at each
`nvs_set_blob`, and may fail before it has read (`LoadFails`), which ends the
session.

*The erase.* Where `nvs_flash_init` finds no free pages or another version,
`app_main` and `init_nvs` erase everything and go on (`main.c:121`,
`port_load.c:11`), a complete key pair included. `NvsOpened` is that choice: a
reset may erase, and so may the first `load()` after it, until `init_nvs` has
once succeeded (`initialized`). `HostKeyStable` says that nothing else changes a
complete pair: the host key is not permanent, but it is lost whole, when the
device starts or before NVS has been opened for `load()`, while no session has
a public key to show; `SignatureVerifies` and `PairMatches` hold across it.

*Descriptors.* `open` is the set of open ones: `Console` is descriptor 0, which
is what `fd0` looks like in a zeroed struct; a session's socket; the server's
ends of a child's two socket pairs, opened and closed together. `ChannelPurge`
closes whatever `channel` holds.

*Resets.* `DeviceReset` is a loss of power, the `reboot` command, or the fault
that follows a failed `malloc` in `global_init`, whose results are not
checked. Only NVS survives it, unless it is erased at the start.

*History.* `overlap` (there have been two sessions at once), `failures`
(writes to NVS that failed), `halfkeys` (resets that left one blob of a pair),
`listed`, `unverified`. The properties that speak of one session at a time say
`~overlap`: with two sessions the shared `channel` is reset by whichever starts
later: with `overlap` allowed, `pid` signifies a child that is not the session's.

*Left out.* What the client says: where the server waits for it the session
goes on or dies. Which session reads which child's output.

### PosixSession

*What it is for.* The port replaces `channel.c`, `channel_fork.c`,
`channel_forkpty.c` and `main_tinysshd.c` by its own files; the originals are
still in the tree and say what the port was made from. The module has the
child process with descendants that inherit its descriptors (`ends`), the two
or three pipes or the one terminal, SIGCHLD as a step that may come anywhere
(`handler`, `selfpipe`), the main loop with its `poll`, and a client that may
send EOF, CLOSE or leave at any time.

*What it shows.* The death of the child is never missed although `poll` and
`waitnohang` are separate steps (`DeathNotMissed`); EOF, exit status and CLOSE
follow all output of both streams, once and in order. In the port the session
dies in `open_pipe` before any of this (run `childend`). Both streams share one
window of the client: together they are one `CreditFlow` (`OutputFlow`, with the
mapping in `PosixFlow`). `sent` is what has left the pipes, `known` the
same and the window left, `taken` what the client has received, and `granted`
the first window and what it has given back since. Along the way:

* a child that closes its input ends the session with EPIPE and no status,
  because SIGPIPE is ignored and `channel_write` treats the error as fatal;
* EOF of the client on a terminal closes the master, and output the child still
  had is lost: hence the exception in `OutputComplete`;
* descendants that keep a pipe open delay the report for as long as they do;
* the self-pipe is written by `trigger()` and read by nobody, so that after the
  child's death `poll` returns at once until the connection ends. The loop
  spins, and only for this reason no death is missed.

*Left out.* Flow control towards the child, which is that of `Channel`; replies
and window adjustments of the server; re-keying; the client's maximum packet.
`packet_channel_send_data` and `_extendeddata` subtract 9 and 13 from it before
they read, and a client with a maximum of just that is read 0 bytes for, which
passes for the end of the output. That case is in `Channel`
(`ReadingEnds`); what the runs and theorems of this module say is said for
clients with a larger one.

### Startup

*What it is for.* The other half of the original layer: the programs and the
children around the session that `PosixSession` models. `tinysshd-makekey`
writes the pair through `savesync` (`SaveOpen`, `SaveWrite`, `SaveEnd` are its
`open`, each `write` of `writeall`, and `fsync`), `tinysshd` reads its options,
enables the rows of the algorithm tables and loads the public key
(`StartServer`, `ReadKeys`), lets a child sign (`Sign*`, `Parent*`), another one
look for the user's key (`Auth*`), and starts the command (`Shell*`). Each
process stops at its system calls and the others take turns there.

*Files and faults.* A file holds a key in `FileParts` parts, of which the first
ones are on the disk. `PowerLoss` ends all processes and leaves of each file
nothing or any length between what was synced and what was written; since
`savesync` does not sync the directory, a file may also be gone. The administrator may
remove the directory and run `makekey` again. `Killed` ends a child anywhere.

*Identities.* A process has a user, a group and supplementary groups; `setgid`
and `initgroups` need root, `setuid` ends that. The server is started by root,
by the user himself, or by somebody else, who can start nothing.

*What it shows.* `KeysWhole`: what `makekey` reported stays whole, since nothing
is reported before both files are synced. Not stated, because it does not hold:
that a directory always has a pair. After a power loss the public key may be
there alone, `mkdir` refuses a second try, and the server then offers a key with
which its child cannot sign. `SubprocessAnswers`: the parent that reads the
pipe is left with a child that will write or end, or with an end of file.

### Descriptors

A function is written as the sequence of its calls, each with what it opens and
what the code closes when it fails; every call fails once, and `NothingLeft`
compares what is left. For `fork` and `forkpty` the numbers matter: the lowest
free number is taken, and `dup(ch[i])` has to return `i`, whichever numbers
from 3 to `MaxOther` were in use before. Descriptors are names, and no name is
given to two of them, so that what is open after some calls is what they opened
less what they closed. One leak is excepted: `channel_forkpty.c:123`
returns without closing the terminal, if `ttyname` fails there after it
succeeded in `channel_openpty`.

### Text, Wire, Kem, Field, Curve, Record, Blocks, Environment

These are functions without state that outlives a call. Each function is an
operator; `job` is one call, its arguments and what it returned, and an
invariant compares this with a definition that is written differently, or with
the function that reads the result back. `Algorithms` makes one call of any of
them from the initial state, so that the set of states is the set of calls.
Out-of-range arguments, failed allocations and damaged input are among them.
`Environment` is a machine of its own: `newenv_env_` removes a variable that is
there by moving the last pointer into its place, and every order of puts,
copies and purges is tried. `Command` puts it beside `Startup`, and `Algorithms`
runs either.

*Scale.* The algorithms are those of the code with smaller parameters, so that
their edges are met by enumeration. A byte has 4 bits and a length field 1 byte
in `Wire` and `Record`. `Field` has 2 limbs of 5 bits in words of 12 and p = 509
= 2^9 - 3 in place of 8 limbs of 32 bits, words of 64 and 2^255 - 19; `Curve` is
the curve of the same family with (A + 2) / 4 = 89, which has 8 * 67 points, with
a window of 3 bits for 4. sntrup has p = 5, q = 79, w = 3, for which the
conditions on the parameters hold, and 14-bit bounds of 128 for 16384. Poly1305
is modulo 2^18 - 5 in 3 limbs of 6 bits. In `Record` SHA-2's and ChaCha20's block functions
are CONSTANT operators: nothing depends on them, and the TLC instances are mixing
functions that tell inputs apart. `Blocks` has them as they are coded, on words
of 8 bits with scaled distances, and compares them with the standards' wording:
ChaCha20 by columns and diagonals of a square, SHA-2 with eight named words, a
choice and a vote bit by bit. `unsigned long` has 12 bits there, so that the garbage above a
word that `ROTATE32` leaves on a 64-bit machine is present.

*Simplified.* Branch-free masks are written as the choices they make: that the
choices are made without branches is not visible to a state machine. In `Kem`
SHA-512 is free of collisions.

*Seen along the way.* `crypto_sign_ed25519_open` accepts S + L for S
(`crypto_sign_ed25519.c:59` checks only the three top bits), so a signature is not unique; a TLS inner
plaintext of content type 0 would be read as padding, and the model seals only
the types TLS has; `glo_hmac_sha256` that cannot allocate returns zeros and
`glo_hkdf_expand` reports success with them, which `Record` models (`memory`)
as the code does.

## Runs

| run | question | result |
|---|---|---|
| `input` | are both windows, `buf0` and EOF consistent for data towards the shell, do windows reopen, do input and EOF arrive, is this direction a `CreditFlow`? | holds |
| `output` | is the direction towards the client one, and of what does a session die that reads output, for every kind of maximum packet size? | holds; with a maximum of 9 bytes it dies of an end that is not there |
| `rude` | can any client overflow `buf0`? | no |
| `childend` | is the end of a command reported? | violated: `open_pipe` fails, the session dies first |
| `buffers` | are packets that arrive in pieces read with the right number, keys and length, do answers fit `sendbuf`, how far does the compaction of `recvbuf` reach, is every packet handled? | holds; behind an IGNORE the compaction leaves `recvbuf` |
| `first` | does the first key exchange end whatever the client prefers and guesses, which of two re-keyings with packets under way end, do the keys change in step at both ends and stay of one session, do the limits bite in the right order, does the task of a client that left end? | holds; after a wrong first guess a re-keying without a guess never ends |
| `short` | do session and interpreter get along when the input fits a socket pair? | holds |
| `long` | and when it does not? | violated: each waits for the other in the kernel |
| `sessions` | are descriptors, children and the host key accounted for over two sessions, a reset and failed writes? | holds |
| `next` | has a second session algorithms to offer? | violated: the tables were zeroed |
| `posix` | is the end of a command reported by the original session, after all its output, does the session end, and are its two outputs together a `CreditFlow`? | holds |
| `algorithms` | do the functions agree with their definitions on every input of small sets, is the command's environment and identity right after any order of steps, is a reported key whole after a power loss, does a child that fails leave nobody waiting, does a call that fails leave nothing open? | holds |

The `about` and `what` texts in `PROJECT.json` give each violation with the
lines it contradicts.

*Bounds of Channel.* `BufSize` 2 or 3 is the smallest buffer with a half
(`Half` = 1) that differs from both 0 and the size. `MaxInput` 4 in `input` is
more than one buffer, so the window has to be reopened. Two or three packets in
flight let an adjustment, data and EOF overlap. `MaxWindow` equals the buffer
so that any wrong sum wraps or exceeds it at once. `PacketLimit - DataHeader`
is 2, so a packet carries one byte or two; in `output` clients also announce
packets shorter than the header, as long as it, and beyond `PacketLimit`. `RecvSlots` and `SendSlots` are 1 or
2: both "full" and "one more fits" occur. The constants `MaxOpens`, `MaxOthers`,
`MaxInput`, `MaxCredit`, `MaxPending` and `MaxOutput` bound the client and the
interpreter, never the server. The theorems below hold for all of them.

*Bounds of Handshake.* `first` has lists that share none, the first or the
second entry with the server, with and without a guess, and `UnauthLimit` 7 and
`TryLimit` 9 for 30 and 32: the key exchange takes four packets, SERVICE one,
so four requests reach the limit, and the two limits keep their order and
distance. There are two re-keyings, because a second one finds what a first one
forgot, with four packets and one output under way. The client may leave at
any point, and every exchange, the first and each re-keying, comes with or
without a guess. The main loop does not parse the KEXINIT of a re-keying, so
`kex_packet_follows` and `kex_guess` stay what they were in the first exchange
(the history variable `first` remembers whether there was a guess; nothing
depends on it but properties and invariants). The server is `Misled` when that
matters: the client's first choice is not the algorithm negotiated, and it
guesses now and did not then, or the other way round. A client that guessed wrong
and re-keys without a guess is `Stranded`: the server drops its only public key
and waits for another one, `port_main_tinysshd.c:166` ("rekeying: done") is never
reached, and the client waits for ever. One that did not guess and re-keys with a
wrong guess loses its session ("proto", the wrong public key). `RekeyingDone` says
that every re-keying ends but those of a stranded client, and that these never
do; `PacketsReadable` that only misled clients send what the server does not expect.

*Bounds of EchoPipes.* `long`: `Cap` 1 and a buffer of 4, the smallest in which
`buf0` exceeds the socket. `short`: three bytes fit, each answered by one byte
or two.

*Bounds of Sessions.* Two sessions, one reset, one child, three pairs: a
mishap needs one session to leave half a key and a second to find it, and each
`load()` generates at most one pair. Sessions that have been are not repeated
after a reset.

*Bounds of PacketBuffers.* Packets of length 1 and 4 behind a length field of 2,
read 3 bytes at a time or all at once: pieces end inside the length, inside the
packet and across two packets; written 4 bytes at a time or all at once, which ends
inside a packet of output. `recvbuf` has two slots and `sendbuf` one, so
that both become full; six packets of the client cross its NEWKEYS, the
handshake and the main loop, and are enough for a compaction that leaves
`recvbuf`. `DataSize` 9, one answer of 2 and `CipherBytes` 1
make 12, exactly `FullLimit`: the condition of `AnswersFit` is met with nothing
to spare.

*Bounds of PosixSession.* One byte to the child and one on each of its outputs,
a pipe that holds one and a window of one: a second byte waits for the first,
whichever output it is of, and for the credit the client gives back, and each
output ends independently.

*Bounds of Algorithms.* See *Scale* above. Inputs are all sequences up to the
named lengths in `Text` and `Wire` and lists around the block sizes in `Record`;
`Field` takes the numbers next to 0, to a limb, to p and 2p, `Curve` the scalars
next to 0, the order and the capacity and every point (also those not on the
curve), `Kem` four keys and four messages with every damaged ciphertext the
module names; `Blocks` three double rounds for ten and 24 rounds of a hash for
64 and 80, so that every word of the schedule is used. This is evidence about the algorithm as written, not about its
real parameters.

*Bounds of Startup.* A file in two parts, so that one part, none and both can be
on the disk when the power is lost, once; two keys, so that a second one meets
the remains of the first; one killed child. Options are single words, with every
letter and in both orders where letters undo each other.

*Bounds of Descriptors.* Every set of numbers from 3 to 5 in use before, so that
the six of three pipes fall below, between and above them; `MaxFd` is what six
more need.

*Deadlock* is not checked: a session may really stop (`pc = "dead"`), and so
may a client.

*Fairness.* `Channel`: session and interpreter are FreeRTOS tasks that run
until they block, the session in `poll` (60 s at most), so weak fairness of the
session's step, of the interpreter's reading and cleaning up, and of the
delivery of what TCP has accepted. Nothing is assumed of the user, of the
client, or of how long a command prints. `Handshake`: the server's next step,
the client's reading, and its first KEXINIT; not its re-keying, requests or
leaving. `EchoPipes`: both tasks, and a client that goes on giving credit.
`Sessions`: every step of a session that does not wait for its client, and a
child that sees its socket closed; nothing of the client or of resets.
`PacketBuffers`: the session's task, whose `poll` returns after 60 s if nothing
happens, and nothing of the client. `PosixSession`: the session's process; a
child that has closed its outputs and ends at some time; the client reads, gives
its window back, and answers CLOSE with CLOSE. Its `poll` is not assumed to time
out.

*Read in the code and not run.* Two sessions at once: `channel_init` of the
later resets the `channel` of the earlier, so `pid` no longer tells whose child
runs; the properties of `sessions` exclude this by `~overlap`. A second CHANNEL_OPEN ends the session
(`port_channel.c:80`) before the refusal of `packet_channel_open.c:59-64` is
reached. UNIMPLEMENTED carries the number of the packet after the one it refuses
(`packet_unimplemented.c:22`). `alarm()` and `signal()` are stubs
(`tinyssh-config.h`), so no timeout exists; none occurs in the models of the
port.

## Proofs

All theorems hold for every value of the constants that satisfies the named
assumptions in the modules. The last step of each combines non-temporal lemmas
by `PTL`.

`ChannelProofs`, for both kinds of client:

* `TypeCorrect`: `Spec => []TypeOK`,
* `BufferCorrect`: `Spec => []BufferSafe`,
* `DeathOfEof`: `Spec => ReadingEnds`, for every maximum packet size.

The inductive invariant `TypeInv` is `TypeOK /\ BufferSafe /\ WindowsFit`.
`WindowsFit` (no OPEN or ADJUST on its way to the server names a window larger
than `MaxWindow`) is what keeps the remote window within 32 bits when
`channel_open` takes it over from a packet. `TypeOK` is split into six conjunctions of related variables and each
action has one lemma, so that an action is only examined for the groups it
touches. `DeathInv` carries what `poll()` has seen of the child's output to the
step that reads it, past the writes in between: it is still there, because only
the session takes bytes out. What is left is arithmetic (`NoRoom`): the length
`limit - 9` is 0 for a maximum packet of 9 bytes and no other, and negative for
shorter ones. In the first case the session dies of an end that is not there,
in the second of `bug_inval`; `ReadingEnds` says that it dies of
nothing else, and that in both cases it has sent no data.

Also in `ChannelProofs`, for a client that keeps to RFC 4254:

* `WindowInvariance`: `Spec => []WindowInv`, and from it
* `PoliteSafe`, `ClientSafe`, `Agreement`, `NeverStuck` and `EofLast`, the five
  properties `PoliteClientSafe`, `ClientNotOverrun`, `WindowsAgree`,
  `WindowNotStuck` and `EofAfterInput`.

Why these are not inductive: each compares a total at one end with a total at
the other, while the difference is in packets on their way. In
`ChannelInvariant` every packet carries its sender's running totals, so that a
queue is a *chain* from the receiver's totals to the sender's. Sending extends
the chain at one end, processing shortens it at the other; no sum over a queue,
hence no induction, is needed. `WindowInv` consists of `SafeInv`, which also
holds of a session that has died, and `LiveInv`: the two chains, the state
before the channel is open, the low mark (`NotStuckInv`), EOF (`EofInv`) and
the bytes on their way to the shell (`ChildInv`). `WindowInv` is an invariant
of run `input` too.

The refinement, there too:

* `InputImplements`: `Spec => InputFlow`,
* `OutputImplements`: `Spec => OutputFlow`.

Initial states map to initial states, and every step of `Channel` to one step of
`CreditFlow` or a stutter; each action has a lemma for each direction. The
mapped variables are monotone totals, so a step needs only `WindowInv` before
and after it: what changes in flight is read off the chain. Most actions
stutter; `Die` does too, since the mapping does not use the windows it zeroes.
`CreditFlow` has the theorem `FlowSafe` (its credit never exceeds the room),
which therefore holds of both directions.

`BuffersProofs`, for every size and however the bytes are split:

* `TypeCorrect`: `Spec => []TypeOK`,
* `ReadsAsMade`: `Spec => []Verified`,
* `LengthKept`: `Spec => []FrontKnown`, the length remembered is that of the
  packet in front,
* `ReserveIsEnough`: `Spec => []AnswersFit`,
* `CompactionStaysClose`: `Spec => []CompactionReach`, from `RecvAssumption`.

The inductive invariant `ReceiveInv` says that the packets not yet taken are
numbered without a gap from `recvid` on, that all behind the client's NEWKEYS
are encrypted and none before, and that no remembered length survives the packet
it belongs to. It is what makes a length that was decrypted from a partial packet
still right when the rest arrives.

`ReserveIsEnough` needs a bound on `sendbuf` that survives `write()`. `Room`
gives it from the end of every packet on: behind any of them lie at most the
bytes up to which output may be put (`DataEnd`) and one `AnswerSize` for each
answer behind it. Counted from the front alone it would not be inductive, since
the packets that leave may have been the answers. `Waits` adds that the
answers in `sendbuf`, the requests and data still in `recvbuf` or on the way,
and an adjustment about to be made are no more than `MaxWaiting`. The lemmas
`OneLess` and `Shifted` count positions of a queue that grows and shrinks.

`CompactionStaysClose` rests on four facts. `Bytes`: the packets not taken make
up exactly `fill + unread` bytes (there is a sequence of their beginnings), so
that an empty queue means an empty `recvbuf`. `Filled`: outside `packet_getall`
and the inner loop less than one packet is left. `AuthLast`: the packet that ends
the handshake is the last the client has sent, so the main loop starts with
nothing in `recvbuf`. An `IGNORE` that ends the inner loop early breaks
`Filled` until the loop next finds less than a packet (`left`). `InRecvbuf`, that `read()` never fills
the last byte, holds all the same, and bounds how far the compaction reaches then.

`EchoProofs`:

* `BytesConserved`: `Spec => []Conservation`, no byte is lost or counted twice;
  it is what the other rests on, and no run checks it besides,
* `ShortNeverBlocks`: if `MaxInput <= Cap` or `MaxPrinted <= Cap`, then
  `Spec => []NotMutuallyBlocked`. With run `long` this says how much input and
  output the deadlock takes: more than a socket pair holds, of both.

`SessionsProofs`:

* `DescriptorsKept`: `Spec => []DescriptorsAccounted`, for any number of
  sessions, children and resets. The invariant `DescriptorInv` adds the shape
  of the state and `OneHolder`: without overlap at most one session is alive,
  and `channel` holds a child's descriptors only for it.
* `PairsMatch`: `Spec => []PairMatches`; `SignaturesVerify`:
  `Spec => []SignatureVerifies`; `KeyStable`: `Spec => HostKeyStable`; for any
  number of resets, pairs and failed writes.

`KeyInv` is the invariant of the last three, as long as sessions do not overlap
(a session that is there is then the only one in `load()`). `OnlyMissing`: what
is about to be written was missing when `load()` looked. `FirstInit`: a session
that is still to open NVS is the first one since the start; with it the types
say that nothing has been loaded yet, so that the erase takes no key away from
a session (`KeyStable`). `PublicFirst`: without a
failed write the secret key is never there without its public one, so that a
reset between the two writes leaves half a key that the next `load()` replaces
whole. `OneFailure` is why one failed write does no harm either. If the write of
the public key fails, a secret key without a public one stays behind, and the
next `load()` of the public key would make a second pair and be complete with two
that do not match after its first write; but the public key is loaded by one
session per start of the device (`PublicPast`: the tables are purged with it),
and a reset in that state is the second mishap. `KeyShown`: the key in the
table of a session that lists algorithms is the one in NVS.

`HandshakeProofs`, for every set of algorithms, every list of the client, any
number of re-keyings and packets, and a right, wrong or no guess in each exchange:

* `LimitOrder`: if `UnauthLimit < TryLimit`, then `Spec => []PacketLimitFirst`.
  The code's limits are 30 packets and 32 tries; the assumption is what makes
  the second limit one that is never met. `LimitInv` adds that every try was a
  packet and that nobody authorised is asked again.
* `OneSessionId`: `Spec => []SameSessionId`. `SessionIdInv` adds where the hash
  of the first exchange is while the client does not have it yet: in the reply
  on its way, in the list of what the server is about to send, or nowhere.

* `Readable`: `Spec => []PacketsReadable`. Both ends
  change keys at the same packet; no packet arrives that its receiver cannot
  decrypt or finds signed over something else, and none the server does not
  expect, except from a client that has misled it.

The invariant `ReadableInv` is in `HandshakeInvariant`. A *stage*
is what an end waits for, and in which exchange; `ServerReads` and
`ClientReads` say which packet, under which key and with which contents, leads
from which stage to which. Between the ends lie two queues, so neither knows where
the other is, and no finite list of pairs of stages is inductive: a client that
re-keys may have any number of packets in front of its KEXINIT, and the answer
any number of packets of output. What is inductive is that either queue is a
*chain* of such steps, from the stage its reader is at to the stage that follows
from what its writer has sent (`Asked`, `Told`). Reading takes a step off,
writing adds one, and the other chain stays as it is, up to one exception: the
server goes into its loop when it accepts a signature, while the client's
packets were sent to a server that authenticates. `OneRequest` says that
these are none but IGNORE and DISCONNECT, which both stages read, and `OneAnswer`
that a request and its answer are never on their way at once. What remains are the
values the two ends have computed on their own, `ServerKeeps` and
`ClientKeeps`: the hash of an exchange is a function of its number and of
what the client's first KEXINIT settled (`Terms`: its list, and whether it
guessed). `why # "mac"` and so on follow because a step of the chain is there for
every packet.

A misled server leaves the exchange at a packet it does not expect. So a chain may
end in the stage `dead`, which reads anything; `Ends` says that it ends where
the client's packets lead, or there if the client has misled the server. Such a
client waits for a REPLY for ever. That none comes (`ReplyInv`, and with it that
the client never goes on from a misled exchange) needs more than the first packet
of a chain: `Rank` counts how far a stage is, twice the exchange and one more
once the public key is read; every step of a chain leads on (`Leads`), so
the stage of a server that answers with a REPLY lies behind every stage a
misled one can reach.

The refinement, without further assumption too:

* `KeysChangeInStep`: `Spec => KeysInStep`,
* `KeysStayTogether`: `Spec => []Keys!Together`.

Every action has a lemma that maps it to a step of `KeyChange` or to a stutter.
What such a step asks of the *other* end is not in the packet that is read:
the chain in front of an end says what that end will do, not where the other
one is by now. `LockStepInv` does, while both take part. There is one KEXINIT,
one REPLY and one NEWKEYS on its way at a time (`Only`). From the client's
KEXINIT until the client has read the REPLY the server is in the exchange the
client waits for, with no key of it in use; the client's NEWKEYS comes after
that, and as long as it is on its way the server has not changed keys and will
change them to `keyOut`. From this `After(keyOut', keyOut)` and `srv' = out`
follow at the steps where they are due. `Connection` is all these invariants together;
each needs the others.

`PosixProofs`, for every size of the buffers, pipes and windows, and any amount of
input and output:

* `DeathSeen`: `Spec => []DeathNotMissed`,
* `EndsKeepOrder`: `Spec => []EndsInOrder`,
* `OutputKept`: `Spec => []OutputComplete`,
* `PosixInvariance`: `Spec => []PosixInv`, their invariant, in `PosixInvariant`,
* `BothOutputsAreAFlow`: `Spec => OutputFlow`,
* `WindowRespected`: what `FlowSafe` says of that flow.

The main loop is a text of eight steps, of which an iteration takes those that
are due. `AfterFacts` says what follows what: once the outputs have ended,
`signal` comes before `wait` in every iteration. So `Watched`: from `wait` to the next
`poll()` the handler is there, and a child that is a zombie by then has
written to the self-pipe. `EndsOrdered` takes what is on its way and what is
still in `sendbuf` as one queue, which `packet_send` does not change: it holds
those of EOF, status and CLOSE that have been sent and not received, in order,
and behind the first of them no data as long as the client has not closed, because
the server sends EOF by itself only when it has waited for the child. `Flow` says
of each stream that the bytes received, those of the packets in the queue
one after the other, and those in the pipe add up to what has been written;
and that at an EOF in the queue the sum is already complete. For that step the
child must have been waited for with both descriptors closed, and `Drain` says
why a descriptor is closed: nobody holds the other end and the pipe is empty, or
the client has ended the input of a terminal.

The refinement needs `CreditInv` besides. While the session lives, what it has
sent, its window, and the credit of the client's packets one after the other add
up to what the client has granted (`Credits`); so what it learns from the first
of them is no more than that (`NeverFalls`). Before the channel is open there is
no window and no adjustment under way, since nothing was sent that could be given
back; `channel_open` sets the window where an adjustment adds to it, and only
for this reason both learn the same. When the session is over the sum is
claimed no more, and no step is left that learns or sends. That the client has
received no more than was sent is read off `Flow`.

A function over the positions of a queue is indexed from 1 in the invariants:
it may be written with any first index in TLA+, but the prover's axiom for the
length of a sequence takes every function on `1..n` for one, and is to be kept
away from functions on `0..n`.

`CommandProofs`, for files written in any number of parts, any number of pairs,
power losses and killed children, and an environment of any size:

* `KeysStayWhole`: `CommandSpec => []KeysWhole`,
* `ChildrenAnswer`: `CommandSpec => []SubprocessAnswers`,
* `CommandsPrepared`: `CommandSpec => []CommandPrepared`,
* `StartInvariance`, `EnvInvariance`: the invariants `StartInv` and `EnvInv`.

Run `algorithms` checks the same properties of `Algorithms`, each step of which
is one of `Command` or leaves its variables alone. It lets the environment and
the processes run in turns from the beginning only, `Command` in any order.

`DirInv`: a file belongs to the last pair that was begun, and what is on the disk
is the beginning of it. That the key reported is there whole after a power loss
is not inductive: it needs that both files were synced *before* makekey said so,
and that nobody writes a file while one is reported, as `mkdir` fails where there
is a directory. `ServerInv` says for each state of the server which child it may
have and what of the pipe; a key it offers was made before or is the last one,
so that a signature by a pair made meanwhile does not count as one by the key
offered (`Signed`). It also has why a killed child cannot leave its parent
waiting: a child that has ended has closed its end of the pipe, and the parent
has closed its own before it reads. `HelperInv` has what a child is before
`dropuidgid`: entirely the server's user, and only a shell has a terminal;
without that last part it is not inductive, since a child for authentication
changes its user and no terminal.

`EnvInv`: either the list was purged, or it is tidy (`Listed`): it ends at `elen`,
has no name twice, and has every variable that is wanted with its value.
A replacement that fails leaves it untidy, since the last pointer has been moved
and not cleared, and until the next `newenv_init` nothing is claimed of it. That as many
variables are seen as were put follows from a bijection between names and
pointers. A null pointer is the entry with no name, hence the assumption that
`""` is not in `Names`.

The same module has the theorem about `Descriptors`:

* `NothingStaysOpen`: `DescriptorsSpec => []NothingLeft`, for any set of numbers
  in use and any `MaxOther`, if there is room for six more (`FdAssumption`; when
  there is none, a call fails, which is the other half of the property).

For the functions that fail, `FailureCovered` asks of every call that what it
closes covers what the calls before it opened and did not close; each function
has a lemma, and in `port_exec` the first pair is covered by what the
second one closes besides its own. For the children, `Serves` says what numbers
a process has: those of the connection below 3, each new name under one number,
all within a bound that grows by one with each call; the lowest free number is
then there (`Least`, from the well-founded order of finite sets) and above 2.
`Dupped` is what `dup` needs before its turn `i`: the numbers below `i` are in
use, so that `i`, just closed, is the lowest that is free, and the parent's ends
that are still to be closed are not among 0, 1 and 2.

*Only model-checked.* All liveness properties (no prover here handles fairness
and `ENABLED`), and of `Algorithms` the properties `FormatsReadBack`,
`PrimitivesAgree` and `RecordOpens`, whose operators are recursive or of
`Bitwise`.

## Not modelled

* `src/main/main.c`, but for the erase of NVS: its start is a fixed sequence of
  calls of the ESP-IDF, its event handler calls `esp_wifi_connect` at every disconnection and keeps no
  state.
* `log.c`, `byte.c`, `cleanup.c`, `randombytes.c`, the `verify` functions: no result of
  theirs is used beyond equality, copying or choice.
* Of the original layer: window size and modes of a terminal, the log of logins
  (`logsys.c`), and its 60 s timeout, which ends the process.
* The connection functions that `glo_mtls.h` declares are not implemented.
* Wording of the interpreter's texts, terminals of the port (refused), extended
  data (refused).
* Tests and tools.

## What is left

1. The composition of `PacketBuffers` and `Channel`, with bytes and contents at
   once; it is out of TLC's reach with the present bounds.
