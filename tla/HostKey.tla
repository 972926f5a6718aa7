------------------------------ MODULE HostKey ------------------------------
(***************************************************************************)
(* The host key in NVS (port_load.c): two blobs, and load(), which makes a *)
(* new pair when the blob it is asked for is missing; and init_nvs, which  *)
(* erases both at a start of the device when NVS cannot be used as it is.  *)
(*                                                                         *)
(* Pairs are numbered in the order they are generated, 0 is no key.  Each  *)
(* nvs_set_blob is a step of its own: it is in flash when it returns, so a *)
(* reset or another task's load() may come between the two of them.        *)
(***************************************************************************)
EXTENDS Integers

CONSTANTS
  Sessions,      \* the session tasks, each of which calls load()
  WritesMayFail, \* does NVS have bad luck?
  MaxPairs       \* bound: pairs generated

ASSUME WriteAssumption == WritesMayFail \in BOOLEAN
ASSUME PairAssumption == MaxPairs \in Nat \ {0}

Blobs == {"pk", "sk"}
Pairs == 0..MaxPairs

VARIABLES
  blob,  \* NVS: the pair each blob belongs to
  initialized, \* the static variable of init_nvs
  pairs, \* pairs generated
  lpc,   \* where a session is in load(): "out", "init", "read", "pk", "sk" or
         \* "return"
  file,  \* the blob it has been asked for
  pair   \* the pair it has read or generated

nvsVars  == <<blob, initialized, pairs>>
loadVars == <<lpc, file, pair>>
keyVars  == <<nvsVars, loadVars>>

\* nvs_flash_erase, and a new device.
Erased == [b \in Blobs |-> 0]

KeyInit == /\ blob = Erased /\ initialized = FALSE /\ pairs = 0
           /\ lpc = [s \in Sessions |-> "out"]
           /\ file = [s \in Sessions |-> "pk"]
           /\ pair = [s \in Sessions |-> 0]

LoadCalled(s, b) ==
  /\ lpc[s] = "out"
  /\ lpc' = [lpc EXCEPT ![s] = IF initialized THEN "read" ELSE "init"]
  /\ file' = [file EXCEPT ![s] = b]
  /\ UNCHANGED <<nvsVars, pair>>

\* nvs_flash_init, which may find no free pages or another version: then
\* everything is erased.
NvsOpened == blob' \in {blob, Erased}

\* init_nvs, the first time.
InitNvs(s) == /\ lpc[s] = "init" /\ NvsOpened
              /\ initialized' = TRUE
              /\ lpc' = [lpc EXCEPT ![s] = "read"]
              /\ UNCHANGED <<pairs, file, pair>>

\* nvs_get_blob.
Read(s) == /\ lpc[s] = "read" /\ blob[file[s]] # 0
           /\ pair' = [pair EXCEPT ![s] = blob[file[s]]]
           /\ lpc' = [lpc EXCEPT ![s] = "return"]
           /\ UNCHANGED <<nvsVars, file>>

MissingOrBroken(b) == TRUE
\* ESP_ERR_NVS_NOT_FOUND.
Missing(b) == blob[b] = 0

Generate(s) == /\ lpc[s] = "read" /\ Missing(file[s])
               /\ pairs < MaxPairs
               /\ pairs' = pairs + 1
               /\ pair' = [pair EXCEPT ![s] = pairs + 1]
               /\ lpc' = [lpc EXCEPT ![s] = "pk"]
               /\ UNCHANGED <<blob, initialized, file>>

Written(s, b) == blob' = [blob EXCEPT ![b] = pair[s]]

\* A plausible slip: only the blob that was missing is written.
MissingOnly(s, b) == IF b = file[s] THEN Written(s, b) ELSE UNCHANGED blob
Set(s, b) == Written(s, b)

AfterBlob(b) == IF b = "pk" THEN "sk" ELSE "return"

\* The two nvs_set_blob.
SetBlob(s, b) == /\ lpc[s] = b /\ Set(s, b)
                 /\ lpc' = [lpc EXCEPT ![s] = AfterBlob(b)]
                 /\ UNCHANGED <<initialized, pairs, file, pair>>

\* One that fails is logged and forgotten.
SetFails(s, b) == /\ WritesMayFail /\ lpc[s] = b
                  /\ lpc' = [lpc EXCEPT ![s] = AfterBlob(b)]
                  /\ UNCHANGED <<nvsVars, file, pair>>

\* The stack frame is gone.
Left(s) == /\ lpc' = [lpc EXCEPT ![s] = "out"]
           /\ file' = [file EXCEPT ![s] = "pk"]
           /\ pair' = [pair EXCEPT ![s] = 0]

\* The caller has the key of pair[s].
Returned(s) == lpc[s] = "return" /\ Left(s) /\ UNCHANGED nvsVars

\* NVS cannot be initialised, opened or read: -1.
Failed(s) == /\ \/ lpc[s] = "init" /\ NvsOpened
                \/ lpc[s] = "read" /\ UNCHANGED blob
             /\ Left(s) /\ UNCHANGED <<initialized, pairs>>

LoadStep(s) == InitNvs(s) \/ Read(s) \/ Generate(s) \/ \E b \in Blobs : SetBlob(s, b)

\* A reset: only NVS remains.
LoadForgotten == /\ lpc' = [s \in Sessions |-> "out"]
                 /\ file' = [s \in Sessions |-> "pk"]
                 /\ pair' = [s \in Sessions |-> 0]
                 /\ initialized' = FALSE /\ UNCHANGED pairs

----------------------------------------------------------------------------
KeyTypeOK == /\ blob \in [Blobs -> Pairs] /\ pairs \in Pairs
             /\ initialized \in BOOLEAN
             /\ lpc \in [Sessions -> {"out", "init", "read", "pk", "sk",
                                    "return"}]
             /\ file \in [Sessions -> Blobs]
             /\ pair \in [Sessions -> Pairs]

\* Half a key: what a reset between the two writes leaves behind.
HalfKey == blob["pk"] # blob["sk"]

============================================================================
