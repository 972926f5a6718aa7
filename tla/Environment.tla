---------------------------- MODULE Environment ----------------------------
(* newenv.c: the environment a command will get, an array of pointers e that
   ends with a null pointer and a buffer of strings that only grows.  A variable
   that is put again is first removed, by moving the last pointer into its
   place, and then appended. *)
EXTENDS Integers, FiniteSets

CONSTANTS NewenvLen,   \* NEWENV_LEN, pointers in e
          NewenvSpace, \* NEWENV_SPACE, bytes for the strings
          Names,       \* names of variables, one byte each
          Sizes,       \* lengths of values; a value is known by its length
          Environ      \* the sizes of this process's own variables, by name

\* A size that is none; and "" names a null pointer (Null) and no variable.
Unset == -1
ASSUME EnvAssumption ==
  /\ NewenvLen \in Nat \ {0} /\ NewenvSpace \in Nat
  /\ IsFiniteSet(Names) /\ "" \notin Names /\ Sizes \subseteq Nat
  /\ Environ \in [Names -> Nat \cup {Unset}]

VARIABLES e, elen, eslen,
          wanted, \* the size of the value put last, by name
          spoiled \* a replacement has failed since the last newenv_init

envVars == <<e, elen, eslen, wanted, spoiled>>

Null == [name |-> "", size |-> 0]
Slots == 0 .. NewenvLen - 1

EmptyEnv == /\ e = [i \in Slots |-> Null] /\ elen = 0 /\ eslen = 0
            /\ wanted = [s \in Names |-> Unset] /\ spoiled = FALSE

\* What execve and env_get see: the pointers before the first null pointer.
Visible == {i \in Slots : \A j \in 0 .. i : e[j] # Null}
EnvGet(s) == LET at == {i \in Visible : e[i].name = s} IN
             IF at = {} THEN Unset
             ELSE e[CHOOSE i \in at : \A j \in at : i <= j].size

NewenvInit == /\ e' = [i \in Slots |-> Null] /\ elen' = 0 /\ eslen' = 0
              /\ wanted' = [s \in Names |-> Unset] /\ spoiled' = FALSE

NewenvPurge == /\ e' = [i \in Slots |-> Null]
               /\ elen' = NewenvLen /\ eslen' = NewenvSpace
               /\ wanted' = [s \in Names |-> Unset] /\ spoiled' = FALSE

\* The first entry of that name goes, the last one takes its place.
Replaces(s) == \E i \in Visible : e[i].name = s
LenWithout(s) == IF Replaces(s) THEN elen - 1 ELSE elen
Without(s) == LET at == {i \in Visible : e[i].name = s} IN
  IF at = {} THEN e
  ELSE [e EXCEPT ![CHOOSE i \in at : \A j \in at : i <= j] = e[elen - 1]]

\* Name, '=', value and the final zero; a half of the limits for lowenv.
StringLen(t) == 1 + t + 2
Fits(x, s, t) == /\ LenWithout(s) + 2 <= NewenvLen \div x
                 /\ eslen + StringLen(t) <= NewenvSpace \div x

\* newenv_env_: x = 1 for newenv_env, 2 for newenv_lowenv.  The removal comes
\* before the limits are checked, and the array is not terminated after it.
Put(x, s, t) ==
  IF Fits(x, s, t)
  THEN /\ e' = [Without(s) EXCEPT ![LenWithout(s)] = [name |-> s, size |-> t],
                                  ![LenWithout(s) + 1] = Null]
       /\ elen' = LenWithout(s) + 1
       /\ eslen' = eslen + StringLen(t)
       /\ wanted' = [wanted EXCEPT ![s] = t]
       /\ UNCHANGED spoiled
  ELSE /\ e' = Without(s) /\ elen' = LenWithout(s)
       /\ spoiled' = (spoiled \/ Replaces(s))
       /\ UNCHANGED <<eslen, wanted>>

\* An empty array is initialised first: the strings of what it held are gone.
PutFirst(x, s, t) ==
  IF 2 <= NewenvLen \div x /\ StringLen(t) <= NewenvSpace \div x
  THEN /\ e' = [i \in Slots |-> IF i = 0 THEN [name |-> s, size |-> t]
                                         ELSE Null]
       /\ elen' = 1 /\ eslen' = StringLen(t)
       /\ wanted' = [n \in Names |-> IF n = s THEN t ELSE Unset]
       /\ spoiled' = FALSE
  ELSE NewenvInit

Newenv(x, s, t) == IF elen = 0 THEN PutFirst(x, s, t) ELSE Put(x, s, t)

NewenvEnv == \E x \in {1, 2}, s \in Names, t \in Sizes : Newenv(x, s, t)

NewenvCopyenv == \E s \in Names : /\ Environ[s] # Unset
                                  /\ Newenv(1, s, Environ[s])

EnvNext == NewenvInit \/ NewenvPurge \/ NewenvEnv \/ NewenvCopyenv
-----------------------------------------------------------------------------
\* The command gets exactly the variables that were put, each with its last
\* value, as long as no replacement has failed: moving the last pointer into
\* the gap (newenv.c:72) loses and duplicates nothing.
EnvironmentKept ==
  ~spoiled => /\ \A s \in Names : EnvGet(s) = wanted[s]
              /\ Cardinality(Visible)
                   = Cardinality({s \in Names : wanted[s] # Unset})
=============================================================================
