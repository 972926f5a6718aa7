----------------------------- MODULE Algorithms -----------------------------
(* The algorithms of the system and the processes around a session.  Either the
   environment of a command is put together, step by step, or the processes of
   module Startup run, or one call of one function is made: job is the call with
   its arguments and what it returned.  Each of the three begins with the other
   two at rest. *)
EXTENDS Command, Text, Wire, Kem, Curve, Record, Blocks, Descriptors

vars == <<commandVars, job>>

Init == CommandInit /\ job = None

AnyCall == \/ TextNext \/ WireNext \/ KemNext \/ CurveNext \/ RecordNext
           \/ BlocksNext \/ DescriptorsNext

EnvUntouched == elen = 0 /\ eslen = 0 /\ ~spoiled
StartUntouched == keydir = NoDir /\ maker = Gone /\ server = ServerDown /\ losses = 0

Next == \/ /\ job = None /\ StartUntouched
           /\ EnvNext /\ UNCHANGED <<startVars, job>>
        \/ /\ job = None /\ EnvUntouched
           /\ StartNext /\ UNCHANGED <<envVars, job>>
        \/ /\ EnvUntouched /\ StartUntouched
           /\ AnyCall /\ UNCHANGED <<envVars, startVars>>

Spec == Init /\ [][Next]_vars
-----------------------------------------------------------------------------
\* What is printed or sent is read back: see TextReadsBack and WireReadsBack.
FormatsReadBack == TextReadsBack /\ WireReadsBack

\* Both sides of a key exchange, signature or block come to the same result:
\* see KemAgrees, CurveAgrees and BlocksStandard.
PrimitivesAgree == KemAgrees /\ CurveAgrees /\ BlocksStandard
=============================================================================
