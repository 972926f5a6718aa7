------------------------------- MODULE Command -------------------------------
(* How a command of a user comes to run: the environment that is put together
   for it, and the processes around its session, whose steps do not touch each
   other's state. *)
EXTENDS Environment, Startup

commandVars == <<envVars, startVars>>

CommandInit == EmptyEnv /\ StartInit
CommandNext == \/ EnvNext /\ UNCHANGED startVars
               \/ StartNext /\ UNCHANGED envVars
CommandSpec == CommandInit /\ [][CommandNext]_commandVars
-----------------------------------------------------------------------------
\* A command starts with the environment that was put (newenv.c:72), and as the
\* user who authenticated (dropuidgid.c:23): see EnvironmentKept and
\* IdentityDropped.
CommandPrepared == EnvironmentKept /\ IdentityDropped
=============================================================================
