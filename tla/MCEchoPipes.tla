---------------------------- MODULE MCEchoPipes ----------------------------
(* EchoPipes for TLC. *)
EXTENDS EchoPipes
============================================================================
