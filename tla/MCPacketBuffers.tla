------------------------- MODULE MCPacketBuffers -------------------------
(* PacketBuffers with small sizes, in the relations of tinyssh-config.h.     *)
EXTENDS PacketBuffers
============================================================================
