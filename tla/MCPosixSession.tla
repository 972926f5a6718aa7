--------------------------- MODULE MCPosixSession ---------------------------
(* Model checking of PosixSession and of what it implements.               *)
EXTENDS PosixFlow

============================================================================
