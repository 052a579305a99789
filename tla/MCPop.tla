-------------------------------- MODULE MCPop -------------------------------
(* Pop for TLC. *)
EXTENDS Pop
=============================================================================
