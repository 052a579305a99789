------------------------------- MODULE MCSend -------------------------------
(* Send for TLC. *)
EXTENDS Send
=============================================================================
