------------------------------- MODULE MCImap -------------------------------
(* Imap for TLC. *)
EXTENDS Imap

Marks == {{}, {"deleted"}}
=============================================================================
