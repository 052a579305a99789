------------------------------ MODULE MCDotlock ------------------------------
(* Dotlock with the processes that lock one folder, for TLC.               *)
EXTENDS Dotlock
=============================================================================
