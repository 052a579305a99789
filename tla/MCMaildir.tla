------------------------------ MODULE MCMaildir ------------------------------
(* Maildir for TLC. *)
EXTENDS Maildir

Nm(d, f) == [dir |-> d, flags |-> f]
Few == {Nm("new", {}), Nm("cur", {"S"}), Nm("cur", {"T"})}
=============================================================================
