------------------------------ MODULE MCNewsrc ------------------------------
(* Newsrc for TLC. *)
EXTENDS Newsrc, TLC
Sym == Permutations(Sessions)
=============================================================================
