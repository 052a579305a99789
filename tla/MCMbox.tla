-------------------------------- MODULE MCMbox --------------------------------
(* Mbox with two sessions that have the same folder open, for TLC.  The users *)
(* flag and delete messages MaxChanges times in all.                          *)
EXTENDS Mbox, TLC

CONSTANT MaxChanges

(* A message is much longer than a Status: header, and no two sums of sizes   *)
(* are the same.                                                              *)
Powers == [m \in Msgs |-> [mark \in {"plain", "marked"} |->
             2^(N + m + 1) + (IF mark = "marked" THEN 2^m ELSE 0)]]

ASSUME DifferentSizes == UniqueSizes

VARIABLE changes

MCInit == Init /\ changes = 0
MCNext ==
  /\ Next
  /\ changes' = IF \E s \in Sessions, m \in Msgs : Mark(s, m) \/ Delete(s, m)
                THEN changes + 1 ELSE changes
  /\ changes' <= MaxChanges
MCSpec == MCInit /\ [][MCNext]_<<vars, changes>>

Symmetry == Permutations(Sessions)
=============================================================================
