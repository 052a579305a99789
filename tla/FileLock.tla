------------------------------ MODULE FileLock ------------------------------
(***************************************************************************)
(* What a lock on a mail folder promises its callers: at any moment at     *)
(* most one process owns it, it is granted only when nobody owns it, and   *)
(* only its owner gives it back.  Dotlock is shown to implement this       *)
(* module when no caller breaks locks; Mbox relies on such a lock.         *)
(***************************************************************************)
CONSTANTS Procs,    \* processes that lock the folder
          None      \* "no process"

VARIABLE owner      \* the process that was told it has the lock, or None

Init == owner = None

(* dotlock_lock() / mx_lock_file() reports success to p. *)
Acquire(p) == owner = None /\ owner' = p

(* p unlocks the folder, or dies holding the lock. *)
Release(p) == owner = p /\ owner' = None

Next == \E p \in Procs : Acquire(p) \/ Release(p)

Spec == Init /\ [][Next]_owner
=============================================================================
