------------------------------ MODULE MCMailLock ------------------------------
(* MailLock for TLC.  In each behaviour only the processes of one team are    *)
(* running, for the jobs of that team: two copies of muttng, or one and a     *)
(* delivery script.  The copies of a stand-alone build break no locks, as     *)
(* nothing is claimed of such a build once a lock has been broken.            *)
EXTENDS MailLock

CONSTANTS m1, m2, s1

VARIABLES team, jobs

Teams ==
  {<<{m1, m2}, {"append", "check", "unlink"}, "internal">>,
   <<{m1, m2}, {"append", "sync"}, "internal">>,
   <<{m1, m2}, {"append", "unlink"}, "standalone">>,
   <<{m1, s1}, {"append", "sync", "unlink"}, "internal">>,
   <<{m1, s1}, {"append", "unlink"}, "standalone">>}

MCInit ==
  /\ Init
  /\ \E t \in Teams : team = t[1] /\ jobs = t[2] /\ build = t[3]

MCNext == /\ \/ \E p \in Mutts \cap team : MuttNext(p)
             \/ \E p \in Scripts \cap team : ScriptNext(p)
          /\ \A p \in Procs : job'[p] \in jobs \cup {"none"}
          /\ build = "standalone" => \A p \in Procs : asked'[p] = "no"
          /\ UNCHANGED <<team, jobs>>

MCSpec == MCInit /\ [][MCNext]_<<vars, team, jobs>> /\ Fairness
=============================================================================
