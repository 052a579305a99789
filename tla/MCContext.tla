------------------------------ MODULE MCContext ------------------------------
(* Context and Search for TLC.  In each behaviour the users know the commands *)
(* of one group only, which work on the same flags, what they search for, and *)
(* how much mail they get.                                                   *)
EXTENDS Search

VARIABLE group

Group(commands, searches, mail) == [commands |-> commands, searches |-> searches, mail |-> mail]
Groups ==
  {Group({"delete", "undelete", "save", "display"}, {}, N),
   Group({"delete", "display"}, {"~D"}, N),
   Group({"delete", "toggle-tag", "untag"}, {"~T"}, N),
   Group({"set-old", "clear-old"}, {}, N),
   Group({"reply"}, {}, N),
   Group({"toggle-flag", "tag-pattern"}, {"~F"}, N),
   Group({"toggle-new"}, {}, N),
   Group({"toggle-new", "display", "delete"}, {"~N"}, 1)}

MCInit == SearchInit /\ group \in Groups
MCNext ==
  /\ SearchNextFor(group.commands \cap Commands)
  /\ searchpat' \in group.searches \cup {"none"}
  /\ arrived' <= group.mail
  /\ UNCHANGED group
MCSpec == MCInit /\ [][MCNext]_<<vars, cacheVars, group>>

(* Which messages supersede which: later ones earlier ones. *)
Later == {x \in Msgs \X Msgs : x[2] < x[1]}
=============================================================================
