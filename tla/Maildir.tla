------------------------------- MODULE Maildir -------------------------------
(***************************************************************************)
(* A Maildir folder (mh.c) that muttng has open while other programs       *)
(* deliver messages into it, rename them and remove them, all without      *)
(* locks.  A message is a file; its flags are part of the file's name, and *)
(* muttng learns of changes by the times of the directories new and cur,   *)
(* which count seconds.                                                    *)
(*                                                                         *)
(* Each scan of a directory and each rename() or unlink() is a step.  What *)
(* happens to the counters of the context beside ctx->changed and          *)
(* ctx->deleted is the subject of Context.                                 *)
(***************************************************************************)
EXTENDS Integers, Sequences, FiniteSets

CONSTANTS
  N,             \* bound: messages that are ever delivered
  MaxClock,      \* bound: seconds that pass
  MaxEvents,     \* bound: what other programs and the user do
  Commands,      \* what the user does to messages
  OtherNames,    \* names other programs give to message files
  MaildirTrash   \* the option maildir_trash

Msgs == 1..N
Dirs == {"new", "cur"}
None == [dir |-> "none", flags |-> {}]
Names == [dir : Dirs, flags : SUBSET {"F", "S", "T"}]
Status == {"flagged", "read", "old"}
Bits == Status \cup {"deleted", "trash", "changed"}
AllCommands == {"flag", "read", "new", "delete", "undelete"}

ASSUME MaildirAssumption ==
  /\ N \in Nat /\ MaxClock \in Nat /\ MaxEvents \in Nat
  /\ Commands \subseteq AllCommands /\ OtherNames \subseteq Names
  /\ MaildirTrash \in BOOLEAN

VARIABLES
  file,     \* the name of each message's file, None if there is no file
  born,     \* the messages that have been delivered
  mtime,    \* when the directories were last changed
  clock,
  events,   \* how often other programs or the user have done something
  pc,       \* what muttng is doing
  why,      \* on behalf of which command it checks or syncs
  view,     \* its headers of each message: normally one, or none
  ctx,      \* ctx->changed, one bit wide, and ctx->deleted
  seen,     \* ctx->mtime ("new") and ctx->mtime_cur ("cur")
  mask,     \* in a check: the directories to be scanned
  scan,     \* in a check: the files found in new
  todo,     \* in a sync: the headers that have still to be handled
  purge,    \* in a sync: the answer to "Purge deleted messages?"
  raced,    \* history: messages other programs changed while muttng was
            \* scanning or writing, files changed or removed in a second whose
            \* time it has noted, and files removed despite the answer no
  said      \* history: whether the user last deleted or undeleted a message,
            \* "-" if another program has had its say since

dirVars == <<file, born, mtime, clock, events>>
vars == <<dirVars, pc, why, view, ctx, seen, mask, scan, todo, purge, raced, said>>

Header == [path : Names, bits : SUBSET Bits]

MaildirTypeOK ==
  /\ file \in [Msgs -> Names \cup {None}] /\ born \subseteq Msgs
  /\ mtime \in [Dirs -> 0..MaxClock] /\ clock \in 0..MaxClock
  /\ events \in 0..MaxEvents
  /\ pc \in {"closed", "opening", "idle", "checking", "syncing"}
  /\ why \in {"check", "sync", "close"}
  /\ view \in [Msgs -> Seq(Header)] /\ \A m \in Msgs : Len(view[m]) <= 2
  /\ ctx \in [changed : 0..1, deleted : Int]
  /\ seen \in [Dirs -> 0..MaxClock]
  /\ mask \subseteq Dirs /\ scan \in [Msgs -> Names \cup {None}]
  /\ todo \subseteq Msgs \X (1..2) /\ purge \in {"yes", "no"}
  /\ raced \subseteq Msgs /\ said \in [Msgs -> {"-", "delete", "undelete"}]

Nothing == [m \in Msgs |-> None]
Closed ==
  /\ pc' = "closed" /\ why' = "check"
  /\ view' = [m \in Msgs |-> <<>>]
  /\ ctx' = [changed |-> 0, deleted |-> 0]
  /\ seen' = [d \in Dirs |-> 0]
  /\ mask' = {} /\ scan' = Nothing /\ todo' = {} /\ purge' = "yes"
  /\ raced' = {} /\ said' = [m \in Msgs |-> "-"]

Init ==
  /\ \E k \in 0..N : born = 1..k                  \* delivered earlier
  /\ file \in [Msgs -> OtherNames \cup {None}]
  /\ \A m \in Msgs : file[m] # None <=> m \in born
  /\ mtime = [d \in Dirs |-> 0]
  /\ clock = 0 /\ events = 0
  /\ pc = "closed" /\ why = "check"
  /\ view = [m \in Msgs |-> <<>>]
  /\ ctx = [changed |-> 0, deleted |-> 0]
  /\ seen = [d \in Dirs |-> 0]
  /\ mask = {} /\ scan = Nothing /\ todo = {} /\ purge = "yes"
  /\ raced = {} /\ said = [m \in Msgs |-> "-"]

-----------------------------------------------------------------------------
(* Names and headers *)

(* maildir_parse_flags(), and is_old of maildir_parse_dir() *)
ParseFlags(nm) ==
  (IF "F" \in nm.flags THEN {"flagged"} ELSE {})
    \cup (IF "S" \in nm.flags THEN {"read"} ELSE {})
    \cup (IF "T" \in nm.flags THEN {"trash", "deleted"} ELSE {})
    \cup (IF nm.dir = "cur" THEN {"old"} ELSE {})

(* The name maildir_sync_message() makes of a header, with maildir_flags() *)
NameOf(b) ==
  [dir |-> IF b \cap {"read", "old"} # {} THEN "cur" ELSE "new",
   flags |-> (IF "flagged" \in b THEN {"F"} ELSE {})
               \cup (IF "read" \in b THEN {"S"} ELSE {})
               \cup (IF "deleted" \in b THEN {"T"} ELSE {})]

NewHeader(nm) == [path |-> nm, bits |-> ParseFlags(nm)]

(* maildir_update_flags(): four calls of mutt_set_flag(), after which the    *)
(* header and the context are as changed as they were before.                *)
UpdateFlags(b, nm) == (b \ Status) \cup (ParseFlags(nm) \cap Status)

(* Mutant: deletions are always taken from the name. *)
MergeDisk(h, nm) ==
  LET b == IF "changed" \in h.bits THEN h.bits ELSE UpdateFlags(h.bits, nm)
  IN  [path |-> nm,
       bits |-> (b \ {"deleted", "trash"}) \cup (ParseFlags(nm) \cap {"deleted", "trash"})]

(* Mutant: flags are always taken from the name. *)
MergeAll(h, nm) ==
  LET del == IF "deleted" \in h.bits <=> "trash" \in h.bits THEN ParseFlags(nm) ELSE h.bits
  IN  [path |-> nm,
       bits |-> (UpdateFlags(h.bits, nm) \ {"deleted", "trash", "changed"})
                  \cup (del \cap {"deleted"}) \cup (ParseFlags(nm) \cap {"trash"})]

(* maildir_check_mailbox() finds a known message under the name nm. *)
Merge(h, nm) ==
  LET b == IF "changed" \in h.bits THEN h.bits ELSE UpdateFlags(h.bits, nm)
      del == IF "deleted" \in h.bits <=> "trash" \in h.bits THEN ParseFlags(nm) ELSE h.bits
  IN  [path |-> nm,
       bits |-> (b \ {"deleted", "trash"})
                  \cup (del \cap {"deleted"}) \cup (ParseFlags(nm) \cap {"trash"})]

(* The command is over. *)
Idle == pc' = "idle" /\ why' = "check" /\ purge' = "yes" /\ mask' = {} /\ scan' = Nothing

(* The headers of v at the places I; v has two at most. *)
Keep(v, I) == IF I = DOMAIN v THEN v ELSE IF I = {} THEN <<>> ELSE <<v[CHOOSE i \in I : TRUE]>>

(* How many headers in v have the bit. *)
HowMany(v, bit) ==
  Cardinality({x \in Msgs \X (1..2) :
                 x[2] \in DOMAIN v[x[1]] /\ bit \in v[x[1]][x[2]].bits})

-----------------------------------------------------------------------------
(* Other programs.  A file appears by being renamed from tmp.                *)
Touch(D) == mtime' = [d \in Dirs |-> IF d \in D THEN clock ELSE mtime[d]]

Event == events < MaxEvents /\ events' = events + 1

OtherChange(m, nm) ==
  LET D == {file[m].dir, nm.dir} \cap Dirs
  IN  /\ Event
      /\ file' = [file EXCEPT ![m] = nm]
      /\ Touch(D)
      /\ raced' = IF \/ pc \in {"opening", "checking", "syncing"}
                     \/ pc = "idle" /\ \E d \in D : seen[d] = clock
                  THEN raced \cup {m} ELSE raced
      /\ UNCHANGED <<clock, pc, why, view, ctx, seen, mask, scan, todo, purge, said>>

Deliver(m, nm) ==
  /\ m \notin born /\ \A k \in Msgs : k < m => k \in born
  /\ born' = born \cup {m}
  /\ OtherChange(m, nm)

Rename(m, nm) ==
  /\ file[m] # None /\ nm # file[m]
  /\ OtherChange(m, nm)
  /\ UNCHANGED born

Remove(m) == file[m] # None /\ OtherChange(m, None) /\ UNCHANGED born

Tick ==
  /\ clock < MaxClock
  /\ clock' = clock + 1
  /\ UNCHANGED <<file, born, mtime, events, pc, why, view, ctx, seen, mask, scan, todo, purge,
                 raced, said>>

-----------------------------------------------------------------------------
(* Opening: maildir_read_dir() *)

(* _mh_read_dir() for the directory d.  Nobody looks whether a message has   *)
(* been read from the other directory already.                               *)
ReadDir(d) ==
  /\ seen' = mtime                             \* maildir_update_mtime()
  /\ view' = [m \in Msgs |-> IF file[m].dir = d THEN Append(view[m], NewHeader(file[m]))
                             ELSE view[m]]
  /\ ctx' = [ctx EXCEPT !.deleted =
               @ + Cardinality({m \in Msgs : file[m].dir = d /\ "T" \in file[m].flags})]
  /\ UNCHANGED <<dirVars, why, mask, scan, todo, purge, said>>

OpenNew ==
  /\ pc = "closed" /\ born # {}
  /\ pc' = "opening"
  /\ ReadDir("new") /\ UNCHANGED raced

OpenCur ==
  /\ pc = "opening"
  /\ pc' = "idle"
  /\ ReadDir("cur") /\ UNCHANGED raced

-----------------------------------------------------------------------------
(* The user's commands, for header i of message m. *)

SetBits(m, i, b) == Event /\ view' = [view EXCEPT ![m][i].bits = b]

ChangeStatus(cmd, m, i) ==
  LET b == view[m][i].bits
      new == CASE cmd = "flag" -> IF "flagged" \in b THEN b \ {"flagged"} ELSE b \cup {"flagged"}
               [] cmd = "read" -> b \cup {"read"}
               [] cmd = "new" -> b \ {"read", "old"}
  IN  /\ pc = "idle" /\ cmd \in {"flag", "read", "new"}
      /\ i \in DOMAIN view[m]
      /\ new # b
      /\ SetBits(m, i, new \cup {"changed"})
      /\ ctx' = [ctx EXCEPT !.changed = 1]
      /\ UNCHANGED <<file, born, mtime, clock, pc, why, seen, mask, scan, todo, purge, raced, said>>

DeleteOrUndelete(cmd, m, i) ==
  LET b == view[m][i].bits
  IN  /\ pc = "idle" /\ cmd \in {"delete", "undelete"}
      /\ i \in DOMAIN view[m]
      /\ cmd = "delete" <=> "deleted" \notin b
      /\ SetBits(m, i, IF cmd = "delete" THEN b \cup {"deleted"} ELSE b \ {"deleted"})
      /\ ctx' = [ctx EXCEPT !.deleted = IF cmd = "delete" THEN @ + 1 ELSE @ - 1]
      /\ said' = [said EXCEPT ![m] = cmd]
      /\ UNCHANGED <<file, born, mtime, clock, pc, why, seen, mask, scan, todo, purge, raced>>

-----------------------------------------------------------------------------
(* Checking: maildir_check_mailbox() *)

(* Mutant: only the time of new is looked at. *)
NewerInNew == {d \in {"new"} : mtime[d] > seen[d]}

(* The directories that must be scanned. *)
Newer == {d \in Dirs : mtime[d] > seen[d]}

AllHeaders(v) == {x \in Msgs \X (1..2) : x[2] \in DOMAIN v[x[1]]}

(* mh_sync_mailbox() begins when the check has found nothing. *)
BeginSync(v) == pc' = "syncing" /\ todo' = AllHeaders(v) /\ mask' = {} /\ scan' = Nothing

(* A check that is part of a sync finds nothing newer. *)
CheckNothing == Newer = {} /\ BeginSync(view') /\ UNCHANGED <<seen, raced>>

(* The times are noted, then new is scanned. *)
CheckNew ==
  /\ Newer # {}
  /\ pc' = "checking" /\ seen' = mtime
  /\ mask' = Newer
  /\ scan' = [m \in Msgs |-> IF "new" \in Newer /\ file[m].dir = "new" THEN file[m] ELSE None]
  /\ raced' = IF Newer = Dirs THEN {} ELSE raced
  /\ UNCHANGED todo

(* A check for its own sake: it does nothing if nothing is newer. *)
Check ==
  /\ pc = "idle"
  /\ CheckNew
  /\ UNCHANGED <<dirVars, why, view, ctx, said, purge>>

(* The directory entries of m, those of new first. *)
Entries(m) ==
  (IF scan[m] = None THEN <<>> ELSE <<scan[m]>>)
    \o (IF "cur" \in mask /\ file[m].dir = "cur" THEN <<file[m]>> ELSE <<>>)

(* The headers of m that stay: the first one takes the first entry, further  *)
(* ones find it taken; a header without an entry stays if its directory was  *)
(* not scanned.                                                              *)
StayAlways(h) == TRUE       \* Mutant: also if it was.

Stay(h) == h.path.dir \notin mask
Active(m) ==
  LET v == view[m]
      staying == {i \in DOMAIN v : Stay(v[i])}
  IN  IF v = <<>> \/ Entries(m) = <<>> THEN Keep(v, staying)
      ELSE Keep([v EXCEPT ![1] = Merge(v[1], Entries(m)[1])], {1} \cup staying)

(* maildir_delayed_parsing() of the other entries, maildir_move_to_context():*)
(* two entries cannot both be there.                                         *)
Added(m) ==
  LET e == Entries(m)
      found == {i \in DOMAIN e : e[i] = file[m] /\ (i = 1 => view[m] = <<>>)}
  IN  IF found = {} THEN <<>> ELSE <<NewHeader(file[m])>>

(* What the user has said of the first of the headers v, if it differs from  *)
(* what the file's name says.                                                *)
LastWord(v) ==
  IF v = <<>> \/ ("deleted" \in Head(v).bits <=> "trash" \in Head(v).bits) THEN "-"
  ELSE IF "deleted" \in Head(v).bits THEN "delete" ELSE "undelete"

(* cur is scanned and what was found is merged.  If messages are gone,       *)
(* mx_update_tables() counts again, ctx->changed in its single bit.          *)
CheckCur ==
  LET kept == [m \in Msgs |-> Active(m)]
      added == [m \in Msgs |-> Added(m)]
      v == [m \in Msgs |-> kept[m] \o added[m]]
      occult == \E m \in Msgs : Len(kept[m]) < Len(view[m])
      haveNew == \E m \in Msgs : added[m] # <<>>
  IN  /\ pc = "checking"
      /\ view' = v
      /\ ctx' = [changed |-> IF occult THEN HowMany(kept, "changed") % 2 ELSE ctx.changed,
                 deleted |-> HowMany(added, "deleted")
                               + (IF occult THEN HowMany(kept, "deleted") ELSE ctx.deleted)]
      /\ said' = [m \in Msgs |->
                    IF Len(kept[m]) # Len(view[m]) THEN LastWord(kept[m])
                    ELSE IF /\ view[m] # <<>> /\ Entries(m) # <<>>
                            /\ ~("trash" \in Head(view[m]).bits <=> "T" \in Head(Entries(m)).flags)
                    THEN "-" ELSE said[m]]
      /\ IF why = "check" \/ occult \/ haveNew
         THEN Idle /\ UNCHANGED todo
         ELSE BeginSync(v) /\ UNCHANGED <<why, purge>>
      /\ UNCHANGED <<dirVars, seen, raced>>

-----------------------------------------------------------------------------
(* Saving: _mx_sync_mailbox() or _mx_close_mailbox() with mh_sync_mailbox() *)

(* The answer no undeletes all messages. *)
Answered(v, ans) ==
  IF ans = "yes" THEN v
  ELSE [m \in Msgs |-> [i \in DOMAIN v[m] |-> [v[m][i] EXCEPT !.bits = @ \ {"deleted"}]]]

(* Closing marks messages as old (mark_old). *)
MarkedOld(v) ==
  [m \in Msgs |-> [i \in DOMAIN v[m] |->
     IF v[m][i].bits \cap {"deleted", "old"} = {}
     THEN [v[m][i] EXCEPT !.bits = @ \cup {"old", "changed"}] ELSE v[m][i]]]

(* There is something to save, and the folder is checked first. *)
StartSync(ans, wh) ==
  LET v == IF wh = "close" THEN MarkedOld(view) ELSE view
      changed == IF v # view THEN 1 ELSE ctx.changed
  IN  /\ pc = "idle" /\ why' = wh /\ purge' = ans
      /\ ans = "no" => ctx.deleted # 0
      /\ changed # 0 \/ (ctx.deleted # 0 /\ ans = "yes")
      /\ view' = Answered(v, ans)
      /\ ctx' = [changed |-> changed, deleted |-> IF ans = "no" THEN 0 ELSE ctx.deleted]
      /\ said' = [m \in Msgs |-> IF Answered(view, ans)[m] # view[m] THEN "undelete" ELSE said[m]]
      /\ CheckNothing \/ CheckNew
      /\ UNCHANGED dirVars

(* Headers are handled in their order. *)
First(X) == {x \in X : \A y \in X : x[1] < y[1] \/ (x[1] = y[1] /\ x[2] <= y[2])}

(* A header that is to be saved. *)
NeedsSync(b) ==
  \/ "changed" \in b
  \/ (MaildirTrash \/ "trash" \in b) /\ ("deleted" \in b <=> "trash" \notin b)

(* Mutant: messages that were ever marked as trashed are removed. *)
UnlinksTrashed(b) == b \cap {"deleted", "trash"} # {} /\ ~MaildirTrash

(* A header whose file is removed. *)
Unlinks(b) == "deleted" \in b /\ ~MaildirTrash

(* A deleted message is removed.  That its file may have another name by now *)
(* goes unnoticed.                                                           *)
UnlinkMessage(m, i) ==
  LET h == view[m][i]
  IN  /\ pc = "syncing" /\ <<m, i>> \in todo /\ Unlinks(h.bits)
      /\ todo' = todo \ {<<m, i>>}
      /\ IF file[m] = h.path
         THEN /\ file' = [file EXCEPT ![m] = None] /\ Touch({h.path.dir})
              /\ raced' = IF seen[h.path.dir] = clock \/ purge = "no" THEN raced \cup {m} ELSE raced
         ELSE UNCHANGED <<file, mtime, raced>>
      /\ UNCHANGED <<born, clock, events, pc, why, view, ctx, seen, mask, scan, purge, said>>

(* Nothing is to be done for a message, or its name is what it should be. *)
SkipMessage(m, i) ==
  LET h == view[m][i]
  IN  /\ pc = "syncing" /\ <<m, i>> \in todo /\ ~Unlinks(h.bits)
      /\ NeedsSync(h.bits) => NameOf(h.bits) = h.path
      /\ todo' = todo \ {<<m, i>>}
      /\ UNCHANGED <<dirVars, pc, why, view, ctx, seen, mask, scan, purge, raced, said>>

(* h->trash = h->deleted, done before the file is renamed *)
NoteTrash(b) == IF "deleted" \in b THEN b \cup {"trash"} ELSE b \ {"trash"}

(* maildir_sync_message(): the file gets the name that says the flags. *)
RenameMessage(m, i) ==
  LET h == view[m][i]
  IN  /\ pc = "syncing" /\ <<m, i>> \in todo /\ ~Unlinks(h.bits)
      /\ NeedsSync(h.bits) /\ NameOf(h.bits) # h.path
      /\ file[m] = h.path
      /\ file' = [file EXCEPT ![m] = NameOf(h.bits)]
      /\ Touch({h.path.dir, NameOf(h.bits).dir})
      /\ view' = [view EXCEPT ![m][i] = [path |-> NameOf(h.bits), bits |-> NoteTrash(h.bits)]]
      /\ todo' = todo \ {<<m, i>>}
      /\ UNCHANGED <<born, clock, events, pc, why, ctx, seen, mask, scan, purge, raced, said>>

(* The file is not there under its name: the sync is given up. *)
RenameFails(m, i) ==
  LET h == view[m][i]
  IN  /\ pc = "syncing" /\ <<m, i>> \in todo /\ ~Unlinks(h.bits)
      /\ NeedsSync(h.bits) /\ NameOf(h.bits) # h.path
      /\ file[m] # h.path
      /\ view' = [view EXCEPT ![m][i].bits = NoteTrash(h.bits)]
      /\ Idle /\ todo' = {}
      /\ UNCHANGED <<dirVars, ctx, seen, raced, said>>

(* All headers are done.  The times of the directories are noted, and        *)
(* mx_update_tables() is called unless the answer was no.                    *)
SyncEnd ==
  LET Kept(h) == MaildirTrash \/ "deleted" \notin h.bits
      kept == [m \in Msgs |-> Keep(view[m], {i \in DOMAIN view[m] : Kept(view[m][i])})]
      clean == [m \in Msgs |-> [i \in DOMAIN kept[m] |->
                                  [kept[m][i] EXCEPT !.bits = @ \ {"changed"}]]]
  IN  /\ pc = "syncing" /\ todo = {}
      /\ UNCHANGED dirVars
      /\ \/ why = "close" /\ Closed
         \/ /\ why = "sync" /\ Idle /\ seen' = mtime
            /\ IF purge = "no" THEN UNCHANGED <<view, ctx, said>>
               ELSE /\ view' = clean
                    /\ ctx' = [changed |-> 0,
                               deleted |-> IF MaildirTrash THEN HowMany(clean, "deleted") ELSE 0]
                    /\ said' = [m \in Msgs |-> IF clean[m] = view[m] THEN said[m]
                                               ELSE LastWord(clean[m])]
            /\ UNCHANGED <<todo, raced>>

(* Nothing is to be saved when the folder is closed. *)
CloseUnchanged ==
  /\ pc = "idle" /\ MarkedOld(view) = view
  /\ ctx.changed = 0
  /\ UNCHANGED dirVars /\ Closed

-----------------------------------------------------------------------------
Headers == {x \in Msgs \X (1..2) : x[2] \in DOMAIN view[x[1]]}

MuttngStep ==
  \/ OpenNew \/ OpenCur
  \/ \E x \in Headers, cmd \in Commands :
       ChangeStatus(cmd, x[1], x[2]) \/ DeleteOrUndelete(cmd, x[1], x[2])
  \/ Check \/ CheckCur
  \/ \E ans \in {"yes", "no"}, wh \in {"sync", "close"} : StartSync(ans, wh)
  \/ \E x \in First(todo) : \/ UnlinkMessage(x[1], x[2]) \/ SkipMessage(x[1], x[2])
                            \/ RenameMessage(x[1], x[2]) \/ RenameFails(x[1], x[2])
  \/ SyncEnd
  \/ CloseUnchanged

Next ==
  \/ \E m \in Msgs, nm \in OtherNames : Deliver(m, nm) \/ Rename(m, nm)
  \/ \E m \in Msgs : Remove(m)
  \/ Tick
  \/ MuttngStep

(* The program looks for new mail whenever it waits for a key, and goes on   *)
(* with what it has begun.                                                   *)
Progress ==
  \/ OpenCur \/ CheckCur \/ SyncEnd
  \/ \E x \in First(todo) : \/ UnlinkMessage(x[1], x[2]) \/ SkipMessage(x[1], x[2])
                            \/ RenameMessage(x[1], x[2]) \/ RenameFails(x[1], x[2])

SafetySpec == Init /\ [][Next]_vars
Spec == SafetySpec /\ WF_vars(Check) /\ WF_vars(Progress)

-----------------------------------------------------------------------------
(* What is shown of a message's flags; a read message is not shown as old. *)
Shown(b) ==
  (b \cap {"flagged", "read"}) \cup (IF "read" \in b THEN {} ELSE b \cap {"old"})

(* If the times of the directories give no reason to scan them, then muttng  *)
(* shows exactly the messages that are there, under their right names, and   *)
(* with the flags of their names unless the user has changed them: except    *)
(* those that changed in the second of the last scan, or during it.          *)
ViewFresh ==
  pc = "idle" /\ Newer = {} =>
    \A m \in Msgs \ raced :
      IF file[m] = None THEN view[m] = <<>>
      ELSE /\ Len(view[m]) = 1 /\ view[m][1].path = file[m]
           /\ "changed" \notin view[m][1].bits
                => Shown(view[m][1].bits) = Shown(ParseFlags(file[m]))

(* The user's last word on a message's deletion stands, whatever names other *)
(* programs give to the file, unless they have deleted or undeleted it.      *)
DeletionKept ==
  \A m \in Msgs :
    Len(view[m]) = 1 =>
      /\ said[m] = "delete" => "deleted" \in view[m][1].bits
      /\ said[m] = "undelete" => "deleted" \notin view[m][1].bits

(* A sync removes a message only if the user has deleted it, or another      *)
(* program has marked it as trashed and the user has not undeleted it.       *)
OnlyDeletedRemoved ==
  [][\A m \in Msgs \ raced :
       pc = "syncing" /\ todo' # todo /\ file[m] # None /\ file'[m] = None =>
         said[m] = "delete" \/ (said[m] = "-" /\ "T" \in file[m].flags)]_vars

(* A header ceases to be marked as changed only when the file's name says    *)
(* what it says, or the file is gone: no check, sync or close drops a        *)
(* change.  The exception is a close that saves nothing because the one bit  *)
(* of ctx->changed is 0 although headers are changed, an even number of them *)
(* (mx_update_tables() has counted them): it does drop them all.             *)
ChangesReachFile ==
  [][\A m \in Msgs \ (raced \cup raced') :
       /\ Len(view[m]) = 1 /\ "changed" \in view[m][1].bits /\ file'[m] # None
       /\ IF pc' = "closed" THEN pc = "idle" => HowMany(view, "changed") % 2 = 1
          ELSE Len(view'[m]) = 1 => "changed" \notin view'[m][1].bits
       => Shown(view[m][1].bits) = Shown(ParseFlags(file'[m]))]_vars

(* New mail is shown in the end, unless it came in the second of a scan.     *)
NewMailShown ==
  \A m \in Msgs :
    pc # "closed" /\ file[m] # None /\ view[m] = <<>> /\ m \notin raced
      ~> view[m] # <<>> \/ file[m] = None \/ pc = "closed" \/ m \in raced
=============================================================================
