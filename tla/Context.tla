------------------------------- MODULE Context -------------------------------
(***************************************************************************)
(* An open mailbox: the CONTEXT of mx.c with its message headers, their    *)
(* flags (flags.c), the counters that go with them, the limited view, and  *)
(* what sync and close make of them in the folder and in the trash folder. *)
(* The folder is an mbox file that nobody else rewrites; new mail arrives  *)
(* in it at any time.                                                      *)
(*                                                                         *)
(* muttng is one thread, so a command is one step, except that a command   *)
(* for many messages takes a step for each of them (doing, todo); nothing  *)
(* else happens in between.                                                *)
(***************************************************************************)
EXTENDS Integers, FiniteSets

CONSTANTS
  N,            \* bound: messages that ever arrive, 1..N in this order
  Commands,     \* what users do to messages, a subset of AllCommands
  Patterns,     \* the patterns users know, a subset of {"~N", "~D", "~F", "~T"}
  Scores,       \* sets of the flags that scoring may set on a message
  Arrivals,     \* flags a message may have when it arrives
  Supersedes,   \* <<m, n>> if message m has a Supersedes: header naming n
  DeleteUntag   \* the option delete_untag

Msgs == 1..N
Status == {"read", "old", "replied", "flagged"}
Bits == Status \cup {"deleted", "appended", "purged", "tagged", "changed"}
Counters == {"deleted", "tagged", "flagged", "unread", "new"}

Set(f) == <<f, TRUE>>
Clear(f) == <<f, FALSE>>
Skip == <<"NONE", FALSE>>
AllCommands ==
  {"delete", "purge", "undelete", "save", "reply", "display", "toggle-tag",
   "toggle-flag", "toggle-new", "set-new", "set-old", "clear-old",
   "clear-replied", "delete-pattern", "untag", "tag-pattern"}
AllPatterns == {"~N", "~D", "~F", "~T"}

ASSUME ContextAssumption ==
  /\ N \in Nat
  /\ Commands \subseteq AllCommands
  /\ Patterns \subseteq AllPatterns
  /\ Scores \subseteq SUBSET {"DELETE", "READ", "FLAG"}
  /\ Arrivals \subseteq SUBSET (Status \cup {"deleted"})
  /\ Supersedes \subseteq Msgs \X Msgs
  /\ DeleteUntag \in BOOLEAN

VARIABLES
  here,      \* the messages whose headers have been read and counted
  bits,      \* the flags of each header
  ctx,       \* the counters of the context, and "changed"
  visible,   \* the messages with a virtual number (the index shows them)
  pattern,   \* the limit pattern, "all" if there is none
  mode,      \* "closed", "rw", "ro" (readonly) or "nowrite" (dontwrite)
  doing,     \* the loop that is going on, "idle" if none is
  todo,      \* the messages the loop has still to handle
  before,    \* oldcount in update_index(): the headers that were there before
  purge,     \* while the folder is being closed: the answer to "Purge?"
  idhash,    \* whether ctx->id_hash has been built ("yes") or not
  stored,    \* the messages in the folder file
  disk,      \* their Status: and X-Status: headers
  trash,     \* the messages that have gone to the trash folder
  saved,     \* those in the folder that have a copy in some other one
  bypass,    \* those the user last deleted by purge-message
  arrived    \* how many messages have arrived

hdrVars == <<here, bits, ctx, visible, pattern, mode, doing, todo, before,
             purge, idhash>>
folderVars == <<stored, disk, trash, saved, bypass, arrived>>
vars == <<hdrVars, folderVars>>

Zero == [k \in Counters \cup {"changed"} |-> 0]

TypeOK ==
  /\ here \subseteq Msgs /\ visible \subseteq here
  /\ bits \in [Msgs -> SUBSET Bits]
  /\ ctx \in [Counters \cup {"changed"} -> Int]
  /\ pattern \in Patterns \cup {"all"}
  /\ mode \in {"closed", "rw", "ro", "nowrite"}
  /\ doing \in AllCommands \cup {"idle", "parse", "index", "score", "markold",
                              "markold+move", "move", "finish"}
  /\ todo \subseteq Msgs /\ before \subseteq here
  /\ purge \in {"yes", "no"}
  /\ idhash \in {"yes", "no"}
  /\ stored \subseteq Msgs
  /\ disk \in [Msgs -> SUBSET (Status \cup {"deleted"})]
  /\ trash \subseteq Msgs /\ saved \subseteq Msgs /\ bypass \subseteq Msgs
  /\ arrived \in 0..N

Init ==
  /\ here = {} /\ visible = {} /\ todo = {} /\ before = {}
  /\ bits = [m \in Msgs |-> {}]
  /\ ctx = Zero
  /\ pattern = "all" /\ mode = "closed" /\ doing = "idle"
  /\ purge = "yes" /\ idhash = "no"
  /\ stored = {}
  /\ disk = [m \in Msgs |-> {}]
  /\ trash = {} /\ saved = {} /\ bypass = {}
  /\ arrived = 0

-----------------------------------------------------------------------------
(* _mutt_set_flag() of flags.c.  x is a header and the context it belongs    *)
(* to: x.h are the header's flags, x.c the context's counters.               *)

Count(c, k, d) == [c EXCEPT ![k] = @ + d]

(* Mutant: the context does not hear of the change. *)
TouchHeader(x) == [x EXCEPT !.h = @ \cup {"changed"}]

(* h->changed = 1, ctx->changed = 1 *)
Touch(x) == [h |-> x.h \cup {"changed"}, c |-> [x.c EXCEPT !["changed"] = 1]]

(* An unread message becomes read. *)
MarkRead(x) ==
  [h |-> x.h \cup {"read"},
   c |-> Count(Count(x.c, "unread", -1), "new", IF "old" \in x.h THEN 0 ELSE -1)]

SetDelete(x) ==
  IF "deleted" \in x.h THEN x
  ELSE [h |-> x.h \cup {"deleted"}, c |-> Count(x.c, "deleted", 1)]

ClearDelete(x) ==
  IF "deleted" \notin x.h THEN x
  ELSE [h |-> x.h \ {"deleted", "appended"}, c |-> Count(x.c, "deleted", -1)]

SetAppended(x) == [x EXCEPT !.h = @ \cup {"appended"}]
SetPurged(x) == [x EXCEPT !.h = @ \cup {"purged"}]
ClearPurged(x) == [x EXCEPT !.h = @ \ {"purged"}]

SetNew(x) ==
  IF x.h \cap {"read", "old"} = {} THEN x
  ELSE Touch([h |-> x.h \ {"read", "old"},
              c |-> Count(Count(x.c, "new", 1), "unread", IF "read" \in x.h THEN 1 ELSE 0)])

SetRead(x) == IF "read" \in x.h THEN x ELSE Touch(MarkRead(x))
ClearNew(x) == SetRead(x)

(* Mutant: the header is not marked as changed. *)
ClearReadUnnoticed(x) ==
  IF "read" \notin x.h THEN x
  ELSE [h |-> x.h \ {"read"},
        c |-> Count(Count(x.c, "unread", 1), "new", IF "old" \in x.h THEN 0 ELSE 1)]

ClearRead(x) ==
  IF "read" \notin x.h THEN x
  ELSE Touch([h |-> x.h \ {"read"},
              c |-> Count(Count(x.c, "unread", 1), "new", IF "old" \in x.h THEN 0 ELSE 1)])

(* Mutant: new mail is counted down also for a message that was read. *)
SetOldRead(x) ==
  IF "old" \in x.h THEN x
  ELSE Touch([h |-> x.h \cup {"old"}, c |-> Count(x.c, "new", -1)])

SetOld(x) ==
  IF "old" \in x.h THEN x
  ELSE Touch([h |-> x.h \cup {"old"},
              c |-> Count(x.c, "new", IF "read" \in x.h THEN 0 ELSE -1)])

ClearOld(x) ==
  IF "old" \notin x.h THEN x
  ELSE Touch([h |-> x.h \ {"old"},
              c |-> Count(x.c, "new", IF "read" \in x.h THEN 0 ELSE 1)])

SetReplied(x) ==
  IF "replied" \in x.h THEN x
  ELSE LET y == IF "read" \in x.h THEN x ELSE MarkRead(x)
       IN  Touch([y EXCEPT !.h = @ \cup {"replied"}])

ClearReplied(x) ==
  IF "replied" \notin x.h THEN x ELSE Touch([x EXCEPT !.h = @ \ {"replied"}])

SetFlagged(x) ==
  IF "flagged" \in x.h THEN x
  ELSE Touch([h |-> x.h \cup {"flagged"}, c |-> Count(x.c, "flagged", 1)])

ClearFlagged(x) ==
  IF "flagged" \notin x.h THEN x
  ELSE Touch([h |-> x.h \ {"flagged"}, c |-> Count(x.c, "flagged", -1)])

SetTag(x) ==
  IF "tagged" \in x.h THEN x
  ELSE [h |-> x.h \cup {"tagged"}, c |-> Count(x.c, "tagged", 1)]

ClearTag(x) ==
  IF "tagged" \notin x.h THEN x
  ELSE [h |-> x.h \ {"tagged"}, c |-> Count(x.c, "tagged", -1)]

(* call = <<flag, bf>>.  In a read-only mailbox only tags can be changed.    *)
SetFlag(x, call) ==
  IF mode = "ro" /\ call[1] # "TAG" THEN x
  ELSE CASE call = Set("DELETE") -> SetDelete(x)
         [] call = Clear("DELETE") -> ClearDelete(x)
         [] call = Set("APPENDED") -> SetAppended(x)
         [] call = Set("PURGED") -> SetPurged(x)
         [] call = Clear("PURGED") -> ClearPurged(x)
         [] call = Set("NEW") -> SetNew(x)
         [] call = Clear("NEW") -> ClearNew(x)
         [] call = Set("READ") -> SetRead(x)
         [] call = Clear("READ") -> ClearRead(x)
         [] call = Set("OLD") -> SetOld(x)
         [] call = Clear("OLD") -> ClearOld(x)
         [] call = Set("REPLIED") -> SetReplied(x)
         [] call = Clear("REPLIED") -> ClearReplied(x)
         [] call = Set("FLAG") -> SetFlagged(x)
         [] call = Clear("FLAG") -> ClearFlagged(x)
         [] call = Set("TAG") -> SetTag(x)
         [] call = Clear("TAG") -> ClearTag(x)
         [] OTHER -> x

Apply(x, calls) == SetFlag(SetFlag(SetFlag(x, calls[1]), calls[2]), calls[3])

(* The calls of mutt_set_flag() a command makes for one message with flags h *)
(* (curs_main.c, commands.c, send.c, and mutt_change_flag()).                *)
CallsOf(cmd, h) ==
  LET Untag == IF DeleteUntag THEN Clear("TAG") ELSE Skip
  IN  CASE cmd = "delete" -> <<Set("DELETE"), Clear("PURGED"), Untag>>
        [] cmd = "purge" -> <<Set("DELETE"), Set("PURGED"), Untag>>
        [] cmd = "undelete" -> <<Clear("DELETE"), Clear("PURGED"), Skip>>
        [] cmd = "save" -> <<Set("DELETE"), Untag, Set("APPENDED")>>
        [] cmd = "reply" -> <<Set("REPLIED"), Skip, Skip>>
        [] cmd = "display" -> <<Set("READ"), Skip, Skip>>
        [] cmd = "toggle-tag" -> <<<<"TAG", "tagged" \notin h>>, Skip, Skip>>
        [] cmd = "toggle-flag" -> <<<<"FLAG", "flagged" \notin h>>, Skip, Skip>>
        [] cmd = "toggle-new" -> <<IF h \cap {"read", "old"} = {} THEN Set("READ")
                                   ELSE Set("NEW"), Skip, Skip>>
        [] cmd = "set-new" -> <<Set("NEW"), Skip, Skip>>
        [] cmd = "set-old" -> <<Clear("READ"), Set("OLD"), Skip>>
        [] cmd = "clear-old" -> <<Set("READ"), Clear("OLD"), Skip>>
        [] cmd = "clear-replied" -> <<Clear("REPLIED"), Skip, Skip>>
        [] cmd = "delete-pattern" -> <<Set("DELETE"), Skip, Skip>>
        [] cmd = "tag-pattern" -> <<Set("TAG"), Skip, Skip>>
        [] cmd = "untag" -> <<Clear("TAG"), Skip, Skip>>

(* mutt_pattern_exec() for the patterns that look at flags. *)
Match(pat, h) ==
  CASE pat = "~N" -> h \cap {"read", "old"} = {}
    [] pat = "~D" -> "deleted" \in h
    [] pat = "~F" -> "flagged" \in h
    [] pat = "~T" -> "tagged" \in h
    [] OTHER -> TRUE

(* mutt_score_message(): the thresholds the score has reached. *)
ScoreCalls(s) ==
  <<IF "DELETE" \in s THEN Set("DELETE") ELSE Skip,
    IF "READ" \in s THEN Set("READ") ELSE Skip,
    IF "FLAG" \in s THEN Set("FLAG") ELSE Skip>>

(* The Status: and X-Status: headers mutt_copy_header() writes for a message *)
(* with flags h: a message that is read is always written as "RO".           *)
Stored(h) ==
  (h \cap {"replied", "flagged"})
    \cup (IF "read" \in h THEN {"read", "old"} ELSE h \cap {"old"})

(* Whether a header with flags h counts for counter k. *)
Counts(k, h) ==
  CASE k = "unread" -> "read" \notin h
    [] k = "new" -> h \cap {"read", "old"} = {}
    [] OTHER -> k \in h

(* The second half of mx_update_tables(): count S from nothing. *)
Recount(S, b) ==
  [k \in Counters \cup {"changed"} |->
     IF k = "changed" THEN 0 ELSE Cardinality({m \in S : Counts(k, b[m])})]

-----------------------------------------------------------------------------
Idle == doing = "idle" /\ mode # "closed"

(* The header of m and the context are as x says, all else is as before. *)
Update(m, x) == bits' = [bits EXCEPT ![m] = x.h] /\ ctx' = x.c

Header(m) == [h |-> bits[m], c |-> ctx]

(* mx_fastclose_mailbox() *)
Fastclose ==
  /\ here' = {} /\ visible' = {} /\ todo' = {} /\ before' = {}
  /\ bits' = [m \in Msgs |-> {}]
  /\ ctx' = Zero
  /\ pattern' = "all" /\ mode' = "closed" /\ doing' = "idle"
  /\ purge' = "yes" /\ idhash' = "no"

(* Another program appends a message to the folder.  The loops do not look   *)
(* at the folder, so mail that arrives during one might as well arrive right *)
(* before or after it.                                                       *)
Deliver(a) ==
  /\ doing \in {"idle", "finish"} /\ arrived < N
  /\ arrived' = arrived + 1
  /\ stored' = stored \cup {arrived + 1}
  /\ disk' = [disk EXCEPT ![arrived + 1] = a]
  /\ UNCHANGED <<hdrVars, trash, saved, bypass>>

(* The folder is read from where the headers in memory end. *)
StartParse(b) ==
  /\ doing' = "parse"
  /\ todo' = stored \ here
  /\ before' = here
  /\ bits' = [m \in Msgs |-> IF m \in stored \ here THEN disk[m] ELSE b[m]]

(* mx_open_mailbox() of a folder that exists. *)
Open(md) ==
  /\ mode = "closed" /\ stored # {}
  /\ mode' = md
  /\ StartParse(bits)
  /\ UNCHANGED <<here, ctx, visible, pattern, purge, idhash, folderVars>>

(* mx_check_mailbox() finds new mail. *)
CheckMailbox ==
  /\ Idle /\ stored # here
  /\ StartParse(bits)
  /\ UNCHANGED <<here, ctx, visible, pattern, mode, purge, idhash, folderVars>>

(* The end of the loop of mx_update_context(): header m, now with flags h,   *)
(* is counted.  Tags are not, as no message arrives tagged.                  *)
CountNew(c, h) ==
  [k \in Counters \cup {"changed"} |->
     IF k = "changed" THEN (IF "changed" \in h THEN 1 ELSE c[k])
     ELSE IF k # "tagged" /\ Counts(k, h) THEN c[k] + 1 ELSE c[k]]

Arrive(m, b, c, s) ==
  LET h == Apply([h |-> b[m], c |-> c], ScoreCalls(s)).h    \* upd_ctx = 0
  IN  /\ doing = "parse"
      /\ m \in todo /\ \A n \in todo : m <= n
      /\ here' = here \cup {m}
      /\ visible' = IF pattern = "all" THEN visible \cup {m} ELSE visible
      /\ bits' = [b EXCEPT ![m] = h]
      /\ ctx' = CountNew(c, h)
      /\ todo' = todo \ {m}
      /\ doing' = IF todo = {m} THEN "index" ELSE "parse"
      /\ UNCHANGED <<before, pattern, mode, purge, folderVars>>

(* The loop of mx_update_context() for a message that supersedes none. *)
ParseMessage(m, s) ==
  /\ \A n \in here \cup todo : <<m, n>> \notin Supersedes
  /\ Arrive(m, bits, ctx, s)
  /\ UNCHANGED idhash

(* The same for one that supersedes n.  If there is no id_hash yet, one is   *)
(* built of all headers, also of those not yet counted.  Message n is scored *)
(* again, with the counters kept up to date.                                 *)
ParseSuperseding(m, n, s, t) ==
  LET found == n \in here \/ idhash = "no"
      x == IF found THEN Apply(Header(n), ScoreCalls(t)) ELSE Header(n)
  IN  /\ <<m, n>> \in Supersedes /\ n \in here \cup todo
      /\ idhash' = "yes"
      /\ Arrive(m, [bits EXCEPT ![n] = x.h], x.c, s)

(* update_index(): in a limited view the new messages that match are shown;  *)
(* all messages are looked at if none was visible.                           *)
UpdateIndex ==
  /\ doing = "index"
  /\ doing' = "idle" /\ before' = {}
  /\ visible' = visible \cup {m \in here : /\ (visible = {} \/ m \notin before)
                                            /\ Match(pattern, bits[m])}
  /\ UNCHANGED <<here, bits, ctx, pattern, mode, todo, purge, idhash, folderVars>>

-----------------------------------------------------------------------------
(* What a command does to copies of m, and to the user's wish to bypass the  *)
(* trash folder with it.                                                     *)
Effects(cmd, m) ==
  /\ saved' = IF cmd = "save" THEN saved \cup {m} ELSE saved
  /\ bypass' = IF mode = "ro" THEN bypass
               ELSE IF cmd = "purge" THEN bypass \cup {m}
               ELSE IF cmd \in {"delete", "delete-pattern", "save"}
                       /\ "deleted" \notin bits[m] THEN bypass \ {m}
               ELSE bypass
  /\ UNCHANGED <<stored, disk, trash, arrived>>

(* A command for the message under the cursor. *)
Command(cmd, m) ==
  /\ Idle /\ m \in visible
  /\ cmd \notin {"delete-pattern", "tag-pattern", "untag"}
  /\ Update(m, Apply(Header(m), CallsOf(cmd, bits[m])))
  /\ Effects(cmd, m)
  /\ UNCHANGED <<here, visible, pattern, mode, doing, todo, before, purge, idhash>>

(* A loop over the messages in S. *)
Loop(what, S) ==
  /\ Idle /\ S # {}
  /\ doing' = what /\ todo' = S
  /\ UNCHANGED <<here, bits, ctx, visible, pattern, mode, before, purge, idhash, folderVars>>

(* A command with the tag prefix: mutt_tag_set_flag(), which looks only at   *)
(* visible messages.  To untag with the prefix clears the tags of all these. *)
TagCommand(cmd) ==
  /\ cmd \notin {"delete-pattern", "tag-pattern", "toggle-tag"}
  /\ Loop(cmd, {m \in visible : cmd = "untag" \/ "tagged" \in bits[m]})

(* mutt_pattern_func() with a flag to set or to clear. *)
PatternFunc(cmd, pat) ==
  /\ cmd \in {"delete-pattern", "undelete", "tag-pattern", "untag"}
  /\ Loop(cmd, {m \in visible : Match(pat, bits[m])})

Rest(m) ==
  /\ m \in todo
  /\ todo' = todo \ {m}
  /\ UNCHANGED <<here, visible, pattern, mode, before, purge, idhash>>

LoopCommand(m) ==
  /\ doing \in AllCommands /\ Rest(m)
  /\ doing' = IF todo = {m} THEN "idle" ELSE doing
  /\ Update(m, Apply(Header(m), CallsOf(doing, bits[m])))
  /\ Effects(doing, m)

(* mutt_check_rescore(): the score rules have changed. *)
Rescore == Loop("score", here)

RescoreMessage(m, s) ==
  /\ doing = "score" /\ Rest(m)
  /\ doing' = IF todo = {m} THEN "idle" ELSE doing
  /\ Update(m, Apply(Header(m), ScoreCalls(s)))
  /\ Effects(IF "DELETE" \in s THEN "delete" ELSE "display", m)

(* mutt_pattern_func(M_LIMIT) *)
Limit(pat) ==
  /\ Idle /\ here # {}
  /\ pattern' = pat
  /\ visible' = {m \in here : Match(pat, bits[m])}
  /\ UNCHANGED <<here, bits, ctx, mode, doing, todo, before, purge, idhash, folderVars>>

(* mx_toggle_write() *)
ToggleWrite ==
  /\ Idle /\ mode # "ro"
  /\ mode' = IF mode = "rw" THEN "nowrite" ELSE "rw"
  /\ UNCHANGED <<here, bits, ctx, visible, pattern, doing, todo, before, purge, idhash, folderVars>>

-----------------------------------------------------------------------------
(* Saving the mailbox.  ans is the answer to "Purge deleted messages?", yes  *)
(* if there are none.  "no" undeletes them.                                  *)

BitsAfter(ans) ==
  [m \in Msgs |-> IF ans = "no" /\ m \in here THEN bits[m] \ {"deleted"} ELSE bits[m]]
CtxAfter(ans) == IF ans = "no" THEN [ctx EXCEPT !["deleted"] = 0] ELSE ctx
BypassAfter(ans) == IF ans = "no" THEN bypass \ here ELSE bypass

Doomed(ans) == {m \in here : "deleted" \in BitsAfter(ans)[m]}

(* Mutant: the loop of trash_append() goes over v2r instead of hdrs. *)
ForTrashVisible(ans) ==
  {m \in Doomed(ans) \cap visible : bits[m] \cap {"appended", "purged"} = {}}

(* trash_append() copies these. *)
ForTrash(ans) == {m \in Doomed(ans) : bits[m] \cap {"appended", "purged"} = {}}

(* trash_append() fails, which it may even if all it would copy is purged:   *)
(* nothing else is done.  (Copies it may have made of messages that stay are *)
(* not recorded, here and in SyncFails.)                                     *)
TrashFails(ans) ==
  /\ \E m \in Doomed(ans) : "appended" \notin bits[m]
  /\ doing' = "idle"
  /\ purge' = "yes"
  /\ UNCHANGED <<here, bits, ctx, visible, pattern, mode, todo, before, idhash, folderVars>>

(* sync_mailbox() fails and writes nothing; or it finds new mail, reads that *)
(* and writes nothing either.                                                *)
SyncFails(ans) ==
  /\ ctx' = CtxAfter(ans)
  /\ bypass' = BypassAfter(ans)
  /\ \/ /\ stored # here /\ StartParse(BitsAfter(ans))
     \/ /\ bits' = BitsAfter(ans)
        /\ doing' = "idle" /\ UNCHANGED <<todo, before>>
  /\ purge' = "yes"
  /\ UNCHANGED <<here, visible, pattern, mode, idhash, stored, disk, trash, saved, arrived>>

(* sync_mailbox() succeeds: the folder has what the headers say.             *)
Write(ans) ==
  /\ stored = here
  /\ trash' = trash \cup ForTrash(ans)
  /\ stored' = here \ Doomed(ans)
  /\ disk' = [m \in Msgs |-> IF m \in here \ Doomed(ans) THEN Stored(bits[m]) ELSE {}]
  /\ saved' = saved \ Doomed(ans)                      \* these are gone
  /\ bypass' = BypassAfter(ans) \ Doomed(ans)
  /\ UNCHANGED arrived

(* mx_sync_mailbox() has something to do.  It does nothing when all that was *)
(* to be saved are deletions the user does not want.                         *)
CanSync(ans) ==
  /\ Idle /\ mode = "rw" /\ visible # {}
  /\ ctx["changed"] # 0 \/ ctx["deleted"] # 0
  /\ ans = "no" => ctx["changed"] # 0 /\ ctx["deleted"] # 0

SyncError(ans) == CanSync(ans) /\ (TrashFails(ans) \/ SyncFails(ans))

(* mx_update_tables() frees the headers of the deleted messages. *)
SyncMailbox(ans) ==
  LET kept == here \ Doomed(ans)
      b == [m \in Msgs |-> IF m \in kept THEN BitsAfter(ans)[m] \ {"changed"} ELSE {}]
  IN  /\ CanSync(ans) /\ kept # {}
      /\ Write(ans)
      /\ here' = kept
      /\ visible' = visible \cap kept
      /\ bits' = b
      /\ ctx' = Recount(kept, b)
      /\ UNCHANGED <<pattern, mode, doing, todo, before, purge, idhash>>

(* All messages have been deleted, so the folder is removed and closed. *)
SyncEmpties(ans) ==
  /\ CanSync(ans) /\ Doomed(ans) = here
  /\ Write(ans) /\ Fastclose

-----------------------------------------------------------------------------
(* mx_close_mailbox(): nothing is saved. *)
CloseUnsaved ==
  /\ Idle /\ mode \in {"ro", "nowrite"}
  /\ Fastclose /\ UNCHANGED folderVars

(* The user answers whether to purge deleted messages and, if there are any, *)
(* whether to move read messages; then mark_old is obeyed.                   *)
CloseStart(ans, move) ==
  /\ Idle /\ mode = "rw"
  /\ ans = "no" => ctx["deleted"] # 0
  /\ move => \E m \in here : "deleted" \notin bits[m] /\ "read" \in bits[m]
  /\ purge' = ans
  /\ doing' = IF move THEN "markold+move" ELSE "markold"
  /\ todo' = {m \in here : bits[m] \cap {"deleted", "old"} = {}}
  /\ UNCHANGED <<here, bits, ctx, visible, pattern, mode, before, idhash, folderVars>>

MarkOld(m) ==
  /\ doing \in {"markold", "markold+move"} /\ Rest(m)
  /\ Update(m, SetFlag(Header(m), Set("OLD")))
  /\ UNCHANGED <<doing, folderVars>>

MarkedOld ==
  /\ doing \in {"markold", "markold+move"} /\ todo = {}
  /\ \/ /\ doing = "markold"
        /\ doing' = "finish" /\ UNCHANGED todo
     \/ /\ doing = "markold+move"
        /\ doing' = "move"
        /\ todo' = {m \in here : "deleted" \notin bits[m] /\ "read" \in bits[m]}
  /\ UNCHANGED <<here, bits, ctx, visible, pattern, mode, before, purge, idhash, folderVars>>

(* A read message is appended to the other folder and deleted from this one. *)
MoveMessage(m) ==
  /\ doing = "move" /\ Rest(m)
  /\ doing' = IF todo = {m} THEN "finish" ELSE doing
  /\ Update(m, Apply(Header(m), <<Set("DELETE"), Set("APPENDED"), Skip>>))
  /\ Effects("save", m)

(* The other folder cannot be opened or written: the mailbox stays open. *)
MoveFails ==
  /\ doing = "move"
  /\ doing' = "idle" /\ todo' = {}
  /\ purge' = "yes"
  /\ UNCHANGED <<here, bits, ctx, visible, pattern, mode, before, idhash, folderVars>>

CloseError ==
  /\ doing = "finish"
  /\ ctx["changed"] # 0 \/ ctx["deleted"] # 0
  /\ \/ TrashFails(purge)
     \/ /\ ctx["changed"] # 0 \/ purge = "yes"
        /\ SyncFails(purge)

CloseFinish ==
  /\ doing = "finish"
  /\ \/ /\ ctx["changed"] = 0 /\ (ctx["deleted"] = 0 \/ purge = "no")
        /\ UNCHANGED folderVars
     \/ /\ ctx["changed"] # 0 \/ (ctx["deleted"] # 0 /\ purge = "yes")
        /\ Write(purge)
  /\ Fastclose

-----------------------------------------------------------------------------
(* All that can happen when users give the commands in C. *)
NextFor(C) ==
  \/ \E a \in Arrivals : Deliver(a)
  \/ \E md \in {"rw", "ro"} : Open(md)
  \/ CheckMailbox
  \/ \E m \in todo, s \in Scores : ParseMessage(m, s)
  \/ \E m \in todo, n \in here \cup todo, s, t \in Scores : ParseSuperseding(m, n, s, t)
  \/ UpdateIndex
  \/ \E cmd \in C, m \in visible : Command(cmd, m)
  \/ \E cmd \in C : TagCommand(cmd)
  \/ \E cmd \in C, pat \in Patterns : PatternFunc(cmd, pat)
  \/ \E m \in todo : LoopCommand(m)
  \/ Rescore
  \/ \E m \in todo, s \in Scores : RescoreMessage(m, s)
  \/ \E pat \in Patterns \cup {"all"} : Limit(pat)
  \/ ToggleWrite
  \/ \E ans \in {"yes", "no"} : SyncError(ans) \/ SyncMailbox(ans) \/ SyncEmpties(ans)
  \/ CloseUnsaved
  \/ \E ans \in {"yes", "no"}, move \in BOOLEAN : CloseStart(ans, move)
  \/ \E m \in todo : MarkOld(m)
  \/ MarkedOld
  \/ \E m \in todo : MoveMessage(m)
  \/ MoveFails
  \/ CloseError
  \/ CloseFinish

Next == NextFor(Commands)

Spec == Init /\ [][Next]_vars

-----------------------------------------------------------------------------
(* The counters of the context say how many of its messages are deleted,     *)
(* tagged, flagged, unread and new, although each flag change, arrival and   *)
(* sync adjusts them in its own way.                                         *)
CountersMatch ==
  \A k \in Counters : ctx[k] = Cardinality({m \in here : Counts(k, bits[m])})

(* A header that is not marked as changed says what the folder says, and if  *)
(* one is marked then so is the context: sync and close never take a mailbox *)
(* for unchanged that is not.                                                *)
ChangesNoticed ==
  \A m \in here :
    IF "changed" \in bits[m] THEN ctx["changed"] # 0
    ELSE Stored(disk[m]) = Stored(bits[m])

(* When a writable mailbox is closed, the folder has the status of every     *)
(* message that is still in it, however syncs failed, mail arrived and       *)
(* answers were given before.                                                *)
CloseKeepsStatus ==
  [][mode = "rw" /\ mode' = "closed" =>
       \A m \in here \cap stored' : Stored(disk'[m]) = Stored(bits[m])]_vars

(* A message leaves the folder only with a copy in the trash folder or in    *)
(* another one, unless the user has used purge-message to delete it.         *)
DeletedGoesToTrash ==
  [][\A m \in stored \ stored' : m \in trash' \cup saved \cup bypass]_vars
=============================================================================
