--------------------------------- MODULE Mbox ---------------------------------
(***************************************************************************)
(* One mbox file, the copies of muttng that have it open, and the delivery *)
(* of new mail: mbox.c with the parts of mx.c that remove emptied folders. *)
(*                                                                         *)
(* A session keeps what it has read of the file and its user's changes,    *)
(* looks now and then whether the file has changed, which it tells by the  *)
(* size alone, and writes the file back under the folder's lock.  The lock *)
(* is the one MailLock models; here it has at most one owner.  A check     *)
(* that finds the file smaller reads it again without taking the lock.     *)
(*                                                                         *)
(* Files are smaller than a stdio buffer, so what is written back gets to  *)
(* the file when the buffer is flushed, after ftruncate().                 *)
(***************************************************************************)
EXTENDS Integers

CONSTANTS
  Sessions,   \* the copies of muttng
  None,       \* "nobody has the lock"
  Stale,      \* the lock is held by nobody who could give it back
  N,          \* bound: messages that are ever delivered, 1..N in this order
  MaxInode,   \* bound: how often the file is created
  Bytes,      \* the size of each message without and with a flag
  SaveEmpty   \* the option save_empty

ASSUME MboxAssumption ==
  /\ None \notin Sessions /\ Stale \notin Sessions /\ None # Stale
  /\ N \in Nat /\ MaxInode \in Nat \ {0}
  /\ Bytes \in [1..N -> [{"plain", "marked"} -> Nat \ {0}]]
  /\ SaveEmpty \in BOOLEAN

Msgs == 1..N
Inode == 1..MaxInode
(* A message is not there, has no flag, has one, or is cut off.              *)
Marks == {"none", "plain", "marked", "partial"}
Contents == [Msgs -> Marks]
Empty == [m \in Msgs |-> "none"]

VARIABLES
  path,       \* the file the folder's name denotes, 0 if there is none
  inodes,     \* how many files have been created under that name
  file,       \* each file: its messages, where they begin, and its size
  owner,      \* who has the folder locked
  pc,         \* where each session is
  why,        \* what it writes the folder for, "sync" or "close"
  fp,         \* the file it has open
  base,       \* the messages as they were in the file when it read them
  view,       \* the messages as its user sees them
  dirty,      \* those with changed flags
  del,        \* those marked for deletion
  size,       \* ctx->size
  delivered,  \* how many messages have been delivered
  removed,    \* the messages users have had removed
  rescue,     \* those in temporary files that are left behind
  unlinked,   \* those in the folder when mx_sync_mailbox() unlinked it
  clobbered,  \* those overwritten by a session that had read something else
  torn        \* "yes" once something was read that was not the whole folder

sessionVars == <<pc, why, fp, base, view, dirty, del, size>>
folderVars == <<path, inodes, file, owner>>
historyVars == <<delivered, removed, rescue, unlinked, clobbered, torn>>
vars == <<sessionVars, folderVars, historyVars>>

PCs == {"closed", "open", "grown", "commit", "truncated", "finish", "unlink", "unlink_empty"}

MboxTypeOK ==
  /\ path \in 0..MaxInode /\ inodes \in 0..MaxInode
  /\ file \in [Inode -> [has : Contents, at : [Msgs -> Nat], size : Nat]]
  /\ owner \in Sessions \cup {None, Stale}
  /\ pc \in [Sessions -> PCs]
  /\ why \in [Sessions -> {"sync", "close"}]
  /\ fp \in [Sessions -> 0..MaxInode]
  /\ base \in [Sessions -> Contents] /\ view \in [Sessions -> Contents]
  /\ dirty \in [Sessions -> SUBSET Msgs] /\ del \in [Sessions -> SUBSET Msgs]
  /\ size \in [Sessions -> Nat]
  /\ delivered \in 0..N
  /\ removed \subseteq Msgs /\ rescue \subseteq Msgs /\ unlinked \subseteq Msgs
  /\ clobbered \subseteq Msgs /\ torn \in {"no", "yes"}

NoFile == [has |-> Empty, at |-> [m \in Msgs |-> 0], size |-> 0]

Init ==
  /\ path = 1 /\ inodes = 1
  /\ file = [i \in Inode |-> NoFile]
  /\ owner = None
  /\ pc = [s \in Sessions |-> "closed"]
  /\ why = [s \in Sessions |-> "sync"]
  /\ fp = [s \in Sessions |-> 0]
  /\ base = [s \in Sessions |-> Empty] /\ view = [s \in Sessions |-> Empty]
  /\ dirty = [s \in Sessions |-> {}] /\ del = [s \in Sessions |-> {}]
  /\ size = [s \in Sessions |-> 0]
  /\ delivered = 0 /\ removed = {} /\ rescue = {} /\ unlinked = {}
  /\ clobbered = {} /\ torn = "no"

-----------------------------------------------------------------------------
(* What a message takes in the file, and the whole of one that is cut off.   *)
Length(m, mark) ==
  IF mark = "none" THEN 0 ELSE Bytes[m][IF mark = "plain" THEN "plain" ELSE "marked"]

(* Where the messages with contents c end if those from the first one on are *)
(* written one after the other, beginning at offset start.                   *)
Ends(c, first, start) ==
  LET end[m \in 0..N] == IF m < first THEN start ELSE end[m - 1] + Length(m, c[m])
  IN  end

(* The size of a folder that says how its contents differ from others.       *)
WholeSize(c) == Ends(c, 1, 0)[N]

(* No two folders are of the same size.  A session tells by it, and by it    *)
(* alone, whether the folder has changed.                                    *)
UniqueSizes ==
  \A c, d \in [Msgs -> {"none", "plain", "marked"}] : WholeSize(c) = WholeSize(d) => c = d

(* What ftruncate() to size n leaves of the messages of file f. *)
Cut(f, n) ==
  [f EXCEPT !.size = n,
            !.has = [m \in Msgs |->
              IF f.has[m] = "none" \/ f.at[m] >= n THEN "none"
              ELSE IF f.at[m] + Length(m, f.has[m]) > n THEN "partial" ELSE f.has[m]]]

(* What the folder of session s is going to be. *)
Kept(s) == [m \in Msgs |-> IF m \in del[s] THEN "none" ELSE view[s][m]]

(* The first message that is changed or deleted. *)
First(s) == CHOOSE m \in dirty[s] \cup del[s] : \A n \in dirty[s] \cup del[s] : m <= n

(* The messages in the temporary file: those that are kept, from the first   *)
(* changed or deleted one on.                                                *)
InTemp(s) == {m \in Msgs : m >= First(s) /\ Kept(s)[m] # "none"}

(* Those of them that are messages of the folder: all, unless the session had*)
(* read something else than what is in the file it copies them from.         *)
Saved(s) == IF pc[s] = "truncated" \/ base[s] = file[fp[s]].has THEN InTemp(s) ELSE {}

(* The file once the temporary one has been copied to where First(s) begins. *)
Rewritten(s) ==
  LET f == file[fp[s]]
      end == Ends(Kept(s), First(s), f.at[First(s)])
  IN  [has |-> Kept(s),
       at |-> [m \in Msgs |-> IF m < First(s) THEN f.at[m] ELSE end[m - 1]],
       size |-> end[N]]

(* mx_fastclose_mailbox() *)
Fastclose(s) ==
  /\ pc' = [pc EXCEPT ![s] = "closed"]
  /\ why' = [why EXCEPT ![s] = "sync"]
  /\ fp' = [fp EXCEPT ![s] = 0]
  /\ base' = [base EXCEPT ![s] = Empty] /\ view' = [view EXCEPT ![s] = Empty]
  /\ dirty' = [dirty EXCEPT ![s] = {}] /\ del' = [del EXCEPT ![s] = {}]
  /\ size' = [size EXCEPT ![s] = 0]

(* The headers of s say what content c says, and its user's changes are none.*)
Fresh(s, c) ==
  /\ base' = [base EXCEPT ![s] = c] /\ view' = [view EXCEPT ![s] = c]
  /\ dirty' = [dirty EXCEPT ![s] = {}] /\ del' = [del EXCEPT ![s] = {}]

-----------------------------------------------------------------------------
(* External: a delivery agent, or a muttng that saves a message, appends it  *)
(* to the folder under its lock, creating the file if there is none.         *)
Deliver ==
  LET m == delivered + 1
      i == IF path = 0 THEN inodes + 1 ELSE path
  IN  /\ owner = None /\ delivered < N
      /\ path # 0 \/ inodes < MaxInode
      /\ path' = i
      /\ inodes' = IF path = 0 THEN inodes + 1 ELSE inodes
      /\ file' = [file EXCEPT ![i] = [has |-> [@.has EXCEPT ![m] = "plain"],
                                      at |-> [@.at EXCEPT ![m] = file[i].size],
                                      size |-> @.size + Length(m, "plain")]]
      /\ delivered' = m
      /\ UNCHANGED <<sessionVars, owner, removed, rescue, unlinked, clobbered, torn>>

(* mbox_open_mailbox(): lock, parse, unlock.  A session that cannot lock the *)
(* folder opens it read-only; it never writes, and is not modelled.          *)
Open(s) ==
  /\ pc[s] = "closed"
  /\ path # 0 /\ owner = None
  /\ pc' = [pc EXCEPT ![s] = "open"]
  /\ fp' = [fp EXCEPT ![s] = path]
  /\ Fresh(s, file[path].has)
  /\ size' = [size EXCEPT ![s] = file[path].size]
  /\ UNCHANGED <<why, folderVars, historyVars>>

(* The user flags a message, or takes the flag away. *)
Mark(s, m) ==
  /\ pc[s] = "open" /\ view[s][m] \in {"plain", "marked"}
  /\ view' = [view EXCEPT ![s][m] = IF @ = "plain" THEN "marked" ELSE "plain"]
  /\ dirty' = [dirty EXCEPT ![s] = @ \cup {m}]
  /\ UNCHANGED <<pc, why, fp, base, del, size, folderVars, historyVars>>

(* The user deletes a message, or undeletes it. *)
Delete(s, m) ==
  /\ pc[s] = "open" /\ view[s][m] # "none"
  /\ del' = [del EXCEPT ![s] = IF m \in @ THEN @ \ {m} ELSE @ \cup {m}]
  /\ UNCHANGED <<pc, why, fp, base, view, dirty, size, folderVars, historyVars>>

-----------------------------------------------------------------------------
(* Mutant: the flags the file has are taken for all messages. *)
ReopenForgets(s, f) ==
  LET c == f.has
  IN  /\ base' = [base EXCEPT ![s] = c] /\ view' = [view EXCEPT ![s] = c]
      /\ dirty' = [dirty EXCEPT ![s] = {}]
      /\ del' = [del EXCEPT ![s] = {m \in @ : c[m] # "none"}]
      /\ size' = [size EXCEPT ![s] = file[path].size]

(* mbox_reopen_mailbox(): all headers are read again from the file f that is *)
(* open, and flags the user has changed are set again if mutt_cmp_header()   *)
(* finds the message, which it does not if it has been cut off meanwhile.    *)
(* ctx->size is that of the file of that name.                               *)
Reopen(s, f) ==
  LET c == f.has
      Found(m) == c[m] # "none" /\ (c[m] = "partial" <=> view[s][m] = "partial")
      Merged(m) == IF m \in dirty[s] /\ Found(m) THEN view[s][m] ELSE c[m]
  IN  /\ base' = [base EXCEPT ![s] = c]
      /\ view' = [view EXCEPT ![s] = [m \in Msgs |-> Merged(m)]]
      /\ dirty' = [dirty EXCEPT ![s] = {m \in @ : Merged(m) # c[m]}]
      /\ del' = [del EXCEPT ![s] = {m \in @ : Found(m)}]
      /\ size' = [size EXCEPT ![s] = file[path].size]

(* The messages of file f from offset n on are read and added. *)
ParseFrom(s, f, n) ==
  LET Added(c) == [m \in Msgs |-> IF f.has[m] # "none" /\ f.at[m] >= n THEN f.has[m] ELSE c[m]]
  IN  /\ base' = [base EXCEPT ![s] = Added(@)]
      /\ view' = [view EXCEPT ![s] = Added(@)]
      /\ size' = [size EXCEPT ![s] = f.size]
      /\ UNCHANGED <<dirty, del>>

(* There is a message separator at exactly what used to be the end. *)
Appended(s, f) ==
  /\ f.size > size[s]
  /\ \E m \in Msgs : f.has[m] # "none" /\ f.at[m] = size[s]

(* The file has changed, and is locked: read what is new, or everything. *)
ReadChanges(s, f) ==
  \/ Appended(s, f) /\ ParseFrom(s, f, size[s])
  \/ ~Appended(s, f) /\ Reopen(s, f)

(* _mbox_check_mailbox() from the index: stat() of a folder that is gone. *)
CheckGone(s) ==
  /\ pc[s] = "open" /\ path = 0
  /\ Fastclose(s)
  /\ UNCHANGED <<folderVars, historyVars>>

(* The file is larger; the next thing is to lock it. *)
CheckLarger(s) ==
  /\ pc[s] = "open" /\ path # 0
  /\ file[path].size > size[s]
  /\ pc' = [pc EXCEPT ![s] = "grown"]
  /\ UNCHANGED <<why, fp, base, view, dirty, del, size, folderVars, historyVars>>

(* It is locked by somebody else, or not the file that is open (M_LOCKED). *)
CheckLocked(s) ==
  /\ pc[s] = "grown"
  /\ owner # None \/ fp[s] # path
  /\ pc' = [pc EXCEPT ![s] = "open"]
  /\ UNCHANGED <<why, fp, base, view, dirty, del, size, folderVars, historyVars>>

CheckRead(s) ==
  /\ pc[s] = "grown" /\ owner = None /\ fp[s] = path /\ path # 0
  /\ pc' = [pc EXCEPT ![s] = "open"]
  /\ ReadChanges(s, file[path])
  /\ UNCHANGED <<why, fp, folderVars, historyVars>>

(* The file is smaller: it is read at once, locked or not, while another     *)
(* session may be rewriting it.  What is read is the file that is open.      *)
CheckSmaller(s) ==
  /\ pc[s] = "open" /\ path # 0
  /\ file[path].size < size[s]
  /\ Reopen(s, file[fp[s]])
  /\ torn' = IF fp[s] # path \/ \E t \in Sessions : pc[t] = "truncated" THEN "yes" ELSE torn
  /\ UNCHANGED <<pc, why, fp, folderVars, delivered, removed, rescue, unlinked, clobbered>>

-----------------------------------------------------------------------------
(* mx_sync_mailbox(), or mx_close_mailbox(), of a mailbox with changes.      *)
HasChanges(s) == pc[s] = "open" /\ dirty[s] \cup del[s] # {}

(* The folder cannot be opened for writing. *)
SyncGone(s) ==
  /\ HasChanges(s) /\ path = 0
  /\ Fastclose(s)
  /\ UNCHANGED <<folderVars, historyVars>>

(* It cannot be locked, or there is no room for a temporary file; either     *)
(* way the file of that name is now the one that is open.                    *)
SyncBails(s) ==
  /\ HasChanges(s) /\ path # 0
  /\ fp' = [fp EXCEPT ![s] = path]
  /\ owner = None => file[path].size = size[s]
  /\ UNCHANGED <<pc, why, base, view, dirty, del, size, folderVars, historyVars>>

(* It has changed: read it, and write nothing. *)
SyncReads(s) ==
  /\ HasChanges(s) /\ path # 0 /\ owner = None
  /\ file[path].size # size[s]
  /\ fp' = [fp EXCEPT ![s] = path]
  /\ ReadChanges(s, file[path])
  /\ UNCHANGED <<pc, why, folderVars, historyVars>>

(* Mutant: the file is not looked at before it is written. *)
SyncUnchecked(s, w) ==
  /\ HasChanges(s) /\ path # 0 /\ owner = None
  /\ fp' = [fp EXCEPT ![s] = path]
  /\ owner' = s
  /\ pc' = [pc EXCEPT ![s] = "commit"]
  /\ why' = [why EXCEPT ![s] = w]
  /\ UNCHANGED <<base, view, dirty, del, size, path, inodes, file, historyVars>>

(* It has not: the new version is written to a temporary file. *)
SyncCopies(s, w) ==
  /\ HasChanges(s) /\ path # 0 /\ owner = None
  /\ file[path].size = size[s]
  /\ fp' = [fp EXCEPT ![s] = path]
  /\ owner' = s
  /\ pc' = [pc EXCEPT ![s] = "commit"]
  /\ why' = [why EXCEPT ![s] = w]
  /\ UNCHANGED <<base, view, dirty, del, size, path, inodes, file, historyVars>>

(* mbox_unlock_mailbox() of a folder that has been removed meanwhile does    *)
(* not find it, so the lock file stays.                                      *)
Unlocked(s) == IF fp[s] = path THEN None ELSE Stale

(* stat() finds that the folder has been removed. *)
CommitGone(s) ==
  /\ pc[s] = "commit" /\ path = 0
  /\ owner' = Unlocked(s)
  /\ Fastclose(s)
  /\ UNCHANGED <<path, inodes, file, historyVars>>

(* The temporary file cannot be opened for reading: the mailbox is closed,   *)
(* but not unlocked.                                                         *)
TempFails(s) ==
  /\ pc[s] = "commit"
  /\ owner' = Stale
  /\ rescue' = rescue \cup Saved(s)
  /\ Fastclose(s)
  /\ UNCHANGED <<path, inodes, file, delivered, removed, unlinked, clobbered, torn>>

(* The temporary file has been copied into the buffer of the folder's stream *)
(* and ftruncate() sets the file's new size.  What the session has read is   *)
(* what is in the file.                                                      *)
Truncate(s) ==
  /\ pc[s] = "commit" /\ path # 0 /\ base[s] = file[fp[s]].has
  /\ file' = [file EXCEPT ![fp[s]] = Cut(@, Rewritten(s).size)]
  /\ removed' = removed \cup del[s]
  /\ pc' = [pc EXCEPT ![s] = "truncated"]
  /\ UNCHANGED <<why, fp, base, view, dirty, del, size, path, inodes, owner,
                 delivered, rescue, unlinked, clobbered, torn>>

(* File f with the messages of W, all from the beginning of message k on,    *)
(* written one after the other from there, and what follows cut off.         *)
Overwritten(s, f, k, W) ==
  LET c == [m \in Msgs |-> IF m \in W THEN Kept(s)[m] ELSE "none"]
      end == Ends(c, 1, f.at[k])
  IN  [has |-> [m \in Msgs |-> IF m \in W THEN c[m] ELSE Cut(f, f.at[k]).has[m]],
       at |-> [m \in Msgs |-> IF m \in W THEN end[m - 1] ELSE f.at[m]],
       size |-> end[N]]

(* The same, when the session has read something else than what is in the    *)
(* file and has found it of the same size.  All that is checked is "From "   *)
(* at the offset it has for First(s): there any message k may begin.  What   *)
(* is copied from the offsets it has for the others is some of them at best; *)
(* the rest of the file is lost.  It is written in one step, up to giving    *)
(* back the lock: a write that fails on the way loses no more, and who reads *)
(* meanwhile reads no less.                                                  *)
WriteOver(s) ==
  LET f == file[fp[s]]
      whole == {m \in Msgs : f.has[m] \in {"plain", "marked"}}
  IN  /\ pc[s] = "commit" /\ path # 0 /\ base[s] # f.has
      /\ \E k \in {m \in Msgs : f.has[m] # "none"} :
         \E W \in SUBSET {m \in InTemp(s) \cap whole : f.at[m] >= f.at[k]} :
           LET g == Overwritten(s, f, k, W)
           IN  /\ file' = [file EXCEPT ![fp[s]] = g]
               /\ size' = [size EXCEPT ![s] = g.size]
               /\ clobbered' = clobbered \cup {m \in whole : g.has[m] \notin {"plain", "marked"}}
      /\ removed' = removed \cup del[s]
      /\ owner' = Unlocked(s)
      /\ pc' = [pc EXCEPT ![s] = "finish"]
      /\ UNCHANGED <<why, fp, base, view, dirty, del, path, inodes,
                     delivered, rescue, unlinked, torn>>

(* Mutant: messages that are not changed are written without flags. *)
FlushStale(s) ==
  LET f == [Rewritten(s) EXCEPT
              !.has = [m \in Msgs |-> IF m \in dirty[s] \/ @[m] = "none" THEN @[m]
                                       ELSE "plain"]]
  IN  /\ pc[s] = "truncated"
      /\ file' = [file EXCEPT ![fp[s]] = f]
      /\ owner' = Unlocked(s)
      /\ pc' = [pc EXCEPT ![s] = "finish"]
      /\ size' = [size EXCEPT ![s] = f.size]
      /\ UNCHANGED <<why, fp, base, view, dirty, del, path, inodes, historyVars>>

(* mbox_unlock_mailbox() flushes the buffer and unlocks the folder. *)
Flush(s) ==
  /\ pc[s] = "truncated"
  /\ file' = [file EXCEPT ![fp[s]] = Rewritten(s)]
  /\ owner' = Unlocked(s)
  /\ pc' = [pc EXCEPT ![s] = "finish"]
  /\ size' = [size EXCEPT ![s] = Rewritten(s).size]
  /\ UNCHANGED <<why, fp, base, view, dirty, del, path, inodes, historyVars>>

(* Mutant: the temporary file is removed in any case. *)
WriteFailsDropsTemp(s) ==
  /\ pc[s] \in {"commit", "truncated"}
  /\ owner' = Unlocked(s)
  /\ torn' = IF pc[s] = "truncated" THEN "yes" ELSE torn
  /\ Fastclose(s)
  /\ UNCHANGED <<path, inodes, file, delivered, removed, rescue, unlinked, clobbered>>

(* Writing fails: the temporary file is kept ("Saved partial mailbox to"),   *)
(* the folder unlocked, and the mailbox closed.                              *)
WriteFails(s) ==
  /\ pc[s] \in {"commit", "truncated"}
  /\ owner' = Unlocked(s)
  /\ rescue' = rescue \cup Saved(s)
  /\ torn' = IF pc[s] = "truncated" THEN "yes" ELSE torn
  /\ Fastclose(s)
  /\ UNCHANGED <<path, inodes, file, delivered, removed, unlinked, clobbered>>

(* fopen() for reading; then the headers of the deleted messages are freed,  *)
(* or the mailbox is closed, or there is nothing left in it.                 *)
FinishGone(s) ==
  /\ pc[s] = "finish" /\ path = 0
  /\ Fastclose(s)
  /\ UNCHANGED <<folderVars, historyVars>>

Finish(s) ==
  /\ pc[s] = "finish" /\ path # 0
  /\ Kept(s) # Empty \/ SaveEmpty
  /\ \/ why[s] = "close" /\ Fastclose(s)
     \/ /\ why[s] = "sync"
        /\ pc' = [pc EXCEPT ![s] = "open"]
        /\ fp' = [fp EXCEPT ![s] = path]
        /\ Fresh(s, Kept(s))
        /\ UNCHANGED <<why, size>>
  /\ UNCHANGED <<folderVars, historyVars>>

FinishEmpty(s) ==
  /\ pc[s] = "finish" /\ path # 0
  /\ Kept(s) = Empty /\ ~SaveEmpty
  /\ pc' = [pc EXCEPT ![s] = IF why[s] = "close" THEN "unlink_empty" ELSE "unlink"]
  /\ UNCHANGED <<why, fp, base, view, dirty, del, size, folderVars, historyVars>>

(* Message m is in the folder, or in the temporary file it is rewritten from.*)
InFolder(m) ==
  /\ path # 0
  /\ \/ file[path].has[m] \in {"plain", "marked"}
     \/ \E s \in Sessions : pc[s] = "truncated" /\ fp[s] = path /\ m \in InTemp(s)

(* mx_sync_mailbox() removes the folder by its name, without locking it.     *)
Unlink(s) ==
  /\ pc[s] = "unlink"
  /\ path' = 0
  /\ unlinked' = unlinked \cup {m \in Msgs : InFolder(m)}
  /\ Fastclose(s)
  /\ UNCHANGED <<inodes, file, owner, delivered, removed, rescue, clobbered, torn>>

(* mx_unlink_empty(): if the folder can be locked and is empty, remove it.   *)
UnlinkEmpty(s) ==
  /\ pc[s] = "unlink_empty"
  /\ path' = IF owner = None /\ path # 0 /\ file[path].size = 0 THEN 0 ELSE path
  /\ Fastclose(s)
  /\ UNCHANGED <<inodes, file, owner, historyVars>>

(* A mailbox without changes is closed, or the user gives up all changes.    *)
Close(s) ==
  /\ pc[s] = "open"
  /\ Fastclose(s)
  /\ UNCHANGED <<folderVars, historyVars>>

(* The process is killed. *)
Crash(s) ==
  /\ pc[s] # "closed"
  /\ owner' = IF owner = s THEN Stale ELSE owner
  /\ rescue' = IF owner = s THEN rescue \cup Saved(s) ELSE rescue
  /\ torn' = IF pc[s] = "truncated" THEN "yes" ELSE torn
  /\ Fastclose(s)
  /\ UNCHANGED <<path, inodes, file, delivered, removed, unlinked, clobbered>>

(* A user has a lock removed whose owner is gone.  (That locks of running    *)
(* processes can be broken, too, is in MailLock.)                            *)
RemoveStaleLock ==
  /\ owner = Stale
  /\ owner' = None
  /\ UNCHANGED <<sessionVars, path, inodes, file, historyVars>>

-----------------------------------------------------------------------------
SessionNext(s) ==
  \/ Open(s) \/ Close(s) \/ Crash(s)
  \/ \E m \in Msgs : Mark(s, m) \/ Delete(s, m)
  \/ CheckGone(s) \/ CheckLarger(s) \/ CheckLocked(s) \/ CheckRead(s) \/ CheckSmaller(s)
  \/ SyncGone(s) \/ SyncBails(s) \/ SyncReads(s)
  \/ \E w \in {"sync", "close"} : SyncCopies(s, w)
  \/ CommitGone(s) \/ TempFails(s) \/ Truncate(s) \/ WriteOver(s) \/ Flush(s) \/ WriteFails(s)
  \/ FinishGone(s) \/ Finish(s) \/ FinishEmpty(s)
  \/ Unlink(s) \/ UnlinkEmpty(s)

Next == Deliver \/ RemoveStaleLock \/ \E s \in Sessions : SessionNext(s)

Spec == Init /\ [][Next]_vars

-----------------------------------------------------------------------------
(* What a session is about to write back stems from what is in the folder.   *)
SeesFolder(s) == pc[s] = "commit" => base[s] = file[fp[s]].has

(* "Check to make sure that the file hasn't changed on disk": when           *)
(* _mbox_sync_mailbox() goes on after that, the messages it has read are     *)
(* those in the file, whatever other sessions and deliveries did meanwhile.  *)
SyncSeesFolder == \A s \in Sessions : SeesFolder(s)

(* The same, unless somebody has read the folder while it was not whole: in  *)
(* the middle of a rewrite, after a writer died there, or after the file was *)
(* removed.                                                                  *)
SyncSeesWholeFolder == torn = "no" => SyncSeesFolder

(* A delivered message that nobody has deleted is in the folder or in a      *)
(* temporary file, whatever fails and whoever dies while a session writes    *)
(* the folder, with two exceptions: mx_sync_mailbox() has unlinked the       *)
(* folder with it, or, after somebody has read a folder that was not whole,  *)
(* a session has overwritten it for which SyncSeesFolder fails.              *)
NoMailLost ==
  \A m \in 1..delivered :
    \/ InFolder(m) \/ m \in removed \cup rescue \cup unlinked
    \/ torn = "yes" /\ m \in clobbered

(* A folder is removed only when there is no message in it.                  *)
OnlyEmptyRemoved == [][path # 0 /\ path' = 0 => file[path].has = Empty]_vars

(* What the user has changed and not yet saved stays as he wants it when     *)
(* the folder is read again, unless the message is gone or the folder was    *)
(* not whole.                                                                *)
PendingKept ==
  [][\A s \in Sessions, m \in Msgs :
       /\ torn' = "no" /\ pc'[s] # "closed" /\ view'[s][m] # "none"
       /\ ~\E n \in Msgs : Mark(s, n) \/ Delete(s, n)
       => /\ m \in dirty[s] => view'[s][m] = view[s][m]
          /\ m \in del[s] => m \in del'[s]]_vars

(* The flag of a message in the folder changes only when a session writes    *)
(* whose user has changed it: sessions do not undo each other's changes.     *)
NoLostUpdate ==
  [][\A m \in Msgs :
       /\ torn = "no" /\ path # 0 /\ path' = path
       /\ file[path].has[m] \in {"plain", "marked"}
       /\ file'[path].has[m] \in {"plain", "marked"} \ {file[path].has[m]}
       => \E s \in Sessions : m \in dirty[s] /\ view[s][m] = file'[path].has[m]]_vars
=============================================================================
