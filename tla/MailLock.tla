------------------------------- MODULE MailLock -------------------------------
(***************************************************************************)
(* Locking a folder file: mx_lock_file(), mx_unlock_file() and             *)
(* mx_unlink_empty() of mx.c on top of the dot-lock protocol, together     *)
(* with what the locks protect: which file the folder's name denotes and   *)
(* how much mail is in it.                                                 *)
(*                                                                         *)
(* A copy of muttng opens the folder first and locks it afterwards, the    *)
(* fcntl lock before the dot lock, and gives both back in the same order.  *)
(* Between its open() and its locks another copy may remove the empty      *)
(* folder, and yet another create it again.  Scripts lock with the         *)
(* stand-alone muttng_dotlock only, as delivery agents do.                 *)
(*                                                                         *)
(* muttng has dotlock.c linked in, or is configured (DL_STANDALONE, when   *)
(* it needs to be setgid or fchdir() is missing) to run muttng_dotlock for *)
(* every lock.  That program is given the folder's name, not the           *)
(* descriptor, so it cannot tell that the name has come to denote another  *)
(* file since muttng opened it.                                            *)
(***************************************************************************)
EXTENDS Dotlock

CONSTANTS
  Scripts,          \* the processes that use muttng_dotlock, the others are muttng
  Jobs,             \* what muttng opens the folder for, a subset of AllJobs
  MAXLOCKATTEMPT,   \* how often a lock is tried for (mx.h, dotlock.c)
  MaxInode,         \* bound: how often the folder file is created
  MaxSize           \* bound: messages in a folder file

(* mx_open_mailbox_append(); mbox_sync_mailbox(); mbox_open_mailbox();       *)
(* _mbox_check_mailbox(); mx_unlink_empty().  (A reader that cannot lock the folder reads it all    *)
(* the same, as read-only; it never writes, and is not followed any further.)*)
AllJobs == {"append", "sync", "read", "check", "unlink"}

ASSUME MailLockAssumption ==
  /\ Scripts \subseteq Procs
  /\ Jobs \subseteq AllJobs
  /\ MAXLOCKATTEMPT \in Nat
  /\ MaxInode \in Nat \ {0}
  /\ MaxSize \in Nat

VARIABLES
  path,     \* the file the folder's name denotes, 0 if there is none
  inodes,   \* how many files have been created under that name
  size,     \* messages in each of these files
  fd,       \* the file each muttng has open, 0 if none
  fcntl,    \* the fcntl lock each muttng has on that file
  job,      \* what it has the folder open for
  mpc,      \* where it is in mx.c
  tries,    \* count in the loop of mx_lock_file()
  seen,     \* prev_sb.st_size there
  asked,    \* the user has been asked to remove the lock file ("yes") or not
  broken,   \* the users' answers: "yes" once a lock has been broken
  build     \* how muttng is configured; it never changes

mailVars == <<path, inodes, size, fd, fcntl, job, mpc, tries, seen, asked, broken, build>>
vars == <<dotVars, mailVars>>

Mutts == Procs \ Scripts
Inode == 1..MaxInode
MailPCs == {"idle", "fcntl", "dot", "locked", "undot"}

MailTypeOK ==
  /\ path \in 0..MaxInode
  /\ inodes \in 0..MaxInode
  /\ size \in [Inode -> 0..MaxSize]
  /\ fd \in [Procs -> 0..MaxInode]
  /\ fcntl \in [Procs -> {"none", "rd", "wr"}]
  /\ job \in [Procs -> AllJobs \cup {"none"}]
  /\ mpc \in [Procs -> MailPCs]
  /\ tries \in [Procs -> Nat]
  /\ seen \in [Procs -> 0..MaxSize]
  /\ asked \in [Procs -> {"no", "yes"}]
  /\ broken \in {"no", "yes"}
  /\ build \in {"internal", "standalone"}

MailInit ==
  /\ path = 1
  /\ inodes = 1
  /\ size = [i \in Inode |-> 0]
  /\ fd = [p \in Procs |-> 0]
  /\ fcntl = [p \in Procs |-> "none"]
  /\ job = [p \in Procs |-> "none"]
  /\ mpc = [p \in Procs |-> "idle"]
  /\ tries = [p \in Procs |-> 0]
  /\ seen = [p \in Procs |-> 0]
  /\ asked = [p \in Procs |-> "no"]
  /\ broken = "no"
  /\ build \in {"internal", "standalone"}

Init == DotInit /\ MailInit

-----------------------------------------------------------------------------
MGoto(p, l) == mpc' = [mpc EXCEPT ![p] = l]

(* The lock is wanted for writing.  mx_unlink_empty() asks for one, too.     *)
Excl(j) == j \in {"append", "sync", "unlink"}

(* timeout: _mbox_check_mailbox() does not wait for its lock, all others do. *)
Timeout(j) == IF j = "check" THEN 0 ELSE MAXLOCKATTEMPT

(* The exit code of dotlock.c has been looked at. *)
Seen(p) == res' = [res EXCEPT ![p] = "OK"] /\ UNCHANGED <<lockfile, pc, call, granted>>

(* close(): the file's fcntl lock goes with the descriptor.                  *)
Close(p) ==
  /\ MGoto(p, "idle")
  /\ fd' = [fd EXCEPT ![p] = 0]
  /\ fcntl' = [fcntl EXCEPT ![p] = "none"]
  /\ job' = [job EXCEPT ![p] = "none"]
  /\ asked' = [asked EXCEPT ![p] = "no"]
  /\ tries' = [tries EXCEPT ![p] = 0]
  /\ seen' = [seen EXCEPT ![p] = 0]

(* open() of the existing folder for job j, to be locked next.               *)
Open(p, j) ==
  /\ mpc[p] = "idle"
  /\ path # 0
  /\ fd' = [fd EXCEPT ![p] = path]
  /\ job' = [job EXCEPT ![p] = j]
  /\ MGoto(p, "fcntl")
  /\ UNCHANGED <<dotVars, path, inodes, size, fcntl, tries, seen, asked, broken, build>>

(* mx_open_mailbox_append(): safe_fopen(path, "a") of a folder that is not   *)
(* there creates it.                                                         *)
OpenNew(p) ==
  /\ mpc[p] = "idle"
  /\ "append" \in Jobs
  /\ path = 0 /\ inodes < MaxInode
  /\ path' = inodes + 1
  /\ inodes' = inodes + 1
  /\ fd' = [fd EXCEPT ![p] = inodes + 1]
  /\ job' = [job EXCEPT ![p] = "append"]
  /\ MGoto(p, "fcntl")
  /\ UNCHANGED <<dotVars, size, fcntl, tries, seen, asked, broken, build>>

(* Mutant: a writer asks for a read lock. *)
ConflictWithWriters(p, j) ==
  \E q \in Procs \ {p} : fd[q] = fd[p] /\ fcntl[q] = "wr" /\ ~Excl(j)

(* fcntl(F_SETLK) conflicts with the lock another process has on the file.   *)
Conflict(p, j) ==
  \E q \in Procs \ {p} :
    fd[q] = fd[p] /\ (fcntl[q] = "wr" \/ (Excl(j) /\ fcntl[q] = "rd"))

(* fcntl() succeeds; dotlock_file() is next, or invoke_dotlock() with        *)
(* DL_FL_UNLINK in mx_unlink_empty().                                        *)
FcntlLock(p) ==
  /\ mpc[p] = "fcntl"
  /\ ~Conflict(p, job[p])
  /\ fcntl' = [fcntl EXCEPT ![p] = IF Excl(job[p]) THEN "wr" ELSE "rd"]
  /\ Invoke(p, IF job[p] = "unlink" THEN "unlink" ELSE "lock", Timeout(job[p]), "wait")
  /\ MGoto(p, "dot")
  /\ UNCHANGED <<path, inodes, size, fd, job, tries, seen, asked, broken, build>>

(* Mutant: at the limit the count starts again. *)
FcntlBusyForever(p) ==
  /\ mpc[p] = "fcntl"
  /\ Conflict(p, job[p])
  /\ tries' = [tries EXCEPT ![p] = IF @ + 1 >= Timeout(job[p]) THEN 0 ELSE @ + 1]
  /\ seen' = [seen EXCEPT ![p] = size[fd[p]]]
  /\ UNCHANGED <<dotVars, path, inodes, size, fd, fcntl, job, mpc, asked, broken, build>>

(* fcntl() fails.  The attempt counts only if the file has not changed its   *)
(* size since the one before, as whoever holds the lock is busy then.        *)
FcntlBusy(p) ==
  LET last == IF tries[p] = 0 THEN size[fd[p]] ELSE seen[p]
      n == IF last = size[fd[p]] THEN tries[p] + 1 ELSE tries[p]
  IN  /\ mpc[p] = "fcntl"
      /\ Conflict(p, job[p])
      /\ \/ /\ n > tries[p] /\ n >= Timeout(job[p])
            /\ Close(p)
         \/ /\ ~(n > tries[p] /\ n >= Timeout(job[p]))
            /\ tries' = [tries EXCEPT ![p] = n]
            /\ seen' = [seen EXCEPT ![p] = size[fd[p]]]
            /\ UNCHANGED <<mpc, fd, fcntl, job, asked>>
      /\ UNCHANGED <<dotVars, path, inodes, size, broken, build>>

(* fcntl() fails for another reason (no lock daemon, say): mx_lock_file()    *)
(* returns at once.                                                          *)
FcntlError(p) ==
  /\ mpc[p] = "fcntl"
  /\ Close(p)
  /\ UNCHANGED <<dotVars, path, inodes, size, broken, build>>

(* What dotlock_prepare() finds.  Called by muttng itself it compares the    *)
(* open file with what the folder's name denotes now.  muttng_dotlock, which *)
(* scripts and a stand-alone build run, has no descriptor to compare: it     *)
(* opens the folder by its name and only needs it to exist.                  *)
SameFile(p) == path # 0 /\ (p \in Scripts \/ build = "standalone" \/ fd[p] = path)

(* The system calls of dotlock.c, on this folder. *)
DotRuns(p) ==
  /\ pc[p] # "idle"
  /\ \/ Prepare(p, SameFile(p)) /\ UNCHANGED <<path, broken>>
     \/ DotStep(p) /\ UNCHANGED path /\ broken' = IF pc[p] = "break" THEN "yes" ELSE broken
     \/ LstatFolder(p, path # 0, path # 0 /\ size[path] = 0) /\ UNCHANGED <<path, broken>>
     \/ RemoveFolder(p) /\ path' = 0 /\ UNCHANGED broken
  /\ UNCHANGED <<inodes, size, fd, fcntl, job, mpc, tries, seen, asked, build>>

(* dotlock_file() succeeded: mx_lock_file() returns 0. *)
DotLocked(p) ==
  /\ mpc[p] = "dot" /\ pc[p] = "idle"
  /\ job[p] # "unlink" /\ res[p] = "OK"
  /\ MGoto(p, "locked")
  /\ UNCHANGED <<dotVars, path, inodes, size, fd, fcntl, job, tries, seen, asked, broken, build>>

(* "Lock count exceeded, remove lock?"  The user agrees, so dotlock_file()   *)
(* tries once more, now with DL_FL_FORCE and no retries.                     *)
DotForce(p) ==
  /\ mpc[p] = "dot" /\ pc[p] = "idle"
  /\ res[p] = "EXIST" /\ job[p] # "unlink" /\ Timeout(job[p]) # 0
  /\ asked[p] = "no" /\ "force" \in Modes
  /\ Invoke(p, "lock", 0, "force")
  /\ asked' = [asked EXCEPT ![p] = "yes"]
  /\ UNCHANGED <<path, inodes, size, fd, fcntl, job, mpc, tries, seen, broken, build>>

(* dotlock_file() failed, and mx_lock_file() releases the fcntl lock; or     *)
(* mx_unlink_empty() is done with the folder, whatever became of it.         *)
DotFailed(p) ==
  /\ mpc[p] = "dot" /\ pc[p] = "idle"
  /\ job[p] = "unlink" \/ res[p] # "OK"
  /\ Close(p) /\ Seen(p)
  /\ UNCHANGED <<path, inodes, size, broken, build>>

(* A message is appended to the file that is open and locked. *)
Append(p) ==
  /\ mpc[p] = "locked" /\ job[p] = "append"
  /\ size[fd[p]] < MaxSize
  /\ size' = [size EXCEPT ![fd[p]] = @ + 1]
  /\ UNCHANGED <<dotVars, path, inodes, fd, fcntl, job, mpc, tries, seen, asked, broken, build>>

(* mbox_sync_mailbox() writes the folder back without a message. *)
Rewrite(p) ==
  /\ mpc[p] = "locked" /\ job[p] = "sync"
  /\ size[fd[p]] > 0
  /\ size' = [size EXCEPT ![fd[p]] = @ - 1]
  /\ UNCHANGED <<dotVars, path, inodes, fd, fcntl, job, mpc, tries, seen, asked, broken, build>>

(* mx_unlock_file() releases the fcntl lock first and the dot lock next,     *)
(* ignoring what undotlock_file() says.                                      *)
UnlockFcntl(p) ==
  /\ mpc[p] = "locked"
  /\ fcntl' = [fcntl EXCEPT ![p] = "none"]
  /\ Invoke(p, "unlock", MAXLOCKATTEMPT, "wait")
  /\ MGoto(p, "undot")
  /\ UNCHANGED <<path, inodes, size, fd, job, tries, seen, asked, broken, build>>

Undotted(p) ==
  /\ mpc[p] = "undot" /\ pc[p] = "idle"
  /\ Close(p) /\ Seen(p)
  /\ UNCHANGED <<path, inodes, size, broken, build>>

(* The muttng process is killed: the kernel releases its fcntl locks, but    *)
(* the lock file stays.                                                      *)
MuttCrash(p) ==
  /\ mpc[p] # "idle"
  /\ \/ Crash(p)
     \/ pc[p] = "idle" /\ p \notin granted /\ UNCHANGED dotVars
  /\ Close(p)
  /\ UNCHANGED <<path, inodes, size, broken, build>>

(* A script runs muttng_dotlock to lock or to unlock the folder.             *)
ScriptInvoke(p) ==
  /\ \E o \in {"lock", "unlock"}, r \in Retries, m \in Modes : Invoke(p, o, r, m)
  /\ UNCHANGED mailVars

(* A script that was granted the lock delivers a message to the folder,      *)
(* creating it if needed.                                                    *)
ScriptDeliver(p) ==
  /\ p \in granted /\ pc[p] = "idle"
  /\ \/ /\ path # 0 /\ size[path] < MaxSize
        /\ size' = [size EXCEPT ![path] = @ + 1]
        /\ UNCHANGED <<path, inodes>>
     \/ /\ path = 0 /\ inodes < MaxInode /\ MaxSize > 0
        /\ path' = inodes + 1
        /\ inodes' = inodes + 1
        /\ size' = [size EXCEPT ![inodes + 1] = 1]
  /\ UNCHANGED <<dotVars, fd, fcntl, job, mpc, tries, seen, asked, broken, build>>

ScriptCrash(p) == Crash(p) /\ UNCHANGED mailVars

-----------------------------------------------------------------------------
(* What a muttng does by itself once it has opened the folder. *)
MuttStep(p) ==
  \/ FcntlLock(p) \/ FcntlBusy(p) \/ FcntlError(p)
  \/ DotRuns(p) \/ DotLocked(p) \/ DotForce(p) \/ DotFailed(p)
  \/ Undotted(p)

MuttNext(p) ==
  \/ \E j \in Jobs : Open(p, j)
  \/ OpenNew(p)
  \/ MuttStep(p)
  \/ Append(p) \/ Rewrite(p)
  \/ UnlockFcntl(p)
  \/ MuttCrash(p)

ScriptNext(p) ==
  \/ ScriptInvoke(p) \/ DotRuns(p) \/ ScriptDeliver(p) \/ ScriptCrash(p)

Next == \/ \E p \in Mutts : MuttNext(p)
        \/ \E p \in Scripts : ScriptNext(p)

(* Both programs run on once they have started to lock; a user may keep a    *)
(* locked folder as long as he likes.                                        *)
Fairness == /\ \A p \in Mutts : WF_vars(MuttStep(p))
            /\ \A p \in Scripts : WF_vars(DotRuns(p))

SafetySpec == Init /\ [][Next]_vars
Spec == SafetySpec /\ Fairness

-----------------------------------------------------------------------------
TypeOK == DotTypeOK /\ MailTypeOK

(* While a muttng with dotlock.c linked in holds its locks, the file it has  *)
(* open is the folder: mx_open_mailbox_append() opens before it locks, and   *)
(* yet never appends to a file that mx_unlink_empty() of another muttng has  *)
(* removed meanwhile.  (A stand-alone build may: it locks a name.)           *)
LockedFileIsFolder ==
  build = "internal" => \A p \in Mutts : mpc[p] = "locked" => fd[p] = path

(* A muttng that writes to the folder is the only one that has it locked.    *)
(* With dotlock.c linked in that holds even when users have the dot locks of *)
(* running processes removed, as the fcntl locks still tell them apart; in a *)
(* stand-alone build the dot lock alone has to, as the fcntl locks may be on *)
(* different files.                                                          *)
WriterExclusion ==
  build = "internal" \/ broken = "no" =>
    \A p, q \in Mutts :
      mpc[p] = "locked" /\ mpc[q] = "locked" /\ Excl(job[p]) => p = q

(* Unless a user had a lock broken, mx_unlink_empty() removes the folder     *)
(* only when it is empty at that very moment: nothing is delivered between   *)
(* its lstat() and its unlink().                                             *)
OnlyEmptyFoldersRemoved ==
  [][path # 0 /\ path' = 0 /\ broken = "no" => size[path] = 0]_vars

(* The file p waits for grows or shrinks. *)
Busy(p) == fd[p] # 0 /\ size'[fd[p]] # size[fd[p]]

(* mx_lock_file() and mx_unlock_file() return, whoever holds what: processes *)
(* that wait for each other's locks time out.  The one exception is a file   *)
(* that changes its size again and again: an attempt at its fcntl lock that  *)
(* sees another size than the one before is not counted.                     *)
LockingTerminates ==
  \A p \in Mutts :
    \/ mpc[p] # "idle" ~> mpc[p] \in {"idle", "locked"}
    \/ []<><<Busy(p)>>_vars
=============================================================================
