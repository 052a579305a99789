------------------------------- MODULE Dotlock -------------------------------
(***************************************************************************)
(* The dot-lock protocol of dotlock.c, one action per system call on the   *)
(* shared lock file (calls on a process's own file go with the next one).  *)
(*                                                                         *)
(* To lock a folder a process creates a file of its own,                   *)
(* "folder.host.pid", and links it to "folder.lock".  The return value of  *)
(* link() is ignored (it lies over NFS); the process owns the lock when    *)
(* the link count of its own file has become 2.  It tries again, up to     *)
(* Retry times, then gives up or, with DL_FL_FORCE, removes the lock file  *)
(* and goes on.  A hard limit bounds the whole loop.                       *)
(*                                                                         *)
(* The processes are copies of muttng calling dotlock_invoke() and runs of *)
(* the stand-alone muttng_dotlock program; the module is the protocol      *)
(* itself, and MailLock composes it with fcntl locks and with the folder.  *)
(***************************************************************************)
EXTENDS Integers

CONSTANTS
  Procs,            \* the processes that lock this folder
  None,             \* "there is no lock file"
  Stale,            \* the lock file is a link to a file of an earlier attempt
  Retries,          \* values of Retry that callers use
  Modes,            \* {"wait"}, or {"wait", "force"} if callers set DL_FL_FORCE
  HARDMAXATTEMPTS   \* the hard limit of dotlock_lock()'s loop

ASSUME DotlockAssumption ==
  /\ None \notin Procs /\ Stale \notin Procs /\ None # Stale
  /\ Retries \subseteq Nat
  /\ Modes \subseteq {"wait", "force"}
  /\ HARDMAXATTEMPTS \in Nat \ {0}

VARIABLES
  lockfile,   \* whose nfslockfile "folder.lock" is a link to
  pc,         \* the next system call of each process, "idle" outside dotlock.c
  call,       \* arguments and local variables of the invocation in progress
  res,        \* the exit code of the last invocation
  granted     \* those dotlock_lock() returned DL_EX_OK to, until they unlock

dotVars == <<lockfile, pc, call, res, granted>>

PCs == {"idle", "prepare", "link", "stat", "break", "lstat", "rm", "unlock"}
Ops == {"lock", "unlock", "unlink"}
Results == {"OK", "ERROR", "EXIST"}

(* op: what dotlock_dispatch() is asked to do; retry: Retry; mode: "force"   *)
(* if DL_FL_FORCE is set; count: attempts since the start or since the lock  *)
(* was last broken; hard: hard_count.                                        *)
Calls == [op : Ops, retry : Nat, mode : {"wait", "force"}, count : Nat,
          hard : 0..HARDMAXATTEMPTS]
CallOf(o, r, m) == [op |-> o, retry |-> r, mode |-> m, count |-> 0, hard |-> 0]
NoCall == CallOf("lock", 0, "wait")

DotTypeOK ==
  /\ lockfile \in Procs \cup {None, Stale}
  /\ pc \in [Procs -> PCs]
  /\ call \in [Procs -> Calls]
  /\ res \in [Procs -> Results]
  /\ granted \subseteq Procs

DotInit ==
  /\ lockfile = None
  /\ pc = [p \in Procs |-> "idle"]
  /\ call = [p \in Procs |-> NoCall]
  /\ res = [p \in Procs |-> "OK"]
  /\ granted = {}

-----------------------------------------------------------------------------
Goto(p, l) == pc' = [pc EXCEPT ![p] = l]

(* Return exit code r to the caller; the local variables are gone. *)
Exit(p, r) ==
  /\ Goto(p, "idle")
  /\ res' = [res EXCEPT ![p] = r]
  /\ call' = [call EXCEPT ![p] = NoCall]

(* dotlock_invoke(), or main() of muttng_dotlock, with the operation o, the  *)
(* number of retries r and the mode m.  A caller locks only when it does not *)
(* hold the lock, and unlocks only a lock it was granted.                    *)
Invoke(p, o, r, m) ==
  /\ pc[p] = "idle"
  /\ (p \in granted) <=> (o = "unlock")
  /\ Goto(p, "prepare")
  /\ call' = [call EXCEPT ![p] = CallOf(o, r, m)]
  /\ UNCHANGED <<lockfile, res, granted>>

(* dotlock_prepare() succeeds; dotlock_lock() then removes a left-over       *)
(* nfslockfile and creates a new one with O_EXCL.  A lock file that is still *)
(* a link to the old one is now nobody's.                                    *)
PrepareSucceeds(p) ==
  /\ pc[p] = "prepare"
  /\ Goto(p, IF call[p].op = "unlock" THEN "unlock" ELSE "link")
  /\ lockfile' = IF call[p].op # "unlock" /\ lockfile = p THEN Stale ELSE lockfile
  /\ UNCHANGED <<call, res, granted>>

(* dotlock_prepare() fails.  When that happens in an unlock the caller       *)
(* ignores it, and the lock file stays.                                      *)
PrepareFails(p) ==
  /\ pc[p] = "prepare"
  /\ Exit(p, "ERROR")
  /\ granted' = granted \ {p}
  /\ UNCHANGED lockfile

(* Mutant: the comparison of descriptor and name is forgotten. *)
PrepareUnchecked(p, ok) == PrepareSucceeds(p) \/ (~ok /\ PrepareFails(p))

(* dotlock_prepare() resolves the path and checks that the name denotes a    *)
(* file, the one of the caller's descriptor if it was given one (ok).        *)
Prepare(p, ok) == (ok /\ PrepareSucceeds(p)) \/ (~ok /\ PrepareFails(p))

(* open(nfslockfile) failed with something else than EAGAIN. *)
CreateFails(p) ==
  /\ pc[p] = "prepare" /\ call[p].op # "unlock"
  /\ Exit(p, "ERROR")
  /\ UNCHANGED <<lockfile, granted>>

(* hard_count++ < HARDMAXATTEMPTS: link(nfslockfile, lockfile), with the     *)
(* result ignored.                                                           *)
LinkNfs(p) ==
  /\ pc[p] = "link"
  /\ call[p].hard < HARDMAXATTEMPTS
  /\ call' = [call EXCEPT ![p].hard = @ + 1]
  /\ lockfile' = IF lockfile = None THEN p ELSE lockfile
  /\ Goto(p, "stat")
  /\ UNCHANGED <<res, granted>>

(* Leave the loop, unlink(nfslockfile) and return DL_EX_OK from              *)
(* dotlock_lock(); dotlock_unlink() goes on from there.                      *)
Grant(p) ==
  /\ granted' = granted \cup {p}
  /\ \/ call[p].op = "unlink" /\ Goto(p, "lstat") /\ UNCHANGED <<call, res>>
     \/ call[p].op # "unlink" /\ Exit(p, "OK")
  /\ UNCHANGED lockfile

(* The hard limit ends the loop; what follows is what follows a break.       *)
HardLimit(p) ==
  /\ pc[p] = "link"
  /\ call[p].hard >= HARDMAXATTEMPTS
  /\ Grant(p)

(* Mutant: any outcome of stat() counts as success. *)
StatLinkedUnchecked(p) ==
  /\ pc[p] = "stat"
  /\ Grant(p)

(* stat(nfslockfile) finds st_nlink = 2: the lock file is a link to it.      *)
StatLinked(p) ==
  /\ pc[p] = "stat"
  /\ lockfile = p
  /\ Grant(p)

(* Mutant: every failed attempt starts the loop anew. *)
StatNotLinkedForever(p) ==
  /\ pc[p] = "stat"
  /\ lockfile # p
  /\ call' = [call EXCEPT ![p].count = 0, ![p].hard = 0]
  /\ Goto(p, "link")
  /\ UNCHANGED <<lockfile, res, granted>>

(* It is not: sleep for a second and try again, or break the lock, or remove *)
(* nfslockfile and report the lock as taken, which dotlock_unlink() turns    *)
(* into DL_EX_ERROR.  st_size is always 0, as nobody writes to the file, so  *)
(* the test prev_size == sb.st_size always holds.                            *)
StatNotLinked(p) ==
  /\ pc[p] = "stat"
  /\ lockfile # p
  /\ \/ /\ call[p].count + 1 > call[p].retry /\ call[p].mode # "force"
        /\ Exit(p, IF call[p].op = "unlink" THEN "ERROR" ELSE "EXIST")
     \/ /\ call[p].count + 1 <= call[p].retry \/ call[p].mode = "force"
        /\ call' = [call EXCEPT ![p].count = @ + 1]
        /\ Goto(p, IF call[p].count + 1 <= call[p].retry THEN "link" ELSE "break")
        /\ UNCHANGED res
  /\ UNCHANGED <<lockfile, granted>>

(* stat() failed: return at once, removing nothing. *)
StatFails(p) ==
  /\ pc[p] = "stat"
  /\ Exit(p, "ERROR")
  /\ UNCHANGED <<lockfile, granted>>

(* DL_FL_FORCE: unlink(lockfile), whoever it belongs to by now.              *)
BreakLock(p) ==
  /\ pc[p] = "break"
  /\ lockfile' = None
  /\ call' = [call EXCEPT ![p].count = 0]
  /\ Goto(p, "link")
  /\ UNCHANGED <<res, granted>>

(* Mutant: the size of the folder is not looked at. *)
LstatFolderAnySize(p, found, empty) ==
  /\ pc[p] = "lstat"
  /\ Goto(p, IF found THEN "rm" ELSE "unlock")
  /\ res' = [res EXCEPT ![p] = IF found THEN "OK" ELSE "ERROR"]
  /\ UNCHANGED <<lockfile, call, granted>>

(* dotlock_unlink(): lstat() the folder, which exists (found) and may be     *)
(* empty.                                                                    *)
LstatFolder(p, found, empty) ==
  /\ pc[p] = "lstat"
  /\ Goto(p, IF found /\ empty THEN "rm" ELSE "unlock")
  /\ res' = [res EXCEPT ![p] = IF found THEN "OK" ELSE "ERROR"]
  /\ UNCHANGED <<lockfile, call, granted>>

(* dotlock_unlink(): unlink() the folder. *)
RemoveFolder(p) ==
  /\ pc[p] = "rm"
  /\ Goto(p, "unlock")
  /\ UNCHANGED <<lockfile, call, res, granted>>

(* Mutant: the lock file is forgotten. *)
UnlockKeepsFile(p) ==
  /\ pc[p] = "unlock"
  /\ granted' = granted \ {p}
  /\ UNCHANGED lockfile
  /\ Exit(p, "OK")

(* dotlock_unlock(): unlink(lockfile), without looking whose it is.          *)
Unlock(p) ==
  /\ pc[p] = "unlock"
  /\ granted' = granted \ {p}
  /\ lockfile' = None
  /\ Exit(p, IF call[p].op = "unlink" THEN res[p]
             ELSE IF lockfile = None THEN "ERROR" ELSE "OK")

(* The process is killed.  Its files stay behind and, as its pid is not      *)
(* used again, become nobody's; another process takes its place.             *)
Crash(p) ==
  /\ pc[p] # "idle" \/ p \in granted
  /\ Goto(p, "idle")
  /\ call' = [call EXCEPT ![p] = NoCall]
  /\ granted' = granted \ {p}
  /\ lockfile' = IF lockfile = p THEN Stale ELSE lockfile
  /\ UNCHANGED res

(* The system calls of dotlock_lock() and of dotlock_unlock(). *)
DotStep(p) ==
  \/ CreateFails(p)
  \/ LinkNfs(p) \/ HardLimit(p)
  \/ StatLinked(p) \/ StatNotLinked(p) \/ StatFails(p)
  \/ BreakLock(p)
  \/ Unlock(p)

-----------------------------------------------------------------------------
(* The protocol by itself: any caller, any folder.                          *)

ProcStep(p) ==
  \/ \E ok \in BOOLEAN : Prepare(p, ok)
  \/ DotStep(p)
  \/ \E found, empty \in BOOLEAN : LstatFolder(p, found, empty)
  \/ RemoveFolder(p)

DotNext ==
  \E p \in Procs :
    \/ \E o \in Ops, r \in Retries, m \in Modes : Invoke(p, o, r, m)
    \/ ProcStep(p)
    \/ Crash(p)

(* A process that is in dotlock.c keeps running (it only sleeps for a       *)
(* second now and then); nothing makes it start.                            *)
DotFairness == \A p \in Procs : WF_dotVars(ProcStep(p))

DotSafetySpec == DotInit /\ [][DotNext]_dotVars
DotSpec == DotSafetySpec /\ DotFairness

-----------------------------------------------------------------------------
(* Callers that break no locks and ask for fewer attempts than the hard     *)
(* limit allows.                                                            *)
Polite == Modes \subseteq {"wait"} /\ \A r \in Retries : r < HARDMAXATTEMPTS

(* dotlock_lock() returned DL_EX_OK: "folder.lock" is the caller's own file *)
(* until the caller unlocks, so no two callers hold the lock, however the   *)
(* link(), stat() and unlink() calls of the processes interleave.           *)
DotExclusion == \A p \in granted : lockfile = p

(* A lock file that no process is going to remove any more: a user will have *)
(* to break it by hand.                                                      *)
Orphaned ==
  \/ lockfile = Stale
  \/ \E p \in Procs : lockfile = p /\ p \notin granted /\ pc[p] # "stat"

(* A lock file is orphaned only when its owner dies, or when its stat() or,  *)
(* in an unlock, dotlock_prepare() fails; never because processes overtake   *)
(* or break one another.                                                     *)
NoLockLeak ==
  [][Orphaned' /\ ~Orphaned =>
       \E p \in Procs : Crash(p) \/ StatFails(p) \/ PrepareFails(p)]_dotVars

(* Every invocation of dotlock.c returns: the loop of dotlock_lock() is     *)
(* bounded, also when processes keep taking the lock from one another.      *)
DotTermination == \A p \in Procs : pc[p] # "idle" ~> pc[p] = "idle"

(* Dotlock implements FileLock. *)
LockOwner == IF granted = {} THEN None ELSE CHOOSE p \in granted : TRUE
Lock == INSTANCE FileLock WITH owner <- LockOwner
ImplementsFileLock == Lock!Spec
=============================================================================
