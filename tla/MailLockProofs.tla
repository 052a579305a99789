---------------------------- MODULE MailLockProofs ----------------------------
(***************************************************************************)
(* Proofs about the locks, for any number of processes and any limits.     *)
(* First the dot locks: their state stays well typed, a lock file is       *)
(* orphaned only by a failure, and polite callers exclude one another and  *)
(* so implement FileLock. Then the locks of a folder, with users who may   *)
(* have locks broken, and muttng built with dotlock.c linked in or with    *)
(* the program for it: in the first, a muttng that holds its locks has the *)
(* folder itself open; in both a writer is alone, in the second as long as *)
(* no lock has been broken.                                                *)
(***************************************************************************)
EXTENDS MailLock, TLAPS

(* Who can have been told what at each system call: inside dotlock_lock()   *)
(* the caller does not have the lock, from there on it has.                 *)
CallInv ==
  \A p \in Procs :
    /\ pc[p] \in {"link", "stat", "break"} => p \notin granted /\ call[p].op # "unlock"
    /\ pc[p] \in {"lstat", "rm", "unlock"} => p \in granted
    /\ pc[p] = "prepare" => (p \in granted <=> call[p].op = "unlock")

-----------------------------------------------------------------------------
(* DotTypeOK holds in every state of the protocol. *)
LEMMA DotTypeStep ==
  ASSUME DotTypeOK, NEW p \in Procs
  PROVE  /\ \A o \in Ops, r \in Nat, m \in {"wait", "force"} :
              Invoke(p, o, r, m) => DotTypeOK'
         /\ \A ok \in BOOLEAN : Prepare(p, ok) => DotTypeOK'
         /\ DotStep(p) => DotTypeOK'
         /\ \A found, empty \in BOOLEAN : LstatFolder(p, found, empty) => DotTypeOK'
         /\ RemoveFolder(p) => DotTypeOK'
         /\ Crash(p) => DotTypeOK'
<1> USE DotlockAssumption
<1> USE DEF DotTypeOK, PCs, Ops, Results, Calls, NoCall, CallOf, Goto, Exit
<1>1. ASSUME NEW o \in Ops, NEW r \in Nat, NEW m \in {"wait", "force"},
             Invoke(p, o, r, m)
      PROVE  DotTypeOK'
  BY <1>1 DEF Invoke
<1>2. ASSUME NEW ok \in BOOLEAN, Prepare(p, ok)
      PROVE  DotTypeOK'
  <2>1. CASE PrepareSucceeds(p) BY <2>1 DEF PrepareSucceeds
  <2>2. CASE PrepareFails(p)    BY <2>2 DEF PrepareFails
  <2> QED BY <1>2, <2>1, <2>2 DEF Prepare
<1>3. ASSUME DotStep(p)
      PROVE  DotTypeOK'
  <2>1. ASSUME Grant(p) PROVE DotTypeOK'
    <3>1. CASE call[p].op = "unlink" BY <2>1, <3>1 DEF Grant
    <3>2. CASE call[p].op # "unlink"
      <4>1. Exit(p, "OK") /\ granted' = granted \cup {p} /\ lockfile' = lockfile
        BY <2>1, <3>2 DEF Grant
      <4> QED BY <4>1
    <3> QED BY <3>1, <3>2
  <2>2. CASE CreateFails(p)   BY <2>2 DEF CreateFails
  <2>3. CASE LinkNfs(p)       BY <2>3 DEF LinkNfs
  <2>4. CASE HardLimit(p)     BY <2>1, <2>4 DEF HardLimit
  <2>5. CASE StatLinked(p)    BY <2>1, <2>5 DEF StatLinked
  <2>6. CASE StatNotLinked(p) BY <2>6 DEF StatNotLinked
  <2>7. CASE StatFails(p)     BY <2>7 DEF StatFails
  <2>8. CASE BreakLock(p)     BY <2>8 DEF BreakLock
  <2>9. CASE Unlock(p)        BY <2>9 DEF Unlock
  <2> QED BY <1>3, <2>2, <2>3, <2>4, <2>5, <2>6, <2>7, <2>8, <2>9 DEF DotStep
<1>4. ASSUME NEW found \in BOOLEAN, NEW empty \in BOOLEAN,
             LstatFolder(p, found, empty)
      PROVE  DotTypeOK'
  BY <1>4 DEF LstatFolder
<1>5. ASSUME RemoveFolder(p) PROVE DotTypeOK'
  BY <1>5 DEF RemoveFolder
<1>6. ASSUME Crash(p) PROVE DotTypeOK'
  BY <1>6 DEF Crash
<1> QED BY <1>1, <1>2, <1>3, <1>4, <1>5, <1>6

(* DotTypeOK holds in every state of the protocol. *)
THEOREM DotTyping == DotSafetySpec => []DotTypeOK
<1>1. DotInit => DotTypeOK
  BY DotlockAssumption
     DEF DotInit, DotTypeOK, PCs, Ops, Results, Calls, NoCall, CallOf
<1>2. DotTypeOK /\ [DotNext]_dotVars => DotTypeOK'
  <2> SUFFICES ASSUME DotTypeOK, [DotNext]_dotVars PROVE DotTypeOK'
    OBVIOUS
  <2>1. CASE UNCHANGED dotVars
    BY <2>1 DEF dotVars, DotTypeOK
  <2>2. CASE DotNext
    <3>1. Retries \subseteq Nat /\ Modes \subseteq {"wait", "force"}
      BY DotlockAssumption
    <3> QED BY <2>2, <3>1, DotTypeStep DEF DotNext, ProcStep
  <2> QED BY <2>1, <2>2
<1> QED BY <1>1, <1>2, PTL DEF DotSafetySpec

-----------------------------------------------------------------------------
(* A step of any caller keeps CallInv. *)
LEMMA CallStep ==
  ASSUME DotTypeOK, CallInv, [DotNext]_dotVars
  PROVE  CallInv'
<1> USE DotlockAssumption
<1> USE DEF DotTypeOK, CallInv, PCs, Ops, Results, Calls, NoCall, CallOf, Goto, Exit
<1>1. ASSUME NEW p \in Procs, NEW o \in Ops, NEW r \in Retries,
             NEW m \in Modes, Invoke(p, o, r, m)
      PROVE  CallInv'
  BY <1>1 DEF Invoke
<1>2. ASSUME NEW p \in Procs, NEW ok \in BOOLEAN, Prepare(p, ok)
      PROVE  CallInv'
  <2>1. CASE PrepareSucceeds(p) BY <2>1 DEF PrepareSucceeds
  <2>2. CASE PrepareFails(p)    BY <2>2 DEF PrepareFails
  <2> QED BY <1>2, <2>1, <2>2 DEF Prepare
<1>3. ASSUME NEW p \in Procs, DotStep(p)
      PROVE  CallInv'
  <2>2. CASE CreateFails(p)   BY <2>2 DEF CreateFails
  <2>3. CASE LinkNfs(p)       BY <2>3 DEF LinkNfs
  <2>4. CASE HardLimit(p)
    <3>1. CASE call[p].op = "unlink" BY <2>4, <3>1 DEF HardLimit, Grant
    <3>2. CASE call[p].op # "unlink" BY <2>4, <3>2 DEF HardLimit, Grant
    <3> QED BY <3>1, <3>2
  <2>5. CASE StatLinked(p)
    <3>1. CASE call[p].op = "unlink" BY <2>5, <3>1 DEF StatLinked, Grant
    <3>2. CASE call[p].op # "unlink" BY <2>5, <3>2 DEF StatLinked, Grant
    <3> QED BY <3>1, <3>2
  <2>6. CASE StatNotLinked(p) BY <2>6 DEF StatNotLinked
  <2>7. CASE StatFails(p)     BY <2>7 DEF StatFails
  <2>8. CASE BreakLock(p)     BY <2>8 DEF BreakLock
  <2>9. CASE Unlock(p)        BY <2>9 DEF Unlock
  <2> QED BY <1>3, <2>2, <2>3, <2>4, <2>5, <2>6, <2>7, <2>8, <2>9 DEF DotStep
<1>4. ASSUME NEW p \in Procs, NEW found \in BOOLEAN, NEW empty \in BOOLEAN,
             LstatFolder(p, found, empty)
      PROVE  CallInv'
  BY <1>4 DEF LstatFolder
<1>5. ASSUME NEW p \in Procs, RemoveFolder(p) PROVE CallInv'
  BY <1>5 DEF RemoveFolder
<1>6. ASSUME NEW p \in Procs, Crash(p) PROVE CallInv'
  BY <1>6 DEF Crash
<1>7. CASE UNCHANGED dotVars
  BY <1>7 DEF dotVars
<1>8. ASSUME NEW p \in Procs, ProcStep(p) PROVE CallInv'
  BY <1>2, <1>3, <1>4, <1>5, <1>8 DEF ProcStep
<1> QED BY <1>1, <1>6, <1>7, <1>8 DEF DotNext

LEMMA CallInvariant == DotSafetySpec => []CallInv
<1>1. DotInit => CallInv
  BY DEF DotInit, CallInv
<1>2. DotTypeOK /\ CallInv /\ [DotNext]_dotVars => CallInv'
  BY CallStep
<1> QED BY <1>1, <1>2, DotTyping, PTL DEF DotSafetySpec

(* A lock file is orphaned only by the death of its owner or by one of two  *)
(* failing system calls, even when callers break one another's locks.       *)
THEOREM DotNoLeak == DotSafetySpec => NoLockLeak
<1> DEFINE Fault == \E p \in Procs : Crash(p) \/ StatFails(p) \/ PrepareFails(p)
<1>1. DotTypeOK /\ CallInv /\ [DotNext]_dotVars =>
        [Orphaned' /\ ~Orphaned => Fault]_dotVars
  <2> SUFFICES ASSUME DotTypeOK, CallInv, DotNext, ~Fault, ~Orphaned
               PROVE  ~Orphaned'
    OBVIOUS
  <2> USE DotlockAssumption
  <2> USE DEF Orphaned, DotTypeOK, CallInv, PCs, Ops, Results, Calls, Goto, Exit
  <2>1. ASSUME NEW p \in Procs, NEW o \in Ops, NEW r \in Retries,
               NEW m \in Modes, Invoke(p, o, r, m)
        PROVE  ~Orphaned'
    BY <2>1 DEF Invoke
  <2>2. ASSUME NEW p \in Procs, PrepareSucceeds(p)
        PROVE  ~Orphaned'
    BY <2>2 DEF PrepareSucceeds
  <2>3. ASSUME NEW p \in Procs, DotStep(p)
        PROVE  ~Orphaned'
    <3>1. CASE CreateFails(p)   BY <3>1 DEF CreateFails
    <3>2. CASE LinkNfs(p)       BY <3>2 DEF LinkNfs
    <3>3. CASE HardLimit(p)     BY <3>3 DEF HardLimit, Grant
    <3>4. CASE StatLinked(p)    BY <3>4 DEF StatLinked, Grant
    <3>5. CASE StatNotLinked(p) BY <3>5 DEF StatNotLinked
    <3>6. CASE BreakLock(p)     BY <3>6 DEF BreakLock
    <3>7. CASE Unlock(p)        BY <3>7 DEF Unlock
    <3> QED BY <2>3, <3>1, <3>2, <3>3, <3>4, <3>5, <3>6, <3>7 DEF DotStep
  <2>4. ASSUME NEW p \in Procs, NEW found \in BOOLEAN, NEW empty \in BOOLEAN,
               LstatFolder(p, found, empty) \/ RemoveFolder(p)
        PROVE  ~Orphaned'
    BY <2>4 DEF LstatFolder, RemoveFolder
  <2>5. ASSUME NEW p \in Procs, ProcStep(p) PROVE ~Orphaned'
    BY <2>2, <2>3, <2>4, <2>5 DEF ProcStep, Prepare
  <2> QED BY <2>1, <2>5 DEF DotNext
<1> QED BY <1>1, DotTyping, CallInvariant, PTL DEF DotSafetySpec, NoLockLeak

-----------------------------------------------------------------------------
(* Polite callers: nobody is about to break a lock, the loop counter of     *)
(* dotlock_lock() stays ahead of its hard limit, and whoever left the loop  *)
(* with success owns the lock file.                                         *)
PoliteInv ==
  \A p \in Procs :
    /\ call[p].mode = "wait" /\ call[p].retry < HARDMAXATTEMPTS
    /\ pc[p] # "break"
    /\ pc[p] = "prepare" => call[p].hard = 0 /\ call[p].count = 0
    /\ pc[p] = "link" => /\ call[p].hard = call[p].count
                         /\ call[p].count <= call[p].retry
    /\ pc[p] = "stat" => /\ call[p].hard = call[p].count + 1
                         /\ call[p].count <= call[p].retry
    /\ p \in granted => lockfile = p

(* A step of polite callers keeps PoliteInv. *)
LEMMA PoliteStep ==
  ASSUME Polite, DotTypeOK, CallInv, PoliteInv, [DotNext]_dotVars
  PROVE  PoliteInv'
<1> USE DotlockAssumption
<1> USE DEF DotTypeOK, CallInv, PoliteInv, PCs, Ops, Results, Calls, NoCall, CallOf,
        Goto, Exit
<1>1. ASSUME NEW p \in Procs, NEW o \in Ops, NEW r \in Retries,
             NEW m \in Modes, Invoke(p, o, r, m)
      PROVE  PoliteInv'
  BY <1>1 DEF Invoke, Polite
<1>2. ASSUME NEW p \in Procs, NEW ok \in BOOLEAN, Prepare(p, ok)
      PROVE  PoliteInv'
  <2>1. CASE PrepareSucceeds(p) BY <2>1 DEF PrepareSucceeds
  <2>2. CASE PrepareFails(p)    BY <2>2 DEF PrepareFails
  <2> QED BY <1>2, <2>1, <2>2 DEF Prepare
<1>3. ASSUME NEW p \in Procs, DotStep(p)
      PROVE  PoliteInv'
  <2>2. CASE CreateFails(p)   BY <2>2 DEF CreateFails
  <2>3. CASE LinkNfs(p)       BY <2>3 DEF LinkNfs
  <2>4. CASE HardLimit(p)
    <3>1. CASE call[p].op = "unlink" BY <2>4, <3>1 DEF HardLimit, Grant
    <3>2. CASE call[p].op # "unlink" BY <2>4, <3>2 DEF HardLimit, Grant
    <3> QED BY <3>1, <3>2
  <2>5. CASE StatLinked(p)
    <3>1. CASE call[p].op = "unlink" BY <2>5, <3>1 DEF StatLinked, Grant
    <3>2. CASE call[p].op # "unlink" BY <2>5, <3>2 DEF StatLinked, Grant
    <3> QED BY <3>1, <3>2
  <2>6. CASE StatNotLinked(p) BY <2>6 DEF StatNotLinked
  <2>7. CASE StatFails(p)     BY <2>7 DEF StatFails
  <2>8. CASE BreakLock(p)     BY <2>8 DEF BreakLock
  <2>9. CASE Unlock(p)        BY <2>9 DEF Unlock
  <2> QED BY <1>3, <2>2, <2>3, <2>4, <2>5, <2>6, <2>7, <2>8, <2>9 DEF DotStep
<1>4. ASSUME NEW p \in Procs, NEW found \in BOOLEAN, NEW empty \in BOOLEAN,
             LstatFolder(p, found, empty)
      PROVE  PoliteInv'
  BY <1>4 DEF LstatFolder
<1>5. ASSUME NEW p \in Procs, RemoveFolder(p) PROVE PoliteInv'
  BY <1>5 DEF RemoveFolder
<1>6. ASSUME NEW p \in Procs, Crash(p) PROVE PoliteInv'
  BY <1>6 DEF Crash
<1>7. CASE UNCHANGED dotVars
  BY <1>7 DEF dotVars
<1>8. ASSUME NEW p \in Procs, ProcStep(p) PROVE PoliteInv'
  BY <1>2, <1>3, <1>4, <1>5, <1>8 DEF ProcStep
<1> QED BY <1>1, <1>6, <1>7, <1>8 DEF DotNext

(* The inductive invariant of polite callers. *)
LEMMA PoliteInvariant ==
  ASSUME Polite
  PROVE  DotSafetySpec => [](DotTypeOK /\ CallInv /\ PoliteInv)
<1>1. DotInit => PoliteInv
  <2>1. 0 < HARDMAXATTEMPTS
    BY DotlockAssumption
  <2>2. ASSUME DotInit, NEW p \in Procs
        PROVE  /\ pc[p] = "idle" /\ p \notin granted
               /\ call[p].mode = "wait" /\ call[p].retry = 0
    BY <2>2 DEF DotInit, NoCall, CallOf
  <2> QED BY <2>1, <2>2 DEF PoliteInv
<1>2. DotTypeOK /\ CallInv /\ PoliteInv /\ [DotNext]_dotVars => PoliteInv'
  BY PoliteStep
<1> QED BY <1>1, <1>2, DotTyping, CallInvariant, PTL DEF DotSafetySpec

(* Among polite callers dotlock_lock() is a mutual exclusion: whoever was   *)
(* told DL_EX_OK owns the lock file until it unlocks.                       *)
THEOREM DotMutualExclusion == ASSUME Polite PROVE DotSafetySpec => []DotExclusion
<1>1. DotTypeOK /\ PoliteInv => DotExclusion
  BY DEF DotTypeOK, PoliteInv, DotExclusion
<1> QED BY <1>1, PoliteInvariant, PTL

-----------------------------------------------------------------------------
(* How a step changes the set of processes that hold the lock: a process is *)
(* added only when there is none.                                           *)
LEMMA GrantStep ==
  ASSUME DotTypeOK, CallInv, PoliteInv, [DotNext]_dotVars
  PROVE  \/ granted' = granted
         \/ granted = {} /\ \E p \in Procs : granted' = {p}
         \/ \E p \in Procs : granted' = granted \ {p}
<1>1. ASSUME NEW p \in Procs, NEW ok \in BOOLEAN, Prepare(p, ok)
      PROVE  granted' = granted \/ granted' = granted \ {p}
  BY <1>1 DEF Prepare, PrepareSucceeds, PrepareFails
<1>2. ASSUME NEW p \in Procs, StatLinked(p)
      PROVE  granted = {} /\ granted' = {p}
  <2>1. lockfile = p /\ p \notin granted /\ granted' = granted \cup {p}
    BY <1>2 DEF StatLinked, Grant, CallInv
  <2>2. granted = {}
    BY <2>1 DEF PoliteInv, DotTypeOK
  <2> QED BY <2>1, <2>2
<1>3. ASSUME NEW p \in Procs, HardLimit(p)
      PROVE  FALSE
  <2>1. /\ call[p].hard \in Nat /\ call[p].retry \in Nat /\ call[p].count \in Nat
        /\ HARDMAXATTEMPTS \in Nat
    BY DotlockAssumption DEF DotTypeOK, Calls
  <2>2. call[p].hard <= call[p].retry /\ call[p].retry < HARDMAXATTEMPTS
    BY <1>3, <2>1 DEF HardLimit, PoliteInv
  <2> QED BY <1>3, <2>1, <2>2 DEF HardLimit
<1>4. ASSUME NEW p \in Procs, DotStep(p), ~StatLinked(p)
      PROVE  granted' = granted \/ granted' = granted \ {p}
  BY <1>3, <1>4 DEF DotStep, CreateFails, LinkNfs, StatNotLinked, StatFails,
     BreakLock, Unlock
<1>5. ASSUME NEW p \in Procs, NEW o \in Ops, NEW r \in Retries, NEW m \in Modes,
             Invoke(p, o, r, m)
      PROVE  granted' = granted
  BY <1>5 DEF Invoke
<1>6. ASSUME NEW p \in Procs, NEW found \in BOOLEAN, NEW empty \in BOOLEAN,
             LstatFolder(p, found, empty) \/ RemoveFolder(p)
      PROVE  granted' = granted
  BY <1>6 DEF LstatFolder, RemoveFolder
<1>7. ASSUME NEW p \in Procs, Crash(p)
      PROVE  granted' = granted \ {p}
  BY <1>7 DEF Crash
<1>8. CASE UNCHANGED dotVars
  BY <1>8 DEF dotVars
<1>9. ASSUME NEW p \in Procs, ProcStep(p)
      PROVE  \/ granted' = granted
             \/ granted = {} /\ granted' = {p}
             \/ granted' = granted \ {p}
  BY <1>9, <1>1, <1>2, <1>4, <1>6 DEF ProcStep
<1> QED BY <1>5, <1>7, <1>8, <1>9 DEF DotNext

(* Among polite callers the dot-lock protocol implements FileLock.          *)
THEOREM DotRefinesFileLock == ASSUME Polite PROVE DotSafetySpec => ImplementsFileLock
<1> DEFINE Inv == DotTypeOK /\ CallInv /\ PoliteInv
<1>1. DotInit => Lock!Init
  BY DEF DotInit, Lock!Init, LockOwner
<1>2. Inv /\ Inv' /\ [DotNext]_dotVars => [Lock!Next]_LockOwner
  <2> SUFFICES ASSUME Inv, Inv', [DotNext]_dotVars PROVE [Lock!Next]_LockOwner
    OBVIOUS
  <2>1. CASE granted' = granted
    BY <2>1 DEF LockOwner
  <2>2. CASE granted = {} /\ \E p \in Procs : granted' = {p}
    <3> PICK p \in Procs : granted' = {p}
      BY <2>2
    <3>1. LockOwner = None /\ LockOwner' = p
      BY <2>2 DEF LockOwner
    <3> QED BY <3>1 DEF Lock!Next, Lock!Acquire
  <2>3. CASE \E p \in Procs : granted' = granted \ {p}
    <3> PICK p \in Procs : granted' = granted \ {p}
      BY <2>3
    <3>1. CASE p \notin granted
      <4>1. granted' = granted
        BY <3>1
      <4> QED BY <4>1, <2>1
    <3>2. CASE p \in granted
      <4>1. granted = {p}
        BY <3>2 DEF PoliteInv, DotTypeOK
      <4>2. LockOwner = p /\ LockOwner' = None
        BY <4>1 DEF LockOwner
      <4> QED BY <4>2 DEF Lock!Next, Lock!Release
    <3> QED BY <3>1, <3>2
  <2> QED BY <2>1, <2>2, <2>3, GrantStep
<1>3. DotSafetySpec => []Inv
  BY PoliteInvariant
<1> QED BY <1>1, <1>2, <1>3, PTL DEF DotSafetySpec, ImplementsFileLock, Lock!Spec

-----------------------------------------------------------------------------
(* dotlock_file() has succeeded for p, which has not begun to give its locks *)
(* back.                                                                     *)
Holds(p) ==
  \/ mpc[p] = "locked"
  \/ mpc[p] = "dot" /\ pc[p] = "idle" /\ res[p] = "OK" /\ job[p] # "unlink"

(* p has passed dotlock_prepare() with the folder's file open and has not    *)
(* begun to give its locks back.                                             *)
Guarded(p) ==
  \/ mpc[p] = "locked"
  \/ mpc[p] = "dot" /\ pc[p] \in {"link", "stat", "break", "lstat", "rm"}
  \/ mpc[p] = "dot" /\ pc[p] = "idle" /\ res[p] = "OK" /\ job[p] # "unlink"

(* Two fcntl locks on one file of which one is exclusive. *)
FcntlInv ==
  \A p, q \in Procs :
    p # q /\ fd[p] = fd[q] /\ fcntl[p] = "wr" => fcntl[q] = "none"

(* Where a muttng is in mx.c, where in dotlock.c, and what it has. *)
MuttInv ==
  \A p \in Mutts :
    /\ mpc[p] \in {"idle", "fcntl", "locked"} => pc[p] = "idle"
    /\ mpc[p] \in {"fcntl", "dot", "locked"} => fd[p] # 0 /\ job[p] \in AllJobs
    /\ mpc[p] \in {"dot", "locked"} =>
         fcntl[p] = IF Excl(job[p]) THEN "wr" ELSE "rd"
    /\ mpc[p] \in {"idle", "fcntl", "undot"} => fcntl[p] = "none"
    /\ mpc[p] = "locked" => job[p] # "unlink"
    /\ mpc[p] = "dot" /\ pc[p] # "idle" =>
         call[p].op = IF job[p] = "unlink" THEN "unlink" ELSE "lock"
    /\ mpc[p] = "dot" /\ pc[p] \in {"lstat", "rm", "unlock"} => job[p] = "unlink"
    /\ mpc[p] = "undot" => pc[p] \in {"idle", "prepare", "unlock"}
    /\ mpc[p] = "undot" /\ pc[p] # "idle" => call[p].op = "unlock"
    /\ build = "internal" /\ Guarded(p) => fd[p] = path
    /\ Holds(p) => p \in granted

(* A script has no file open in muttng's sense and never removes the folder. *)
ScriptInv ==
  \A p \in Scripts :
    /\ fcntl[p] = "none"
    /\ pc[p] \notin {"lstat", "rm"}
    /\ pc[p] # "idle" => call[p].op # "unlink"

IndInv == TypeOK /\ FcntlInv /\ MuttInv /\ ScriptInv

-----------------------------------------------------------------------------
(* Facts about the constants and operators that every step needs. *)
LEMMA Consts ==
  /\ Mutts \subseteq Procs /\ Scripts \subseteq Procs /\ Procs = Mutts \cup Scripts
  /\ \A p \in Mutts : p \notin Scripts
  /\ MAXLOCKATTEMPT \in Nat /\ \A j : Timeout(j) \in Nat
  /\ MaxInode \in Nat \ {0} /\ MaxSize \in Nat
  /\ Jobs \subseteq AllJobs
BY MailLockAssumption DEF Mutts, Timeout

(* dotlock_invoke() keeps the types of dotlock.c. *)
LEMMA InvokeTypes ==
  ASSUME DotTypeOK, NEW p \in Procs, NEW o \in Ops, NEW r \in Nat,
         NEW m \in {"wait", "force"}, Invoke(p, o, r, m)
  PROVE  DotTypeOK'
BY DotTypeStep

(* muttng opens the folder. *)
LEMMA OpenStep ==
  ASSUME IndInv, NEW p \in Mutts, NEW j \in Jobs, Open(p, j)
  PROVE  IndInv'
<1> USE Consts DEF IndInv, TypeOK
<1>1. DotTypeOK'
  BY DEF Open, dotVars, DotTypeOK
<1>2. MailTypeOK'
  BY DEF Open, MGoto, MailTypeOK, MailPCs, AllJobs
<1>3. FcntlInv'
  BY DEF Open, FcntlInv, MailTypeOK, MuttInv
<1>4. MuttInv'
  BY DEF Open, dotVars, MGoto, MuttInv, Guarded, Holds, MailTypeOK, DotTypeOK
<1>5. ScriptInv'
  BY DEF Open, dotVars, ScriptInv, MailTypeOK, DotTypeOK
<1> QED BY <1>1, <1>2, <1>3, <1>4, <1>5

(* muttng creates the folder: nobody had it locked, as it did not exist. *)
LEMMA OpenNewStep ==
  ASSUME IndInv, NEW p \in Mutts, OpenNew(p)
  PROVE  IndInv'
<1> USE Consts DEF IndInv, TypeOK
<1>1. DotTypeOK'
  BY DEF OpenNew, dotVars, DotTypeOK
<1>2. MailTypeOK'
  BY DEF OpenNew, MGoto, MailTypeOK, MailPCs, AllJobs
<1>3. FcntlInv'
  BY DEF OpenNew, FcntlInv, MailTypeOK, MuttInv
<1>4. MuttInv'
  BY DEF OpenNew, dotVars, MGoto, MuttInv, Guarded, Holds, MailTypeOK, DotTypeOK
<1>5. ScriptInv'
  BY DEF OpenNew, dotVars, ScriptInv, MailTypeOK, DotTypeOK
<1> QED BY <1>1, <1>2, <1>3, <1>4, <1>5

(* muttng gets its fcntl lock and calls dotlock.c. *)
LEMMA FcntlLockStep ==
  ASSUME IndInv, NEW p \in Mutts, FcntlLock(p)
  PROVE  IndInv'
<1> USE Consts DEF IndInv, TypeOK
<1>1. DotTypeOK'
  <2>1. (IF job[p] = "unlink" THEN "unlink" ELSE "lock") \in Ops
    BY DEF Ops
  <2> QED BY <2>1, InvokeTypes DEF FcntlLock
<1>2. MailTypeOK'
  BY DEF FcntlLock, MGoto, MailTypeOK, MailPCs, AllJobs
<1>3. FcntlInv'
  BY DEF FcntlLock, FcntlInv, MailTypeOK, MuttInv, Conflict, Excl
<1>4. MuttInv'
  BY DEF FcntlLock, Invoke, CallOf, Goto, MGoto, MuttInv, Guarded, Holds, MailTypeOK, DotTypeOK, Excl
<1>5. ScriptInv'
  BY DEF FcntlLock, Invoke, CallOf, Goto, ScriptInv, MailTypeOK, DotTypeOK
<1> QED BY <1>1, <1>2, <1>3, <1>4, <1>5

(* muttng gives up locking. *)
LEMMA FcntlErrorStep ==
  ASSUME IndInv, NEW p \in Mutts, FcntlError(p)
  PROVE  IndInv'
<1> USE Consts DEF IndInv, TypeOK
<1>1. DotTypeOK'
  BY DEF FcntlError, dotVars, DotTypeOK
<1>2. MailTypeOK'
  BY DEF FcntlError, MGoto, MailTypeOK, MailPCs, AllJobs, Close
<1>3. FcntlInv'
  BY DEF FcntlError, FcntlInv, MailTypeOK, MuttInv, Close
<1>4. MuttInv'
  BY DEF FcntlError, dotVars, Close, MGoto, MuttInv, Guarded, Holds, MailTypeOK, DotTypeOK
<1>5. ScriptInv'
  BY DEF FcntlError, dotVars, Close, ScriptInv, MailTypeOK, DotTypeOK
<1> QED BY <1>1, <1>2, <1>3, <1>4, <1>5

(* muttng waits for an fcntl lock, or gives up. *)
LEMMA FcntlBusyStep ==
  ASSUME IndInv, NEW p \in Mutts, FcntlBusy(p)
  PROVE  IndInv'
<1> USE Consts DEF IndInv, TypeOK
<1>1. DotTypeOK'
  BY DEF FcntlBusy, dotVars, DotTypeOK
<1>2. MailTypeOK'
  <2>1. mpc[p] = "fcntl" /\ fd[p] \in Inode
    BY DEF FcntlBusy, MuttInv, MailTypeOK, Inode
  <2>2. size[fd[p]] \in 0..MaxSize
    BY <2>1 DEF MailTypeOK
  <2>3. CASE Close(p) /\ UNCHANGED <<path, inodes, size, broken, build>>
    BY <2>3 DEF Close, MGoto, MailTypeOK, MailPCs, AllJobs
  <2>4. CASE /\ \E n \in Nat : tries' = [tries EXCEPT ![p] = n]
             /\ seen' = [seen EXCEPT ![p] = size[fd[p]]]
             /\ UNCHANGED <<path, inodes, size, mpc, fd, fcntl, job, asked, broken, build>>
    BY <2>2, <2>4 DEF MailTypeOK
  <2>5. tries[p] \in Nat /\ tries[p] + 1 \in Nat
    BY DEF MailTypeOK
  <2> QED BY <2>3, <2>4, <2>5 DEF FcntlBusy
<1>3. FcntlInv'
  BY DEF FcntlBusy, FcntlInv, MailTypeOK, MuttInv, Close
<1>4. MuttInv'
  BY DEF FcntlBusy, dotVars, Close, MGoto, MuttInv, Guarded, Holds, MailTypeOK, DotTypeOK
<1>5. ScriptInv'
  BY DEF FcntlBusy, dotVars, Close, ScriptInv, MailTypeOK, DotTypeOK
<1> QED BY <1>1, <1>2, <1>3, <1>4, <1>5

(* mx_lock_file() returns with both locks. *)
LEMMA DotLockedStep ==
  ASSUME IndInv, NEW p \in Mutts, DotLocked(p)
  PROVE  IndInv'
<1> USE Consts DEF IndInv, TypeOK
<1>1. DotTypeOK'
  BY DEF DotLocked, dotVars, DotTypeOK
<1>2. MailTypeOK'
  BY DEF DotLocked, MGoto, MailTypeOK, MailPCs, AllJobs
<1>3. FcntlInv'
  BY DEF DotLocked, FcntlInv, MailTypeOK, MuttInv
<1>4. MuttInv'
  BY DEF DotLocked, dotVars, MGoto, MuttInv, Guarded, Holds, MailTypeOK, DotTypeOK
<1>5. ScriptInv'
  BY DEF DotLocked, dotVars, ScriptInv, MailTypeOK, DotTypeOK
<1> QED BY <1>1, <1>2, <1>3, <1>4, <1>5

(* The user has the dot lock broken. *)
LEMMA DotForceStep ==
  ASSUME IndInv, NEW p \in Mutts, DotForce(p)
  PROVE  IndInv'
<1> USE Consts DEF IndInv, TypeOK
<1>1. DotTypeOK'
  BY InvokeTypes DEF DotForce, Ops
<1>2. MailTypeOK'
  BY DEF DotForce, MGoto, MailTypeOK, MailPCs, AllJobs
<1>3. FcntlInv'
  BY DEF DotForce, FcntlInv, MailTypeOK, MuttInv
<1>4. MuttInv'
  BY DEF DotForce, Invoke, CallOf, Goto, MGoto, MuttInv, Guarded, Holds, MailTypeOK, DotTypeOK
<1>5. ScriptInv'
  BY DEF DotForce, Invoke, CallOf, Goto, ScriptInv, MailTypeOK, DotTypeOK
<1> QED BY <1>1, <1>2, <1>3, <1>4, <1>5

(* mx_lock_file() fails, or mx_unlink_empty() ends. *)
LEMMA DotFailedStep ==
  ASSUME IndInv, NEW p \in Mutts, DotFailed(p)
  PROVE  IndInv'
<1> USE Consts DEF IndInv, TypeOK
<1>1. DotTypeOK'
  BY DEF DotFailed, Seen, DotTypeOK, Results
<1>2. MailTypeOK'
  BY DEF DotFailed, MGoto, MailTypeOK, MailPCs, AllJobs, Close
<1>3. FcntlInv'
  BY DEF DotFailed, FcntlInv, MailTypeOK, MuttInv, Close
<1>4. MuttInv'
  BY DEF DotFailed, Seen, Close, MGoto, MuttInv, Guarded, Holds, MailTypeOK, DotTypeOK
<1>5. ScriptInv'
  BY DEF DotFailed, Seen, Close, ScriptInv, MailTypeOK, DotTypeOK
<1> QED BY <1>1, <1>2, <1>3, <1>4, <1>5

(* A message is appended. *)
LEMMA AppendStep ==
  ASSUME IndInv, NEW p \in Mutts, Append(p)
  PROVE  IndInv'
<1> USE Consts DEF IndInv, TypeOK
<1>1. DotTypeOK'
  BY DEF Append, dotVars, DotTypeOK
<1>2. MailTypeOK'
  <2>1. mpc[p] = "locked" /\ fd[p] \in Inode
    BY DEF Append, MuttInv, MailTypeOK, Inode
  <2>2. size[fd[p]] + 1 \in 0..MaxSize
    BY <2>1 DEF Append, MailTypeOK
  <2> QED BY <2>1, <2>2 DEF Append, MailTypeOK
<1>3. FcntlInv'
  BY DEF Append, FcntlInv, MailTypeOK, MuttInv
<1>4. MuttInv'
  BY DEF Append, dotVars, MGoto, MuttInv, Guarded, Holds, MailTypeOK, DotTypeOK
<1>5. ScriptInv'
  BY DEF Append, dotVars, ScriptInv, MailTypeOK, DotTypeOK
<1> QED BY <1>1, <1>2, <1>3, <1>4, <1>5

(* The folder is written back with a message less. *)
LEMMA RewriteStep ==
  ASSUME IndInv, NEW p \in Mutts, Rewrite(p)
  PROVE  IndInv'
<1> USE Consts DEF IndInv, TypeOK
<1>1. DotTypeOK'
  BY DEF Rewrite, dotVars, DotTypeOK
<1>2. MailTypeOK'
  <2>1. mpc[p] = "locked" /\ fd[p] \in Inode
    BY DEF Rewrite, MuttInv, MailTypeOK, Inode
  <2>2. size[fd[p]] - 1 \in 0..MaxSize
    BY <2>1 DEF Rewrite, MailTypeOK
  <2> QED BY <2>1, <2>2 DEF Rewrite, MailTypeOK
<1>3. FcntlInv'
  BY DEF Rewrite, FcntlInv, MailTypeOK, MuttInv
<1>4. MuttInv'
  BY DEF Rewrite, dotVars, MGoto, MuttInv, Guarded, Holds, MailTypeOK, DotTypeOK
<1>5. ScriptInv'
  BY DEF Rewrite, dotVars, ScriptInv, MailTypeOK, DotTypeOK
<1> QED BY <1>1, <1>2, <1>3, <1>4, <1>5

(* muttng begins to unlock the folder. *)
LEMMA UnlockFcntlStep ==
  ASSUME IndInv, NEW p \in Mutts, UnlockFcntl(p)
  PROVE  IndInv'
<1> USE Consts DEF IndInv, TypeOK
<1>1. DotTypeOK'
  BY InvokeTypes DEF UnlockFcntl, Ops
<1>2. MailTypeOK'
  BY DEF UnlockFcntl, MGoto, MailTypeOK, MailPCs, AllJobs
<1>3. FcntlInv'
  BY DEF UnlockFcntl, FcntlInv, MailTypeOK, MuttInv
<1>4. MuttInv'
  BY DEF UnlockFcntl, Invoke, CallOf, Goto, MGoto, MuttInv, Guarded, Holds, MailTypeOK, DotTypeOK
<1>5. ScriptInv'
  BY DEF UnlockFcntl, Invoke, CallOf, Goto, ScriptInv, MailTypeOK, DotTypeOK
<1> QED BY <1>1, <1>2, <1>3, <1>4, <1>5

(* mx_unlock_file() returns. *)
LEMMA UndottedStep ==
  ASSUME IndInv, NEW p \in Mutts, Undotted(p)
  PROVE  IndInv'
<1> USE Consts DEF IndInv, TypeOK
<1>1. DotTypeOK'
  BY DEF Undotted, Seen, DotTypeOK, Results
<1>2. MailTypeOK'
  BY DEF Undotted, MGoto, MailTypeOK, MailPCs, AllJobs, Close
<1>3. FcntlInv'
  BY DEF Undotted, FcntlInv, MailTypeOK, MuttInv, Close
<1>4. MuttInv'
  BY DEF Undotted, Seen, Close, MGoto, MuttInv, Guarded, Holds, MailTypeOK, DotTypeOK
<1>5. ScriptInv'
  BY DEF Undotted, Seen, Close, ScriptInv, MailTypeOK, DotTypeOK
<1> QED BY <1>1, <1>2, <1>3, <1>4, <1>5

(* muttng is killed. *)
LEMMA MuttCrashStep ==
  ASSUME IndInv, NEW p \in Mutts, MuttCrash(p)
  PROVE  IndInv'
<1> USE Consts DEF IndInv, TypeOK
<1>1. DotTypeOK'
  BY DotTypeStep DEF MuttCrash, dotVars, DotTypeOK
<1>2. MailTypeOK'
  BY DEF MuttCrash, MGoto, MailTypeOK, MailPCs, AllJobs, Close
<1>3. FcntlInv'
  BY DEF MuttCrash, FcntlInv, MailTypeOK, MuttInv, Close
<1>4. MuttInv'
  BY DEF MuttCrash, dotVars, Crash, Goto, Close, MGoto, MuttInv, Guarded, Holds, MailTypeOK, DotTypeOK
<1>5. ScriptInv'
  BY DEF MuttCrash, dotVars, Crash, Goto, Close, ScriptInv, MailTypeOK, DotTypeOK
<1> QED BY <1>1, <1>2, <1>3, <1>4, <1>5

-----------------------------------------------------------------------------
(* A system call of dotlock.c that leaves the folder alone, in a muttng.     *)
LEMMA MuttDotStep ==
  ASSUME IndInv, NEW p \in Mutts, pc[p] # "idle",
         UNCHANGED <<path, inodes, size, fd, fcntl, job, mpc, tries, seen, asked, build>>,
         broken' \in {"no", "yes"},
         \/ Prepare(p, SameFile(p))
         \/ DotStep(p)
         \/ LstatFolder(p, path # 0, path # 0 /\ size[path] = 0)
  PROVE  IndInv'
<1> USE Consts DEF IndInv, TypeOK
<1>1. DotTypeOK'
  <2>1. SameFile(p) \in BOOLEAN
    BY DEF SameFile
  <2>2. (path # 0) \in BOOLEAN /\ (path # 0 /\ size[path] = 0) \in BOOLEAN
    OBVIOUS
  <2> QED BY <2>1, <2>2, DotTypeStep
<1>2. MailTypeOK'
  BY DEF MailTypeOK
<1>3. FcntlInv'
  BY DEF FcntlInv
<1>4. MuttInv'
  <2> USE DEF MuttInv, Guarded, Holds, Goto, Exit, DotTypeOK, PCs
  <2>1. CASE PrepareSucceeds(p) /\ (build = "internal" => fd[p] = path)
    BY <2>1 DEF PrepareSucceeds
  <2>2. CASE PrepareFails(p)
    BY <2>2 DEF PrepareFails
  <2>3. CASE CreateFails(p)   BY <2>3 DEF CreateFails
  <2>4. CASE LinkNfs(p)       BY <2>4 DEF LinkNfs, Calls
  <2>5. CASE HardLimit(p)     BY <2>5 DEF HardLimit, Grant
  <2>6. CASE StatLinked(p)    BY <2>6 DEF StatLinked, Grant
  <2>7. CASE StatNotLinked(p) BY <2>7 DEF StatNotLinked, Calls
  <2>8. CASE StatFails(p)     BY <2>8 DEF StatFails
  <2>9. CASE BreakLock(p)     BY <2>9 DEF BreakLock, Calls
  <2>10. CASE Unlock(p)       BY <2>10 DEF Unlock
  <2>11. CASE LstatFolder(p, path # 0, path # 0 /\ size[path] = 0)
    BY <2>11 DEF LstatFolder
  <2> QED BY <2>1, <2>2, <2>3, <2>4, <2>5, <2>6, <2>7, <2>8, <2>9, <2>10, <2>11
             DEF Prepare, DotStep, SameFile
<1>5. ScriptInv'
  BY DEF ScriptInv, DotTypeOK, Prepare, PrepareSucceeds, PrepareFails, DotStep,
     CreateFails, LinkNfs, HardLimit, Grant, StatLinked, StatNotLinked, StatFails,
     BreakLock, Unlock, LstatFolder, Goto, Exit
<1> QED BY <1>1, <1>2, <1>3, <1>4, <1>5

(* mx_unlink_empty() removes the folder: it has the folder's file locked     *)
(* exclusively, so nobody else is guarded.                                   *)
LEMMA MuttRemoveStep ==
  ASSUME IndInv, NEW p \in Mutts, RemoveFolder(p), path' = 0,
         UNCHANGED <<inodes, size, fd, fcntl, job, mpc, tries, seen, asked, broken, build>>
  PROVE  IndInv'
<1> USE Consts DEF IndInv, TypeOK
<1>1. DotTypeOK'
  BY DotTypeStep
<1>2. MailTypeOK'
  BY DEF MailTypeOK
<1>3. FcntlInv'
  BY DEF FcntlInv
<1>4. /\ mpc[p] = "dot" /\ fcntl[p] = "wr"
      /\ build = "internal" => fd[p] = path
  <2>1. pc[p] = "rm"
    BY DEF RemoveFolder
  <2>2. mpc[p] = "dot"
    BY <2>1 DEF MuttInv, MailTypeOK, MailPCs
  <2>3. job[p] = "unlink" /\ Guarded(p)
    BY <2>1, <2>2 DEF MuttInv, Guarded
  <2> QED BY <2>2, <2>3 DEF MuttInv, Excl
<1>5. ASSUME NEW q \in Mutts, q # p, build = "internal" PROVE ~Guarded(q)
  <2>1. ASSUME Guarded(q) PROVE fcntl[q] # "none" /\ fd[q] = path
    BY <1>5, <2>1 DEF Guarded, MuttInv
  <2> QED BY <1>4, <1>5, <2>1 DEF FcntlInv
<1>6. MuttInv'
  BY <1>4, <1>5 DEF RemoveFolder, Goto, MuttInv, Guarded, Holds, DotTypeOK
<1>7. ScriptInv'
  BY DEF ScriptInv, RemoveFolder, Goto, DotTypeOK
<1> QED BY <1>1, <1>2, <1>3, <1>6, <1>7

(* The system calls of dotlock.c in a muttng.                                *)
LEMMA MuttDotRuns ==
  ASSUME IndInv, NEW p \in Mutts, DotRuns(p)
  PROVE  IndInv'
<1>1. CASE RemoveFolder(p)
  <2>1. path' = 0 /\ broken' = broken
    BY <1>1 DEF DotRuns, RemoveFolder, Prepare, PrepareSucceeds, PrepareFails,
       DotStep, CreateFails, LinkNfs, HardLimit, StatLinked, StatNotLinked,
       StatFails, BreakLock, Unlock, LstatFolder
  <2> QED BY <1>1, <2>1, MuttRemoveStep DEF DotRuns
<1>2. CASE ~RemoveFolder(p)
  <2>1. broken' \in {"no", "yes"} /\ path' = path
    BY <1>2 DEF DotRuns, IndInv, TypeOK, MailTypeOK
  <2> QED BY <1>2, <2>1, MuttDotStep DEF DotRuns
<1> QED BY <1>1, <1>2

(* Everything a script does. *)
LEMMA ScriptStep ==
  ASSUME IndInv, NEW p \in Scripts, ScriptNext(p)
  PROVE  IndInv'
<1> USE Consts DEF IndInv, TypeOK
<1>1. ASSUME NEW o \in {"lock", "unlock"}, NEW r \in Retries, NEW m \in Modes,
             Invoke(p, o, r, m), UNCHANGED mailVars
      PROVE  IndInv'
  <2>1. o \in Ops /\ r \in Nat /\ m \in {"wait", "force"}
    BY DotlockAssumption DEF Ops
  <2>2. DotTypeOK'
    BY <1>1, <2>1, InvokeTypes
  <2>3. MailTypeOK' /\ FcntlInv'
    BY <1>1 DEF mailVars, MailTypeOK, FcntlInv
  <2>4. MuttInv'
    BY <1>1 DEF mailVars, MuttInv, Guarded, Holds, Invoke, Goto, DotTypeOK
  <2>5. ScriptInv'
    BY <1>1 DEF mailVars, ScriptInv, Invoke, CallOf, Goto, DotTypeOK
  <2> QED BY <2>2, <2>3, <2>4, <2>5
<1>2. CASE DotRuns(p)
  <2>1. ~RemoveFolder(p) /\ ~LstatFolder(p, path # 0, path # 0 /\ size[path] = 0)
    BY DEF ScriptInv, RemoveFolder, LstatFolder
  <2>2. /\ Prepare(p, SameFile(p)) \/ DotStep(p)
        /\ UNCHANGED <<path, inodes, size, fd, fcntl, job, mpc, tries, seen, asked, build>>
        /\ broken' \in {"no", "yes"}
    BY <1>2, <2>1 DEF DotRuns, MailTypeOK
  <2>3. DotTypeOK'
    <3>1. SameFile(p) \in BOOLEAN
      BY DEF SameFile
    <3> QED BY <2>2, <3>1, DotTypeStep
  <2>4. MailTypeOK' /\ FcntlInv'
    BY <2>2 DEF MailTypeOK, FcntlInv
  <2>5. MuttInv'
    BY <2>2 DEF MuttInv, Guarded, Holds, DotTypeOK, Prepare, PrepareSucceeds, PrepareFails,
       DotStep, CreateFails, LinkNfs, HardLimit, Grant, StatLinked, StatNotLinked,
       StatFails, BreakLock, Unlock, Goto, Exit
  <2>6. ScriptInv'
    <3> USE <2>2 DEF ScriptInv, DotTypeOK, Goto, Exit, NoCall, CallOf
    <3>1. CASE Prepare(p, SameFile(p))
      BY <3>1 DEF Prepare, PrepareSucceeds, PrepareFails
    <3>2. CASE CreateFails(p)   BY <3>2 DEF CreateFails
    <3>3. CASE LinkNfs(p)       BY <3>3 DEF LinkNfs, Calls
    <3>4. CASE HardLimit(p)     BY <3>4 DEF HardLimit, Grant
    <3>5. CASE StatLinked(p)    BY <3>5 DEF StatLinked, Grant
    <3>6. CASE StatNotLinked(p) BY <3>6 DEF StatNotLinked, Calls
    <3>7. CASE StatFails(p)     BY <3>7 DEF StatFails
    <3>8. CASE BreakLock(p)     BY <3>8 DEF BreakLock, Calls
    <3>9. CASE Unlock(p)        BY <3>9 DEF Unlock
    <3> QED BY <3>1, <3>2, <3>3, <3>4, <3>5, <3>6, <3>7, <3>8, <3>9 DEF DotStep
  <2> QED BY <2>3, <2>4, <2>5, <2>6
<1>3. CASE ScriptDeliver(p)
  <2>1. DotTypeOK' /\ FcntlInv' /\ ScriptInv'
    BY <1>3 DEF ScriptDeliver, dotVars, DotTypeOK, FcntlInv, ScriptInv
  <2>2. MailTypeOK'
    <3>1. CASE path # 0
      <4>1. path \in Inode
        BY <3>1 DEF MailTypeOK, Inode
      <4>2. size[path] \in Nat
        BY <4>1 DEF MailTypeOK
      <4>3. size' = [size EXCEPT ![path] = @ + 1] /\ size[path] + 1 \in 0..MaxSize
        BY <1>3, <3>1, <4>2 DEF ScriptDeliver
      <4> QED BY <1>3, <3>1, <4>1, <4>3 DEF ScriptDeliver, MailTypeOK
    <3>2. CASE path = 0
      <4>1. inodes + 1 \in Inode /\ inodes + 1 \in 0..MaxInode /\ 1 \in 0..MaxSize
        BY <1>3, <3>2 DEF ScriptDeliver, MailTypeOK, Inode
      <4> QED BY <1>3, <3>2, <4>1 DEF ScriptDeliver, MailTypeOK
    <3> QED BY <3>1, <3>2
  <2>3. MuttInv'
    BY <1>3 DEF ScriptDeliver, dotVars, MuttInv, Guarded, Holds
  <2> QED BY <2>1, <2>2, <2>3
<1>4. CASE ScriptCrash(p)
  <2>1. DotTypeOK'
    BY <1>4, DotTypeStep DEF ScriptCrash
  <2>2. MailTypeOK' /\ FcntlInv'
    BY <1>4 DEF ScriptCrash, mailVars, MailTypeOK, FcntlInv
  <2>3. MuttInv'
    BY <1>4 DEF ScriptCrash, mailVars, MuttInv, Guarded, Holds, Crash, Goto, DotTypeOK
  <2>4. ScriptInv'
    BY <1>4 DEF ScriptCrash, mailVars, ScriptInv, Crash, Goto, DotTypeOK
  <2> QED BY <2>1, <2>2, <2>3, <2>4
<1> QED BY <1>1, <1>2, <1>3, <1>4 DEF ScriptNext, ScriptInvoke

-----------------------------------------------------------------------------
(* The inductive invariant of folder locking. *)
LEMMA MailLockInvariant == SafetySpec => []IndInv
<1>1. Init => IndInv
  <2> SUFFICES ASSUME Init PROVE IndInv
    OBVIOUS
  <2> USE Consts DEF Init, DotInit, MailInit
  <2>1. DotTypeOK
    BY DotlockAssumption DEF DotTypeOK, PCs, Ops, Results, Calls, NoCall, CallOf
  <2>2. MailTypeOK
    BY DEF MailTypeOK, Inode, AllJobs, MailPCs
  <2>3. FcntlInv /\ MuttInv /\ ScriptInv
    BY DEF FcntlInv, MuttInv, Guarded, Holds, ScriptInv
  <2> QED BY <2>1, <2>2, <2>3 DEF IndInv, TypeOK
<1>2. IndInv /\ [Next]_vars => IndInv'
  <2> SUFFICES ASSUME IndInv, [Next]_vars PROVE IndInv'
    OBVIOUS
  <2>1. ASSUME NEW p \in Mutts, MuttNext(p) PROVE IndInv'
    BY <2>1, OpenStep, OpenNewStep, FcntlLockStep, FcntlBusyStep, FcntlErrorStep,
       MuttDotRuns, DotLockedStep, DotForceStep, DotFailedStep, UndottedStep,
       AppendStep, RewriteStep, UnlockFcntlStep, MuttCrashStep DEF MuttNext, MuttStep
  <2>2. ASSUME NEW p \in Scripts, ScriptNext(p) PROVE IndInv'
    BY <2>2, ScriptStep
  <2>3. CASE UNCHANGED vars
    BY <2>3 DEF vars, dotVars, mailVars, IndInv, TypeOK, DotTypeOK, MailTypeOK,
       FcntlInv, MuttInv, Guarded, Holds, ScriptInv
  <2> QED BY <2>1, <2>2, <2>3 DEF Next
<1> QED BY <1>1, <1>2, PTL DEF SafetySpec

(* The types of the composed model. *)
THEOREM MailLockTyping == SafetySpec => []TypeOK
<1>1. IndInv => TypeOK
  BY DEF IndInv
<1> QED BY <1>1, MailLockInvariant, PTL

(* A muttng with dotlock.c linked in that holds its locks has the folder     *)
(* itself open: whatever it appends is in the folder afterwards.             *)
THEOREM LockedIsFolder == SafetySpec => []LockedFileIsFolder
<1>1. IndInv => LockedFileIsFolder
  BY DEF IndInv, MuttInv, Guarded, Holds, LockedFileIsFolder
<1> QED BY <1>1, MailLockInvariant, PTL

-----------------------------------------------------------------------------
(* Callers that ask for fewer attempts than the hard limit of dotlock_lock() *)
(* allows, as muttng does (5 of 10); they may break locks.                   *)
Patient == MAXLOCKATTEMPT < HARDMAXATTEMPTS /\ \A r \in Retries : r < HARDMAXATTEMPTS

(* As long as no lock has been broken, the loop of dotlock_lock() stays      *)
(* ahead of its hard limit, and who has left it with success owns the lock   *)
(* file.                                                                     *)
OwnerInv ==
  \A p \in Procs :
    /\ call[p].retry < HARDMAXATTEMPTS
    /\ pc[p] = "prepare" => call[p].hard = 0 /\ call[p].count = 0
    /\ pc[p] = "link" => call[p].hard = call[p].count /\ call[p].count <= call[p].retry
    /\ pc[p] = "stat" => call[p].hard = call[p].count + 1 /\ call[p].count <= call[p].retry
    /\ p \in granted => lockfile = p

(* A folder that is going to be removed is empty. *)
EmptyInv == \A p \in Mutts : pc[p] = "rm" => path # 0 /\ size[path] = 0

RemovalInv == CallInv /\ (broken = "no" => OwnerInv /\ EmptyInv)

(* dotlock.c is called, *)
LEMMA InvokeOwner ==
  ASSUME DotTypeOK, CallInv, NEW p \in Procs, NEW o \in Ops, NEW r \in Nat,
         NEW m \in {"wait", "force"}, Invoke(p, o, r, m)
  PROVE  CallInv' /\ (OwnerInv /\ r < HARDMAXATTEMPTS => OwnerInv')
<1>1. CallInv' BY DEF Invoke, CallOf, Goto, CallInv, DotTypeOK
<1>2. OwnerInv /\ r < HARDMAXATTEMPTS => OwnerInv'
  BY DEF Invoke, CallOf, Goto, OwnerInv, DotTypeOK
<1>. QED BY <1>1, <1>2

(* and runs. *)
LEMMA RunOwner ==
  ASSUME DotTypeOK, CallInv, OwnerInv, NEW p \in Procs, pc[p] # "break",
         ProcStep(p) \/ Crash(p)
  PROVE  OwnerInv'
<1> USE DotlockAssumption
<1> USE DEF DotTypeOK, CallInv, OwnerInv, PCs, Ops, Results, Calls, NoCall, CallOf, Goto, Exit
<1>2. ASSUME NEW ok \in BOOLEAN, Prepare(p, ok) PROVE OwnerInv'
  <2>1. CASE PrepareSucceeds(p) BY <2>1 DEF PrepareSucceeds
  <2>2. CASE PrepareFails(p)    BY <2>2 DEF PrepareFails
  <2> QED BY <1>2, <2>1, <2>2 DEF Prepare
<1>3. CASE DotStep(p)
  <2>1. ~HardLimit(p)
    <3>1. call[p].hard \in Nat /\ call[p].retry \in Nat /\ call[p].count \in Nat OBVIOUS
    <3>. QED BY <3>1 DEF HardLimit
  <2>2. CASE CreateFails(p)   BY <2>2 DEF CreateFails
  <2>3. CASE LinkNfs(p)       BY <2>3 DEF LinkNfs
  <2>5. CASE StatLinked(p)
    <3>1. CASE call[p].op = "unlink" BY <2>5, <3>1 DEF StatLinked, Grant
    <3>2. CASE call[p].op # "unlink" BY <2>5, <3>2 DEF StatLinked, Grant
    <3> QED BY <3>1, <3>2
  <2>6. CASE StatNotLinked(p) BY <2>6 DEF StatNotLinked
  <2>7. CASE StatFails(p)     BY <2>7 DEF StatFails
  <2>8. ~BreakLock(p)         BY DEF BreakLock
  <2>9. CASE Unlock(p)        BY <2>9 DEF Unlock
  <2> QED BY <1>3, <2>1, <2>2, <2>3, <2>5, <2>6, <2>7, <2>8, <2>9 DEF DotStep
<1>4. ASSUME NEW found \in BOOLEAN, NEW empty \in BOOLEAN, LstatFolder(p, found, empty)
      PROVE  OwnerInv'
  BY <1>4 DEF LstatFolder
<1>5. CASE RemoveFolder(p) BY <1>5 DEF RemoveFolder
<1>6. CASE Crash(p) BY <1>6 DEF Crash
<1> QED BY <1>2, <1>3, <1>4, <1>5, <1>6 DEF ProcStep

(* What DotRuns and the ends of processes are in dotlock.c's own terms *)
LEMMA RunsAreSteps ==
  ASSUME NEW p \in Procs, DotRuns(p)
  PROVE  ProcStep(p) /\ (pc[p] = "break" => broken' = "yes")
         /\ (pc[p] # "break" => broken' = broken)
<1>1. SameFile(p) \in BOOLEAN BY DEF SameFile
<1>2. (path # 0) \in BOOLEAN /\ (path # 0 /\ size[path] = 0) \in BOOLEAN OBVIOUS
<1>3. ProcStep(p) BY <1>1, <1>2 DEF DotRuns, ProcStep
<1>4. Prepare(p, SameFile(p)) => pc[p] = "prepare"
  BY DEF Prepare, PrepareSucceeds, PrepareFails
<1>5. /\ LstatFolder(p, path # 0, path # 0 /\ size[path] = 0) => pc[p] = "lstat"
      /\ RemoveFolder(p) => pc[p] = "rm"
  BY DEF LstatFolder, RemoveFolder
<1>. QED BY <1>3, <1>4, <1>5 DEF DotRuns

(* The dot-lock part of RemovalInv holds through every step. *)
LEMMA OwnerKept ==
  ASSUME Patient, IndInv, CallInv, Next
  PROVE  CallInv' /\ (broken = "no" /\ OwnerInv /\ broken' = "no" => OwnerInv')
<1> USE Consts
<1>0. DotTypeOK /\ \A p \in Procs : ProcStep(p) \/ Crash(p) => CallInv'
  <2>1. DotTypeOK BY DEF IndInv, TypeOK
  <2>. QED BY <2>1, CallStep DEF DotNext
<1>1. ASSUME NEW p \in Procs, NEW o \in Ops, NEW r \in Nat, NEW m \in {"wait", "force"},
             Invoke(p, o, r, m), r < HARDMAXATTEMPTS
      PROVE  CallInv' /\ (OwnerInv => OwnerInv')
  BY <1>0, <1>1, InvokeOwner
<1>2. ASSUME NEW p \in Procs, DotRuns(p)
      PROVE  CallInv' /\ (broken = "no" /\ OwnerInv /\ broken' = "no" => OwnerInv')
  BY <1>0, <1>2, RunsAreSteps, RunOwner
<1>3. ASSUME NEW p \in Procs, Crash(p), broken' = broken
      PROVE  CallInv' /\ (OwnerInv => OwnerInv')
  <2>1. CallInv' BY <1>0, <1>3
  <2>2. ASSUME OwnerInv PROVE OwnerInv'
    BY <1>0, <1>3, <2>2, DotlockAssumption DEF Crash, OwnerInv, DotTypeOK, Goto, NoCall, CallOf
  <2>. QED BY <2>1, <2>2
<1>4. ASSUME UNCHANGED dotVars PROVE CallInv' /\ (OwnerInv => OwnerInv')
  BY <1>4 DEF dotVars, CallInv, OwnerInv
<1>5. ASSUME NEW p \in Procs, Seen(p) PROVE CallInv' /\ (OwnerInv => OwnerInv')
  BY <1>5 DEF Seen, CallInv, OwnerInv
<1>6. ASSUME NEW p \in Mutts, MuttNext(p)
      PROVE CallInv' /\ (broken = "no" /\ OwnerInv /\ broken' = "no" => OwnerInv')
  <2>1. CASE FcntlLock(p)
    <3>1. PICK o \in Ops, r \in Nat : Invoke(p, o, r, "wait") /\ r < HARDMAXATTEMPTS
      <4>1. (IF job[p] = "unlink" THEN "unlink" ELSE "lock") \in Ops BY DEF Ops
      <4>2. Timeout(job[p]) \in Nat /\ Timeout(job[p]) < HARDMAXATTEMPTS
        BY DotlockAssumption DEF Timeout, Patient
      <4>. QED BY <2>1, <4>1, <4>2 DEF FcntlLock
    <3>. QED BY <1>1, <3>1
  <2>2. CASE DotForce(p)
    <3>1. Invoke(p, "lock", 0, "force") /\ "lock" \in Ops /\ 0 < HARDMAXATTEMPTS
      BY <2>2, DotlockAssumption DEF DotForce, Ops
    <3>. QED BY <1>1, <3>1
  <2>3. CASE UnlockFcntl(p)
    <3>1. Invoke(p, "unlock", MAXLOCKATTEMPT, "wait") /\ "unlock" \in Ops
          /\ MAXLOCKATTEMPT < HARDMAXATTEMPTS
      BY <2>3 DEF UnlockFcntl, Ops, Patient
    <3>. QED BY <1>1, <3>1
  <2>4. CASE DotRuns(p) BY <1>2, <2>4
  <2>5. CASE MuttCrash(p) BY <1>3, <1>4, <2>5 DEF MuttCrash
  <2>6. CASE DotFailed(p) \/ Undotted(p) BY <1>5, <2>6 DEF DotFailed, Undotted
  <2>7. CASE \/ \E j \in Jobs : Open(p, j)
             \/ OpenNew(p) \/ FcntlBusy(p) \/ FcntlError(p) \/ DotLocked(p)
             \/ Append(p) \/ Rewrite(p)
    BY <1>4, <2>7 DEF Open, OpenNew, FcntlBusy, FcntlError, DotLocked, Append, Rewrite
  <2>. QED BY <1>6, <2>1, <2>2, <2>3, <2>4, <2>5, <2>6, <2>7 DEF MuttNext, MuttStep
<1>7. ASSUME NEW p \in Scripts, ScriptNext(p)
      PROVE CallInv' /\ (broken = "no" /\ OwnerInv /\ broken' = "no" => OwnerInv')
  <2>1. CASE ScriptInvoke(p)
    <3>1. PICK o \in {"lock", "unlock"}, r \in Retries, m \in Modes : Invoke(p, o, r, m)
      BY <2>1 DEF ScriptInvoke
    <3>2. o \in Ops /\ r \in Nat /\ m \in {"wait", "force"} /\ r < HARDMAXATTEMPTS
      BY DotlockAssumption DEF Patient, Ops
    <3>. QED BY <1>1, <3>1, <3>2
  <2>2. CASE DotRuns(p) BY <1>2, <2>2
  <2>3. CASE ScriptDeliver(p) BY <1>4, <2>3 DEF ScriptDeliver
  <2>4. CASE ScriptCrash(p) BY <1>3, <2>4 DEF ScriptCrash, mailVars
  <2>. QED BY <1>7, <2>1, <2>2, <2>3, <2>4 DEF ScriptNext
<1>. QED BY <1>6, <1>7 DEF Next

(* Who is about to remove the folder has been granted its dot lock, as       *)
(* everybody has who writes to it.                                           *)
LEMMA Remover ==
  ASSUME IndInv, CallInv, EmptyInv, NEW p \in Mutts, pc[p] = "rm"
  PROVE  p \in granted /\ mpc[p] = "dot" /\ path # 0
<1>1. mpc[p] = "dot" BY Consts DEF IndInv, TypeOK, MuttInv, MailTypeOK, MailPCs
<1>2. p \in granted BY Consts DEF CallInv
<1>. QED BY <1>1, <1>2 DEF EmptyInv

(* Nobody else adds to it, removes it or creates it anew. *)
LEMMA EmptyKept ==
  ASSUME IndInv, CallInv, OwnerInv, EmptyInv, Next
  PROVE  EmptyInv'
<1> USE Consts
<1>0. DotTypeOK /\ MailTypeOK BY DEF IndInv, TypeOK
<1>1. ASSUME UNCHANGED <<path, size>>, \A p \in Mutts : pc'[p] = "rm" => pc[p] = "rm"
      PROVE  EmptyInv'
  BY <1>1 DEF EmptyInv
<1>2. ASSUME NEW p \in Procs, DotRuns(p) PROVE EmptyInv'
  <2>1. CASE RemoveFolder(p)
    <3>1. pc[p] = "rm" /\ pc'[p] = "unlock" /\ \A q \in Procs : q # p => pc'[q] = pc[q]
      BY <1>0, <2>1 DEF RemoveFolder, Goto, DotTypeOK
    <3>2. ASSUME NEW q \in Mutts, pc'[q] = "rm" PROVE FALSE
      <4>1. pc[q] = "rm" /\ q # p BY <3>1, <3>2
      <4>2. q \in granted /\ p \in granted BY <3>1, <4>1 DEF CallInv
      <4>. QED BY <4>1, <4>2 DEF OwnerInv
    <3>. QED BY <3>2 DEF EmptyInv
  <2>2. CASE LstatFolder(p, path # 0, path # 0 /\ size[path] = 0)
    <3>1. UNCHANGED <<path, size>>
      BY <1>2, <2>2 DEF DotRuns, LstatFolder, RemoveFolder
    <3>2. pc' = [pc EXCEPT ![p] = IF path # 0 /\ size[path] = 0 THEN "rm" ELSE "unlock"]
      BY <2>2 DEF LstatFolder, Goto
    <3>. QED BY <1>0, <3>1, <3>2 DEF EmptyInv, DotTypeOK
  <2>3. CASE ~RemoveFolder(p) /\ ~LstatFolder(p, path # 0, path # 0 /\ size[path] = 0)
    <3>1. UNCHANGED <<path, size>> BY <1>2, <2>3 DEF DotRuns
    <3>2. \E l \in {"idle", "link", "stat", "break", "lstat", "unlock"} : pc' = [pc EXCEPT ![p] = l]
      BY <1>2, <2>3 DEF DotRuns, Prepare, PrepareSucceeds, PrepareFails, DotStep, CreateFails, LinkNfs,
         HardLimit, Grant, StatLinked, StatNotLinked, StatFails, BreakLock, Unlock, Goto, Exit
    <3>. QED BY <1>0, <1>1, <3>1, <3>2 DEF DotTypeOK
  <2>. QED BY <2>1, <2>2, <2>3
<1>3. ASSUME NEW p \in Mutts, Append(p) \/ Rewrite(p) PROVE EmptyInv'
  <2>1. pc' = pc /\ mpc[p] = "locked" BY <1>3 DEF Append, Rewrite, dotVars
  <2>2. p \in granted BY <2>1 DEF IndInv, MuttInv, Holds
  <2>3. ASSUME NEW q \in Mutts, pc[q] = "rm" PROVE FALSE
    <3>1. q \in granted /\ q # p BY <2>1, <2>3, Remover
    <3>. QED BY <2>2, <3>1 DEF OwnerInv
  <2>. QED BY <2>1, <2>3 DEF EmptyInv
<1>4. ASSUME NEW p \in Scripts, ScriptDeliver(p) PROVE EmptyInv'
  <2>1. pc' = pc /\ p \in granted BY <1>4 DEF ScriptDeliver, dotVars
  <2>2. ASSUME NEW q \in Mutts, pc[q] = "rm" PROVE FALSE
    <3>1. q \in granted /\ q # p BY <2>2, Remover
    <3>. QED BY <2>1, <3>1 DEF OwnerInv
  <2>. QED BY <2>1, <2>2 DEF EmptyInv
<1>5. ASSUME NEW p \in Mutts, OpenNew(p) PROVE EmptyInv'
  <2>1. pc' = pc /\ path = 0 BY <1>5 DEF OpenNew, dotVars
  <2>. QED BY <2>1, Remover DEF EmptyInv
<1>6. ASSUME NEW p \in Procs, NEW o, NEW r, NEW m, Invoke(p, o, r, m), UNCHANGED <<path, size>>
      PROVE  EmptyInv'
  BY <1>0, <1>1, <1>6 DEF Invoke, Goto, DotTypeOK
<1>7. ASSUME NEW p \in Procs, Crash(p), UNCHANGED <<path, size>> PROVE EmptyInv'
  BY <1>0, <1>1, <1>7 DEF Crash, Goto, DotTypeOK
<1>8. ASSUME pc' = pc, UNCHANGED <<path, size>> PROVE EmptyInv'
  BY <1>1, <1>8
<1>9. ASSUME NEW p \in Mutts, MuttNext(p) PROVE EmptyInv'
  <2>1. CASE FcntlLock(p)   BY <1>6, <2>1 DEF FcntlLock
  <2>2. CASE DotForce(p)    BY <1>6, <2>2 DEF DotForce
  <2>3. CASE UnlockFcntl(p) BY <1>6, <2>3 DEF UnlockFcntl
  <2>4. CASE MuttCrash(p)   BY <1>7, <1>8, <2>4 DEF MuttCrash, dotVars
  <2>5. CASE \/ \E j \in Jobs : Open(p, j)
             \/ FcntlBusy(p) \/ FcntlError(p) \/ DotLocked(p) \/ DotFailed(p) \/ Undotted(p)
    BY <1>8, <2>5 DEF Open, FcntlBusy, FcntlError, DotLocked, DotFailed, Undotted, Seen, dotVars
  <2>. QED BY <1>2, <1>3, <1>5, <1>9, <2>1, <2>2, <2>3, <2>4, <2>5 DEF MuttNext, MuttStep
<1>10. ASSUME NEW p \in Scripts, ScriptNext(p) PROVE EmptyInv'
  <2>1. CASE ScriptInvoke(p) BY <1>6, <2>1 DEF ScriptInvoke, mailVars
  <2>2. CASE ScriptCrash(p)  BY <1>7, <2>2 DEF ScriptCrash, mailVars
  <2>. QED BY <1>2, <1>4, <1>10, <2>1, <2>2 DEF ScriptNext
<1>. QED BY <1>9, <1>10 DEF Next

(* RemovalInv is an invariant of folder locking.                             *)
LEMMA RemovalInvariant == ASSUME Patient PROVE SafetySpec => []RemovalInv
<1>1. Init => RemovalInv
  <2> SUFFICES ASSUME Init PROVE RemovalInv OBVIOUS
  <2>1. /\ \A p \in Procs : pc[p] = "idle" /\ call[p] = NoCall
        /\ granted = {} /\ 0 < HARDMAXATTEMPTS
    BY DotlockAssumption DEF Init, DotInit
  <2>2. CallInv /\ OwnerInv BY <2>1 DEF CallInv, OwnerInv, NoCall, CallOf
  <2>3. EmptyInv BY <2>1, Consts DEF EmptyInv
  <2>. QED BY <2>2, <2>3 DEF RemovalInv
<1>2. IndInv /\ RemovalInv /\ [Next]_vars => RemovalInv'
  <2> SUFFICES ASSUME IndInv, RemovalInv, [Next]_vars PROVE RemovalInv' OBVIOUS
  <2>1. CASE UNCHANGED vars
    BY <2>1 DEF vars, dotVars, mailVars, RemovalInv, CallInv, OwnerInv, EmptyInv
  <2>2. CASE Next
    <3>1. broken' = "no" => broken = "no"
      <4>1. ASSUME NEW p \in Procs, DotRuns(p), broken' = "no" PROVE broken = "no"
        BY <4>1, RunsAreSteps DEF ProcStep
      <4>2. ASSUME NEW p \in Mutts, MuttNext(p), ~DotRuns(p) PROVE broken' = broken
        BY <4>2 DEF MuttNext, MuttStep, Open, OpenNew, FcntlLock, FcntlBusy, FcntlError, DotLocked,
           DotForce, DotFailed, Append, Rewrite, UnlockFcntl, Undotted, MuttCrash
      <4>3. ASSUME NEW p \in Scripts, ScriptNext(p), ~DotRuns(p) PROVE broken' = broken
        BY <4>3 DEF ScriptNext, ScriptInvoke, ScriptDeliver, ScriptCrash, mailVars
      <4>. QED BY <2>2, <4>1, <4>2, <4>3, Consts DEF Next
    <3>2. CallInv' /\ (broken = "no" /\ OwnerInv /\ broken' = "no" => OwnerInv')
      BY <2>2, OwnerKept DEF RemovalInv
    <3>3. broken = "no" => EmptyInv' BY <2>2, EmptyKept DEF RemovalInv
    <3>. QED BY <3>1, <3>2, <3>3 DEF RemovalInv
  <2>. QED BY <2>1, <2>2
<1>. QED BY <1>1, <1>2, MailLockInvariant, PTL DEF SafetySpec

(* Unless a user had a lock broken, mx_unlink_empty() removes only a folder  *)
(* that is empty at that moment: those who would add to it need a lock that  *)
(* it has, muttng the fcntl lock and scripts the dot lock.                   *)
THEOREM OnlyEmptyAreRemoved == ASSUME Patient PROVE SafetySpec => OnlyEmptyFoldersRemoved
<1>1. IndInv /\ RemovalInv /\ [Next]_vars =>
        [path # 0 /\ path' = 0 /\ broken = "no" => size[path] = 0]_vars
  <2> SUFFICES ASSUME IndInv, RemovalInv, Next, path # 0, path' = 0, broken = "no"
               PROVE  size[path] = 0
    OBVIOUS
  <2>1. inodes + 1 # 0 BY DEF IndInv, TypeOK, MailTypeOK
  <2>2. PICK p \in Procs : DotRuns(p) /\ RemoveFolder(p)
    <3>1. ASSUME NEW p \in Mutts, MuttNext(p) PROVE DotRuns(p) /\ RemoveFolder(p)
      BY <2>1, <3>1 DEF MuttNext, MuttStep, Open, OpenNew, FcntlLock, FcntlBusy, FcntlError, DotRuns, DotLocked,
         DotForce, DotFailed, Append, Rewrite, UnlockFcntl, Undotted, MuttCrash
    <3>2. ASSUME NEW p \in Scripts, ScriptNext(p) PROVE DotRuns(p) /\ RemoveFolder(p)
      BY <2>1, <3>2 DEF ScriptNext, DotRuns, ScriptInvoke, ScriptDeliver, ScriptCrash, mailVars
    <3>. QED BY <3>1, <3>2, Consts DEF Next
  <2>3. pc[p] = "rm" BY <2>2 DEF RemoveFolder
  <2>4. p \in Mutts BY <2>3, Consts DEF IndInv, ScriptInv
  <2>. QED BY <2>3, <2>4 DEF RemovalInv, EmptyInv
<1>. QED BY <1>1, RemovalInvariant, MailLockInvariant, PTL DEF SafetySpec, OnlyEmptyFoldersRemoved

(* A muttng that writes to the folder is the only one that has it locked: by *)
(* the fcntl locks if dotlock.c is linked in, also when users have dot locks *)
(* broken, and by the dot locks in a stand-alone build as long as none is.   *)
THEOREM WriterIsAlone == ASSUME Patient PROVE SafetySpec => []WriterExclusion
<1>1. IndInv /\ RemovalInv => WriterExclusion
  <2> SUFFICES ASSUME IndInv, RemovalInv, build = "internal" \/ broken = "no",
                      NEW p \in Mutts, NEW q \in Mutts,
                      mpc[p] = "locked", mpc[q] = "locked", Excl(job[p])
               PROVE  p = q
    BY DEF WriterExclusion
  <2>1. CASE build = "internal"
    <3>1. fd[p] = fd[q] /\ fcntl[p] = "wr" /\ fcntl[q] # "none"
      BY <2>1 DEF IndInv, MuttInv, Guarded, Excl
    <3> QED BY <3>1, Consts DEF IndInv, FcntlInv
  <2>2. CASE broken = "no"
    <3>1. p \in granted /\ q \in granted
      BY DEF IndInv, MuttInv, Holds
    <3> QED BY <2>2, <3>1, Consts DEF RemovalInv, OwnerInv
  <2> QED BY <2>1, <2>2
<1> QED BY <1>1, RemovalInvariant, MailLockInvariant, PTL
=============================================================================
