SPECIFICATION MCSpec
CONSTANTS
  m1 = m1
  m2 = m2
  s1 = s1
  Procs = {m1, m2, s1}
  Scripts = {s1}
  None = None
  Stale = Stale
  Retries = {0}
  Modes = {"wait", "force"}
  HARDMAXATTEMPTS = 3
  Jobs = {"append", "sync", "check", "unlink"}
  MAXLOCKATTEMPT = 2
  MaxInode = 2
  MaxSize = 1
INVARIANTS LockedFileIsFolder WriterExclusion
PROPERTIES OnlyEmptyFoldersRemoved LockingTerminates
CHECK_DEADLOCK FALSE
