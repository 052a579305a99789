SPECIFICATION DotSpec
CONSTANTS
  Procs = {p1, p2}
  None = None
  Stale = Stale
  Retries = {0, 2}
  Modes = {"wait"}
  HARDMAXATTEMPTS = 3
INVARIANTS DotExclusion
PROPERTIES ImplementsFileLock
CHECK_DEADLOCK FALSE
