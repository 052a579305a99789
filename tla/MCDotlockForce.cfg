SPECIFICATION DotSpec
CONSTANTS
  Procs = {p1, p2}
  None = None
  Stale = Stale
  Retries = {0, 2}
  Modes = {"wait", "force"}
  HARDMAXATTEMPTS = 2
PROPERTIES NoLockLeak DotTermination
CHECK_DEADLOCK FALSE
