SPECIFICATION MCSpec
CONSTANTS
  Sessions = {a, b}
  None = None
  Stale = Stale
  N = 3
  MaxInode = 2
  Bytes <- Powers
  SaveEmpty = FALSE
  MaxChanges = 3
SYMMETRY Symmetry
INVARIANTS SyncSeesWholeFolder NoMailLost
PROPERTIES PendingKept NoLostUpdate
CHECK_DEADLOCK FALSE
