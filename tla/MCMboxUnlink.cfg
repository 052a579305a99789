SPECIFICATION MCSpec
CONSTANTS
  Sessions = {a, b}
  None = None
  Stale = Stale
  N = 2
  MaxInode = 2
  Bytes <- Powers
  SaveEmpty = FALSE
  MaxChanges = 2
PROPERTY OnlyEmptyRemoved
CHECK_DEADLOCK FALSE
