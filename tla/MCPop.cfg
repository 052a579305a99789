SPECIFICATION Spec
CONSTANTS
  MaxUid = 3
  MaxEvents = 5
  MaxLosses = 1
  CacheLen = 2
INVARIANTS NumbersVerified CacheRight
PROPERTIES OnlyDeletedGone SyncDone Ends
CHECK_DEADLOCK FALSE
