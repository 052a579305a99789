SPECIFICATION Spec
CONSTANTS
  Sessions = {s1, s2}
  MaxArticle = 3
  MaxTime = 1
  MaxEvents = 4
  Window = 2
SYMMETRY Sym
INVARIANTS UnseenUnread ModificationNoticed
PROPERTIES FlagsKept UnreadCounted
CHECK_DEADLOCK FALSE
