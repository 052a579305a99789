SPECIFICATION Spec
CONSTANTS
  N = 2
  MaxClock = 1
  MaxEvents = 3
  Commands = {"flag", "delete", "undelete"}
  OtherNames <- Few
  MaildirTrash = FALSE
INVARIANTS ViewFresh DeletionKept
PROPERTIES OnlyDeletedRemoved ChangesReachFile NewMailShown
CHECK_DEADLOCK FALSE
