SPECIFICATION MCSpec
CONSTANTS
  N = 2
  Commands = {"delete", "undelete", "save", "display", "toggle-tag", "untag",
              "set-old", "clear-old", "reply", "toggle-flag", "tag-pattern", "toggle-new"}
  Patterns = {"~N"}
  Scores = {{}, {"DELETE"}}
  Arrivals = {{}}
  Supersedes <- Later
  DeleteUntag = TRUE
  SearchPatterns = {"~N", "~D", "~F", "~T"}
INVARIANTS CountersMatch ChangesNoticed SearchCacheFresh
PROPERTIES CloseKeepsStatus DeletedGoesToTrash
CHECK_DEADLOCK FALSE
