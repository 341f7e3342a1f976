CONSTANTS
  Ids = {a, b}
  Priorities = {1, 2, 3}
  MaxEdits = 0
  MaxRemote = 3
  MaxLosses = 0
  auto_sync_enabled = TRUE
  SavesWhile = {}
SPECIFICATION Spec
INVARIANT UntouchedCardsFresh
CHECK_DEADLOCK FALSE
