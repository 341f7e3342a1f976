CONSTANTS
  Ids = {a}
  Priorities = {1, 2}
  MaxEdits = 2
  MaxRemote = 0
  MaxLosses = 1
  auto_sync_enabled = FALSE
  SavesWhile = {"flush"}
SPECIFICATION Spec
INVARIANT EditsSurvive
CHECK_DEADLOCK FALSE
