CONSTANTS
  Ids = {a, b}
  Priorities = {1, 2, 3}
  MaxEdits = 2
  MaxRemote = 2
  MaxLosses = 1
  auto_sync_enabled = FALSE
  SavesWhile = {}
SPECIFICATION OfflineSpec
INVARIANTS UntouchedCardsFresh EditsSurvive
CHECK_DEADLOCK FALSE
