CONSTANTS
  Ids = {a, b}
  Priorities = {1, 2, 3}
  MaxEdits = 1
  MaxRemote = 1
  MaxLosses = 1
  auto_sync_enabled = TRUE
  SavesWhile = {"online", "flush"}
SPECIFICATION MCSpec
PROPERTIES QueueDrains CatchesUp
