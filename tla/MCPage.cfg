CONSTANTS
  Leftovers <- Left
  Environments <- Envs
  Typed = {40, 250, 1000}
  MaxChanges = 2
  junk = junk
  none = none
  Ids = {k}
  MaxEdits = 2
  MaxEvents = 2
  MaxSteps = 3
  SavesWhile = {}
  CardIds = {d, e}
  TagIds = {t}
  MaxTasks = 1
  Rows = {r1, r2, r3}
  MaxRowSyncs = 2
SPECIFICATION MCSpec
SYMMETRY Symmetry
INVARIANTS ChoicesLast ReloadKeepsSettings EditsOnDisk
  OneThingShown UrlNamesSelection NoPhantomDrag
PROPERTIES StartsWithOnePiece DraftsLeaveKnowingly DropLandsInMarkedGap
