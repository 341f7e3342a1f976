CONSTANTS
  Ids = {a, b}
  MaxMoves = 2
  MaxEdits = 2
  MaxLosses = 1
  priority_debounce_enabled = TRUE
  Overlap = FALSE
SPECIFICATION MovesSpec
CHECK_DEADLOCK FALSE
INVARIANTS BurstsCoalesced MovesArrive
PROPERTIES EditSurvivesBurst Settles
