CONSTANTS
  MaxCards = 4
  MIN = 0
  MAX = 7
  MAX_EDGE_GAP = 3
  JITTER_DIVISOR = 4
  Contents <- TwoTasks
  Couplings <- OnOrOff
  RightCycle = 2
  RightLevels = 2
  LeftCycle = 2
  LeftLevels = 1
  TodayWidth = 1
  TomorrowWidth = 1
  SoonWidth = 1
  HintRight = 1
  HintLeft = 1
  Reach = 4
  MaxEdits = 2
  t1 = t1
  t2 = t2
  none = none
  NoDay = NoDay
  today = 2
  Cards <- FourCards
  TagIds = {t1, t2}
  Selectable = {1}
  DueFilters = {"All", "Today"}
  Orders = {"Priority", "DueDateReverse"}
  Bookmarks <- ThreeUrls
  Ids = {a, b, c}
  Sessions <- NoneOrTwo
  MaxChanges = 2
  MaxLinks = 1
  OpenFrom = 2
SPECIFICATION MCSpec
SYMMETRY Symmetry
INVARIANTS
  UrlNamesView EscapeReachesDefault ListAsAsked
  PlacementLands BlazedIsNeverDue PassLeavesFresh
PROPERTIES ReleaseDoesAsShown ClickFlipsItsBox
