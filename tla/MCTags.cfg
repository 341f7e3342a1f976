CONSTANTS
  c1 = c1
  c2 = c2
  t1 = t1
  t2 = t2
  CardIds = {c1}
  TagIds = {t1, t2}
  Contents = {"x"}
  Priorities = {1}
  CardTagSets <- AllTagSets
  MaxCardCount = 2
  MaxTagCount = 2
  CardChains <- MCCardChains
  TagChains <- MCTagChains
  Buckets = {1}
  BucketOf <- OneBucket
  MaxSequence = 3
  MaxItems = 2
  Listed = {a}
  MaxEdits = 2
  MaxEvents = 1
  Overtaken = FALSE
SYMMETRY TagSymmetry
SPECIFICATION MCSpec
INVARIANTS ImplicationsHold EditsAccounted ListIsCurrent
PROPERTIES TagSaveIsLeast
CHECK_DEADLOCK FALSE
