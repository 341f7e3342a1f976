CONSTANTS
  c1 = c1
  c2 = c2
  t1 = t1
  t2 = t2
  CardIds = {c1, c2}
  TagIds = {t1}
  Contents = {"x"}
  Priorities = {1, 2}
  CardTagSets <- NoTagSet
  MaxCardCount = 2
  MaxTagCount = 1
  CardChains <- MCCardChains
  TagChains <- MCTagChains
  Buckets = {1, 2}
  BucketOf <- MCBucketOf
  MaxSequence = 4
  MaxItems = 2
SPECIFICATION Spec
INVARIANTS TypeOK HistoryIsChain RootCoherent
PROPERTIES CardsNeverVanish ImplementsServerList
CHECK_DEADLOCK FALSE
