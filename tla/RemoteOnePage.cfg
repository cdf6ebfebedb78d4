SPECIFICATION FairSpec
CONSTANTS
  w1 = w1
  v1 = v1
  v2 = v2
  Contents = {w1}
  Views = {v1}
  ContentsOf <- OneView
  Objects = {o1, o2}
  Callbacks = {c1}
  NoView = NoView
  NoCallback = NoCallback
  LateMessages = FALSE
  Detaching = TRUE
  MaxStoreId = 2
  MaxQueue = 2
CHECK_DEADLOCK FALSE
INVARIANTS
  NoOrphanEntry
  CallFindsObject
PROPERTIES
  IdNeverReused
  EventuallyReclaimed
  EventuallyAnswered
