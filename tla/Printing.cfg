SPECIFICATION FairSpec
CHECK_DEADLOCK FALSE
CONSTANTS
  MaxPrints = 2
  MaxPages = 2
  Ways = {"silent", "selection"}
  MaxFaults = 1
INVARIANTS JobOutlivesWorker SuccessMeansSpooled PagesOfOwnDocument
PROPERTIES WorkersStop
