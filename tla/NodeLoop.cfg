SPECIFICATION FairSpec
CONSTANTS
  Contexts = 1
CHECK_DEADLOCK FALSE
INVARIANTS
  TurnsAlternate
  NoSleepPastTimer
  NoSleepPastWatcher
PROPERTIES
  TicksRun
  DestructorEnds
