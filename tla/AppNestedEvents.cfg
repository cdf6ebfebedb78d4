SPECIFICATION Spec
CONSTANTS
  Windows = {w1, w2}
  NoWindow = NoWindow
  Forgetting = TRUE
  MaxDepth = 3
SYMMETRY Symmetry
CHECK_DEADLOCK FALSE
INVARIANTS
  OpenWindowsListed
  QuitNotForgotten
  TimerHasReason
PROPERTIES
  ClosedOnce
