SPECIFICATION FairSpec
CONSTANTS
  Windows = {w1, w2}
  NoWindow = NoWindow
  Forgetting = FALSE
  MaxDepth = 2
CHECK_DEADLOCK FALSE
PROPERTIES
  QuitSettles
