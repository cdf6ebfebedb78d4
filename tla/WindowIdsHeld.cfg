SPECIFICATION Spec
CONSTANTS
  Windows = {w1, w2, w3}
  Others = {o1}
  Forgetting = FALSE
SYMMETRY Symmetry
CHECK_DEADLOCK FALSE
INVARIANTS
  AllWindowsFound
  ObjectsFound
