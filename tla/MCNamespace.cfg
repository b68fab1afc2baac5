SPECIFICATION Spec
CONSTANTS
  Process = {p1, p2}
  Name = {a, b}
  MaxSector = 3
  MaxLost = 1
  NULL = null
SYMMETRY Symmetry
INVARIANTS OpenCount InodesAccounted Tree
CHECK_DEADLOCK FALSE
