SPECIFICATION Spec
CONSTANTS
  Thread = {t1, t2}
  Sector = {root, file}
  Root = {root}
  Inode = {i1, i2, i3}
  MaxLength = 1
  HEAD = head
  TAIL = tail
  Garbage = {0, 9}
  NULL = null
SYMMETRY Symmetry
INVARIANTS SameStruct
CHECK_DEADLOCK FALSE
