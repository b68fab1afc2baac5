SPECIFICATION Spec
CONSTANTS
  Writer = {w1, w2}
  Reader = {r1}
  BLOCK_SECTOR_SIZE = 2
  MaxBlocks = 2
  MaxEnd = 6
  MaxGap = 1
  MaxSize = 2
  SIZE_T = 16
  NULL = null
SYMMETRY Symmetry
INVARIANTS Mapped AllocatedOnce NoZeroReadAlone
PROPERTIES ShrinksOnlyIfStale
