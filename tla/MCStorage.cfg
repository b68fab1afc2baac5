CONSTANTS
  File = {long, short}  long = long  short = short
  SECTORS = 13  RESERVED = 1
  DIRECT_BLOCKS = 1  INDIRECT_BLOCKS = 1  INDIRECT_BLOCK_PTRS = 2
  MaxLength <- OneLong
  Calls <- Budgets
  NULL = NULL
  Block = {s1, s2, s3}
  MAX_FILESYS_CACHE_SIZE = 2
  Caller = {a, b}
  BIT_CNT = 2
SPECIFICATION StorageSpec
INVARIANTS Accounted Mapped OwnContent MapKept
CHECK_DEADLOCK FALSE
