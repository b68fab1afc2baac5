SPECIFICATION Spec
CONSTANTS
  User = {u1, u2, u3}
  WriteBack = wb
  Sector = {s1, s2, s3}
  NULL = null
  MAX_FILESYS_CACHE_SIZE = 2
  MaxWrites = 0
  Halting = FALSE
PROPERTIES EvictionEnds
