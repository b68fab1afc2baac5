CONSTANTS
  Page = {p1, p2, p3, p4}  Initial = p1  MaxTid = 4  HEAD = head  TAIL = tail
  Client = {a, b}  Desc = {small, large}  small = small  large = large
  blocks_per_arena <- Arenas
  PAGE_CNT = 3  Big = {2}  MaxHeld = 2  NOBODY = nobody
  GetThread = {r1, r2}  PutThread = w  INTQ_BUFSIZE = 3  BYTES = 4  NO_THREAD = none
  IdeThread = {a, b, c}  Address <- Disks  BLANK = blank  NO_ONE = none
  Process = {shell, program}  shell = shell  program = program  File = {f, g}  Directory = {d}
  MaxFd <- Fds  MaxLength = 1  MaxLeaks = 1  NOTHING = nothing
  Key = {1, 2, 3}  MaxList = 5  HALF = 3
SPECIFICATION ServicesSpec
INVARIANTS LinksWhole MemoryOwnedOnce ConsoleKept FilesCounted LibraryRight
PROPERTIES LiveParentFound ImplementsBlockDevice
CHECK_DEADLOCK FALSE
