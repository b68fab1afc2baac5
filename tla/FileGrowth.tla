------------------------------ MODULE FileGrowth ------------------------------
(***************************************************************************)
(* One open file under inode_read_at(), inode_write_at() and               *)
(* inode_expand() of filesys/inode.c: threads that read it, write it and   *)
(* make it grow at the same time.                                          *)
(*                                                                         *)
(* The inode's lock covers inode_expand() only; for a directory the caller *)
(* holds it over the whole call (dir_add(), dir_lookup(), ...), but for    *)
(* dir_is_empty(), which reads without.  The numbers of the sectors that   *)
(* hold the bytes and the index are left out: a file has "blocks" of them, *)
(* and its index has room for MaxBlocks.  A byte is TRUE once it has been  *)
(* written, FALSE while it is a zero of inode_expand().  Reading or        *)
(* writing a sector is one step.                                           *)
(***************************************************************************)
EXTENDS Integers, FiniteSets

CONSTANTS Writer, Reader,
          BLOCK_SECTOR_SIZE,
          MaxBlocks,  \* data sectors the index has room for
          MaxEnd,     \* bound: the furthest byte written
          MaxSize,    \* bound: the bytes of a write
          MaxGap,     \* bound: how far behind the end of the file a write starts
          SIZE_T,     \* size_t arithmetic wraps here, well above any length
          NULL

ASSUME FileAssumption ==
  /\ BLOCK_SECTOR_SIZE \in Nat \ {0}
  /\ MaxBlocks \in Nat \ {0} /\ MaxEnd \in Nat /\ MaxSize \in Nat /\ MaxGap \in Nat
  /\ SIZE_T \in Nat /\ MaxBlocks * BLOCK_SECTOR_SIZE < SIZE_T /\ MaxEnd < SIZE_T
  /\ Writer \cap Reader = {} /\ NULL \notin Writer \cup Reader

VARIABLES length, read_length, isdir,  \* of struct inode
          blocks,       \* sectors allocated: direct_index and the other indices
          content,      \* the bytes
          deny_write_cnt,
          owner,        \* holder of the inode's lock
          pc, offset, size,   \* of a writer: what it has still to write
          end,          \* offset + size at the call
          need,         \* new_data_sectors in inode_expand(), a size_t
          tested,       \* history: the length a writer compared with
          known,        \* of a reader: the length it goes by
          zero,         \* history: the readers, "locked" or "unlocked", that got
                        \* a zero instead of a byte that was being appended
          shared,       \* history: two calls of inode_write_at() overlapped
          shrunk,       \* history: a call made the file smaller
          panicked      \* the kernel has: a write to no sector

vars == <<length, read_length, isdir, blocks, content, deny_write_cnt, owner, pc, offset, size,
          end, need, tested, known, zero, shared, shrunk, panicked>>
file == <<length, read_length, isdir, blocks, content>>
history == <<zero, shared, shrunk>>

Capacity == MaxBlocks * BLOCK_SECTOR_SIZE
Byte == 0..(MaxEnd - 1)

\* size_t arithmetic: differences wrap.
Wrap(n) == n % SIZE_T

bytes_to_data_sectors(n) == (n + BLOCK_SECTOR_SIZE - 1) \div BLOCK_SECTOR_SIZE

Least(set) == CHOOSE x \in set : \A y \in set : x =< y

Init ==
  /\ length = 0 /\ read_length = 0 /\ blocks = 0
  /\ isdir \in BOOLEAN
  /\ content = [b \in Byte |-> FALSE]
  /\ deny_write_cnt = 0
  /\ owner = NULL
  /\ pc = [t \in Writer \cup Reader |-> "idle"]
  /\ offset = [w \in Writer |-> 0] /\ size = [w \in Writer |-> 0]
  /\ end = [w \in Writer |-> 0]
  /\ need = [w \in Writer |-> 0]
  /\ tested = [w \in Writer |-> 0]
  /\ known = [r \in Reader |-> 0]
  /\ zero = {} /\ shared = FALSE /\ shrunk = FALSE
  /\ panicked = FALSE

Goto(t, label) == pc' = [pc EXCEPT ![t] = label]

-----------------------------------------------------------------------------
(* inode_write_at(). *)

Busy == {w \in Writer : pc[w] # "idle"}

\* Mutant of Write: the length is compared before the inode is locked even for
\* a directory.
Write_unlocked(w) ==
  /\ pc[w] = "idle"
  /\ deny_write_cnt = 0
  /\ \E o \in 0..MaxEnd, n \in 1..MaxSize :
       /\ o + n =< MaxEnd /\ o =< length + MaxGap
       /\ offset' = [offset EXCEPT ![w] = o]
       /\ size' = [size EXCEPT ![w] = n]
       /\ end' = [end EXCEPT ![w] = o + n]
       /\ Goto(w, IF o + n > length THEN "lock" ELSE "copy")
  /\ tested' = [tested EXCEPT ![w] = length]
  /\ shared' = (shared \/ Busy # {})
  /\ UNCHANGED <<file, deny_write_cnt, owner, need, known, zero, shrunk, panicked>>

\* Mutant of Write: the file is expanded whatever its length.
Write_always(w) ==
  /\ pc[w] = "idle"
  /\ deny_write_cnt = 0
  /\ IF isdir THEN owner = NULL /\ owner' = w ELSE UNCHANGED owner
  /\ \E o \in 0..MaxEnd, n \in 1..MaxSize :
       /\ o + n =< MaxEnd /\ o =< length + MaxGap
       /\ offset' = [offset EXCEPT ![w] = o]
       /\ size' = [size EXCEPT ![w] = n]
       /\ end' = [end EXCEPT ![w] = o + n]
  /\ Goto(w, "lock")
  /\ tested' = [tested EXCEPT ![w] = length]
  /\ shared' = (shared \/ Busy # {})
  /\ UNCHANGED <<file, deny_write_cnt, need, known, zero, shrunk, panicked>>

\* The call, up to the test whether the file must grow.  A directory is locked
\* by the caller, before anything else.
Write(w) ==
  /\ pc[w] = "idle"
  /\ deny_write_cnt = 0
  /\ IF isdir THEN owner = NULL /\ owner' = w ELSE UNCHANGED owner
  /\ \E o \in 0..MaxEnd, n \in 1..MaxSize :
       /\ o + n =< MaxEnd /\ o =< length + MaxGap
       /\ offset' = [offset EXCEPT ![w] = o]
       /\ size' = [size EXCEPT ![w] = n]
       /\ end' = [end EXCEPT ![w] = o + n]
       /\ Goto(w, IF o + n > length THEN "lock" ELSE "copy")
  /\ tested' = [tested EXCEPT ![w] = length]
  /\ shared' = (shared \/ Busy # {})
  /\ UNCHANGED <<file, deny_write_cnt, need, known, zero, shrunk, panicked>>

\* inode_lock(), and inode_expand() up to its loops.
Expand(w) ==
  /\ pc[w] = "lock"
  /\ IF isdir THEN UNCHANGED owner ELSE owner = NULL /\ owner' = w
  /\ need' = [need EXCEPT ![w] = Wrap(bytes_to_data_sectors(end[w]) - bytes_to_data_sectors(length))]
  /\ Goto(w, "expand")
  /\ UNCHANGED <<file, deny_write_cnt, offset, size, end, tested, known, history, panicked>>

\* One sector more: allocated, filled with zeros.
ExpandBlock(w) ==
  /\ pc[w] = "expand" /\ need[w] > 0 /\ blocks < MaxBlocks
  /\ blocks' = blocks + 1
  /\ need' = [need EXCEPT ![w] = @ - 1]
  /\ UNCHANGED <<length, read_length, isdir, content, deny_write_cnt, owner, pc, offset, size, end,
                 tested, known, history, panicked>>

Unlock == owner' = IF isdir THEN owner ELSE NULL

\* Mutants of ExpandEnds: readers may see the new length at once; what could not
\* be allocated is not subtracted.
ExpandEnds_visible(w) ==
  /\ pc[w] = "expand" /\ (need[w] = 0 \/ blocks = MaxBlocks)
  /\ length' = Wrap(end[w] - need[w] * BLOCK_SECTOR_SIZE)
  /\ read_length' = length'
  /\ Unlock
  /\ Goto(w, "copy")
  /\ UNCHANGED <<isdir, blocks, content, deny_write_cnt, offset, size, end, need, tested, known,
                 history, panicked>>
ExpandEnds_unbounded(w) ==
  /\ pc[w] = "expand" /\ (need[w] = 0 \/ blocks = MaxBlocks)
  /\ length' = end[w]
  /\ Unlock
  /\ Goto(w, "copy")
  /\ UNCHANGED <<read_length, isdir, blocks, content, deny_write_cnt, offset, size, end, need, tested,
                 known, history, panicked>>

\* inode->length = the result of inode_expand(); inode_unlock().
ExpandEnds(w) ==
  /\ pc[w] = "expand" /\ (need[w] = 0 \/ blocks = MaxBlocks)
  /\ length' = Wrap(end[w] - need[w] * BLOCK_SECTOR_SIZE)
  /\ shrunk' = (shrunk \/ length' < length)
  /\ Unlock
  /\ Goto(w, "copy")
  /\ UNCHANGED <<read_length, isdir, blocks, content, deny_write_cnt, offset, size, end, need, tested,
                 known, zero, shared, panicked>>

\* What fits in the sector at "from", of n bytes, in a file of "len" bytes.
Chunk(from, n, len) ==
  Least({n, len - from, BLOCK_SECTOR_SIZE - (from % BLOCK_SECTOR_SIZE)})

\* byte_to_sector(), which has a sector for what the file has at this moment.
Find(w) ==
  /\ pc[w] = "copy" /\ size[w] > 0
  /\ Goto(w, IF offset[w] < length THEN "mapped" ELSE "unmapped")
  /\ UNCHANGED <<file, deny_write_cnt, owner, offset, size, end, need, tested, known, history,
                 panicked>>

\* inode_length() again, and the bytes, if there is anything left.
Copy(w) ==
  /\ pc[w] = "mapped"
  /\ LET chunk == Chunk(offset[w], size[w], length)
     IN  /\ chunk > 0
         /\ content' = [b \in Byte |-> content[b] \/ b \in offset[w]..(offset[w] + chunk - 1)]
         /\ offset' = [offset EXCEPT ![w] = @ + chunk]
         /\ size' = [size EXCEPT ![w] = @ - chunk]
  /\ Goto(w, "copy")
  /\ UNCHANGED <<length, read_length, isdir, blocks, deny_write_cnt, owner, end, need, tested,
                 known, history, panicked>>

\* The same with the sector -1: "Access past end of device".
Panic(w) ==
  /\ pc[w] = "unmapped"
  /\ Chunk(offset[w], size[w], length) > 0
  /\ panicked' = TRUE
  /\ UNCHANGED <<file, deny_write_cnt, owner, pc, offset, size, end, need, tested, known, history>>

\* read_length = inode_length(), and return.
WriteEnds(w) ==
  /\ \/ pc[w] = "copy" /\ size[w] = 0
     \/ pc[w] \in {"mapped", "unmapped"} /\ Chunk(offset[w], size[w], length) =< 0
  /\ read_length' = length
  /\ owner' = IF isdir THEN NULL ELSE owner
  /\ offset' = [offset EXCEPT ![w] = 0]
  /\ size' = [size EXCEPT ![w] = 0]
  /\ end' = [end EXCEPT ![w] = 0]
  /\ need' = [need EXCEPT ![w] = 0]
  /\ tested' = [tested EXCEPT ![w] = 0]
  /\ Goto(w, "idle")
  /\ UNCHANGED <<length, isdir, blocks, content, deny_write_cnt, known, history, panicked>>

-----------------------------------------------------------------------------
(* inode_read_at(). *)

\* Bytes a writer has still to write that were beyond the end of the file when
\* it compared.
Pending ==
  UNION {{b \in Byte : b >= tested[w] /\ b >= offset[w] /\ b < end[w]} :
           w \in Busy}

\* The call: the length it goes by.
Read(r) ==
  /\ pc[r] = "idle" /\ read_length > 0
  /\ \/ isdir /\ owner = NULL /\ owner' = r
     \/ UNCHANGED owner    \* of a file, or dir_is_empty()
  /\ known' = [known EXCEPT ![r] = read_length]
  /\ Goto(r, "read")
  /\ UNCHANGED <<file, deny_write_cnt, offset, size, end, need, tested, history, panicked>>

\* Some byte of it is read, and the call returns.
ReadByte(r) ==
  /\ pc[r] = "read"
  /\ \E b \in Byte :
       /\ b < known[r]
       /\ zero' = zero \cup (IF b \in Pending /\ ~content[b]
                             THEN {IF owner = r THEN "locked" ELSE "unlocked"} ELSE {})
  /\ known' = [known EXCEPT ![r] = 0]
  /\ owner' = IF owner = r THEN NULL ELSE owner
  /\ Goto(r, "idle")
  /\ UNCHANGED <<file, deny_write_cnt, offset, size, end, need, tested, shared, shrunk, panicked>>

-----------------------------------------------------------------------------
(* file_deny_write() while the file is an executable that runs. *)

inode_deny_write ==
  /\ deny_write_cnt = 0
  /\ deny_write_cnt' = deny_write_cnt + 1
  /\ UNCHANGED <<file, owner, pc, offset, size, end, need, tested, known, history, panicked>>

inode_allow_write ==
  /\ deny_write_cnt > 0
  /\ deny_write_cnt' = deny_write_cnt - 1
  /\ UNCHANGED <<file, owner, pc, offset, size, end, need, tested, known, history, panicked>>

WriteStep(w) ==
  \/ Expand(w) \/ ExpandBlock(w) \/ ExpandEnds(w)
  \/ Find(w) \/ Copy(w) \/ Panic(w) \/ WriteEnds(w)

\* A kernel that has panicked stays so.
Halted == panicked /\ UNCHANGED vars

Next ==
  \/ /\ ~panicked
     /\ \/ \E w \in Writer : Write(w) \/ WriteStep(w)
        \/ \E r \in Reader : Read(r) \/ ReadByte(r)
        \/ inode_deny_write \/ inode_allow_write
  \/ Halted

Spec == Init /\ [][Next]_vars

-----------------------------------------------------------------------------
(* Properties. *)

Labels == {"idle", "lock", "expand", "copy", "mapped", "unmapped", "read"}

TypeOK ==
  /\ length \in 0..Capacity /\ read_length \in 0..Capacity
  /\ blocks \in 0..MaxBlocks
  /\ content \in [Byte -> BOOLEAN]
  /\ deny_write_cnt \in 0..1
  /\ owner \in Writer \cup Reader \cup {NULL}
  /\ pc \in [Writer \cup Reader -> Labels]
  /\ offset \in [Writer -> 0..MaxEnd] /\ size \in [Writer -> 0..MaxEnd]
  /\ end \in [Writer -> 0..MaxEnd] /\ tested \in [Writer -> 0..Capacity]
  /\ need \in [Writer -> 0..(SIZE_T - 1)]
  /\ known \in [Reader -> 0..Capacity]
  /\ zero \subseteq {"locked", "unlocked"}
  /\ shared \in BOOLEAN /\ shrunk \in BOOLEAN /\ panicked \in BOOLEAN

\* byte_to_sector() follows a pointer for every byte below the length it is
\* given, inode->length or a reader's read_length: it must have been allocated,
\* whatever grows, shrinks or wraps around in inode_expand().  And no write goes to
\* a byte that has no sector, but of a file that two calls write at the same time.
Mapped ==
  /\ TypeOK
  /\ length =< blocks * BLOCK_SECTOR_SIZE
  /\ read_length =< blocks * BLOCK_SECTOR_SIZE
  /\ \A r \in Reader : known[r] =< blocks * BLOCK_SECTOR_SIZE
  /\ panicked => shared /\ ~isdir

\* Only a writer whose test is out of date, or that asks for more than an index
\* can hold, makes a file smaller.
ShrinksOnlyIfStale ==
  [][length' < length =>
       \E w \in Writer : /\ pc[w] = "expand" /\ pc'[w] = "copy"
                         /\ tested[w] # length \/ end[w] > Capacity]_vars

\* A file gets a sector for every BLOCK_SECTOR_SIZE bytes and none twice,
\* whoever else writes: what inode_expand() adds is reckoned under the lock from
\* the length it finds, even where the length it returns is a stale one.
AllocatedOnce ==
  (\A w \in Writer : pc[w] # "expand") => blocks = bytes_to_data_sectors(length)

\* read_length hides a byte that is still being appended: nobody who reads a
\* directory under its lock gets a zero for it; and no reader at all, dir_is_empty()
\* among them, where one call at a time writes and none makes the file smaller.
NoZeroReadAlone ==
  /\ "locked" \notin zero
  /\ "unlocked" \in zero => shared \/ shrunk

\* filesys/README A3: "When the lock is acquired, the extension needed is
\* recomputed based on the new length": two threads extend a file as if one
\* after the other, and it is as long as the longer of the two made it.
NeverShrinks == [][length' >= length]_length

\* filesys/README A4: "if B writes nonzero data, A is not allowed to see all
\* zeros ... since the read_length is changed only at the end of the
\* inode_write_at function".
NoZeroRead == zero = {}

\* devices/block.c, check_sector(): a sector of the file system is "a valid offset
\* within BLOCK".
NoPanic == ~panicked

\* inode_deny_write() "Disables writes to INODE".
DeniedUnchanged == [][deny_write_cnt > 0 => content' = content]_content
===============================================================================
