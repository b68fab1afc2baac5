------------------------------ MODULE InodeIndex ------------------------------
(***************************************************************************)
(* Where the bytes of a file are: the three-level index of filesys/inode.c *)
(* from inode_create() over inode_expand() to inode_dealloc(), with the    *)
(* free map that hands the sectors out.                                    *)
(*                                                                         *)
(* Lengths are counted in sectors.  A step is what happens between two     *)
(* disk operations that matter to another file: files are independent but  *)
(* for the free map, and a call on one file has its inode to itself.       *)
(* Sectors are taken and released in one step here: FreeMap.tla shows what *)
(* the bitmap's own steps are, SectorLife.tla what the cache still holds   *)
(* of a sector that changes hands.                                         *)
(*                                                                         *)
(* The first write to a sector the file does not own sets "fault": what    *)
(* follows is undefined, and the model stops.                              *)
(***************************************************************************)
EXTENDS Integers, FiniteSets, Sequences, Functions

CONSTANTS File,
          SECTORS,               \* of the file system device
          RESERVED,              \* sectors in use once it is formatted
          DIRECT_BLOCKS, INDIRECT_BLOCKS, INDIRECT_BLOCK_PTRS,
          MaxLength,             \* bound: the greatest length asked for of each file
          Calls,                 \* bound: how often each file may be created or grow
          NULL

ASSUME IndexAssumption ==
  /\ SECTORS \in Nat /\ RESERVED \in 1..SECTORS
  /\ DIRECT_BLOCKS \in Nat /\ INDIRECT_BLOCKS \in Nat
  /\ INDIRECT_BLOCK_PTRS \in Nat \ {0}
  /\ MaxLength \in [File -> Nat]
  /\ Calls \in SUBSET [File -> Nat]
  /\ NULL \notin File \cup 0..(SECTORS - 1)

VARIABLES marked,    \* the free map: sectors in use
          table,     \* the pointers on each sector that is an index block
          named,     \* the files that dir_add() has been done for
          pc,        \* of the call that works on each file
          inode,     \* struct inode
          left,      \* new_data_sectors, or data_sectors in inode_dealloc()
          tables,    \* indirect_sectors in inode_dealloc()
          goal,      \* the new length
          idx,       \* the loop counters of inode_dealloc()
          block, inner_block,  \* index blocks on the stack
          calls,               \* bound: how often it still may
          data, index,         \* history: the sectors each file was given for
                               \* its bytes, in order, and for its index
          lost,      \* history: sectors a failed filesys_create() left marked
          full,      \* history: an allocation failed
          fault

index_vars == <<marked, table, named, pc, inode, left, tables, goal, idx, block, inner_block, calls,
          data, index, lost, full, fault>>
frame == <<calls, left, tables, goal, idx, block, inner_block>>
disk == <<marked, table, named>>
history == <<data, index, lost, full>>

Sector == 0..(SECTORS - 1)
FREE_MAP_SECTOR == 0
DOUBLE_INDIRECT_INDEX == DIRECT_BLOCKS + INDIRECT_BLOCKS
Slot == 0..(INDIRECT_BLOCK_PTRS - 1)
\* A block of pointers on the stack before it is filled.
Garbage == [i \in Slot |-> NULL]
NewInode == [sector |-> NULL, length |-> 0, direct_index |-> 0, indirect_index |-> 0,
             double_indirect_index |-> 0,
             ptr |-> [i \in 0..DOUBLE_INDIRECT_INDEX |-> FREE_MAP_SECTOR]]

Least(S) == CHOOSE x \in S : \A y \in S : x =< y
Smaller(m, n) == IF m < n THEN m ELSE n

IndexInit ==
  /\ marked = 0..(RESERVED - 1)
  /\ table = [s \in Sector |-> Garbage]
  /\ named = {}
  /\ pc = [f \in File |-> "none"]
  /\ inode = [f \in File |-> NewInode]
  /\ left = [f \in File |-> 0] /\ tables = [f \in File |-> 0]
  /\ goal = [f \in File |-> 0] /\ idx = [f \in File |-> 0]
  /\ block = [f \in File |-> Garbage] /\ inner_block = [f \in File |-> Garbage]
  /\ calls \in Calls
  /\ data = [f \in File |-> <<>>] /\ index = [f \in File |-> {}]
  /\ lost = {} /\ full = FALSE /\ fault = FALSE

Goto(f, label) == pc' = [pc EXCEPT ![f] = label]

Counted(f) == calls[f] > 0 /\ calls' = [calls EXCEPT ![f] = @ - 1]

\* free_map_allocate(1, ..) of the lowest free sector.
Full == marked = Sector
Lowest == Least(Sector \ marked)
Give(s) == marked' = marked \cup {s}

\* free_map_release().  What a free sector holds is left out.
Release(S) ==
  /\ marked' = marked \ S
  /\ table' = [s \in Sector |-> IF s \in S THEN Garbage ELSE table[s]]

Fault == /\ fault' = TRUE
         /\ UNCHANGED <<disk, pc, inode, frame, history>>

-----------------------------------------------------------------------------
(* inode_create() and inode_expand().                                       *)

\* MAX_FILE_SIZE, in sectors.
Capacity == DIRECT_BLOCKS + INDIRECT_BLOCKS * INDIRECT_BLOCK_PTRS
              + INDIRECT_BLOCK_PTRS * INDIRECT_BLOCK_PTRS

\* filesys_create() gives the file a sector for its inode, and inode_alloc()
\* expands an empty one to its first length.
Create(f, n) ==
  /\ pc[f] = "none" /\ ~Full /\ Counted(f)
  /\ inode' = [inode EXCEPT ![f].sector = Lowest]
  /\ Give(Lowest)
  /\ index' = [index EXCEPT ![f] = {Lowest}]
  /\ left' = [left EXCEPT ![f] = Smaller(n, Capacity)]
  /\ goal' = [goal EXCEPT ![f] = Smaller(n, Capacity)]
  /\ Goto(f, "expand")
  /\ UNCHANGED <<table, named, tables, idx, block, inner_block, data, lost, full, fault>>

\* inode_write_at() beyond the end of an open file.
Expand(f, n) ==
  /\ pc[f] = "open" /\ n > inode[f].length /\ Counted(f)
  /\ left' = [left EXCEPT ![f] = n - inode[f].length]
  /\ goal' = [goal EXCEPT ![f] = n]
  /\ Goto(f, "expand")
  /\ UNCHANGED <<disk, inode, tables, idx, block, inner_block, history, fault>>

\* One of the three loops that allocate data sectors has another to allocate.
Wanted(f) ==
  /\ left[f] > 0
  /\ \/ pc[f] = "expand" /\ inode[f].direct_index < DIRECT_BLOCKS
     \/ pc[f] = "indirect" /\ inode[f].indirect_index < INDIRECT_BLOCK_PTRS
     \/ pc[f] = "inner" /\ inode[f].double_indirect_index < INDIRECT_BLOCK_PTRS

\* The pointer is entered and the index of its level goes up.
Enter(f, s) ==
  \/ /\ pc[f] = "expand"
     /\ inode' = [inode EXCEPT ![f].ptr[inode[f].direct_index] = s, ![f].direct_index = @ + 1]
     /\ UNCHANGED <<block, inner_block>>
  \/ /\ pc[f] = "indirect"
     /\ block' = [block EXCEPT ![f][inode[f].indirect_index] = s]
     /\ inode' = [inode EXCEPT ![f].indirect_index = @ + 1]
     /\ UNCHANGED inner_block
  \/ /\ pc[f] = "inner"
     /\ inner_block' = [inner_block EXCEPT ![f][inode[f].double_indirect_index] = s]
     /\ inode' = [inode EXCEPT ![f].double_indirect_index = @ + 1]
     /\ UNCHANGED block

\* A data sector, filled with zeros by block_write(), past the cache.
AddSector(f) ==
  /\ Wanted(f) /\ ~Full
  /\ Give(Lowest)
  /\ Enter(f, Lowest)
  /\ data' = [data EXCEPT ![f] = Append(@, Lowest)]
  /\ left' = [left EXCEPT ![f] = @ - 1]
  /\ UNCHANGED <<calls, table, named, pc, tables, goal, idx, index, lost, full, fault>>

\* free_map_allocate() fails, and nobody looks: the zeros go to the sector that
\* the pointer happens to hold, in an inode the free map's.
AddNothing(f) ==
  /\ Wanted(f) /\ Full
  /\ full' = TRUE /\ fault' = TRUE
  /\ UNCHANGED <<disk, pc, inode, frame, data, index, lost>>

\* An index block: a new one, on the stack until it is stored (its pointer
\* stays as it was if there is no sector for it) ...
NewTable(f) ==
  IF Full
    THEN /\ full' = TRUE
         /\ UNCHANGED <<marked, index>>
    ELSE /\ Give(Lowest)
         /\ index' = [index EXCEPT ![f] = @ \cup {Lowest}]
         /\ UNCHANGED full
\* ... or one that is read back.
ReadTable == UNCHANGED <<marked, index, full>>

\* inode_expand_indirect_block(), to its loop.
Indirect(f) ==
  LET at == inode[f].direct_index
  IN  /\ pc[f] = "expand" /\ left[f] > 0 /\ at \in DIRECT_BLOCKS..(DOUBLE_INDIRECT_INDEX - 1)
      /\ Goto(f, "indirect")
      /\ \/ /\ inode[f].indirect_index = 0
            /\ NewTable(f)
            /\ inode' = IF Full THEN inode ELSE [inode EXCEPT ![f].ptr[at] = Lowest]
            /\ block' = [block EXCEPT ![f] = Garbage]
         \/ /\ inode[f].indirect_index # 0
            /\ ReadTable
            /\ block' = [block EXCEPT ![f] = table[inode[f].ptr[at]]]
            /\ UNCHANGED inode
      /\ UNCHANGED <<calls, table, named, left, tables, goal, idx, inner_block, data, lost, fault>>

\* inode_expand_double_indirect_block(), to its loop.
DoubleIndirect(f) ==
  LET at == DOUBLE_INDIRECT_INDEX
  IN  /\ pc[f] = "expand" /\ left[f] > 0 /\ inode[f].direct_index = at
      /\ Goto(f, "outer")
      /\ \/ /\ inode[f].double_indirect_index = 0 /\ inode[f].indirect_index = 0
            /\ NewTable(f)
            /\ inode' = IF Full THEN inode ELSE [inode EXCEPT ![f].ptr[at] = Lowest]
            /\ block' = [block EXCEPT ![f] = Garbage]
         \/ /\ inode[f].double_indirect_index # 0 \/ inode[f].indirect_index # 0
            /\ ReadTable
            /\ block' = [block EXCEPT ![f] = table[inode[f].ptr[at]]]
            /\ UNCHANGED inode
      /\ UNCHANGED <<calls, table, named, left, tables, goal, idx, inner_block, data, lost, fault>>

\* inode_expand_double_indirect_block_lvl_two(), to its loop.
LevelTwo(f) ==
  LET i == inode[f].indirect_index
  IN  /\ pc[f] = "outer" /\ left[f] > 0 /\ i < INDIRECT_BLOCK_PTRS
      /\ Goto(f, "inner")
      /\ \/ /\ inode[f].double_indirect_index = 0
            /\ NewTable(f)
            /\ block' = IF Full THEN block ELSE [block EXCEPT ![f][i] = Lowest]
            /\ inner_block' = [inner_block EXCEPT ![f] = Garbage]
         \/ /\ inode[f].double_indirect_index # 0
            /\ ReadTable
            /\ inner_block' = [inner_block EXCEPT ![f] = table[block[f][i]]]
            /\ UNCHANGED block
      /\ UNCHANGED <<calls, table, named, inode, left, tables, goal, idx, data, lost, fault>>

Store(f, s, pointers) ==
  /\ s \in index[f]
  /\ table' = [table EXCEPT ![s] = pointers]

\* Mutant of IndirectEnds: indirect_index is left as it is when the block is full.
IndirectEnds_unreset(f) ==
  /\ pc[f] = "indirect" /\ ~Wanted(f)
  /\ Store(f, inode[f].ptr[inode[f].direct_index], block[f])
  /\ inode' = IF inode[f].indirect_index = INDIRECT_BLOCK_PTRS
                THEN [inode EXCEPT ![f].direct_index = @ + 1]
                ELSE inode
  /\ Goto(f, "expand")
  /\ UNCHANGED <<marked, named, frame, history, fault>>

\* The loop of a level is over: store its block, and at exactly a full one carry
\* to the level above.
IndirectEnds(f) ==
  /\ pc[f] = "indirect" /\ ~Wanted(f)
  /\ Store(f, inode[f].ptr[inode[f].direct_index], block[f])
  /\ inode' = IF inode[f].indirect_index = INDIRECT_BLOCK_PTRS
                THEN [inode EXCEPT ![f].indirect_index = 0, ![f].direct_index = @ + 1]
                ELSE inode
  /\ Goto(f, "expand")
  /\ UNCHANGED <<marked, named, frame, history, fault>>

LevelTwoEnds(f) ==
  /\ pc[f] = "inner" /\ ~Wanted(f)
  /\ Store(f, block[f][inode[f].indirect_index], inner_block[f])
  /\ inode' = IF inode[f].double_indirect_index = INDIRECT_BLOCK_PTRS
                THEN [inode EXCEPT ![f].double_indirect_index = 0, ![f].indirect_index = @ + 1]
                ELSE inode
  /\ Goto(f, "outer")
  /\ UNCHANGED <<marked, named, frame, history, fault>>

DoubleIndirectEnds(f) ==
  /\ pc[f] = "outer" /\ (left[f] = 0 \/ inode[f].indirect_index = INDIRECT_BLOCK_PTRS)
  /\ Store(f, inode[f].ptr[DOUBLE_INDIRECT_INDEX], block[f])
  /\ Goto(f, "expanded")
  /\ UNCHANGED <<marked, named, inode, frame, history, fault>>

\* A block that could not be allocated is stored over somebody else's sector.
StoresElsewhere(f) ==
  /\ \/ pc[f] = "indirect" /\ ~Wanted(f) /\ inode[f].ptr[inode[f].direct_index] \notin index[f]
     \/ pc[f] = "inner" /\ ~Wanted(f) /\ block[f][inode[f].indirect_index] \notin index[f]
     \/ /\ pc[f] = "outer" /\ (left[f] = 0 \/ inode[f].indirect_index = INDIRECT_BLOCK_PTRS)
        /\ inode[f].ptr[DOUBLE_INDIRECT_INDEX] \notin index[f]
  /\ Fault

\* The new length, less what the index had no room for.
Expanded(f) ==
  /\ \/ pc[f] = "expanded"
     \/ pc[f] = "expand" /\ left[f] = 0
  /\ inode' = [inode EXCEPT ![f].length = goal[f] - left[f]]
  /\ left' = [left EXCEPT ![f] = 0] /\ goal' = [goal EXCEPT ![f] = 0]
  /\ block' = [block EXCEPT ![f] = Garbage]
  /\ inner_block' = [inner_block EXCEPT ![f] = Garbage]
  /\ Goto(f, IF f \in named THEN "open" ELSE "created")
  /\ UNCHANGED <<calls, marked, table, named, tables, idx, history, fault>>

\* dir_add(), and somebody opens the file.
Add(f) ==
  /\ pc[f] = "created"
  /\ named' = named \cup {f}
  /\ Goto(f, "open")
  /\ UNCHANGED <<marked, table, inode, frame, history, fault>>

\* It fails after inode_create(): filesys_create() releases the inode's sector and
\* no other.
CreateFails(f) ==
  /\ pc[f] = "created" /\ lost = {}
  /\ Release({inode[f].sector})
  /\ lost' = lost \cup ((Range(data[f]) \cup index[f]) \ {inode[f].sector})
  /\ inode' = [inode EXCEPT ![f] = NewInode]
  /\ data' = [data EXCEPT ![f] = <<>>] /\ index' = [index EXCEPT ![f] = {}]
  /\ Goto(f, "none")
  /\ UNCHANGED <<named, frame, full, fault>>

-----------------------------------------------------------------------------
(* inode_close() of a removed file: inode_dealloc() counts its way back      *)
(* through the index from the length.                                        *)

bytes_to_indirect_sectors(n) ==
  IF n =< DIRECT_BLOCKS THEN 0
  ELSE (n - DIRECT_BLOCKS + INDIRECT_BLOCK_PTRS - 1) \div INDIRECT_BLOCK_PTRS

\* Mutant of bytes_to_double_indirect_sector: off by one at the boundary.
bytes_to_double_indirect_sector_late(n) ==
  n > DIRECT_BLOCKS + INDIRECT_BLOCKS * INDIRECT_BLOCK_PTRS + 1

bytes_to_double_indirect_sector(n) ==
  n > DIRECT_BLOCKS + INDIRECT_BLOCKS * INDIRECT_BLOCK_PTRS

Remove(f) ==
  /\ pc[f] = "open"
  /\ named' = named \ {f}
  /\ Release({inode[f].sector})
  /\ left' = [left EXCEPT ![f] = inode[f].length]
  /\ tables' = [tables EXCEPT ![f] = bytes_to_indirect_sectors(inode[f].length)]
  /\ index' = [index EXCEPT ![f] = @ \ {inode[f].sector}]
  /\ Goto(f, "dealloc")
  /\ UNCHANGED <<calls, inode, goal, idx, block, inner_block, data, lost, full, fault>>

DeallocDirect(f) ==
  /\ pc[f] = "dealloc" /\ left[f] > 0 /\ idx[f] < DIRECT_BLOCKS
  /\ Release({inode[f].ptr[idx[f]]})
  /\ left' = [left EXCEPT ![f] = @ - 1]
  /\ idx' = [idx EXCEPT ![f] = @ + 1]
  /\ UNCHANGED <<calls, named, pc, inode, tables, goal, block, inner_block, history, fault>>

\* inode_dealloc_indirect_block(): the pointers are read first, then the sectors
\* they lead to are released, and the block's own last.
Dealloc(s, n) == Release({table[s][i] : i \in 0..(n - 1)} \cup {s})

DeallocIndirect(f) ==
  LET s == inode[f].ptr[idx[f]]
      n == Smaller(left[f], INDIRECT_BLOCK_PTRS)
  IN  /\ pc[f] = "dealloc" /\ tables[f] > 0 /\ idx[f] \in DIRECT_BLOCKS..(DOUBLE_INDIRECT_INDEX - 1)
      /\ Dealloc(s, n)
      /\ left' = [left EXCEPT ![f] = @ - n]
      /\ tables' = [tables EXCEPT ![f] = @ - 1]
      /\ idx' = [idx EXCEPT ![f] = @ + 1]
      /\ UNCHANGED <<calls, named, pc, inode, goal, block, inner_block, history, fault>>

\* Both loops of inode_dealloc() are over.
Walked(f) ==
  /\ pc[f] = "dealloc"
  /\ left[f] = 0 \/ idx[f] >= DIRECT_BLOCKS
  /\ tables[f] = 0 \/ idx[f] = DOUBLE_INDIRECT_INDEX

\* inode_dealloc_double_indirect_block() reads the outer block ...
DeallocOuter(f) ==
  LET s == inode[f].ptr[idx[f]]
  IN  /\ Walked(f) /\ bytes_to_double_indirect_sector(inode[f].length)
      /\ block' = [block EXCEPT ![f] = table[s]]
      /\ idx' = [idx EXCEPT ![f] = 0]
      /\ Goto(f, "dealloc outer")
      /\ UNCHANGED <<calls, disk, inode, left, tables, goal, inner_block, history, fault>>

\* ... deals with each of the blocks it leads to ...
DeallocInner(f) ==
  LET s == block[f][idx[f]]
      n == Smaller(left[f], INDIRECT_BLOCK_PTRS)
  IN  /\ pc[f] = "dealloc outer" /\ idx[f] < tables[f]
      /\ Dealloc(s, n)
      /\ left' = [left EXCEPT ![f] = @ - n]
      /\ idx' = [idx EXCEPT ![f] = @ + 1]
      /\ UNCHANGED <<calls, named, pc, inode, tables, goal, block, inner_block, history, fault>>

\* ... and is released itself.
DeallocEnds(f) ==
  /\ \/ /\ pc[f] = "dealloc outer" /\ idx[f] = tables[f]
        /\ Release({inode[f].ptr[DOUBLE_INDIRECT_INDEX]})
     \/ /\ Walked(f) /\ ~bytes_to_double_indirect_sector(inode[f].length)
        /\ UNCHANGED <<marked, table>>
  /\ inode' = [inode EXCEPT ![f] = NewInode]
  /\ left' = [left EXCEPT ![f] = 0] /\ tables' = [tables EXCEPT ![f] = 0]
  /\ idx' = [idx EXCEPT ![f] = 0] /\ block' = [block EXCEPT ![f] = Garbage]
  /\ data' = [data EXCEPT ![f] = <<>>] /\ index' = [index EXCEPT ![f] = {}]
  /\ Goto(f, "none")
  /\ UNCHANGED <<calls, named, goal, inner_block, lost, full, fault>>

-----------------------------------------------------------------------------
(* byte_to_sector(): the sector of block i of f.                             *)

byte_to_sector(f, i) ==
  LET j == i - DIRECT_BLOCKS
      k == j - INDIRECT_BLOCKS * INDIRECT_BLOCK_PTRS
      ptr == inode[f].ptr
  IN  IF j < 0 THEN ptr[i]
      ELSE IF k < 0
        THEN table[ptr[DIRECT_BLOCKS + j \div INDIRECT_BLOCK_PTRS]][j % INDIRECT_BLOCK_PTRS]
      ELSE table[table[ptr[DOUBLE_INDIRECT_INDEX]][k \div INDIRECT_BLOCK_PTRS]]
                [k % INDIRECT_BLOCK_PTRS]

-----------------------------------------------------------------------------
ExpandStep(f) ==
  \/ AddSector(f) \/ AddNothing(f) \/ Indirect(f) \/ DoubleIndirect(f) \/ LevelTwo(f)
  \/ IndirectEnds(f) \/ LevelTwoEnds(f) \/ DoubleIndirectEnds(f) \/ StoresElsewhere(f)
  \/ Expanded(f)
DeallocStep(f) ==
  DeallocDirect(f) \/ DeallocIndirect(f) \/ DeallocOuter(f) \/ DeallocInner(f) \/ DeallocEnds(f)

FileStep(f) ==
  \/ \E n \in 0..MaxLength[f] : Create(f, n) \/ Expand(f, n)
  \/ ExpandStep(f) \/ Add(f) \/ CreateFails(f) \/ Remove(f) \/ DeallocStep(f)

IndexNext ==
  /\ ~fault
  /\ \E f \in File : FileStep(f)

IndexSpec == IndexInit /\ [][IndexNext]_index_vars

-----------------------------------------------------------------------------
(* Properties. *)

IndexTypeOK ==
  /\ marked \in SUBSET Sector
  /\ table \in [Sector -> [Slot -> Sector \cup {NULL}]]
  /\ named \in SUBSET File
  /\ pc \in [File -> {"none", "expand", "indirect", "outer", "inner", "expanded", "created",
                      "open", "dealloc", "dealloc outer"}]
  /\ \A f \in File :
       /\ inode[f].sector \in Sector \cup {NULL}
       /\ inode[f].length \in 0..Capacity
       /\ inode[f].direct_index \in 0..DOUBLE_INDIRECT_INDEX
       /\ inode[f].indirect_index \in 0..INDIRECT_BLOCK_PTRS
       /\ inode[f].double_indirect_index \in 0..INDIRECT_BLOCK_PTRS
       /\ inode[f].ptr \in [0..DOUBLE_INDIRECT_INDEX -> Sector]
       /\ left[f] \in 0..MaxLength[f] /\ goal[f] \in 0..MaxLength[f]
       /\ idx[f] \in Nat /\ tables[f] \in Nat
       /\ index[f] \in SUBSET Sector
  /\ block \in [File -> [Slot -> Sector \cup {NULL}]]
  /\ inner_block \in [File -> [Slot -> Sector \cup {NULL}]]
  /\ lost \in SUBSET Sector
  /\ full \in BOOLEAN /\ fault \in BOOLEAN

Deallocating == {f \in File : pc[f] \in {"dealloc", "dealloc outer"}}

\* The free map marks exactly the sectors that some file uses for its inode, its
\* index or its bytes, but for those a failed filesys_create() leaves marked:
\* inode_dealloc() finds by counting what inode_expand() took, at every length,
\* and nothing else.
Accounted ==
  /\ IndexTypeOK
  /\ Deallocating = {} /\ ~full
       => marked = 0..(RESERVED - 1) \cup lost \cup
                   UNION {Range(data[f]) \cup index[f] : f \in File}

\* byte_to_sector() leads from each block of a file to the sector it was given,
\* whatever steps the file grew in and wherever the tables became full; and no
\* sector has two uses, in a file or in two.  Only when a sector could not be had is
\* one written that is not the file's: an index block has a place of its own before
\* it is stored.
Mapped ==
  /\ fault => full
  /\ \A f \in File : pc[f] = "open" =>
    /\ Len(data[f]) = inode[f].length
    /\ \A i \in 0..(inode[f].length - 1) :
         /\ byte_to_sector(f, i) = data[f][i + 1]
         /\ data[f][i + 1] \in marked \ index[f]
         /\ \A j \in 0..(i - 1) : data[f][j + 1] # data[f][i + 1]
         /\ \A g \in (File \ {f}) \ Deallocating :
              data[f][i + 1] \notin Range(data[g]) \cup index[g]

\* inode_create() "Returns false if memory or disk allocation fails".
FullIsReported == ~full
===============================================================================
