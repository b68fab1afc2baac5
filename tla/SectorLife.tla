------------------------------ MODULE SectorLife ------------------------------
(***************************************************************************)
(* A sector that changes hands: given by the free map to a file, for its   *)
(* bytes or for its index, released, and given again, while the buffer     *)
(* cache knows nothing of it.                                              *)
(*                                                                         *)
(* filesys/cache.c holds the bytes of files, read and written through it.  *)
(* Inodes and index blocks, and the zeros that a new sector is filled      *)
(* with, go past it to the disk (filesys/inode.c), and free_map_release()  *)
(* leaves what is cached where it is.  BufferCache.tla has the cache's own *)
(* steps; here an access to it is one step.  What a free sector holds, on  *)
(* the disk or in the cache, is old, whatever it was.                      *)
(***************************************************************************)
EXTENDS Integers, FiniteSets

CONSTANTS Block,                  \* the sectors of the device
          MAX_FILESYS_CACHE_SIZE

ASSUME LifeAssumption == MAX_FILESYS_CACHE_SIZE \in Nat \ {0}

VARIABLES use,       \* what each sector is used for
          on_disk,   \* its content on the disk
          cache,     \* [content, dirty] of each cached sector
          latest,    \* history: what its owner wrote last
          stale      \* history: sectors that were cached when they were given

life == <<use, on_disk, cache, latest, stale>>

Uses == {"free", "bytes", "new index", "index"}
OLD == "old"
ZEROS == "zeros"
BYTES == "bytes"
POINTERS == "pointers"

LifeInit ==
  /\ use = [s \in Block |-> "free"]
  /\ on_disk = [s \in Block |-> OLD]
  /\ cache = [s \in {} |-> OLD]
  /\ latest = [s \in Block |-> OLD]
  /\ stale = {}

GivenTo(s, u) ==
  /\ use[s] = "free"
  /\ use' = [use EXCEPT ![s] = u]
  /\ stale' = IF s \in DOMAIN cache THEN stale \cup {s} ELSE stale

\* inode_expand() takes a sector for bytes and fills it with zeros.
GiveBytes(s) ==
  /\ GivenTo(s, "bytes")
  /\ on_disk' = [on_disk EXCEPT ![s] = ZEROS]
  /\ latest' = [latest EXCEPT ![s] = ZEROS]
  /\ UNCHANGED cache

\* It takes one for an index block, or filesys_create() for an inode, ...
GiveIndex(s) ==
  /\ GivenTo(s, "new index")
  /\ UNCHANGED <<on_disk, cache, latest>>

\* ... and stores that, then or again when there is more in it.
StoreIndex(s) ==
  /\ use[s] \in {"new index", "index"}
  /\ use' = [use EXCEPT ![s] = "index"]
  /\ on_disk' = [on_disk EXCEPT ![s] = POINTERS]
  /\ latest' = [latest EXCEPT ![s] = POINTERS]
  /\ UNCHANGED <<cache, stale>>

\* The disk once the cached sector v has been written back, if it is dirty.
WrittenBack(v) ==
  IF cache[v].dirty THEN [on_disk EXCEPT ![v] = cache[v].content] ELSE on_disk

\* The cache without v, which is the place s needs.
Evicted(v, s) == [t \in (DOMAIN cache \ {v}) \cup {s} |->
                    IF t = s THEN [content |-> on_disk[s], dirty |-> FALSE] ELSE cache[t]]

\* filesys_cache_block_get(): s is cached, or becomes so in a free place or in
\* that of another, which is written back first.
Fetch(s) ==
  /\ use[s] = "bytes" /\ s \notin DOMAIN cache
  /\ \/ /\ Cardinality(DOMAIN cache) < MAX_FILESYS_CACHE_SIZE
        /\ cache' = Evicted(s, s)
        /\ UNCHANGED on_disk
     \/ /\ Cardinality(DOMAIN cache) = MAX_FILESYS_CACHE_SIZE
        /\ \E v \in DOMAIN cache : /\ on_disk' = WrittenBack(v)
                                   /\ cache' = Evicted(v, s)
  /\ UNCHANGED <<use, latest, stale>>

\* inode_write_at() on the entry it got.
WriteEntry(s) ==
  /\ use[s] = "bytes" /\ s \in DOMAIN cache
  /\ cache' = [cache EXCEPT ![s] = [content |-> BYTES, dirty |-> TRUE]]
  /\ latest' = [latest EXCEPT ![s] = BYTES]
  /\ UNCHANGED <<use, on_disk, stale>>

\* Mutant of WriteBehind: the entry is marked clean and not written.
WriteBehind_skips(s) ==
  /\ s \in DOMAIN cache /\ cache[s].dirty
  /\ cache' = [cache EXCEPT ![s].dirty = FALSE]
  /\ UNCHANGED <<use, on_disk, latest, stale>>

\* filesys_cache_write_to_disk(), sector by sector.
WriteBehind(s) ==
  /\ s \in DOMAIN cache /\ cache[s].dirty
  /\ on_disk' = WrittenBack(s)
  /\ cache' = [cache EXCEPT ![s].dirty = FALSE]
  /\ UNCHANGED <<use, latest, stale>>

\* free_map_release() in inode_dealloc() and inode_close().
GiveBack(s) ==
  /\ use[s] \in {"bytes", "index"}
  /\ use' = [use EXCEPT ![s] = "free"]
  /\ on_disk' = [on_disk EXCEPT ![s] = OLD]
  /\ latest' = [latest EXCEPT ![s] = OLD]
  /\ cache' = [t \in DOMAIN cache |-> IF t = s THEN [cache[t] EXCEPT !.content = OLD] ELSE cache[t]]
  /\ stale' = stale \ {s}

LifeNext ==
  \E s \in Block : \/ GiveBytes(s) \/ GiveIndex(s) \/ StoreIndex(s)
                   \/ Fetch(s) \/ WriteEntry(s) \/ WriteBehind(s) \/ GiveBack(s)

LifeSpec == LifeInit /\ [][LifeNext]_life

-----------------------------------------------------------------------------
(* Properties. *)

LifeTypeOK ==
  /\ use \in [Block -> Uses]
  /\ on_disk \in [Block -> {OLD, ZEROS, BYTES, POINTERS}]
  /\ DOMAIN cache \in SUBSET Block
  /\ IsFiniteSet(DOMAIN cache) /\ Cardinality(DOMAIN cache) =< MAX_FILESYS_CACHE_SIZE
  /\ \A s \in DOMAIN cache : cache[s] \in [content : {OLD, ZEROS, BYTES, POINTERS}, dirty : BOOLEAN]
  /\ latest \in [Block -> {OLD, ZEROS, BYTES, POINTERS}]
  /\ stale \in SUBSET Block

\* What byte_to_sector() and inode_read_at() get of sector s: index blocks from
\* the disk, bytes through the cache.
Seen(s) == IF use[s] = "bytes" /\ s \in DOMAIN cache THEN cache[s].content ELSE on_disk[s]

\* The owner of a sector gets from it what it put there last, if only zeros, and
\* nothing of an earlier owner's, as long as the cache held nothing of the sector
\* when it was given: whatever is written to the disk past the cache, evicted or
\* written behind meanwhile.
OwnContent ==
  \A s \in Block \ stale : use[s] \in {"bytes", "index"} => Seen(s) = latest[s]

\* filesys/README:30: "the buffer cache is only used for data blocks on disk, not
\* inodes, indirect nor doubly indirect blocks": what is stored in an index block
\* stays there.
IndexIntact == \A s \in Block : use[s] = "index" => on_disk[s] = POINTERS

\* The same for a new sector of bytes: it reads as the zeros it was filled with.
NewReadsZeros == \A s \in Block : use[s] = "bytes" => Seen(s) # OLD
===============================================================================
