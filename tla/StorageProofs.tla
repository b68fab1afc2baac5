---------------------------- MODULE StorageProofs -----------------------------
(*****************************************************************************)
(* A file reads from its sectors what it wrote there, for any number of      *)
(* sectors and any size of the cache: SectorLife.  The free map knows        *)
(* which sectors are in use, but for those that two callers raced for:       *)
(* MapKept.  The index of a file leads to every sector it was given, none    *)
(* of which has another use, and inode_dealloc() finds them all by           *)
(* counting, for any sizes of the index: Mapped and Accounted.               *)
(*****************************************************************************)
EXTENDS SectorLife, FreeMap, InodeIndex, FiniteSetTheorems, WellFoundedInduction, TLAPS

-----------------------------------------------------------------------------
(* What the sectors hold.                                                  *)

Held == {OLD, ZEROS, BYTES, POINTERS}

\* The types that the steps keep.
LifeTypes ==
  /\ use \in [Block -> Uses]
  /\ on_disk \in [Block -> Held]
  /\ latest \in [Block -> Held]
  /\ DOMAIN cache \subseteq Block
  /\ IsFiniteSet(DOMAIN cache) /\ Cardinality(DOMAIN cache) =< MAX_FILESYS_CACHE_SIZE
  /\ cache \in [DOMAIN cache -> [content : Held, dirty : BOOLEAN]]
  /\ stale \subseteq Block

\* A sector that was not cached when it was given for an index never is, since
\* only bytes are fetched.
IndexUncached(s) == use[s] \in {"new index", "index"} => s \notin DOMAIN cache

\* A sector of bytes is as its owner left it in the cache; on the disk it may lag
\* behind only while the entry is dirty.
Kept(s) ==
  /\ use[s] = "index" => on_disk[s] = latest[s]
  /\ use[s] = "bytes" =>
       /\ s \in DOMAIN cache => cache[s].content = latest[s]
       /\ s \notin DOMAIN cache => on_disk[s] = latest[s]
       /\ s \in DOMAIN cache => (cache[s].dirty \/ on_disk[s] = latest[s])

\* OwnContent alone is not inductive: nothing in it says that a clean entry may be
\* evicted, or that no entry can be written over an index block.
LifeIInv == LifeTypes /\ \A s \in Block \ stale : IndexUncached(s) /\ Kept(s)

-----------------------------------------------------------------------------
\* The invariant holds in the initial states.
LEMMA LifeInitially == LifeInit => LifeIInv
<1> SUFFICES ASSUME LifeInit PROVE LifeIInv
  OBVIOUS
<1>1. DOMAIN cache = {} /\ IsFiniteSet(DOMAIN cache) /\ Cardinality(DOMAIN cache) = 0
  BY FS_EmptySet DEF LifeInit
<1> QED
  BY <1>1, LifeAssumption DEF LifeInit, LifeIInv, LifeTypes, IndexUncached, Kept, Uses, Held

\* A fetch leaves no more entries than there are places.
LEMMA FetchFits ==
  ASSUME LifeTypes, NEW s \in Block, Fetch(s)
  PROVE  IsFiniteSet(DOMAIN cache') /\ Cardinality(DOMAIN cache') =< MAX_FILESYS_CACHE_SIZE
<1>1. IsFiniteSet(DOMAIN cache) /\ Cardinality(DOMAIN cache) \in Nat /\ s \notin DOMAIN cache
  BY FS_CardinalityType DEF LifeTypes, Fetch
<1>2. CASE Cardinality(DOMAIN cache) < MAX_FILESYS_CACHE_SIZE /\ cache' = Evicted(s, s)
  <2>1. DOMAIN cache' = DOMAIN cache \cup {s}
    BY <1>2 DEF Evicted
  <2>2. /\ IsFiniteSet(DOMAIN cache \cup {s})
        /\ Cardinality(DOMAIN cache \cup {s}) = Cardinality(DOMAIN cache) + 1
    BY <1>1, FS_AddElement
  <2> QED
    BY <1>1, <1>2, <2>1, <2>2, LifeAssumption
<1>3. ASSUME NEW v \in DOMAIN cache, Cardinality(DOMAIN cache) = MAX_FILESYS_CACHE_SIZE,
             cache' = Evicted(v, s)
      PROVE  IsFiniteSet(DOMAIN cache') /\ Cardinality(DOMAIN cache') =< MAX_FILESYS_CACHE_SIZE
  <2>1. DOMAIN cache' = (DOMAIN cache \ {v}) \cup {s} /\ s \notin DOMAIN cache \ {v}
    BY <1>1, <1>3 DEF Evicted
  <2>2. /\ IsFiniteSet(DOMAIN cache \ {v})
        /\ Cardinality(DOMAIN cache \ {v}) = Cardinality(DOMAIN cache) - 1
    BY <1>1, FS_RemoveElement
  <2>3. /\ IsFiniteSet((DOMAIN cache \ {v}) \cup {s})
        /\ Cardinality((DOMAIN cache \ {v}) \cup {s}) = Cardinality(DOMAIN cache \ {v}) + 1
    BY <2>1, <2>2, FS_AddElement
  <2> QED
    BY <1>1, <1>3, <2>1, <2>2, <2>3, LifeAssumption
<1> QED
  BY <1>2, <1>3 DEF Fetch

\* Each operation keeps the types.
LEMMA TypesKept == LifeIInv /\ [LifeNext]_life => LifeTypes'
<1> SUFFICES ASSUME LifeIInv, [LifeNext]_life PROVE LifeTypes'
  OBVIOUS
<1> USE DEF LifeIInv, LifeTypes, Uses, Held
<1>1. CASE UNCHANGED life
  BY <1>1 DEF life
<1>2. ASSUME NEW s \in Block, GiveBytes(s) PROVE LifeTypes'
  BY <1>2 DEF GiveBytes, GivenTo
<1>3. ASSUME NEW s \in Block, GiveIndex(s) PROVE LifeTypes'
  BY <1>3 DEF GiveIndex, GivenTo
<1>4. ASSUME NEW s \in Block, StoreIndex(s) PROVE LifeTypes'
  BY <1>4 DEF StoreIndex
<1>5. ASSUME NEW s \in Block, Fetch(s) PROVE LifeTypes'
  <2>1. PICK v \in DOMAIN cache \cup {s} :
          /\ cache' = Evicted(v, s)
          /\ on_disk' = on_disk \/ (v \in DOMAIN cache /\ on_disk' = WrittenBack(v))
    BY <1>5 DEF Fetch
  <2>2. on_disk' \in [Block -> Held]
    BY <2>1 DEF WrittenBack
  <2>3. [content |-> on_disk[s], dirty |-> FALSE] \in [content : Held, dirty : BOOLEAN]
    OBVIOUS
  <2>4. /\ DOMAIN cache' = (DOMAIN cache \ {v}) \cup {s}
        /\ cache' \in [DOMAIN cache' -> [content : Held, dirty : BOOLEAN]]
    BY <2>1, <2>3 DEF Evicted
  <2> QED
    BY <1>5, <2>2, <2>4, FetchFits DEF Fetch
<1>6. ASSUME NEW s \in Block, WriteEntry(s) PROVE LifeTypes'
  BY <1>6 DEF WriteEntry
<1>7. ASSUME NEW s \in Block, WriteBehind(s) PROVE LifeTypes'
  BY <1>7 DEF WriteBehind, WrittenBack
<1>8. ASSUME NEW s \in Block, GiveBack(s) PROVE LifeTypes'
  BY <1>8 DEF GiveBack
<1> QED
  BY <1>1, <1>2, <1>3, <1>4, <1>5, <1>6, <1>7, <1>8 DEF LifeNext

\* No operation puts an index block in the cache or loses what was written.
LEMMA ContentKept ==
  ASSUME LifeIInv, [LifeNext]_life, NEW r \in Block, r \notin stale'
  PROVE  IndexUncached(r)' /\ Kept(r)'
<1> USE DEF LifeIInv, LifeTypes, IndexUncached, Kept
<1>1. CASE UNCHANGED life
  BY <1>1 DEF life
<1>2. ASSUME NEW s \in Block, GiveBytes(s) PROVE IndexUncached(r)' /\ Kept(r)'
  BY <1>2 DEF GiveBytes, GivenTo
<1>3. ASSUME NEW s \in Block, GiveIndex(s) PROVE IndexUncached(r)' /\ Kept(r)'
  BY <1>3 DEF GiveIndex, GivenTo
<1>4. ASSUME NEW s \in Block, StoreIndex(s) PROVE IndexUncached(r)' /\ Kept(r)'
  BY <1>4 DEF StoreIndex
<1>5. ASSUME NEW s \in Block, Fetch(s) PROVE IndexUncached(r)' /\ Kept(r)'
  <2>1. PICK v \in DOMAIN cache \cup {s} :
          /\ cache' = Evicted(v, s)
          /\ (on_disk' = on_disk /\ v = s) \/ (v \in DOMAIN cache /\ on_disk' = WrittenBack(v))
    BY <1>5 DEF Fetch
  <2>2. use[s] = "bytes" /\ s \notin DOMAIN cache /\ UNCHANGED <<use, latest, stale>>
    BY <1>5 DEF Fetch
  <2>3. CASE r = s
    <3>1. on_disk'[r] = on_disk[r]
      BY <2>1, <2>2, <2>3 DEF WrittenBack
    <3>2. r \in DOMAIN cache' /\ cache'[r] = [content |-> on_disk[s], dirty |-> FALSE]
      BY <2>1, <2>3 DEF Evicted
    <3>3. use'[r] = "bytes" /\ latest'[r] = on_disk[s]
      BY <2>2, <2>3
    <3> HIDE DEF LifeIInv, LifeTypes, IndexUncached, Kept
    <3>4. cache'[r].content = on_disk[s]
      BY <3>2
    <3>5. on_disk'[r] = on_disk[s]
      BY <2>3, <3>1
    <3> QED
      BY <3>2, <3>3, <3>4, <3>5 DEF IndexUncached, Kept
  <2>4. CASE r # s /\ r = v
    <3>1. r \notin DOMAIN cache' /\ r \in DOMAIN cache
      BY <2>1, <2>4 DEF Evicted
    <3>2. on_disk'[r] = IF cache[r].dirty THEN cache[r].content ELSE on_disk[r]
      BY <2>1, <2>4, <3>1 DEF WrittenBack
    <3> QED
      BY <2>2, <3>1, <3>2
  <2>5. CASE r # s /\ r # v
    <3>1. on_disk'[r] = on_disk[r]
      BY <2>1, <2>5 DEF WrittenBack
    <3>2. /\ r \in DOMAIN cache' <=> r \in DOMAIN cache
          /\ r \in DOMAIN cache => cache'[r] = cache[r]
      BY <2>1, <2>5 DEF Evicted
    <3> QED
      BY <2>2, <3>1, <3>2
  <2> QED
    BY <2>3, <2>4, <2>5
<1>6. ASSUME NEW s \in Block, WriteEntry(s) PROVE IndexUncached(r)' /\ Kept(r)'
  BY <1>6 DEF WriteEntry
<1>7. ASSUME NEW s \in Block, WriteBehind(s) PROVE IndexUncached(r)' /\ Kept(r)'
  BY <1>7 DEF WriteBehind, WrittenBack
<1>8. ASSUME NEW s \in Block, GiveBack(s) PROVE IndexUncached(r)' /\ Kept(r)'
  BY <1>8 DEF GiveBack, Uses
<1> QED
  BY <1>1, <1>2, <1>3, <1>4, <1>5, <1>6, <1>7, <1>8 DEF LifeNext

\* The owner of a sector that was not cached when it was given reads from it what
\* it wrote there last: SectorLife's OwnContent, in every reachable state.
THEOREM LifeCorrect == LifeSpec => [](LifeTypeOK /\ OwnContent)
<1>1. LifeIInv /\ [LifeNext]_life => LifeIInv'
  <2> SUFFICES ASSUME LifeIInv, [LifeNext]_life PROVE LifeIInv'
    OBVIOUS
  <2>1. LifeTypes'
    BY TypesKept
  <2>2. \A r \in Block : r \notin stale' => IndexUncached(r)' /\ Kept(r)'
    BY ContentKept
  <2> QED
    BY <2>1, <2>2 DEF LifeIInv
<1>2. LifeIInv => LifeTypeOK
  BY DEF LifeIInv, LifeTypes, LifeTypeOK, Held
<1>3. LifeIInv => OwnContent
  BY DEF LifeIInv, IndexUncached, Kept, OwnContent, Seen
<1> QED
  BY <1>1, <1>2, <1>3, LifeInitially, PTL DEF LifeSpec

-----------------------------------------------------------------------------
(* The free map.                                                           *)

\* A caller that has found a bit clear, and that nobody has overtaken, will find it
\* clear still; one that releases a sector has it; and the loops begin at the first
\* bit.
AtWork ==
  \A c \in Caller :
    /\ doing[c] = "mark" /\ c \notin overtaken => ~bits[sector[c]]
    /\ doing[c] = "reset" => sector[c] \in owned[c]
    /\ doing[c] \in {"idle", "mark", "reset"} => pos[c] = 0
    /\ doing[c] = "store" => pos[c] \in Bit

\* Who loses a sector to its other owner had it, and it has been given to two.
RobbedRaced == \A c \in Caller : robbed[c] \subseteq owned[c] \cap raced

\* Some writer has still to copy bit s to the file.
WillWrite(s) == \E c \in Caller : doing[c] \in {"load", "store"} /\ pos[c] =< s

Saved == \A s \in Bit : s \in torn \/ on_file[s] = bits[s] \/ WillWrite(s)

MapIInv == FreeMapTypeOK /\ AtWork /\ RobbedRaced /\ OwnersMarked /\ Saved

\* The invariant holds in the initial states.
LEMMA MapInit == FreeMapAssumption /\ FreeMapInit => MapIInv
<1> SUFFICES ASSUME FreeMapAssumption, FreeMapInit PROVE MapIInv
  OBVIOUS
<1>1. 0 \in Bit /\ 0 \in 0..BIT_CNT
  BY DEF FreeMapAssumption, Bit
<1>2. FreeMapTypeOK
  BY <1>1 DEF FreeMapInit, FreeMapTypeOK
<1>3. AtWork /\ RobbedRaced
  BY <1>1 DEF FreeMapInit, AtWork, RobbedRaced
<1>4. OwnersMarked /\ Saved
  BY DEF FreeMapInit, OwnersMarked, Saved
<1> QED
  BY <1>2, <1>3, <1>4 DEF MapIInv

\* A step that changes neither the map, nor its owners, nor the file.
LEMMA MapKeeps ==
  ASSUME FreeMapAssumption, MapIInv, FreeMapTypeOK', AtWork',
         UNCHANGED <<bits, on_file, panicked, owned, robbed, raced, torn>>,
         \A c \in Caller : doing[c] \in {"load", "store"} =>
           doing'[c] \in {"load", "store"} /\ (pos'[c] = pos[c] \/ pos[c] \notin Bit)
  PROVE  MapIInv'
<1>1. RobbedRaced' /\ OwnersMarked'
  BY DEF MapIInv, RobbedRaced, OwnersMarked
<1>2. ASSUME NEW s \in Bit, WillWrite(s) PROVE WillWrite(s)'
  <2> PICK c \in Caller : doing[c] \in {"load", "store"} /\ pos[c] =< s
    BY <1>2 DEF WillWrite
  <2>1. pos[c] \in 0..BIT_CNT /\ BIT_CNT \in Nat
    BY DEF MapIInv, FreeMapTypeOK, FreeMapAssumption
  <2>2. pos[c] \in Bit
    BY <2>1 DEF Bit
  <2> QED
    BY <2>2 DEF WillWrite
<1>3. Saved'
  BY <1>2 DEF MapIInv, Saved
<1> QED
  BY <1>1, <1>3 DEF MapIInv

\* free_map_allocate() is called.
LEMMA AllocateMap ==
  ASSUME FreeMapAssumption, MapIInv, NEW c \in Caller, free_map_allocate(c)
  PROVE  MapIInv'
<1>1. FreeMapTypeOK' /\ AtWork'
  BY DEF MapIInv, FreeMapTypeOK, AtWork, free_map_allocate, Proceed, owners
<1> QED
  BY <1>1, MapKeeps DEF MapIInv, FreeMapTypeOK, free_map_allocate, Proceed, owners

\* bitmap_scan() tests a bit.
LEMMA ScanMap ==
  ASSUME FreeMapAssumption, MapIInv, NEW c \in Caller, bitmap_scan(c)
  PROVE  MapIInv'
<1>1. FreeMapTypeOK'
  <2>1. doing' \in [Caller -> {"idle", "scan", "mark", "reset", "load", "store"}]
    BY DEF MapIInv, FreeMapTypeOK, bitmap_scan, Proceed
  <2>2. sector' \in [Caller -> Bit]
    BY DEF MapIInv, FreeMapTypeOK, bitmap_scan
  <2>3. pos' \in [Caller -> 0..BIT_CNT]
    <3>1. pos[c] + 1 \in 0..BIT_CNT /\ 0 \in 0..BIT_CNT
      BY DEF MapIInv, FreeMapTypeOK, FreeMapAssumption, Bit, bitmap_scan
    <3>2. pos' = [pos EXCEPT ![c] = pos[c] + 1] \/ pos' = [pos EXCEPT ![c] = 0]
      BY DEF bitmap_scan
    <3> QED
      BY <3>1, <3>2 DEF MapIInv, FreeMapTypeOK
  <2> QED
    BY <2>1, <2>2, <2>3 DEF MapIInv, FreeMapTypeOK, bitmap_scan, owners
<1>2. AtWork'
  BY DEF MapIInv, FreeMapTypeOK, AtWork, bitmap_scan, Proceed, owners
<1>3. doing[c] = "scan" /\ \A d \in Caller \ {c} : doing'[d] = doing[d] /\ pos'[d] = pos[d]
  BY DEF MapIInv, FreeMapTypeOK, bitmap_scan, Proceed
<1> QED
  BY <1>1, <1>2, <1>3, MapKeeps DEF bitmap_scan, owners

\* No bit is clear.
LEMMA ScanFailsMap ==
  ASSUME FreeMapAssumption, MapIInv, NEW c \in Caller, ScanFails(c)
  PROVE  MapIInv'
<1>1. FreeMapTypeOK' /\ AtWork'
  BY DEF MapIInv, FreeMapTypeOK, FreeMapAssumption, Bit, AtWork, ScanFails, Proceed, owners
<1>2. doing[c] = "scan" /\ \A d \in Caller \ {c} : doing'[d] = doing[d] /\ pos'[d] = pos[d]
  BY DEF MapIInv, FreeMapTypeOK, ScanFails, Proceed
<1> QED
  BY <1>1, <1>2, MapKeeps DEF ScanFails, owners

\* bitmap_set_multiple() marks the bit that the scan found.
LEMMA MarkMap ==
  ASSUME FreeMapAssumption, MapIInv, ~panicked, NEW c \in Caller, bitmap_mark(c)
  PROVE  MapIInv'
<1> PICK s \in Bit : s = sector[c]
  BY DEF MapIInv, FreeMapTypeOK
<1>1. /\ doing[c] = "mark"
      /\ bits' = [bits EXCEPT ![s] = TRUE]
      /\ Takes(c, s)
      /\ doing' = [doing EXCEPT ![c] = "load"]
      /\ UNCHANGED <<on_file, sector, pos, byte, panicked, torn>>
  BY DEF bitmap_mark, Proceed
<1>2. /\ owned' = [owned EXCEPT ![c] = @ \cup {s}]
      /\ robbed' = [robbed EXCEPT ![c] = @ \ {s}]
      /\ raced \subseteq raced' /\ raced' \subseteq raced \cup {s}
      /\ overtaken' = (overtaken \ {c}) \cup {d \in Caller \ {c} : doing[d] = "mark" /\ sector[d] = s}
  BY <1>1 DEF Takes
<1>3. FreeMapTypeOK'
  BY <1>1, <1>2 DEF MapIInv, FreeMapTypeOK
<1>4. AtWork'
  <2> SUFFICES ASSUME NEW d \in Caller
               PROVE  /\ doing'[d] = "mark" /\ d \notin overtaken' => ~bits'[sector'[d]]
                      /\ doing'[d] = "reset" => sector'[d] \in owned'[d]
                      /\ doing'[d] \in {"idle", "mark", "reset"} => pos'[d] = 0
                      /\ doing'[d] = "store" => pos'[d] \in Bit
    BY DEF AtWork
  <2>1. d = c => doing'[d] = "load"
    BY <1>1 DEF MapIInv, FreeMapTypeOK
  <2>2. d # c => doing'[d] = doing[d]
    BY <1>1 DEF MapIInv, FreeMapTypeOK
  <2> QED
    BY <1>1, <1>2, <2>1, <2>2 DEF MapIInv, FreeMapTypeOK, AtWork
<1>5. RobbedRaced'
  BY <1>2 DEF MapIInv, FreeMapTypeOK, RobbedRaced
<1>6. ASSUME NEW d \in Caller \ {c}, s \in owned[d] PROVE s \in raced'
  <2>1. CASE c \in overtaken
    BY <1>1, <1>6, <2>1 DEF Takes
  <2>2. CASE c \notin overtaken
    <3>1. ~bits[s]
      BY <1>1, <2>2 DEF MapIInv, AtWork
    <3>2. s \in robbed[d]
      BY <1>6, <3>1 DEF MapIInv, OwnersMarked
    <3> QED
      BY <1>2, <3>2 DEF MapIInv, RobbedRaced
  <2> QED
    BY <2>1, <2>2
<1>7. \A d, e \in Caller : d # e => owned'[d] \cap owned'[e] \in SUBSET raced'
  <2> SUFFICES ASSUME NEW d \in Caller, NEW e \in Caller, d # e,
                      NEW x \in owned'[d], x \in owned'[e]
               PROVE  x \in raced'
    OBVIOUS
  <2>1. CASE x \in owned[d] /\ x \in owned[e]
    BY <1>2, <2>1 DEF MapIInv, OwnersMarked
  <2>2. CASE ~(x \in owned[d] /\ x \in owned[e])
    BY <1>2, <1>6, <2>2 DEF MapIInv, FreeMapTypeOK
  <2> QED
    BY <2>1, <2>2
<1>8. \A x \in Bit : bits'[x] <=> \E d \in Caller : x \in owned'[d] \ robbed'[d]
  <2> SUFFICES ASSUME NEW x \in Bit
               PROVE  bits'[x] <=> \E d \in Caller : x \in owned'[d] \ robbed'[d]
    OBVIOUS
  <2>1. CASE x = s
    <3>1. bits'[x] /\ x \in owned'[c] \ robbed'[c]
      BY <1>1, <1>2, <2>1 DEF MapIInv, FreeMapTypeOK
    <3> QED
      BY <3>1
  <2>2. CASE x # s
    <3>1. bits'[x] = bits[x]
      BY <1>1, <2>2 DEF MapIInv, FreeMapTypeOK
    <3>2. \A d \in Caller : x \in owned'[d] \ robbed'[d] <=> x \in owned[d] \ robbed[d]
      BY <1>2, <2>2 DEF MapIInv, FreeMapTypeOK
    <3> QED
      BY <3>1, <3>2 DEF MapIInv, OwnersMarked
  <2> QED
    BY <2>1, <2>2
<1>9. panicked' => \E d \in Caller : robbed'[d] # {}
  BY <1>1
<1>10. Saved'
  <2> SUFFICES ASSUME NEW x \in Bit PROVE x \in torn' \/ on_file'[x] = bits'[x] \/ WillWrite(x)'
    BY DEF Saved
  <2>1. doing'[c] = "load" /\ pos'[c] = 0
    BY <1>1 DEF MapIInv, FreeMapTypeOK, AtWork
  <2> QED
    BY <2>1 DEF WillWrite, Bit
<1> QED
  BY <1>3, <1>4, <1>5, <1>7, <1>8, <1>9, <1>10 DEF MapIInv, OwnersMarked

\* free_map_release() is called.
LEMMA ReleaseMap ==
  ASSUME FreeMapAssumption, MapIInv, ~panicked, NEW c \in Caller, NEW s \in Bit, free_map_release(c, s)
  PROVE  MapIInv'
<1>1. doing[c] = "idle" /\ s \in owned[c]
  BY DEF free_map_release
<1>2. UNCHANGED <<bits, on_file, pos, byte, owned, robbed, overtaken, raced, torn>>
  BY DEF free_map_release, owners
<1>3. CASE ~bits[s] /\ panicked' = TRUE /\ UNCHANGED <<doing, sector>>
  <2>1. FreeMapTypeOK' /\ AtWork'
    BY <1>2, <1>3 DEF MapIInv, FreeMapTypeOK, AtWork
  <2>2. s \in robbed[c]
    BY <1>1, <1>3 DEF MapIInv, OwnersMarked
  <2>3. RobbedRaced' /\ Saved'
    BY <1>2, <1>3 DEF MapIInv, RobbedRaced, Saved, WillWrite
  <2>4. OwnersMarked'
    BY <1>2, <2>2 DEF MapIInv, OwnersMarked
  <2> QED
    BY <2>1, <2>3, <2>4 DEF MapIInv
<1>4. CASE doing' = [doing EXCEPT ![c] = "reset"] /\ sector' = [sector EXCEPT ![c] = s] /\ UNCHANGED panicked
  <2>1. FreeMapTypeOK' /\ AtWork'
    BY <1>1, <1>2, <1>4 DEF MapIInv, FreeMapTypeOK, AtWork
  <2> QED
    BY <1>1, <1>2, <1>4, <2>1, MapKeeps DEF MapIInv, FreeMapTypeOK
<1> QED
  BY <1>3, <1>4 DEF free_map_release, Proceed

\* It clears the bit.
LEMMA ResetMap ==
  ASSUME FreeMapAssumption, MapIInv, ~panicked, NEW c \in Caller, bitmap_reset(c)
  PROVE  MapIInv'
<1> PICK s \in Bit : s = sector[c]
  BY DEF MapIInv, FreeMapTypeOK
<1>1. /\ doing[c] = "reset"
      /\ bits' = [bits EXCEPT ![s] = FALSE]
      /\ Releases(c, s)
      /\ doing' = [doing EXCEPT ![c] = "load"]
      /\ UNCHANGED <<on_file, sector, pos, byte, panicked, torn>>
  BY DEF bitmap_reset, Proceed
<1>2. s \in owned[c]
  BY <1>1 DEF MapIInv, AtWork
<1>3. /\ owned' = [owned EXCEPT ![c] = @ \ {s}]
      /\ \A d \in Caller : robbed'[d] = IF d # c /\ s \in owned[d] THEN robbed[d] \cup {s}
                                        ELSE robbed[d] \ (IF d = c THEN {s} ELSE {})
      /\ robbed' \in [Caller -> SUBSET Bit]
      /\ raced' = IF \A d \in Caller \ {c} : s \notin owned[d] THEN raced \ {s} ELSE raced
      /\ overtaken' = overtaken
  BY <1>1 DEF Releases, MapIInv, FreeMapTypeOK
<1>4. FreeMapTypeOK'
  <2>1. raced' \in SUBSET Bit
    BY <1>3 DEF MapIInv, FreeMapTypeOK
  <2> QED
    BY <1>1, <1>3, <2>1 DEF MapIInv, FreeMapTypeOK
<1>5. AtWork'
  <2> SUFFICES ASSUME NEW d \in Caller
               PROVE  /\ doing'[d] = "mark" /\ d \notin overtaken' => ~bits'[sector'[d]]
                      /\ doing'[d] = "reset" => sector'[d] \in owned'[d]
                      /\ doing'[d] \in {"idle", "mark", "reset"} => pos'[d] = 0
                      /\ doing'[d] = "store" => pos'[d] \in Bit
    BY DEF AtWork
  <2>1. d = c => doing'[d] = "load"
    BY <1>1 DEF MapIInv, FreeMapTypeOK
  <2>2. d # c => doing'[d] = doing[d] /\ owned'[d] = owned[d]
    BY <1>1, <1>3 DEF MapIInv, FreeMapTypeOK
  <2> QED
    BY <1>1, <1>3, <2>1, <2>2 DEF MapIInv, FreeMapTypeOK, AtWork
<1>6. \A d \in Caller \ {c} : s \in owned[d] => s \in raced
  BY <1>2 DEF MapIInv, OwnersMarked
<1>7. RobbedRaced'
  <2> SUFFICES ASSUME NEW d \in Caller, NEW x \in robbed'[d]
               PROVE  x \in owned'[d] /\ x \in raced'
    BY DEF RobbedRaced
  <2>1. CASE x = s
    <3>1. d # c
      BY <1>3, <2>1
    <3>2. s \in owned[d]
      BY <1>3, <2>1, <3>1 DEF MapIInv, RobbedRaced
    <3> QED
      BY <1>3, <1>6, <2>1, <3>1, <3>2 DEF MapIInv, FreeMapTypeOK
  <2>2. CASE x # s
    <3>1. x \in robbed[d]
      BY <1>3, <2>2
    <3> QED
      BY <1>3, <2>2, <3>1 DEF MapIInv, FreeMapTypeOK, RobbedRaced
  <2> QED
    BY <2>1, <2>2
<1>8. \A d, e \in Caller : d # e => owned'[d] \cap owned'[e] \in SUBSET raced'
  <2> SUFFICES ASSUME NEW d \in Caller, NEW e \in Caller, d # e,
                      NEW x \in owned'[d], x \in owned'[e]
               PROVE  x \in raced'
    OBVIOUS
  <2>1. x \in owned[d] /\ x \in owned[e] /\ (x = s => d # c /\ e # c)
    BY <1>3 DEF MapIInv, FreeMapTypeOK
  <2>2. x \in raced
    BY <2>1 DEF MapIInv, OwnersMarked
  <2> QED
    BY <1>3, <2>1, <2>2
<1>9. \A x \in Bit : bits'[x] <=> \E d \in Caller : x \in owned'[d] \ robbed'[d]
  <2> SUFFICES ASSUME NEW x \in Bit
               PROVE  bits'[x] <=> \E d \in Caller : x \in owned'[d] \ robbed'[d]
    OBVIOUS
  <2>1. CASE x = s
    <3>1. ~bits'[x]
      BY <1>1, <2>1 DEF MapIInv, FreeMapTypeOK
    <3>2. \A d \in Caller : x \notin owned'[d] \ robbed'[d]
      BY <1>3, <2>1 DEF MapIInv, FreeMapTypeOK
    <3> QED
      BY <3>1, <3>2
  <2>2. CASE x # s
    <3>1. bits'[x] = bits[x]
      BY <1>1, <2>2 DEF MapIInv, FreeMapTypeOK
    <3>2. \A d \in Caller : x \in owned'[d] \ robbed'[d] <=> x \in owned[d] \ robbed[d]
      BY <1>3, <2>2 DEF MapIInv, FreeMapTypeOK
    <3> QED
      BY <3>1, <3>2 DEF MapIInv, OwnersMarked
  <2> QED
    BY <2>1, <2>2
<1>10. Saved'
  <2> SUFFICES ASSUME NEW x \in Bit PROVE WillWrite(x)'
    BY DEF Saved
  <2>1. doing'[c] = "load" /\ pos'[c] = 0
    BY <1>1 DEF MapIInv, FreeMapTypeOK, AtWork
  <2> QED
    BY <2>1 DEF WillWrite, Bit
<1> QED
  BY <1>1, <1>4, <1>5, <1>7, <1>8, <1>9, <1>10 DEF MapIInv, OwnersMarked

\* bitmap_write() takes a word of the map.
LEMMA LoadMap ==
  ASSUME FreeMapAssumption, MapIInv, NEW c \in Caller, Load(c)
  PROVE  MapIInv'
<1>1. FreeMapTypeOK' /\ AtWork'
  BY DEF MapIInv, FreeMapTypeOK, AtWork, Load, Proceed, owners
<1> QED
  BY <1>1, MapKeeps DEF MapIInv, FreeMapTypeOK, Load, Proceed, owners

\* The word is written to the file.
LEMMA StoreMap ==
  ASSUME FreeMapAssumption, MapIInv, NEW c \in Caller, StoreByte(c)
  PROVE  MapIInv'
<1> PICK s \in Bit : s = pos[c]
  BY DEF MapIInv, AtWork, StoreByte
<1>1. /\ doing[c] = "store" /\ byte[c] \in BOOLEAN
      /\ on_file' = [on_file EXCEPT ![s] = byte[c]]
      /\ torn' = IF byte[c] = bits[s] THEN torn \ {s} ELSE torn \cup {s}
      /\ pos' = [pos EXCEPT ![c] = s + 1]
      /\ doing' = [doing EXCEPT ![c] = "load"]
      /\ UNCHANGED <<bits, sector, byte, panicked, owned, robbed, overtaken, raced>>
  BY DEF StoreByte, Proceed, owners, MapIInv, FreeMapTypeOK
<1>2. FreeMapTypeOK'
  <2>1. s + 1 \in 0..BIT_CNT
    BY DEF Bit, FreeMapAssumption
  <2>2. torn' \in SUBSET Bit
    BY <1>1 DEF MapIInv, FreeMapTypeOK
  <2> QED
    BY <1>1, <2>1, <2>2 DEF MapIInv, FreeMapTypeOK
<1>3. AtWork' /\ RobbedRaced' /\ OwnersMarked'
  BY <1>1 DEF MapIInv, FreeMapTypeOK, AtWork, RobbedRaced, OwnersMarked
<1>4. ASSUME NEW x \in Bit PROVE x \in torn' \/ on_file'[x] = bits'[x] \/ WillWrite(x)'
  <2>1. CASE x = s
    BY <1>1, <2>1 DEF MapIInv, FreeMapTypeOK
  <2>2. CASE x # s /\ WillWrite(x)
    <3> PICK d \in Caller : doing[d] \in {"load", "store"} /\ pos[d] =< x
      BY <2>2 DEF WillWrite
    <3>1. doing'[d] \in {"load", "store"}
      BY <1>1 DEF MapIInv, FreeMapTypeOK
    <3>2. CASE d = c
      <4>1. pos'[d] = s + 1 /\ s =< x
        BY <1>1, <3>2 DEF MapIInv, FreeMapTypeOK
      <4>2. pos'[d] =< x
        BY <2>2, <4>1 DEF Bit
      <4> QED
        BY <3>1, <4>2 DEF WillWrite
    <3>3. CASE d # c
      BY <1>1, <3>1, <3>3 DEF WillWrite, MapIInv, FreeMapTypeOK
    <3> QED
      BY <3>2, <3>3
  <2>3. CASE x # s /\ ~WillWrite(x)
    BY <1>1, <2>3 DEF MapIInv, FreeMapTypeOK, Saved
  <2> QED
    BY <2>1, <2>2, <2>3
<1> QED
  BY <1>2, <1>3, <1>4 DEF MapIInv, Saved

\* The whole map has been written.
LEMMA WrittenMap ==
  ASSUME FreeMapAssumption, MapIInv, NEW c \in Caller, Written(c)
  PROVE  MapIInv'
<1>1. /\ doing[c] = "load" /\ pos[c] = BIT_CNT
      /\ pos' = [pos EXCEPT ![c] = 0] /\ doing' = [doing EXCEPT ![c] = "idle"]
      /\ byte' = [byte EXCEPT ![c] = FALSE] /\ sector' = [sector EXCEPT ![c] = 0]
      /\ UNCHANGED <<bits, on_file, panicked, owned, robbed, overtaken, raced, torn>>
  BY DEF Written, Proceed, owners
<1>2. 0 \in Bit /\ 0 \in 0..BIT_CNT /\ BIT_CNT \in Nat
  BY DEF FreeMapAssumption, Bit
<1>3. FreeMapTypeOK'
  BY <1>1, <1>2 DEF MapIInv, FreeMapTypeOK
<1>4. AtWork' /\ RobbedRaced' /\ OwnersMarked'
  BY <1>1 DEF MapIInv, FreeMapTypeOK, AtWork, RobbedRaced, OwnersMarked
<1>5. ASSUME NEW x \in Bit, WillWrite(x) PROVE WillWrite(x)'
  <2> PICK d \in Caller : doing[d] \in {"load", "store"} /\ pos[d] =< x
    BY <1>5 DEF WillWrite
  <2>1. d # c
    BY <1>1, <1>2 DEF Bit
  <2> QED
    BY <1>1, <2>1 DEF WillWrite, MapIInv, FreeMapTypeOK
<1>6. Saved'
  BY <1>1, <1>5 DEF MapIInv, Saved
<1> QED
  BY <1>3, <1>4, <1>6 DEF MapIInv

\* Every step keeps the invariant.
LEMMA MapStep == FreeMapAssumption /\ MapIInv /\ [FreeMapNext]_free_map_vars => MapIInv'
<1> SUFFICES ASSUME FreeMapAssumption, MapIInv, [FreeMapNext]_free_map_vars PROVE MapIInv'
  OBVIOUS
<1>1. CASE UNCHANGED free_map_vars
  <2>1. /\ UNCHANGED <<bits, on_file, doing, sector, pos, byte, panicked>>
        /\ UNCHANGED <<owned, robbed, overtaken, raced, torn>>
    BY <1>1 DEF free_map_vars
  <2>2. FreeMapTypeOK' /\ AtWork'
    BY <2>1 DEF MapIInv, FreeMapTypeOK, AtWork
  <2> QED
    BY <2>1, <2>2, MapKeeps
<1>2. CASE FreeMapNext
  <2> PICK c \in Caller : FreeMapStep(c)
    BY <1>2 DEF FreeMapNext
  <2>1. ~panicked
    BY <1>2 DEF FreeMapNext
  <2>2. CASE free_map_allocate(c) \/ bitmap_scan(c) \/ ScanFails(c) \/ bitmap_mark(c)
    BY <2>1, <2>2, AllocateMap, ScanMap, ScanFailsMap, MarkMap
  <2>3. CASE (\E s \in Bit : free_map_release(c, s)) \/ bitmap_reset(c)
    BY <2>1, <2>3, ReleaseMap, ResetMap
  <2>4. CASE Load(c) \/ StoreByte(c) \/ Written(c)
    BY <2>4, LoadMap, StoreMap, WrittenMap
  <2> QED
    BY <2>2, <2>3, <2>4 DEF FreeMapStep
<1> QED
  BY <1>1, <1>2

\* The free map is right in memory, for any number of sectors and of callers that
\* share no lock, and so is its copy in the file once nobody is at it.
THEOREM FreeMapCorrect == FreeMapSpec => []MapKept
<1>1. MapIInv => MapKept
  <2> SUFFICES ASSUME MapIInv, \A c \in Caller : doing[c] = "idle", NEW s \in Bit \ torn
               PROVE  on_file[s] = bits[s]
    BY DEF MapIInv, MapKept, FileIsMap
  <2> QED
    BY DEF MapIInv, Saved, WillWrite
<1> QED
  BY <1>1, FreeMapAssumption, MapInit, MapStep, PTL DEF FreeMapSpec

-----------------------------------------------------------------------------
(* The inode index.                                                        *)

(* Where a file's sectors are, whichever way they are reached: its leaves are the *)
(* blocks of pointers to data, in order, the indirect ones first.                 *)

Reserved == 0..(RESERVED - 1)
Size(f) == Len(data[f])
Top == INDIRECT_BLOCKS + INDIRECT_BLOCK_PTRS
Leaves == 0..(Top - 1)
\* The number of the first data sector that leaf t leads to.
Base(t) == DIRECT_BLOCKS + t * INDIRECT_BLOCK_PTRS

\* A leaf, or the outer block, is on the stack.
InWork(f, t) ==
  \/ pc[f] = "indirect" /\ t = inode[f].direct_index - DIRECT_BLOCKS
  \/ pc[f] = "inner" /\ t = INDIRECT_BLOCKS + inode[f].indirect_index
InOuter(f) == pc[f] \in {"outer", "inner"}

Live(f) == {t \in Leaves : Base(t) < Size(f) \/ InWork(f, t)}
HasOuter(f) == Base(INDIRECT_BLOCKS) < Size(f) \/ InOuter(f)

Outer(f) == IF pc[f] \in {"outer", "inner", "dealloc outer"} THEN block[f]
            ELSE IF HasOuter(f) THEN table[inode[f].ptr[DOUBLE_INDIRECT_INDEX]] ELSE Garbage
Leaf(f) ==
  [t \in Leaves |-> IF t < INDIRECT_BLOCKS THEN inode[f].ptr[DIRECT_BLOCKS + t]
                    ELSE Outer(f)[t - INDIRECT_BLOCKS]]
Content(f) ==
  [t \in Leaves |-> IF ~InWork(f, t) THEN table[Leaf(f)[t]]
                    ELSE IF pc[f] = "indirect" THEN block[f] ELSE inner_block[f]]

-----------------------------------------------------------------------------
(* The invariant. *)

\* Index blocks with leaves l, the outer one at o if there is one.
Tables(l, live, o, ho) == {l[t] : t \in live} \cup (IF ho THEN {o} ELSE {})

\* The pointers lead to the data d, from leaf "from" on.
Leads(n, d, ptr, c, live, from) ==
  /\ \A i \in 0..(DIRECT_BLOCKS - 1) : i < n => ptr[i] = d[i + 1]
  /\ \A t \in live, r \in Slot : t >= from /\ Base(t) + r < n => c[t][r] = d[Base(t) + r + 1]

\* No sector has two uses.
Apart(n, d, l, live, o, ho, s) ==
  /\ \A t, u \in live : l[t] = l[u] => t = u
  /\ ho => \A t \in live : l[t] # o
  /\ \A i, j \in 1..n : d[i] = d[j] => i = j
  /\ \A i \in 1..n : d[i] \notin Tables(l, live, o, ho) \cup {s}
  /\ s \notin Tables(l, live, o, ho)

\* What has no sector yet leads to none that could be the file's.
Blank(l, live, o, ho) ==
  /\ \A t \in Leaves \ live : l[t] \in {FREE_MAP_SECTOR, NULL}
  /\ ~ho => o = FREE_MAP_SECTOR

Deallocs(f) == pc[f] \in {"dealloc", "dealloc outer"}

\* How many leaves inode_dealloc() is past.
Passed(f) == IF pc[f] = "dealloc" THEN bytes_to_indirect_sectors(inode[f].length) - tables[f]
             ELSE IF pc[f] = "dealloc outer" THEN INDIRECT_BLOCKS + idx[f] ELSE 0

OuterAt(f) == inode[f].ptr[DOUBLE_INDIRECT_INDEX]

Whole(f) ==
  /\ Leads(Size(f), data[f], inode[f].ptr, Content(f), Live(f), Passed(f))
  /\ Apart(Size(f), data[f], Leaf(f), Live(f), OuterAt(f), HasOuter(f), inode[f].sector)
  /\ Blank(Leaf(f), Live(f), OuterAt(f), HasOuter(f))
  /\ index[f] = Tables(Leaf(f), Live(f), OuterAt(f), HasOuter(f))
                  \cup (IF Deallocs(f) THEN {} ELSE {inode[f].sector})

\* An index block could not be had: the call will never end.
Broken(f) ==
  /\ full
  /\ \/ pc[f] = "indirect" /\ inode[f].ptr[inode[f].direct_index] = FREE_MAP_SECTOR
     \/ InOuter(f) /\ OuterAt(f) = FREE_MAP_SECTOR
     \/ pc[f] = "inner" /\ block[f][inode[f].indirect_index] \notin index[f]

\* The sectors that inode_dealloc() has still to release.
Rest(f) ==
  {data[f][i] : i \in (Size(f) - left[f] + 1)..Size(f)} \cup
  Tables(Leaf(f), {t \in Live(f) : t >= Passed(f)}, OuterAt(f), HasOuter(f))
Own(f) == IF Deallocs(f) THEN Rest(f) ELSE Range(data[f]) \cup index[f]

OwnInv ==
  /\ marked = Reserved \cup lost \cup UNION {Own(f) : f \in File}
  /\ \A f \in File : Own(f) \cap (Reserved \cup lost) = {}
  /\ \A f, g \in File : f # g => Own(f) \cap Own(g) = {}

\* The three indexes say how many data sectors there are.
Counters(f) ==
  LET a == inode[f].direct_index
      b == inode[f].indirect_index
      c == inode[f].double_indirect_index
  IN  \/ /\ a \in 0..(DIRECT_BLOCKS - 1) /\ b = 0 /\ c = 0 /\ Size(f) = a
         /\ pc[f] \notin {"indirect", "outer", "inner", "expanded"}
      \/ /\ a \in DIRECT_BLOCKS..(DOUBLE_INDIRECT_INDEX - 1) /\ c = 0
         /\ b \in 0..INDIRECT_BLOCK_PTRS /\ Size(f) = Base(a - DIRECT_BLOCKS) + b
         /\ pc[f] \notin {"outer", "inner", "expanded"} 
         /\ pc[f] # "indirect" => b < INDIRECT_BLOCK_PTRS
         /\ pc[f] = "indirect" => left[f] > 0 \/ b > 0
      \/ /\ a = DOUBLE_INDIRECT_INDEX /\ b \in 0..INDIRECT_BLOCK_PTRS
         /\ c \in 0..INDIRECT_BLOCK_PTRS /\ Size(f) = Base(INDIRECT_BLOCKS + b) + c
         /\ pc[f] # "indirect"
         /\ pc[f] # "inner" => c < INDIRECT_BLOCK_PTRS /\ (b = INDIRECT_BLOCK_PTRS => c = 0)
         /\ pc[f] = "inner" => b < INDIRECT_BLOCK_PTRS /\ (left[f] > 0 \/ c > 0)
         /\ pc[f] = "outer" => left[f] > 0 \/ b > 0 \/ c > 0

Grows(f) == pc[f] \in {"expand", "indirect", "outer", "inner", "expanded"}
Stands(f) == pc[f] \in {"created", "open"}

\* What a call that makes f longer knows.
Growing(f) ==
  Grows(f) =>
    /\ Counters(f) /\ Size(f) + left[f] = goal[f] /\ inode[f].sector \in index[f]
    /\ Whole(f) \/ Broken(f)
    \* An outer block that could not be had has no leaves.
    /\ pc[f] = "outer" /\ OuterAt(f) = FREE_MAP_SECTOR =>
         left[f] = 0 \/ inode[f].double_indirect_index = 0
Standing(f) ==
  Stands(f) =>
    /\ Counters(f) /\ Size(f) = inode[f].length /\ left[f] = 0
    /\ inode[f].sector \in index[f] /\ Whole(f) /\ inode[f].length =< MaxLength[f]

\* inode_dealloc() has released the first data sectors, and the leaves that they
\* filled.
Freed(f) == Size(f) - left[f]
Tables_left(f) == bytes_to_indirect_sectors(inode[f].length)
Shrinking(f) ==
  Deallocs(f) =>
    /\ Size(f) = inode[f].length /\ Whole(f) /\ left[f] =< Size(f)
    /\ \/ pc[f] = "dealloc" /\ idx[f] =< DIRECT_BLOCKS /\ Passed(f) = 0 /\ Freed(f) = idx[f]
       \/ /\ pc[f] = "dealloc" /\ Passed(f) \in 0..INDIRECT_BLOCKS /\ tables[f] >= 0
          /\ idx[f] = DIRECT_BLOCKS + Passed(f) /\ Freed(f) = Smaller(Size(f), Base(Passed(f)))
       \/ /\ pc[f] = "dealloc outer" /\ tables[f] = Tables_left(f) - INDIRECT_BLOCKS
          /\ idx[f] \in 0..tables[f] /\ HasOuter(f)
          /\ Freed(f) = Smaller(Size(f), Base(Passed(f)))
\* f has no inode.
Absent(f) ==
  pc[f] = "none" => data[f] = <<>> /\ index[f] = {} /\ inode[f] = NewInode /\ left[f] = 0
Idle(f) == ~Deallocs(f) => idx[f] = 0 /\ tables[f] = 0

FileInv(f) == Growing(f) /\ Standing(f) /\ Shrinking(f) /\ Absent(f) /\ Idle(f)

Inode ==
  [sector : Sector \cup {NULL}, length : 0..Capacity, direct_index : 0..DOUBLE_INDIRECT_INDEX,
   indirect_index : 0..INDIRECT_BLOCK_PTRS, double_indirect_index : 0..INDIRECT_BLOCK_PTRS,
   ptr : [0..DOUBLE_INDIRECT_INDEX -> Sector]]
Pointers == [Slot -> Sector \cup {NULL}]
Labels == {"none", "expand", "indirect", "outer", "inner", "expanded", "created", "open",
           "dealloc", "dealloc outer"}
IndexTypes ==
  /\ marked \in SUBSET Sector /\ table \in [Sector -> Pointers] /\ named \in SUBSET File
  /\ pc \in [File -> Labels] /\ inode \in [File -> Inode]
  /\ left \in [File -> Nat] /\ tables \in [File -> Nat] /\ goal \in [File -> Nat]
  /\ idx \in [File -> Nat] /\ calls \in [File -> Nat]
  /\ \A f \in File : left[f] =< MaxLength[f] /\ goal[f] =< MaxLength[f]
  /\ block \in [File -> Pointers] /\ inner_block \in [File -> Pointers]
  /\ data \in [File -> Seq(Sector)] /\ index \in [File -> SUBSET Sector]
  /\ lost \in SUBSET Sector /\ full \in BOOLEAN /\ fault \in BOOLEAN

IndexIInv ==
  /\ IndexTypes /\ (fault => full) /\ OwnInv
  /\ \A f \in File : FileInv(f)

-----------------------------------------------------------------------------
(* Sizes. *)

\* The levels of the index have their sizes.
LEMMA SizesAre ==
  /\ DIRECT_BLOCKS \in Nat /\ INDIRECT_BLOCKS \in Nat
  /\ INDIRECT_BLOCK_PTRS \in Nat /\ INDIRECT_BLOCK_PTRS > 0
  /\ DOUBLE_INDIRECT_INDEX = DIRECT_BLOCKS + INDIRECT_BLOCKS /\ DOUBLE_INDIRECT_INDEX \in Nat
  /\ Slot = 0..(INDIRECT_BLOCK_PTRS - 1)
  /\ Leaves = 0..(INDIRECT_BLOCKS + INDIRECT_BLOCK_PTRS - 1)
  BY IndexAssumption DEF DOUBLE_INDIRECT_INDEX, Slot, Leaves, Top

\* Sectors are numbers, and NULL is none of them.
LEMMA SectorsAre ==
  /\ SECTORS \in Nat /\ RESERVED \in 1..SECTORS /\ Sector \subseteq Nat /\ NULL \notin Sector
  /\ Sector = 0..(SECTORS - 1)
  /\ FREE_MAP_SECTOR = 0 /\ 0 \in Reserved /\ Reserved \subseteq Sector
  BY IndexAssumption DEF Sector, FREE_MAP_SECTOR, Reserved

\* A leaf's first data sector comes a leaf's worth after the one before,
LEMMA BaseIs ==
  /\ \A t \in Int : Base(t) \in Int /\ Base(t + 1) = Base(t) + INDIRECT_BLOCK_PTRS
  /\ \A t \in Nat : Base(t) \in Nat /\ Base(t) >= DIRECT_BLOCKS
  /\ Base(0) = DIRECT_BLOCKS
<1> DEFINE P == INDIRECT_BLOCK_PTRS
<1>1. P \in Nat /\ P > 0 /\ DIRECT_BLOCKS \in Nat
  BY SizesAre
<1>2. \A t \in Int : t * P \in Int /\ (t + 1) * P = t * P + P
  BY <1>1
<1>3. \A t \in Nat : t * P \in Nat
  BY <1>1
<1>4. 0 * P = 0
  BY <1>1
<1> QED
  BY <1>1, <1>2, <1>3, <1>4 DEF Base

\* so leaves do not overlap,
LEMMA BaseLess ==
  ASSUME NEW t \in Nat, NEW u \in Nat, t < u
  PROVE  Base(t) + INDIRECT_BLOCK_PTRS =< Base(u)
<1> DEFINE P == INDIRECT_BLOCK_PTRS
<1>1. P \in Nat /\ P > 0 /\ DIRECT_BLOCKS \in Nat
  BY SizesAre
<1>2. (u - t - 1) * P >= 0
  BY <1>1
<1>3. t * P + P =< u * P
  BY <1>1, <1>2
<1>4. t * P \in Int /\ u * P \in Int
  BY <1>1
<1> HIDE DEF P
<1> QED
  BY <1>1, <1>3, <1>4 DEF Base, P

\* and a data sector is in one leaf at one place.
LEMMA BaseMeets ==
  ASSUME NEW t \in Nat, NEW u \in Nat, NEW r \in Slot, NEW q \in Slot, Base(t) + r >= Base(u),
         Base(t) + r =< Base(u) + q
  PROVE  t = u /\ r =< q
<1>1. Base(t) \in Nat /\ Base(u) \in Nat
  BY BaseIs
<1>2. r \in Nat /\ q \in Nat /\ r < INDIRECT_BLOCK_PTRS /\ q < INDIRECT_BLOCK_PTRS /\ INDIRECT_BLOCK_PTRS \in Nat
  BY SizesAre
<1>3. t < u => Base(t) + INDIRECT_BLOCK_PTRS =< Base(u)
  BY BaseLess
<1>4. u < t => Base(u) + INDIRECT_BLOCK_PTRS =< Base(t)
  BY BaseLess
<1> QED
  BY <1>1, <1>2, <1>3, <1>4

-----------------------------------------------------------------------------
(* Who owns what. *)

\* bitmap_scan_and_flip() has a lowest clear bit to find.
LEMMA LowestFree ==
  ASSUME marked \in SUBSET Sector, ~Full
  PROVE  Lowest \in Sector \ marked
<1>1. PICK S : S = Sector \ marked
  OBVIOUS
<1>2. S \subseteq Nat /\ S # {}
  BY <1>1, SectorsAre DEF Full
<1>3. \E x \in S : \A y \in S : <<y, x>> \notin OpToRel(<, Nat)
  BY <1>2, NatLessThanWellFounded, WFMin, Zenon
<1>4. PICK x \in S : \A y \in S : <<y, x>> \notin OpToRel(<, Nat)
  BY <1>3
<1>5. \A y \in S : x =< y
  <2> TAKE y \in S
  <2>1. x \in Nat /\ y \in Nat
    BY <1>2
  <2>2. y < x => <<y, x>> \in OpToRel(<, Nat)
    BY <2>1 DEF OpToRel
  <2>3. ~(y < x)
    BY <1>4, <2>2, Zenon
  <2> QED
    BY <2>1, <2>3
<1>6. Least(S) \in S
  BY <1>4, <1>5 DEF Least
<1> QED
  BY <1>1, <1>6 DEF Lowest

\* Sets that share nothing, and what is taken from the rest.
Shared(M, R, O) ==
  /\ M = R \cup UNION {O[g] : g \in File}
  /\ \A g \in File : O[g] \cap R = {}
  /\ \A g, h \in File : g # h => O[g] \cap O[h] = {}

\* What may happen to one set of those that share nothing: it stays, gets what nobody
\* has, gives some back, or goes with a part of it kept aside.
LEMMA SharedTakes ==
  ASSUME NEW M, NEW R, NEW O, NEW Q, NEW f \in File, Shared(M, R, O),
         \A g \in File : g # f => Q[g] = O[g]
  PROVE  /\ Q[f] = O[f] => Shared(M, R, Q)
         /\ \A s : s \notin M /\ Q[f] = O[f] \cup {s} => Shared(M \cup {s}, R, Q)
         /\ \A S : S \subseteq O[f] /\ Q[f] = O[f] \ S => Shared(M \ S, R, Q)
         /\ \A S : S \subseteq O[f] /\ Q[f] = {} => Shared(M \ S, R \cup (O[f] \ S), Q)
<1>1. M = R \cup UNION {O[g] : g \in File}
  BY DEF Shared
<1>2. ASSUME Q[f] = O[f] PROVE Shared(M, R, Q)
  <2>1. \A g \in File : Q[g] = O[g]
    BY <1>2
  <2> QED
    BY <2>1 DEF Shared
<1>3. ASSUME NEW s, s \notin M, Q[f] = O[f] \cup {s} PROVE Shared(M \cup {s}, R, Q)
  <2>1. \A g \in File : s \notin O[g]
    BY <1>1, <1>3
  <2>2. M \cup {s} = R \cup UNION {Q[g] : g \in File}
    BY <1>1, <1>3
  <2>3. \A g \in File : Q[g] \cap R = {}
    BY <1>1, <1>3 DEF Shared
  <2>4. \A g, h \in File : g # h => Q[g] \cap Q[h] = {}
    BY <2>1, <1>3 DEF Shared
  <2> QED
    BY <2>2, <2>3, <2>4 DEF Shared
<1>4. ASSUME NEW S, S \subseteq O[f], Q[f] = O[f] \ S PROVE Shared(M \ S, R, Q)
  <2>1. \A g \in File : g # f => O[g] \cap S = {}
    BY <1>4 DEF Shared
  <2>2. M \ S = R \cup UNION {Q[g] : g \in File}
    <3>1. R \cap S = {}
      BY <1>4 DEF Shared
    <3>2. ASSUME NEW x, x \in M \ S PROVE x \in R \cup UNION {Q[g] : g \in File}
      BY <1>1, <1>4, <3>2
    <3>3. ASSUME NEW x, x \in R \cup UNION {Q[g] : g \in File} PROVE x \in M \ S
      BY <1>1, <1>4, <2>1, <3>1, <3>3
    <3> QED
      BY <3>2, <3>3
  <2>3. \A g \in File : Q[g] \subseteq O[g]
    BY <1>4
  <2> QED
    BY <2>2, <2>3 DEF Shared
<1>5. ASSUME NEW S, S \subseteq O[f], Q[f] = {} PROVE Shared(M \ S, R \cup (O[f] \ S), Q)
  <2>1. \A g \in File : g # f => O[g] \cap O[f] = {}
    BY DEF Shared
  <2>2. M \ S = (R \cup (O[f] \ S)) \cup UNION {Q[g] : g \in File}
    <3>1. R \cap S = {}
      BY <1>5 DEF Shared
    <3>2. ASSUME NEW x, x \in M \ S PROVE x \in (R \cup (O[f] \ S)) \cup UNION {Q[g] : g \in File}
      BY <1>1, <1>5, <3>2
    <3>3. ASSUME NEW x, x \in (R \cup (O[f] \ S)) \cup UNION {Q[g] : g \in File} PROVE x \in M \ S
      <4>1. CASE x \in R \cup (O[f] \ S)
        BY <1>1, <3>1, <4>1
      <4>2. CASE \E g \in File : x \in Q[g]
        BY <1>1, <1>5, <2>1, <4>2
      <4> QED
        BY <3>3, <4>1, <4>2
    <3> QED
      BY <3>2, <3>3
  <2>3. \A g \in File : g # f => Q[g] \cap (O[f] \ S) = {}
    BY <2>1
  <2> QED
    BY <1>5, <2>2, <2>3 DEF Shared
<1> QED
  BY <1>2, <1>3, <1>4, <1>5

OwnFunction == [g \in File |-> Own(g)]

\* OwnInv in these terms,
LEMMA OwnIs == OwnInv <=> Shared(marked, Reserved \cup lost, OwnFunction)
<1>1. \A g \in File : OwnFunction[g] = Own(g)
  BY DEF OwnFunction
<1> QED
  BY <1>1 DEF OwnInv, Shared

\* and after a step.
LEMMA OwnIsNext == OwnInv' <=> Shared(marked', Reserved \cup lost', OwnFunction')
<1>1. (OwnInv <=> Shared(marked, Reserved \cup lost, OwnFunction))'
  BY OwnIs, PTL
<1> QED
  BY <1>1 DEF Shared, Reserved

\* What a step of f does to the sectors.
Keeps(f) == Own(f)' = Own(f) /\ marked' = marked /\ lost' = lost
Gets(f, s) == s \notin marked /\ Own(f)' = Own(f) \cup {s} /\ marked' = marked \cup {s} /\ lost' = lost
Gives(f, S) == S \subseteq Own(f) /\ Own(f)' = Own(f) \ S /\ marked' = marked \ S /\ lost' = lost
Loses(f, S) ==
  /\ S \subseteq Own(f) /\ Own(f)' = {} /\ marked' = marked \ S /\ lost' = lost \cup (Own(f) \ S)

\* A step that does one of these to the sectors of f keeps OwnInv.
LEMMA OwnStep ==
  ASSUME NEW f \in File, OwnInv, \A g \in File : g # f => Own(g)' = Own(g),
         \/ Keeps(f) \/ (\E s : Gets(f, s)) \/ (\E S : Gives(f, S)) \/ (\E S : Loses(f, S))
  PROVE  OwnInv'
<1>1. PICK M, R, O : M = marked /\ R = Reserved \cup lost /\ O = OwnFunction
  OBVIOUS
<1>2. PICK N, T, Q : N = marked' /\ T = Reserved \cup lost' /\ Q = OwnFunction'
  OBVIOUS
<1>3. Shared(M, R, O)
  BY <1>1, OwnIs
<1>4. \A g \in File : O[g] = Own(g) /\ Q[g] = Own(g)'
  BY <1>1, <1>2 DEF OwnFunction
<1>5. \A g \in File : g # f => Q[g] = O[g]
  BY <1>4
<1>6. Shared(N, T, Q) => OwnInv'
  BY <1>2, OwnIsNext
<1>7. CASE Keeps(f)
  <2>1. Q[f] = O[f] /\ N = M /\ T = R
    BY <1>1, <1>2, <1>4, <1>7 DEF Keeps
  <2>2. Shared(M, R, Q)
    BY <1>3, <1>5, <2>1, SharedTakes
  <2> QED
    BY <1>6, <2>1, <2>2
<1>8. CASE \E s : Gets(f, s)
  <2>1. PICK s : Gets(f, s)
    BY <1>8
  <2>2. s \notin M /\ Q[f] = O[f] \cup {s} /\ N = M \cup {s} /\ T = R
    BY <1>1, <1>2, <1>4, <2>1 DEF Gets
  <2>3. Shared(M \cup {s}, R, Q)
    BY <1>3, <1>5, <2>2, SharedTakes
  <2> QED
    BY <1>6, <2>2, <2>3
<1>9. CASE \E S : Gives(f, S)
  <2>1. PICK S : Gives(f, S)
    BY <1>9
  <2>2. S \subseteq O[f] /\ Q[f] = O[f] \ S /\ N = M \ S /\ T = R
    BY <1>1, <1>2, <1>4, <2>1 DEF Gives
  <2>3. Shared(M \ S, R, Q)
    BY <1>3, <1>5, <2>2, SharedTakes
  <2> QED
    BY <1>6, <2>2, <2>3
<1>10. CASE \E S : Loses(f, S)
  <2>1. PICK S : Loses(f, S)
    BY <1>10
  <2>2. S \subseteq O[f] /\ Q[f] = {} /\ N = M \ S /\ T = R \cup (O[f] \ S)
    BY <1>1, <1>2, <1>4, <2>1 DEF Loses
  <2>3. Shared(M \ S, R \cup (O[f] \ S), Q)
    BY <1>3, <1>5, <2>2, SharedTakes
  <2> QED
    BY <1>6, <2>2, <2>3
<1> QED
  BY <1>7, <1>8, <1>9, <1>10

-----------------------------------------------------------------------------
(* The other files. *)

\* A step leaves g alone.
Same(g) ==
  /\ pc'[g] = pc[g] /\ inode'[g] = inode[g] /\ left'[g] = left[g] /\ tables'[g] = tables[g]
  /\ goal'[g] = goal[g] /\ idx'[g] = idx[g] /\ block'[g] = block[g]
  /\ inner_block'[g] = inner_block[g] /\ data'[g] = data[g] /\ index'[g] = index[g]

\* The index of g looks the same.
LEMMA SameView ==
  ASSUME NEW g, Same(g)
  PROVE  /\ Size(g)' = Size(g) /\ Live(g)' = Live(g) /\ (HasOuter(g)' <=> HasOuter(g))
         /\ OuterAt(g)' = OuterAt(g) /\ Passed(g)' = Passed(g) /\ (Deallocs(g)' <=> Deallocs(g))
         /\ \A t : InWork(g, t)' <=> InWork(g, t)
<1>1. \A t : InWork(g, t)' <=> InWork(g, t)
  BY DEF Same, InWork
<1>2. Size(g)' = Size(g)
  BY DEF Same, Size
<1>3. Live(g)' = Live(g)
  BY <1>1, <1>2 DEF Live, Base, Leaves, Top
<1>4. HasOuter(g)' <=> HasOuter(g)
  BY <1>2 DEF HasOuter, Base, Same, InOuter
<1>5. OuterAt(g)' = OuterAt(g) /\ Passed(g)' = Passed(g) /\ (Deallocs(g)' <=> Deallocs(g))
  BY DEF Same, OuterAt, Passed, Deallocs, bytes_to_indirect_sectors, DOUBLE_INDIRECT_INDEX
<1> QED
  BY <1>1, <1>2, <1>3, <1>4, <1>5

\* The sectors that lead to f's data, as far as inode_dealloc() has not got.
Mine(f) == Tables(Leaf(f), {t \in Live(f) : t >= Passed(f)}, OuterAt(f), HasOuter(f))

\* So do its leaves, if the outer block is as it was,
LEMMA SameLeaf ==
  ASSUME NEW g, Same(g), HasOuter(g) => table'[OuterAt(g)] = table[OuterAt(g)]
  PROVE  Leaf(g)' = Leaf(g)
<1>1. Outer(g)' = Outer(g)
  BY SameView DEF Same, Outer, OuterAt, Garbage, Slot
<1> QED
  BY <1>1 DEF Leaf, Same, Leaves, Top

\* The leaves in use are leaves.
LEMMA LiveLeaves == ASSUME NEW g PROVE Live(g) \subseteq Leaves
  BY DEF Live

\* and what they hold.
LEMMA SameContent ==
  ASSUME NEW g, Same(g), Leaf(g)' = Leaf(g), NEW t \in Leaves, table'[Leaf(g)[t]] = table[Leaf(g)[t]]
  PROVE  Content(g)'[t] = Content(g)[t]
<1>1. PICK l : l = Leaf(g)
  OBVIOUS
<1>2. Content(g)'[t] = IF ~InWork(g, t)' THEN table'[l[t]]
                       ELSE IF pc'[g] = "indirect" THEN block'[g] ELSE inner_block'[g]
  BY <1>1 DEF Content, Leaves, Top
<1>3. Content(g)[t] = IF ~InWork(g, t) THEN table[l[t]]
                      ELSE IF pc[g] = "indirect" THEN block[g] ELSE inner_block[g]
  BY <1>1 DEF Content, Leaves, Top
<1> QED
  BY <1>1, <1>2, <1>3, SameView DEF Same

\* An index that looks the same stays whole.
LEMMA WholeBy ==
  ASSUME NEW f, Whole(f), data'[f] = data[f], inode'[f].ptr = inode[f].ptr,
         inode'[f].sector = inode[f].sector, index'[f] = index[f], Live(f)' = Live(f),
         HasOuter(f)' <=> HasOuter(f), Leaf(f)' = Leaf(f), Deallocs(f)' <=> Deallocs(f),
         \A t \in Live(f) : t >= Passed(f)' => t >= Passed(f) /\ Content(f)'[t] = Content(f)[t]
  PROVE  Whole(f)'
<1>1. PICK n, d, ptr, live, o, l, s :
        /\ n = Size(f) /\ d = data[f] /\ ptr = inode[f].ptr /\ live = Live(f)
        /\ o = OuterAt(f) /\ l = Leaf(f) /\ s = inode[f].sector
  OBVIOUS
<1>2. /\ n = Size(f)' /\ d = data'[f] /\ ptr = inode'[f].ptr /\ live = Live(f)'
      /\ o = OuterAt(f)' /\ l = Leaf(f)' /\ s = inode'[f].sector
  BY <1>1 DEF Size, OuterAt, DOUBLE_INDIRECT_INDEX
<1>3. PICK c, e, from, next : c = Content(f) /\ e = Content(f)' /\ from = Passed(f) /\ next = Passed(f)'
  OBVIOUS
<1>4. Leads(n, d, ptr, e, live, next)
  <2>1. Leads(n, d, ptr, c, live, from)
    BY <1>1, <1>3 DEF Whole
  <2>2. \A t \in live : t >= next => t >= from /\ e[t] = c[t]
    BY <1>1, <1>3
  <2> QED
    BY <2>1, <2>2 DEF Leads
<1>5. Leads(Size(f), data[f], inode[f].ptr, Content(f), Live(f), Passed(f))'
  BY <1>2, <1>3, <1>4 DEF Leads, Base, Slot
<1>6. Apart(n, d, l, live, o, HasOuter(f), s) /\ Blank(l, live, o, HasOuter(f))
  BY <1>1 DEF Whole
<1>7. index[f] = Tables(l, live, o, HasOuter(f)) \cup (IF Deallocs(f) THEN {} ELSE {s})
  BY <1>1 DEF Whole
<1>8. PICK ho, dl \in BOOLEAN : (HasOuter(f) <=> ho) /\ (Deallocs(f) <=> dl)
  BY DEF HasOuter, Deallocs
<1>9. (HasOuter(f)' <=> ho) /\ (Deallocs(f)' <=> dl)
  BY <1>8
<1>10. Apart(Size(f), data[f], Leaf(f), Live(f), OuterAt(f), HasOuter(f), inode[f].sector)'
  BY <1>2, <1>6, <1>8, <1>9 DEF Apart, Tables
<1>11. Blank(Leaf(f), Live(f), OuterAt(f), HasOuter(f))'
  BY <1>2, <1>6, <1>8, <1>9 DEF Blank, Leaves, Top, FREE_MAP_SECTOR
<1>12. (index[f] = Tables(Leaf(f), Live(f), OuterAt(f), HasOuter(f))
                     \cup (IF Deallocs(f) THEN {} ELSE {inode[f].sector}))'
  BY <1>2, <1>7, <1>8, <1>9 DEF Tables
<1> QED
  BY <1>5, <1>10, <1>11, <1>12 DEF Whole

\* It does when none of its sectors is written to.
LEMMA SameWhole ==
  ASSUME NEW g, Same(g), Whole(g), \A s \in Mine(g) : table'[s] = table[s]
  PROVE  Whole(g)' /\ Leaf(g)' = Leaf(g)
<1>1. HasOuter(g) => table'[OuterAt(g)] = table[OuterAt(g)]
  BY DEF Mine, Tables
<1>2. Leaf(g)' = Leaf(g)
  BY <1>1, SameLeaf
<1>3. \A t \in Live(g) : t >= Passed(g) => Content(g)'[t] = Content(g)[t]
  <2> TAKE t \in Live(g)
  <2> HAVE t >= Passed(g)
  <2>1. Leaf(g)[t] \in Mine(g) /\ t \in Leaves
    BY LiveLeaves DEF Mine, Tables
  <2> QED
    BY <1>2, <2>1, SameContent
<1>4. /\ data'[g] = data[g] /\ inode'[g].ptr = inode[g].ptr /\ inode'[g].sector = inode[g].sector
      /\ index'[g] = index[g]
  BY DEF Same
<1>5. /\ Live(g)' = Live(g) /\ (HasOuter(g)' <=> HasOuter(g)) /\ (Deallocs(g)' <=> Deallocs(g))
      /\ Passed(g)' = Passed(g)
  BY SameView
<1> QED
  BY <1>2, <1>3, <1>4, <1>5, WholeBy

\* They are the file's own.
LEMMA MineOwn ==
  ASSUME NEW g, Whole(g)
  PROVE  Mine(g) \subseteq Own(g)
<1>1. CASE Deallocs(g)
  BY <1>1 DEF Mine, Own, Rest
<1>2. CASE ~Deallocs(g)
  <2>1. Mine(g) \subseteq Tables(Leaf(g), Live(g), OuterAt(g), HasOuter(g))
    BY DEF Mine, Tables
  <2> QED
    BY <1>2, <2>1 DEF Own, Whole
<1> QED
  BY <1>1, <1>2

\* What is broken stays broken.
LEMMA SameBroken ==
  ASSUME NEW g, Same(g), full => full', Broken(g)
  PROVE  Broken(g)'
  BY DEF Same, Broken, InOuter, OuterAt, DOUBLE_INDIRECT_INDEX, FREE_MAP_SECTOR

\* The counters stay.
LEMMA SameCounters ==
  ASSUME NEW g, Same(g), Counters(g)
  PROVE  Counters(g)'
  BY SameView DEF Same, Counters, Base

\* A step that leaves g and its sectors alone keeps all that is known of g.
LEMMA OthersKeep ==
  ASSUME NEW g \in File, FileInv(g), Same(g), full => full', \A s \in Own(g) : table'[s] = table[s]
  PROVE  FileInv(g)' /\ Own(g)' = Own(g)
<1>1. Whole(g) => Whole(g)' /\ Leaf(g)' = Leaf(g)
  BY MineOwn, SameWhole
<1>2. Own(g)' = Own(g)
  <2>1. CASE Deallocs(g)
    <3>1. Whole(g)
      BY <2>1 DEF FileInv, Shrinking
    <3>2. PICK l, n, d, i, p, o, live :
            l = Leaf(g) /\ n = Size(g) /\ d = data[g] /\ i = left[g] /\ p = Passed(g)
            /\ o = OuterAt(g) /\ live = Live(g)
      OBVIOUS
    <3>3. l = Leaf(g)' /\ n = Size(g)' /\ d = data'[g] /\ i = left'[g] /\ p = Passed(g)'
            /\ o = OuterAt(g)' /\ live = Live(g)'
      BY <1>1, <3>1, <3>2, SameView DEF Same
    <3>4. Rest(g)' = Rest(g)
      BY <3>2, <3>3, SameView DEF Rest, Tables
    <3> QED
      BY <2>1, <3>4, SameView DEF Own
  <2>2. CASE ~Deallocs(g)
    BY <2>2, SameView DEF Own, Same
  <2> QED
    BY <2>1, <2>2
<1>3. Growing(g)'
  <2>1. CASE Grows(g)
    <3>1. Counters(g)' /\ (Whole(g)' \/ Broken(g)')
      BY <1>1, <2>1, SameCounters, SameBroken DEF FileInv, Growing
    <3>2. Size(g)' + left'[g] = goal'[g] /\ inode'[g].sector \in index'[g]
      BY <2>1, SameView DEF FileInv, Growing, Same
    <3>3. pc'[g] = "outer" /\ OuterAt(g)' = FREE_MAP_SECTOR =>
            left'[g] = 0 \/ inode'[g].double_indirect_index = 0
      BY <2>1, SameView DEF FileInv, Growing, Same
    <3> QED
      BY <3>1, <3>2, <3>3 DEF Growing, FREE_MAP_SECTOR
  <2>2. CASE ~Grows(g)
    BY <2>2 DEF Same, Growing, Grows
  <2> QED
    BY <2>1, <2>2
<1>4. Standing(g)'
  <2>1. CASE Stands(g)
    <3>1. Counters(g)' /\ Whole(g)'
      BY <1>1, <2>1, SameCounters DEF FileInv, Standing
    <3> QED
      BY <2>1, <3>1, SameView DEF FileInv, Standing, Same
  <2>2. CASE ~Stands(g)
    BY <2>2 DEF Same, Standing, Stands
  <2> QED
    BY <2>1, <2>2
<1>5. Shrinking(g)'
  <2>1. CASE Deallocs(g)
    <3>1. Whole(g)'
      BY <1>1, <2>1 DEF FileInv, Shrinking
    <3>2. Freed(g)' = Freed(g) /\ Tables_left(g)' = Tables_left(g)
      BY SameView DEF Same, Freed, Tables_left, bytes_to_indirect_sectors
    <3>3. Smaller(Size(g), Base(Passed(g)))' = Smaller(Size(g), Base(Passed(g)))
      BY SameView DEF Smaller, Base
    <3> QED
      BY <2>1, <3>1, <3>2, <3>3, SameView DEF FileInv, Shrinking, Same
  <2>2. CASE ~Deallocs(g)
    BY <2>2, SameView DEF Shrinking
  <2> QED
    BY <2>1, <2>2
<1>6. Absent(g)' /\ Idle(g)'
  BY SameView DEF FileInv, Absent, Idle, Same, NewInode, FREE_MAP_SECTOR, DOUBLE_INDIRECT_INDEX
<1> QED
  BY <1>2, <1>3, <1>4, <1>5, <1>6 DEF FileInv

-----------------------------------------------------------------------------
(* A step of f. *)

\* It leaves the other files alone, and of the tables those that f does not own.
Alone(f) ==
  /\ \A g \in File : g # f => Same(g)
  /\ \A s \in Sector : s \notin Own(f) => table'[s] = table[s]
  /\ (full => full') /\ (fault' => full')

Moves(f) == Keeps(f) \/ (\E s : Gets(f, s)) \/ (\E S : Gives(f, S)) \/ (\E S : Loses(f, S))

\* A file's sectors are marked, and nobody else's.
LEMMA OwnSectors ==
  ASSUME IndexIInv, NEW f \in File
  PROVE  /\ Own(f) \subseteq Sector /\ Own(f) \subseteq marked /\ Own(f) \cap Reserved = {}
         /\ \A g \in File : g # f => Own(g) \cap Own(f) = {}
<1>1. marked \subseteq Sector
  BY DEF IndexIInv, IndexTypes
<1>2. Own(f) \subseteq marked /\ Own(f) \cap Reserved = {}
  BY DEF IndexIInv, OwnInv
<1> QED
  BY <1>1, <1>2 DEF IndexIInv, OwnInv

\* It is enough to look at the file that a step is of.
LEMMA StepKeeps ==
  ASSUME IndexIInv, NEW f \in File, Alone(f), Moves(f), IndexTypes', FileInv(f)'
  PROVE  IndexIInv'
<1>1. ASSUME NEW g \in File, g # f PROVE FileInv(g)' /\ Own(g)' = Own(g)
  <2>1. \A s \in Own(g) : table'[s] = table[s]
    BY <1>1, OwnSectors DEF Alone
  <2>2. FileInv(g) /\ Same(g) /\ (full => full')
    BY <1>1 DEF IndexIInv, Alone
  <2> QED
    BY <2>1, <2>2, OthersKeep
<1>2. OwnInv'
  <2>1. OwnInv
    BY DEF IndexIInv
  <2> QED
    BY <1>1, <2>1, OwnStep DEF Moves
<1>3. \A g \in File : FileInv(g)'
  BY <1>1
<1> QED
  BY <1>2, <1>3 DEF IndexIInv, Alone

\* What is known of the file that a step is of.
Known(f) == IndexIInv /\ IndexTypes /\ FileInv(f)

\* ... with its types.
LEMMA KnownIs ==
  ASSUME IndexIInv, NEW f \in File
  PROVE  /\ Known(f) /\ inode[f] \in Inode /\ pc[f] \in Labels /\ data[f] \in Seq(Sector)
         /\ left[f] \in Nat /\ tables[f] \in Nat /\ goal[f] \in Nat /\ idx[f] \in Nat
         /\ index[f] \subseteq Sector /\ block[f] \in Pointers /\ inner_block[f] \in Pointers
         /\ Size(f) \in Nat /\ table \in [Sector -> Pointers]
         /\ inode[f].direct_index \in Nat /\ inode[f].indirect_index \in Nat
         /\ inode[f].double_indirect_index \in Nat
<1>1. /\ Known(f) /\ inode[f] \in Inode /\ pc[f] \in Labels /\ data[f] \in Seq(Sector)
      /\ left[f] \in Nat /\ tables[f] \in Nat /\ goal[f] \in Nat /\ idx[f] \in Nat
      /\ index[f] \subseteq Sector /\ block[f] \in Pointers /\ inner_block[f] \in Pointers
      /\ table \in [Sector -> Pointers]
  BY DEF Known, IndexIInv, IndexTypes
<1>2. Size(f) \in Nat
  BY <1>1 DEF Size
<1>3. /\ inode[f].direct_index \in 0..DOUBLE_INDIRECT_INDEX
      /\ inode[f].indirect_index \in 0..INDIRECT_BLOCK_PTRS
      /\ inode[f].double_indirect_index \in 0..INDIRECT_BLOCK_PTRS
  BY <1>1 DEF Inode
<1> QED
  BY <1>1, <1>2, <1>3, SizesAre

\* A call that goes on has all its index blocks.
LEMMA NotBroken ==
  ASSUME IndexIInv, NEW f \in File, Grows(f) \/ Stands(f) \/ Deallocs(f),
         pc[f] \notin {"indirect", "outer", "inner"}
  PROVE  Whole(f)
<1>1. FileInv(f)
  BY DEF IndexIInv
<1>2. ~Broken(f)
  BY DEF Broken, InOuter
<1> QED
  BY <1>1, <1>2 DEF FileInv, Growing, Standing, Shrinking

\* The sectors of a file are its own; no pointer without a sector is one of them.
LEMMA IndexOwn ==
  ASSUME IndexIInv, NEW f \in File, ~Deallocs(f)
  PROVE  /\ index[f] \subseteq Own(f) /\ FREE_MAP_SECTOR \notin index[f] /\ NULL \notin index[f]
         /\ Own(f) = Range(data[f]) \cup index[f]
<1>1. Own(f) = Range(data[f]) \cup index[f]
  BY DEF Own
<1>2. index[f] \cap Reserved = {} /\ index[f] \subseteq Sector
  BY <1>1, OwnSectors
<1> QED
  BY <1>1, <1>2, SectorsAre

\* The capacity is what would come after the last leaf.
LEMMA CapacityIs ==
  /\ Capacity = Base(Top) /\ Capacity \in Nat
<1>1. DIRECT_BLOCKS \in Nat /\ INDIRECT_BLOCKS \in Nat /\ INDIRECT_BLOCK_PTRS \in Nat
  BY SizesAre
<1>2. (INDIRECT_BLOCKS + INDIRECT_BLOCK_PTRS) * INDIRECT_BLOCK_PTRS
        = INDIRECT_BLOCKS * INDIRECT_BLOCK_PTRS + INDIRECT_BLOCK_PTRS * INDIRECT_BLOCK_PTRS
  BY <1>1
<1>3. INDIRECT_BLOCKS * INDIRECT_BLOCK_PTRS \in Nat /\ INDIRECT_BLOCK_PTRS * INDIRECT_BLOCK_PTRS \in Nat
  BY <1>1
<1> QED
  BY <1>1, <1>2, <1>3 DEF Capacity, Base, Top

\* The counters never pass the capacity.
LEMMA CountersFit ==
  ASSUME IndexIInv, NEW f \in File, Counters(f)
  PROVE  Size(f) =< Capacity \/ pc[f] = "indirect" \/ pc[f] = "inner"
<1>1. CASE inode[f].direct_index < DIRECT_BLOCKS /\ Size(f) = inode[f].direct_index
  <2>1. Base(Top) >= DIRECT_BLOCKS /\ Base(Top) \in Nat
    BY SizesAre, BaseIs DEF Top
  <2> QED
    BY <1>1, <2>1, SizesAre, KnownIs, CapacityIs
<1>2. ASSUME NEW t \in Nat, NEW r \in Nat, t < Top, r =< INDIRECT_BLOCK_PTRS, Size(f) = Base(t) + r
      PROVE  Size(f) =< Capacity
  <2>0. Top \in Nat
    BY SizesAre DEF Top
  <2>1. Top \in Nat /\ Base(t) \in Nat /\ Base(Top) \in Nat
    BY <2>0, BaseIs
  <2>2. Base(t) + INDIRECT_BLOCK_PTRS =< Base(Top)
    BY <1>2, <2>1, BaseLess
  <2> QED
    BY <1>2, <2>1, <2>2, SizesAre, CapacityIs
<1>3. CASE /\ inode[f].direct_index \in DIRECT_BLOCKS..(DOUBLE_INDIRECT_INDEX - 1)
           /\ inode[f].indirect_index \in 0..INDIRECT_BLOCK_PTRS
           /\ Size(f) = Base(inode[f].direct_index - DIRECT_BLOCKS) + inode[f].indirect_index
  <2>1. inode[f].direct_index - DIRECT_BLOCKS \in Nat /\ inode[f].direct_index - DIRECT_BLOCKS < Top
    BY <1>3, SizesAre DEF Top
  <2> QED
    BY <1>2, <1>3, <2>1, SizesAre
<1>4. CASE /\ inode[f].indirect_index \in 0..(INDIRECT_BLOCK_PTRS - 1)
           /\ inode[f].double_indirect_index \in 0..INDIRECT_BLOCK_PTRS
           /\ Size(f) = Base(INDIRECT_BLOCKS + inode[f].indirect_index) + inode[f].double_indirect_index
  <2>1. INDIRECT_BLOCKS + inode[f].indirect_index \in Nat /\ INDIRECT_BLOCKS + inode[f].indirect_index < Top
    BY <1>4, SizesAre DEF Top
  <2> QED
    BY <1>2, <1>4, <2>1, SizesAre
<1>5. CASE /\ inode[f].indirect_index = INDIRECT_BLOCK_PTRS /\ inode[f].double_indirect_index = 0
           /\ Size(f) = Base(INDIRECT_BLOCKS + inode[f].indirect_index) + inode[f].double_indirect_index
  <2>1. Base(Top) \in Nat /\ Size(f) = Base(Top)
    BY <1>5, SizesAre, BaseIs DEF Top
  <2> QED
    BY <2>1, CapacityIs
<1> QED
  BY <1>1, <1>3, <1>4, <1>5, SizesAre, KnownIs DEF Counters

-----------------------------------------------------------------------------
(* What the counters say of the index. *)

\* The leaves before the r-th place of leaf u.
LEMMA BaseAt ==
  ASSUME NEW t \in Nat, NEW u \in Nat, NEW r \in 0..INDIRECT_BLOCK_PTRS
  PROVE  Base(t) < Base(u) + r <=> t < u \/ (t = u /\ r > 0)
<1>0. Base(t) \in Nat /\ Base(u) \in Nat
  BY BaseIs
<1>1. Base(t) \in Nat /\ Base(u) \in Nat /\ r \in Nat /\ INDIRECT_BLOCK_PTRS \in Nat
  BY <1>0, SizesAre
<1>2. r =< INDIRECT_BLOCK_PTRS /\ INDIRECT_BLOCK_PTRS > 0
  BY SizesAre
<1>3. t < u => Base(t) + INDIRECT_BLOCK_PTRS =< Base(u)
  BY BaseLess
<1>4. u < t => Base(u) + INDIRECT_BLOCK_PTRS =< Base(t)
  BY BaseLess
<1> QED
  BY <1>1, <1>2, <1>3, <1>4

\* The leaf that the next sector goes to, or the one before it is full.
Direct(f) == inode[f].direct_index \in 0..(DIRECT_BLOCKS - 1)
Single(f) == inode[f].direct_index \in DIRECT_BLOCKS..(DOUBLE_INDIRECT_INDEX - 1)
Double(f) == inode[f].direct_index = DOUBLE_INDIRECT_INDEX
At(f) == IF Single(f) THEN inode[f].direct_index - DIRECT_BLOCKS
         ELSE INDIRECT_BLOCKS + inode[f].indirect_index
In(f) == IF Single(f) THEN inode[f].indirect_index ELSE inode[f].double_indirect_index
Ends(f) == pc[f] \in {"indirect", "inner"} \/ In(f) > 0

Says(f) ==
  /\ Direct(f) => Size(f) = inode[f].direct_index /\ Live(f) = {} /\ ~HasOuter(f)
  /\ Single(f) => /\ At(f) \in Nat /\ At(f) < INDIRECT_BLOCKS /\ ~HasOuter(f)
  /\ Double(f) => /\ At(f) \in Nat /\ At(f) >= INDIRECT_BLOCKS /\ At(f) =< Top
                  /\ HasOuter(f) <=> InOuter(f) \/ At(f) > INDIRECT_BLOCKS \/ In(f) > 0
  /\ Single(f) \/ Double(f) =>
       /\ In(f) \in 0..INDIRECT_BLOCK_PTRS /\ Size(f) = Base(At(f)) + In(f)
       /\ \A t \in Leaves : t \in Live(f) <=> t < At(f) \/ (t = At(f) /\ Ends(f))
       /\ \A t \in Leaves : InWork(f, t) <=> t = At(f) /\ pc[f] \in {"indirect", "inner"}
  /\ Direct(f) \/ Single(f) \/ Double(f)
  /\ ~(Direct(f) /\ Single(f)) /\ ~(Direct(f) /\ Double(f)) /\ ~(Single(f) /\ Double(f))

\* The counters say which leaf is being filled,
LEMMA CountersSay ==
  \A f \in File : Counters(f) /\ inode[f] \in Inode => Says(f)
<1> TAKE f \in File
<1> HAVE Counters(f) /\ inode[f] \in Inode
<1>1. PICK a, b, c : a = inode[f].direct_index /\ b = inode[f].indirect_index
                     /\ c = inode[f].double_indirect_index
  OBVIOUS
<1>2. /\ a \in 0..DOUBLE_INDIRECT_INDEX /\ b \in 0..INDIRECT_BLOCK_PTRS
      /\ c \in 0..INDIRECT_BLOCK_PTRS
  BY <1>1 DEF Inode
<1>3. /\ Direct(f) \/ Single(f) \/ Double(f)
      /\ ~(Direct(f) /\ Single(f)) /\ ~(Direct(f) /\ Double(f)) /\ ~(Single(f) /\ Double(f))
  BY <1>1, <1>2, SizesAre DEF Direct, Single, Double
<1>4. ASSUME Direct(f) PROVE Size(f) = inode[f].direct_index /\ Live(f) = {} /\ ~HasOuter(f)
  <2>1. /\ a \in 0..(DIRECT_BLOCKS - 1) /\ Size(f) = a
        /\ pc[f] \notin {"indirect", "outer", "inner"}
    BY <1>1, <1>2, <1>4, SizesAre DEF Counters, Direct
  <2>2. \A t \in Nat : ~(Base(t) < a)
    <3> TAKE t \in Nat
    <3>1. Base(t) \in Nat /\ Base(t) >= DIRECT_BLOCKS
      BY BaseIs
    <3> QED
      BY <2>1, <3>1, SizesAre
  <2>3. \A t \in Leaves : t \in Nat /\ INDIRECT_BLOCKS \in Nat
    BY SizesAre
  <2>4. \A t \in Leaves : ~(Base(t) < Size(f)) /\ ~InWork(f, t)
    BY <2>1, <2>2, <2>3 DEF InWork
  <2>5. ~(Base(INDIRECT_BLOCKS) < Size(f)) /\ ~InOuter(f)
    BY <2>1, <2>2, <2>3, SizesAre DEF InOuter
  <2> QED
    BY <1>1, <2>1, <2>4, <2>5 DEF Live, HasOuter
<1>5. ASSUME Single(f) PROVE
        /\ At(f) \in Nat /\ At(f) < INDIRECT_BLOCKS /\ In(f) = b /\ Size(f) = Base(At(f)) + In(f)
        /\ pc[f] \notin {"outer", "inner"} /\ At(f) = a - DIRECT_BLOCKS
  <2>1. a \in DIRECT_BLOCKS..(DOUBLE_INDIRECT_INDEX - 1)
    BY <1>1, <1>5 DEF Single
  <2>2. /\ a # DOUBLE_INDIRECT_INDEX /\ ~(a \in 0..(DIRECT_BLOCKS - 1))
        /\ a - DIRECT_BLOCKS \in Nat /\ a - DIRECT_BLOCKS < INDIRECT_BLOCKS
    BY <2>1, SizesAre
  <2>3. Size(f) = Base(a - DIRECT_BLOCKS) + b /\ pc[f] \notin {"outer", "inner"}
    BY <1>1, <2>2 DEF Counters
  <2>4. At(f) = a - DIRECT_BLOCKS /\ In(f) = b
    BY <1>1, <1>5 DEF At, In
  <2> QED
    BY <2>2, <2>3, <2>4
<1>6. ASSUME Double(f) PROVE
        /\ At(f) \in Nat /\ At(f) >= INDIRECT_BLOCKS /\ At(f) =< Top /\ In(f) = c
        /\ Size(f) = Base(At(f)) + In(f) /\ pc[f] # "indirect" /\ At(f) = INDIRECT_BLOCKS + b
  <2>1. a = DOUBLE_INDIRECT_INDEX /\ ~Single(f)
    BY <1>1, <1>3, <1>6 DEF Double
  <2>2. ~(a \in 0..(DIRECT_BLOCKS - 1)) /\ ~(a \in DIRECT_BLOCKS..(DOUBLE_INDIRECT_INDEX - 1))
    BY <2>1, SizesAre
  <2>3. Size(f) = Base(INDIRECT_BLOCKS + b) + c /\ pc[f] # "indirect"
    BY <1>1, <2>2 DEF Counters
  <2>4. At(f) = INDIRECT_BLOCKS + b /\ In(f) = c
    BY <1>1, <2>1 DEF At, In
  <2>5. INDIRECT_BLOCKS + b \in Nat /\ INDIRECT_BLOCKS + b >= INDIRECT_BLOCKS /\ INDIRECT_BLOCKS + b =< Top
    BY <1>2, SizesAre DEF Top
  <2> QED
    BY <2>3, <2>4, <2>5
<1>7. ASSUME Single(f) \/ Double(f) PROVE
        /\ \A t \in Leaves : InWork(f, t) <=> t = At(f) /\ pc[f] \in {"indirect", "inner"}
        /\ \A t \in Leaves : t \in Live(f) <=> t < At(f) \/ (t = At(f) /\ Ends(f))
        /\ \A t \in Nat : Base(t) < Size(f) <=> t < At(f) \/ (t = At(f) /\ In(f) > 0)
  <2>1. At(f) \in Nat /\ In(f) \in 0..INDIRECT_BLOCK_PTRS /\ Size(f) = Base(At(f)) + In(f)
    BY <1>2, <1>5, <1>6, <1>7
  <2>2. \A t \in Nat : Base(t) < Size(f) <=> t < At(f) \/ (t = At(f) /\ In(f) > 0)
    BY <2>1, BaseAt
  <2>3. \A t \in Leaves : t \in Nat
    BY SizesAre
  <2>4. \A t \in Leaves : InWork(f, t) <=> t = At(f) /\ pc[f] \in {"indirect", "inner"}
    BY <1>1, <1>5, <1>6, <1>7 DEF InWork
  <2> QED
    BY <2>2, <2>3, <2>4 DEF Live, Ends
<1>8. Single(f) => ~HasOuter(f)
  <2> HAVE Single(f)
  <2>1. ~(Base(INDIRECT_BLOCKS) < Size(f))
    BY <1>5, <1>7, SizesAre
  <2> QED
    BY <1>5, <2>1 DEF HasOuter, InOuter
<1>9. Double(f) => (HasOuter(f) <=> InOuter(f) \/ At(f) > INDIRECT_BLOCKS \/ In(f) > 0)
  <2> HAVE Double(f)
  <2>1. Base(INDIRECT_BLOCKS) < Size(f) <=> INDIRECT_BLOCKS < At(f) \/ (INDIRECT_BLOCKS = At(f) /\ In(f) > 0)
    BY <1>7, SizesAre
  <2> QED
    BY <1>6, <2>1, SizesAre DEF HasOuter
<1> QED
  BY <1>1, <1>2, <1>3, <1>4, <1>5, <1>6, <1>7, <1>8, <1>9 DEF Says

\* after a step, too.
LEMMA CountersSayNext ==
  \A g \in File : Counters(g)' /\ inode'[g] \in Inode => Says(g)'
<1>1. (\A f \in File : Counters(f) /\ inode[f] \in Inode => Says(f))'
  BY CountersSay, PTL
<1>2. Inode' = Inode
  BY DEF Inode, Capacity, DOUBLE_INDIRECT_INDEX, Sector
<1> QED
  BY <1>1, <1>2

-----------------------------------------------------------------------------
(* A file becomes longer. *)

\* What is to be shown of a step of f.
Step(f) == IndexTypes' /\ Alone(f) /\ Moves(f) /\ FileInv(f)'

\* The same of rigid values.
Count(a, b, c, n, label, more) ==
  \/ /\ a \in 0..(DIRECT_BLOCKS - 1) /\ b = 0 /\ c = 0 /\ n = a
     /\ label \notin {"indirect", "outer", "inner", "expanded"}
  \/ /\ a \in DIRECT_BLOCKS..(DOUBLE_INDIRECT_INDEX - 1) /\ c = 0
     /\ b \in 0..INDIRECT_BLOCK_PTRS /\ n = Base(a - DIRECT_BLOCKS) + b
     /\ label \notin {"outer", "inner", "expanded"}
     /\ label # "indirect" => b < INDIRECT_BLOCK_PTRS
     /\ label = "indirect" => more > 0 \/ b > 0
  \/ /\ a = DOUBLE_INDIRECT_INDEX /\ b \in 0..INDIRECT_BLOCK_PTRS
     /\ c \in 0..INDIRECT_BLOCK_PTRS /\ n = Base(INDIRECT_BLOCKS + b) + c
     /\ label # "indirect"
     /\ label # "inner" => c < INDIRECT_BLOCK_PTRS /\ (b = INDIRECT_BLOCK_PTRS => c = 0)
     /\ label = "inner" => b < INDIRECT_BLOCK_PTRS /\ (more > 0 \/ c > 0)
     /\ label = "outer" => more > 0 \/ b > 0 \/ c > 0

\* Counters in terms of the values,
LEMMA CountIs ==
  ASSUME NEW f, Counters(f)
  PROVE  Count(inode[f].direct_index, inode[f].indirect_index, inode[f].double_indirect_index, Size(f),
               pc[f], left[f])
  BY DEF Counters, Count

\* and after a step.
LEMMA CountNext ==
  ASSUME NEW f, NEW a, NEW b, NEW c, NEW n, NEW label, NEW more, Count(a, b, c, n, label, more),
         a = inode'[f].direct_index, b = inode'[f].indirect_index, c = inode'[f].double_indirect_index,
         n = Size(f)', label = pc'[f], more = left'[f]
  PROVE  Counters(f)'
<1> DEFINE B(t) == Base(t)
<1>1. \A t : B(t) = DIRECT_BLOCKS + t * INDIRECT_BLOCK_PTRS
  BY DEF Base
<1> HIDE DEF B
<1>2. Count(a, b, c, n, label, more) <=>
  \/ /\ a \in 0..(DIRECT_BLOCKS - 1) /\ b = 0 /\ c = 0 /\ n = a
     /\ label \notin {"indirect", "outer", "inner", "expanded"}
  \/ /\ a \in DIRECT_BLOCKS..(DOUBLE_INDIRECT_INDEX - 1) /\ c = 0
     /\ b \in 0..INDIRECT_BLOCK_PTRS /\ n = B(a - DIRECT_BLOCKS) + b
     /\ label \notin {"outer", "inner", "expanded"}
     /\ label # "indirect" => b < INDIRECT_BLOCK_PTRS
     /\ label = "indirect" => more > 0 \/ b > 0
  \/ /\ a = DOUBLE_INDIRECT_INDEX /\ b \in 0..INDIRECT_BLOCK_PTRS
     /\ c \in 0..INDIRECT_BLOCK_PTRS /\ n = B(INDIRECT_BLOCKS + b) + c
     /\ label # "indirect"
     /\ label # "inner" => c < INDIRECT_BLOCK_PTRS /\ (b = INDIRECT_BLOCK_PTRS => c = 0)
     /\ label = "inner" => b < INDIRECT_BLOCK_PTRS /\ (more > 0 \/ c > 0)
     /\ label = "outer" => more > 0 \/ b > 0 \/ c > 0
  BY DEF Count, B
<1>3. /\ (Base(inode[f].direct_index - DIRECT_BLOCKS))' = B(a - DIRECT_BLOCKS)
      /\ (Base(INDIRECT_BLOCKS + inode[f].indirect_index))' = B(INDIRECT_BLOCKS + b)
  BY <1>1 DEF Base
<1> QED
  BY <1>2, <1>3 DEF Counters, DOUBLE_INDIRECT_INDEX

\* What a step inside of inode_expand() has to show.
LEMMA GrowsBy ==
  ASSUME NEW f \in File, pc'[f] \in {"expand", "indirect", "outer", "inner", "expanded"},
         Counters(f)', Size(f)' + left'[f] = goal'[f], inode'[f].sector \in index'[f],
         Whole(f)' \/ Broken(f)',
         pc'[f] = "outer" /\ OuterAt(f)' = FREE_MAP_SECTOR =>
           left'[f] = 0 \/ inode'[f].double_indirect_index = 0,
         idx'[f] = 0, tables'[f] = 0
  PROVE  FileInv(f)'
<1>1. Growing(f)'
  BY DEF Growing, FREE_MAP_SECTOR
<1>2. Standing(f)' /\ Shrinking(f)' /\ Absent(f)' /\ Idle(f)'
  BY DEF Standing, Stands, Shrinking, Deallocs, Absent, Idle
<1> QED
  BY <1>1, <1>2 DEF FileInv

\* An index that will be whole.
LEMMA WholeNext ==
  ASSUME NEW f, NEW n, NEW d, NEW ptr, NEW c, NEW l, NEW live, NEW o, NEW ho \in BOOLEAN, NEW s, NEW from,
         n = Size(f)', d = data'[f], ptr = inode'[f].ptr, c = Content(f)', l = Leaf(f)',
         live = Live(f)', o = OuterAt(f)', ho <=> HasOuter(f)', s = inode'[f].sector,
         from = Passed(f)',
         Leads(n, d, ptr, c, live, from), Apart(n, d, l, live, o, ho, s), Blank(l, live, o, ho),
         index'[f] = Tables(l, live, o, ho) \cup (IF Deallocs(f)' THEN {} ELSE {s})
  PROVE  Whole(f)'
<1>1. Leads(Size(f), data[f], inode[f].ptr, Content(f), Live(f), Passed(f))'
  BY DEF Leads, Base, Slot
<1>2. Apart(Size(f), data[f], Leaf(f), Live(f), OuterAt(f), HasOuter(f), inode[f].sector)'
  BY DEF Apart, Tables
<1>3. Blank(Leaf(f), Live(f), OuterAt(f), HasOuter(f))'
  BY DEF Blank, Leaves, Top, FREE_MAP_SECTOR
<1>4. (index[f] = Tables(Leaf(f), Live(f), OuterAt(f), HasOuter(f))
                     \cup (IF Deallocs(f) THEN {} ELSE {inode[f].sector}))'
  BY DEF Tables
<1> QED
  BY <1>1, <1>2, <1>3, <1>4 DEF Whole

\* A new data sector is none of those in use.
LEMMA ApartAppends ==
  ASSUME NEW d \in Seq(Sector), NEW x \in Sector, NEW n, n = Len(d),
         NEW l, NEW live, NEW o, NEW ho \in BOOLEAN, NEW s,
         Apart(n, d, l, live, o, ho, s), x \notin Range(d) \cup Tables(l, live, o, ho) \cup {s}
  PROVE  Apart(n + 1, Append(d, x), l, live, o, ho, s)
<1>1. n \in Nat /\ Len(Append(d, x)) = n + 1 /\ Append(d, x)[n + 1] = x
  OBVIOUS
<1>2. \A i \in 1..n : Append(d, x)[i] = d[i] /\ d[i] # x
  BY DEF Range
<1>3. \A i \in 1..(n + 1) : i = n + 1 \/ i \in 1..n
  BY <1>1
<1>4. PICK e : e = Append(d, x)
  OBVIOUS
<1>5. \A i, j \in 1..(n + 1) : e[i] = e[j] => i = j
  BY <1>1, <1>2, <1>3, <1>4 DEF Apart
<1>6. \A i \in 1..(n + 1) : e[i] \notin Tables(l, live, o, ho) \cup {s}
  BY <1>1, <1>2, <1>3, <1>4 DEF Apart
<1> QED
  BY <1>4, <1>5, <1>6 DEF Apart

\* It is reached at the place it was entered at.
LEMMA LeadsAppends ==
  ASSUME NEW d \in Seq(Sector), NEW x \in Sector, NEW n, n = Len(d), NEW ptr, NEW c, NEW p, NEW e,
         NEW live, live \subseteq Leaves, Leads(n, d, ptr, c, live, 0),
         \A i \in 0..(DIRECT_BLOCKS - 1) : i # n => p[i] = ptr[i],
         \/ n < DIRECT_BLOCKS /\ p[n] = x /\ live = {}
         \/ /\ n >= DIRECT_BLOCKS
            /\ \E u \in live, q \in Slot :
                 /\ n = Base(u) + q /\ e[u][q] = x
                 /\ \A t \in live, r \in Slot : t # u \/ r # q => e[t][r] = c[t][r]
  PROVE  Leads(n + 1, Append(d, x), p, e, live, 0)
<1>1. n \in Nat /\ Append(d, x)[n + 1] = x
  OBVIOUS
<1>2. \A i \in 1..n : Append(d, x)[i] = d[i]
  OBVIOUS
<1>3. PICK a : a = Append(d, x)
  OBVIOUS
<1>4. ASSUME NEW i \in 0..(DIRECT_BLOCKS - 1), i < n + 1 PROVE p[i] = a[i + 1]
  <2>1. i \in Nat
    BY SizesAre
  <2>2. CASE i = n
    BY <1>1, <1>3, <1>4, <2>2, SizesAre
  <2>3. CASE i < n
    <3>1. p[i] = ptr[i] /\ ptr[i] = d[i + 1]
      BY <1>1, <2>1, <2>3 DEF Leads
    <3>2. i + 1 \in 1..n
      BY <1>1, <2>1, <2>3
    <3> QED
      BY <1>2, <1>3, <3>1, <3>2
  <2> QED
    BY <1>1, <1>4, <2>1, <2>2, <2>3
<1>5. ASSUME NEW t \in live, NEW r \in Slot, t >= 0, Base(t) + r < n + 1 PROVE e[t][r] = a[Base(t) + r + 1]
  <2>1. PICK u \in live, q \in Slot :
          /\ n = Base(u) + q /\ e[u][q] = x
          /\ \A w \in live, z \in Slot : w # u \/ z # q => e[w][z] = c[w][z]
    BY <1>5
  <2>2. t \in Nat /\ u \in Nat /\ r \in Nat /\ q \in Nat
    BY SizesAre
  <2>3. Base(t) \in Nat /\ Base(u) \in Nat
    BY <2>2, BaseIs
  <2>4. CASE Base(t) + r = n
    <3>0. Base(t) + r >= Base(u) /\ Base(t) + r =< Base(u) + q
      BY <2>1, <2>2, <2>3, <2>4
    <3>1. t = u
      BY <2>1, <2>2, <3>0, BaseMeets
    <3>2. r = q
      BY <2>1, <2>2, <2>3, <2>4, <3>1
    <3> QED
      BY <1>1, <1>3, <2>1, <2>4, <3>1, <3>2
  <2>5. CASE Base(t) + r < n
    <3>1. t # u \/ r # q
      BY <2>1, <2>2, <2>3, <2>5
    <3>2. e[t][r] = c[t][r] /\ c[t][r] = d[Base(t) + r + 1]
      BY <1>5, <2>1, <2>5, <3>1 DEF Leads
    <3>3. Base(t) + r + 1 \in 1..n
      BY <1>1, <2>2, <2>3, <2>5
    <3> QED
      BY <1>2, <1>3, <3>2, <3>3
  <2> QED
    BY <1>1, <1>5, <2>2, <2>3, <2>4, <2>5
<1> QED
  BY <1>3, <1>4, <1>5 DEF Leads

\* What is known inside of inode_expand().
LEMMA GrowKnown ==
  ASSUME IndexIInv, NEW f \in File, Grows(f)
  PROVE  /\ Counters(f) /\ Says(f) /\ Size(f) + left[f] = goal[f] /\ inode[f].sector \in index[f]
         /\ Whole(f) \/ Broken(f)
         /\ Passed(f) = 0 /\ ~Deallocs(f) /\ idx[f] = 0 /\ tables[f] = 0
<1>1. FileInv(f) /\ inode[f] \in Inode
  BY KnownIs DEF Known
<1>2. Counters(f)
  BY <1>1 DEF FileInv, Growing
<1>3. Says(f)
  BY <1>1, <1>2, CountersSay
<1>4. ~Deallocs(f)
  BY DEF Grows, Deallocs
<1> QED
  BY <1>1, <1>2, <1>3, <1>4 DEF FileInv, Growing, Idle, Passed, Grows

\* The lowest free sector is nobody's.
LEMMA FreshIs ==
  ASSUME IndexIInv, NEW f \in File, ~Full, ~Deallocs(f)
  PROVE  /\ Lowest \in Sector \ marked /\ Lowest \notin Range(data[f]) \cup index[f]
         /\ Lowest # FREE_MAP_SECTOR
<1>1. Lowest \in Sector \ marked
  BY LowestFree DEF IndexIInv, IndexTypes
<1>2. Own(f) \subseteq marked /\ Own(f) = Range(data[f]) \cup index[f]
  BY IndexOwn, OwnSectors
<1>3. Reserved \subseteq marked
  BY DEF IndexIInv, OwnInv
<1> QED
  BY <1>1, <1>2, <1>3, SectorsAre

\* The step takes the lowest free sector.
LEMMA TakesLowest ==
  ASSUME IndexIInv, NEW f \in File, ~Full, ~Deallocs(f), ~Deallocs(f)',
         marked' = marked \cup {Lowest}, lost' = lost,
         Range(data[f])' \cup index'[f] = Range(data[f]) \cup index[f] \cup {Lowest}
  PROVE  Moves(f)
<1>1. Own(f)' = Range(data[f])' \cup index'[f]
  BY DEF Own
<1>2. Gets(f, Lowest)
  BY <1>1, FreshIs, IndexOwn DEF Gets
<1> QED
  BY <1>2 DEF Moves

\* What AddSector changes.
LEMMA AddSectorFrame ==
  ASSUME IndexIInv, NEW f \in File, AddSector(f)
  PROVE  /\ Grows(f) /\ Alone(f) /\ Moves(f) /\ pc' = pc /\ table' = table /\ index' = index
         /\ data'[f] = Append(data[f], Lowest) /\ Size(f)' = Size(f) + 1
         /\ Size(f)' + left'[f] = goal'[f] /\ inode'[f].sector \in index'[f]
         /\ ~Deallocs(f)' /\ Passed(f)' = 0 /\ idx'[f] = 0 /\ tables'[f] = 0
<1>1. Grows(f) /\ ~Deallocs(f)
  BY DEF AddSector, Wanted, Grows, Deallocs
<1>2. Lowest \in Sector \ marked
  BY <1>1, FreshIs DEF AddSector
<1>3. inode \in [File -> Inode] /\ data[f] \in Seq(Sector) /\ left[f] \in Nat /\ left[f] > 0 /\ goal[f] \in Nat
  BY KnownIs DEF AddSector, Wanted, IndexIInv, IndexTypes
<1>4. data'[f] = Append(data[f], Lowest) /\ left'[f] = left[f] - 1
  BY DEF AddSector, IndexIInv, IndexTypes
<1>5. Size(f)' = Size(f) + 1
  BY <1>2, <1>3, <1>4 DEF Size
<1>6. inode'[f].sector = inode[f].sector /\ \A g \in File : g # f => inode'[g] = inode[g]
  BY <1>3 DEF AddSector, Enter, Inode
<1>7. Alone(f)
  <2>1. ASSUME NEW g \in File, g # f PROVE Same(g)
    <3>1. block'[g] = block[g] /\ inner_block'[g] = inner_block[g]
      BY <2>1 DEF AddSector, Enter, IndexIInv, IndexTypes
    <3>2. data'[g] = data[g] /\ left'[g] = left[g]
      BY <2>1 DEF AddSector, IndexIInv, IndexTypes
    <3> QED
      BY <1>6, <2>1, <3>1, <3>2 DEF AddSector, Same
  <2> QED
    BY <2>1 DEF AddSector, Alone, IndexIInv
<1>8. Moves(f)
  <2>1. Range(data[f])' = Range(data[f]) \cup {Lowest}
    <3>1. PICK d, x : d = data[f] /\ x = Lowest
      OBVIOUS
    <3>2. d \in Seq(Sector) /\ x \in Sector
      BY <1>2, <1>3, <3>1
    <3>3. Len(Append(d, x)) = Len(d) + 1 /\ Append(d, x)[Len(d) + 1] = x
      BY <3>2
    <3>4. \A i \in 1..Len(d) : Append(d, x)[i] = d[i]
      BY <3>2
    <3>5. Range(Append(d, x)) = Range(d) \cup {x}
      BY <3>2, <3>3, <3>4 DEF Range
    <3> QED
      BY <1>4, <3>1, <3>5 DEF Range
  <2>2. ~Deallocs(f)'
    BY <1>1 DEF AddSector, Deallocs
  <2> QED
    BY <1>1, <2>1, <2>2, TakesLowest DEF AddSector, Give
<1>9. Size(f)' + left'[f] = goal'[f] /\ inode'[f].sector \in index'[f]
  <2>1. Size(f) + left[f] = goal[f] /\ inode[f].sector \in index[f] /\ Size(f) \in Nat
    BY <1>1, GrowKnown, KnownIs
  <2> QED
    BY <1>3, <1>4, <1>5, <1>6, <2>1 DEF AddSector
<1>10. Passed(f)' = 0 /\ ~Deallocs(f)'
  BY <1>1 DEF AddSector, Passed, Deallocs
<1> QED
  BY <1>1, <1>4, <1>5, <1>7, <1>8, <1>9, <1>10, GrowKnown DEF AddSector

\* Whole, a sector later.
LEMMA AddSectorWhole ==
  ASSUME IndexIInv, NEW f \in File, AddSector(f), Whole(f),
         Leaf(f)' = Leaf(f), Live(f)' = Live(f), HasOuter(f)' <=> HasOuter(f),
         OuterAt(f)' = OuterAt(f), inode'[f].sector = inode[f].sector,
         \A i \in 0..(DIRECT_BLOCKS - 1) : i # Size(f) => inode'[f].ptr[i] = inode[f].ptr[i],
         \/ Size(f) < DIRECT_BLOCKS /\ inode'[f].ptr[Size(f)] = Lowest /\ Live(f) = {}
         \/ /\ Size(f) >= DIRECT_BLOCKS
            /\ \E u \in Live(f), q \in Slot :
                 /\ Size(f) = Base(u) + q /\ Content(f)'[u][q] = Lowest
                 /\ \A t \in Live(f), r \in Slot :
                      t # u \/ r # q => Content(f)'[t][r] = Content(f)[t][r]
  PROVE  Whole(f)'
<1>1. PICK n, d, ptr, c, l, live, o, s, x :
        /\ n = Size(f) /\ d = data[f] /\ ptr = inode[f].ptr /\ c = Content(f) /\ live = Live(f)
        /\ o = OuterAt(f) /\ l = Leaf(f) /\ s = inode[f].sector /\ x = Lowest
  OBVIOUS
<1>2. PICK ho \in BOOLEAN : HasOuter(f) <=> ho
  BY DEF HasOuter
<1>3. PICK p, e : p = inode'[f].ptr /\ e = Content(f)'
  OBVIOUS
<1>4. ~Deallocs(f) /\ Passed(f) = 0 /\ ~Full
  BY AddSectorFrame, GrowKnown DEF AddSector
<1>5. x \in Sector /\ x \notin Range(d) \cup index[f] /\ d \in Seq(Sector) /\ n = Len(d)
  BY <1>1, <1>4, FreshIs, KnownIs DEF Size
<1>6. index[f] = Tables(l, live, o, ho) \cup {s}
  BY <1>1, <1>2, <1>4 DEF Whole, Tables
<1>7. Leads(n, d, ptr, c, live, 0) /\ Blank(l, live, o, ho) /\ Apart(n, d, l, live, o, ho, s)
  BY <1>1, <1>2, <1>4 DEF Whole, Blank, Apart, Tables
<1>8. Apart(n + 1, Append(d, x), l, live, o, ho, s)
  BY <1>5, <1>6, <1>7, ApartAppends
<1>9. live \subseteq Leaves
  BY <1>1, LiveLeaves
<1>10. Leads(n + 1, Append(d, x), p, e, live, 0)
  <2>1. \A i \in 0..(DIRECT_BLOCKS - 1) : i # n => p[i] = ptr[i]
    BY <1>1, <1>3
  <2>2. \/ n < DIRECT_BLOCKS /\ p[n] = x /\ live = {}
        \/ /\ n >= DIRECT_BLOCKS
           /\ \E u \in live, q \in Slot :
                /\ n = Base(u) + q /\ e[u][q] = x
                /\ \A t \in live, r \in Slot : t # u \/ r # q => e[t][r] = c[t][r]
    BY <1>1, <1>3
  <2> QED
    BY <1>5, <1>7, <1>9, <2>1, <2>2, LeadsAppends
<1>11. /\ n + 1 = Size(f)' /\ Append(d, x) = data'[f] /\ l = Leaf(f)' /\ live = Live(f)'
       /\ o = OuterAt(f)' /\ (ho <=> HasOuter(f)') /\ s = inode'[f].sector /\ 0 = Passed(f)'
       /\ ~Deallocs(f)' /\ index' = index
  BY <1>1, <1>2, AddSectorFrame
<1>12. index'[f] = Tables(l, live, o, ho) \cup (IF Deallocs(f)' THEN {} ELSE {s})
  BY <1>6, <1>11
<1> QED
  BY <1>3, <1>7, <1>8, <1>10, <1>11, <1>12, WholeNext

\* It keeps the types.
LEMMA AddSectorTypes ==
  ASSUME IndexIInv, NEW f \in File, AddSector(f)
  PROVE  IndexTypes'
<1>1. Lowest \in Sector
  BY AddSectorFrame, FreshIs DEF AddSector, Alone, Grows, Deallocs
<1>2. IndexTypes
  BY DEF IndexIInv
<1>3. marked' \in SUBSET Sector
  BY <1>1, <1>2 DEF AddSector, Give, IndexTypes
<1>4. data' \in [File -> Seq(Sector)]
  <2>1. data[f] \in Seq(Sector)
    BY <1>2 DEF IndexTypes
  <2>2. Append(data[f], Lowest) \in Seq(Sector)
    BY <1>1, <2>1
  <2> QED
    BY <1>2, <2>2 DEF AddSector, IndexTypes
<1>5. left' \in [File -> Nat] /\ \A g \in File : left'[g] =< MaxLength[g]
  <2>1. left[f] \in Nat /\ left[f] - 1 \in Nat /\ left[f] =< MaxLength[f] /\ MaxLength[f] \in Nat
    BY <1>2, IndexAssumption DEF AddSector, Wanted, IndexTypes
  <2> QED
    BY <1>2, <2>1 DEF AddSector, IndexTypes
<1>6. inode[f] \in Inode /\ inode \in [File -> Inode] /\ block \in [File -> Pointers]
      /\ inner_block \in [File -> Pointers]
  BY <1>2 DEF IndexTypes
<1>7. /\ inode[f].direct_index \in 0..DOUBLE_INDIRECT_INDEX
      /\ inode[f].indirect_index \in 0..INDIRECT_BLOCK_PTRS
      /\ inode[f].double_indirect_index \in 0..INDIRECT_BLOCK_PTRS
      /\ inode[f].ptr \in [0..DOUBLE_INDIRECT_INDEX -> Sector]
  BY <1>6 DEF Inode
<1>8. inode' \in [File -> Inode] /\ block' \in [File -> Pointers] /\ inner_block' \in [File -> Pointers]
  <2>1. CASE pc[f] = "expand"
    <3>1. /\ inode' = [inode EXCEPT ![f].ptr[inode[f].direct_index] = Lowest, ![f].direct_index = @ + 1]
          /\ block' = block /\ inner_block' = inner_block /\ inode[f].direct_index < DIRECT_BLOCKS
      BY <2>1 DEF AddSector, Enter, Wanted
    <3>2. inode[f].direct_index + 1 \in 0..DOUBLE_INDIRECT_INDEX
      BY <1>7, <3>1, SizesAre
    <3>3. [inode[f].ptr EXCEPT ![inode[f].direct_index] = Lowest] \in [0..DOUBLE_INDIRECT_INDEX -> Sector]
      BY <1>1, <1>7
    <3>4. inode'[f] \in Inode
      BY <1>6, <3>1, <3>2, <3>3 DEF Inode
    <3> QED
      BY <1>6, <3>1, <3>4
  <2>2. CASE pc[f] = "indirect"
    <3>1. /\ inode' = [inode EXCEPT ![f].indirect_index = @ + 1]
          /\ block' = [block EXCEPT ![f][inode[f].indirect_index] = Lowest] /\ inner_block' = inner_block
          /\ inode[f].indirect_index < INDIRECT_BLOCK_PTRS
      BY <2>2 DEF AddSector, Enter, Wanted
    <3>2. inode[f].indirect_index + 1 \in 0..INDIRECT_BLOCK_PTRS
      BY <1>7, <3>1, SizesAre
    <3>3. inode'[f] \in Inode
      BY <1>6, <3>1, <3>2 DEF Inode
    <3>4. block' \in [File -> Pointers]
      BY <1>1, <1>6, <3>1 DEF Pointers
    <3> QED
      BY <1>6, <3>1, <3>3, <3>4
  <2>3. CASE pc[f] = "inner"
    <3>1. /\ inode' = [inode EXCEPT ![f].double_indirect_index = @ + 1]
          /\ inner_block' = [inner_block EXCEPT ![f][inode[f].double_indirect_index] = Lowest]
          /\ block' = block /\ inode[f].double_indirect_index < INDIRECT_BLOCK_PTRS
      BY <2>3 DEF AddSector, Enter, Wanted
    <3>2. inode[f].double_indirect_index + 1 \in 0..INDIRECT_BLOCK_PTRS
      BY <1>7, <3>1, SizesAre
    <3>3. inode'[f] \in Inode
      BY <1>6, <3>1, <3>2 DEF Inode
    <3>4. inner_block' \in [File -> Pointers]
      BY <1>1, <1>6, <3>1 DEF Pointers
    <3> QED
      BY <1>6, <3>1, <3>3, <3>4
  <2> QED
    BY <2>1, <2>2, <2>3 DEF AddSector, Enter
<1>9. inode' \in [File -> Inode]'
  BY <1>8 DEF Inode, Capacity, DOUBLE_INDIRECT_INDEX, Sector
<1> QED
  BY <1>2, <1>3, <1>4, <1>5, <1>8, <1>9 DEF AddSector, IndexTypes, Pointers, Sector, Slot, Labels

\* A direct pointer is entered.
LEMMA AddDirect ==
  ASSUME IndexIInv, NEW f \in File, AddSector(f), pc[f] = "expand"
  PROVE  Counters(f)' /\ Whole(f)'
<1>1. Counters(f) /\ Says(f) /\ Whole(f)
  BY AddSectorFrame, GrowKnown, NotBroken
<1>2. PICK a, x : a = inode[f].direct_index /\ x = Lowest
  OBVIOUS
<1>3. /\ inode' = [inode EXCEPT ![f].ptr[a] = x, ![f].direct_index = @ + 1]
      /\ block' = block /\ inner_block' = inner_block /\ a < DIRECT_BLOCKS
  BY <1>2 DEF AddSector, Enter, Wanted
<1>4. inode \in [File -> Inode] /\ inode[f] \in Inode /\ a \in 0..DOUBLE_INDIRECT_INDEX
      /\ inode[f].ptr \in [0..DOUBLE_INDIRECT_INDEX -> Sector]
  BY <1>2, KnownIs DEF IndexIInv, IndexTypes, Inode
<1>5. /\ inode'[f].direct_index = a + 1 /\ inode'[f].indirect_index = inode[f].indirect_index
      /\ inode'[f].double_indirect_index = inode[f].double_indirect_index
      /\ inode'[f].ptr = [inode[f].ptr EXCEPT ![a] = x] /\ inode'[f].sector = inode[f].sector
  BY <1>2, <1>3, <1>4 DEF Inode
<1>6. Direct(f) /\ Size(f) = a /\ Live(f) = {} /\ ~HasOuter(f)
      /\ inode[f].indirect_index = 0 /\ inode[f].double_indirect_index = 0
  BY <1>1, <1>2, <1>3, <1>4, SizesAre DEF Says, Direct, Counters
<1>7. pc' = pc /\ Size(f)' = a + 1
  BY <1>6, AddSectorFrame
<1>8. Counters(f)'
  <2>1. CASE a + 1 < DIRECT_BLOCKS
    BY <1>4, <1>5, <1>6, <1>7, <2>1, SizesAre, AddSectorFrame DEF Counters
  <2>2. CASE a + 1 = DIRECT_BLOCKS
    <3>1. Base(0) = a + 1 /\ DIRECT_BLOCKS - DIRECT_BLOCKS = 0
      BY <2>2, SizesAre, BaseIs
    <3>2. Count(a + 1, 0, 0, a + 1, "expand", left'[f])
      <4>1. CASE INDIRECT_BLOCKS > 0
        <5>0. DIRECT_BLOCKS \in DIRECT_BLOCKS..(DOUBLE_INDIRECT_INDEX - 1) /\ DIRECT_BLOCKS - DIRECT_BLOCKS = 0
          BY <4>1, SizesAre
        <5>1. a + 1 \in DIRECT_BLOCKS..(DOUBLE_INDIRECT_INDEX - 1) /\ a + 1 - DIRECT_BLOCKS = 0
          BY <1>4, <2>2, <5>0, SizesAre
        <5>2. Base(a + 1 - DIRECT_BLOCKS) = a + 1
          BY <3>1, <5>1
        <5> QED
          BY <1>4, <5>1, <5>2, SizesAre DEF Count
      <4>2. CASE INDIRECT_BLOCKS = 0
        <5>1. a + 1 = DOUBLE_INDIRECT_INDEX /\ INDIRECT_BLOCKS + 0 = 0
          BY <2>2, <4>2, SizesAre
        <5>2. Base(INDIRECT_BLOCKS + 0) = a + 1
          BY <3>1, <5>1
        <5> QED
          BY <1>4, <5>1, <5>2, SizesAre DEF Count
      <4> QED
        BY <4>1, <4>2, SizesAre
    <3>3. inode'[f].indirect_index = 0 /\ inode'[f].double_indirect_index = 0 /\ pc'[f] = "expand"
      BY <1>5, <1>6, <1>7
    <3> QED
      BY <1>5, <1>7, <3>2, <3>3, CountNext
  <2> QED
    BY <1>3, <1>4, <2>1, <2>2, SizesAre
<1>9. \A t \in Nat : ~(Base(t) < a + 1)
  <2> TAKE t \in Nat
  <2>1. Base(t) \in Nat /\ Base(t) >= DIRECT_BLOCKS
    BY BaseIs
  <2> QED
    BY <1>3, <1>4, <2>1, SizesAre
<1>10. \A t : ~InWork(f, t)'
  BY <1>7 DEF InWork
<1>11. Live(f)' = Live(f) /\ ~HasOuter(f)'
  <2>1. \A t \in Leaves : t \in Nat /\ INDIRECT_BLOCKS \in Nat
    BY SizesAre
  <2>2. Live(f)' = {t \in Leaves : Base(t) < Size(f)' \/ InWork(f, t)'}
    BY DEF Live, Leaves, Top, Base
  <2>3. HasOuter(f)' <=> Base(INDIRECT_BLOCKS) < Size(f)' \/ InOuter(f)'
    BY DEF HasOuter, Base
  <2>4. ~InOuter(f)'
    BY <1>7 DEF InOuter
  <2>5. Live(f)' = {}
    BY <1>7, <1>9, <1>10, <2>1, <2>2
  <2>6. ~HasOuter(f)'
    BY <1>7, <1>9, <2>1, <2>3, <2>4, SizesAre
  <2> QED
    BY <1>6, <2>5, <2>6
<1>12. Leaf(f)' = Leaf(f)
  <2>1. Outer(f) = Garbage /\ Outer(f)' = Garbage
    BY <1>6, <1>7, <1>11 DEF Outer, Garbage, Slot
  <2>2. \A t \in Leaves : t < INDIRECT_BLOCKS => inode'[f].ptr[DIRECT_BLOCKS + t] = inode[f].ptr[DIRECT_BLOCKS + t]
    BY <1>3, <1>4, <1>5, SizesAre
  <2> QED
    BY <2>1, <2>2 DEF Leaf, Leaves, Top, Garbage
<1>13. OuterAt(f)' = OuterAt(f)
  BY <1>3, <1>4, <1>5, SizesAre DEF OuterAt, DOUBLE_INDIRECT_INDEX
<1>14. \A i \in 0..(DIRECT_BLOCKS - 1) : i # Size(f) => inode'[f].ptr[i] = inode[f].ptr[i]
  BY <1>4, <1>5, <1>6, SizesAre
<1>15. Size(f) < DIRECT_BLOCKS /\ inode'[f].ptr[Size(f)] = Lowest
  BY <1>2, <1>3, <1>4, <1>5, <1>6
<1> QED
  BY <1>1, <1>5, <1>6, <1>8, <1>11, <1>12, <1>13, <1>14, <1>15, AddSectorWhole

\* A sector for a leaf that is on the stack.
LEMMA AddBelow ==
  ASSUME IndexIInv, NEW f \in File, AddSector(f), pc[f] # "expand"
  PROVE  Counters(f)' /\ (Whole(f)' \/ Broken(f)')
<1>1. Counters(f) /\ Says(f) /\ (Whole(f) \/ Broken(f)) /\ Grows(f) /\ Alone(f)
  BY AddSectorFrame, GrowKnown
<1>2. PICK u, q, x, k : u = At(f) /\ q = In(f) /\ x = Lowest /\ k = inode[f]
  OBVIOUS
<1>3. pc[f] \in {"indirect", "inner"} /\ pc' = pc /\ left[f] > 0 /\ table' = table /\ index' = index
  BY AddSectorFrame DEF AddSector, Wanted
<1>4. inode \in [File -> Inode] /\ k \in Inode /\ block \in [File -> Pointers]
      /\ inner_block \in [File -> Pointers]
  BY <1>2, KnownIs DEF IndexIInv, IndexTypes
<1>5. \/ /\ pc[f] = "indirect" /\ Single(f) /\ q = k.indirect_index
         /\ inode' = [inode EXCEPT ![f].indirect_index = @ + 1]
         /\ block' = [block EXCEPT ![f][q] = x] /\ inner_block' = inner_block
      \/ /\ pc[f] = "inner" /\ Double(f) /\ q = k.double_indirect_index
         /\ inode' = [inode EXCEPT ![f].double_indirect_index = @ + 1]
         /\ inner_block' = [inner_block EXCEPT ![f][q] = x] /\ block' = block
  <2>1. CASE pc[f] = "indirect"
    <3>1. Single(f)
      BY <1>1, <2>1 DEF Counters, Single
    <3> QED
      BY <1>2, <2>1, <3>1 DEF AddSector, Enter, In
  <2>2. CASE pc[f] = "inner"
    <3>1. Double(f) /\ ~Single(f)
      BY <1>1, <2>2 DEF Counters, Double, Says
    <3> QED
      BY <1>2, <2>2, <3>1 DEF AddSector, Enter, In
  <2> QED
    BY <1>3, <2>1, <2>2
<1>6. q \in Slot /\ q \in Nat /\ q + 1 \in 0..INDIRECT_BLOCK_PTRS
  <2>1. q < INDIRECT_BLOCK_PTRS
    BY <1>2, <1>5 DEF AddSector, Wanted
  <2>2. q \in 0..INDIRECT_BLOCK_PTRS
    BY <1>1, <1>2, <1>5 DEF Says
  <2> QED
    BY <2>1, <2>2, SizesAre
<1>7. u \in Leaves /\ u \in Nat /\ (u < INDIRECT_BLOCKS <=> Single(f))
  <2>1. CASE Single(f)
    BY <1>1, <1>2, <2>1, SizesAre DEF Says
  <2>2. CASE Double(f) /\ pc[f] = "inner"
    <3>1. k.indirect_index < INDIRECT_BLOCK_PTRS /\ k.indirect_index \in Nat /\ ~Single(f)
      BY <1>1, <1>2, <1>4, <2>2, SizesAre, KnownIs DEF Counters, Double, Says
    <3>2. u = INDIRECT_BLOCKS + k.indirect_index
      BY <1>2, <3>1 DEF At
    <3> QED
      BY <3>1, <3>2, SizesAre
  <2> QED
    BY <1>5, <2>1, <2>2
<1>8. /\ inode'[f].ptr = k.ptr /\ inode'[f].sector = k.sector
      /\ inode'[f].direct_index = k.direct_index
      /\ pc[f] = "indirect" => inode'[f].indirect_index = q + 1
                              /\ inode'[f].double_indirect_index = k.double_indirect_index
      /\ pc[f] = "inner" => inode'[f].indirect_index = k.indirect_index
                              /\ inode'[f].double_indirect_index = q + 1
  BY <1>2, <1>4, <1>5 DEF Inode
<1>9. Size(f) = Base(u) + q /\ Size(f)' = Base(u) + q + 1 /\ Base(u) \in Nat /\ Base(u) >= DIRECT_BLOCKS
  <2>1. Size(f) = Base(u) + q
    BY <1>1, <1>2, <1>5 DEF Says
  <2>2. Base(u) \in Nat /\ Base(u) >= DIRECT_BLOCKS
    BY <1>7, BaseIs
  <2> QED
    BY <1>6, <2>1, <2>2, AddSectorFrame
<1>10. Counters(f)'
  <2>1. PICK a, b, c, n, label, more : a = inode'[f].direct_index /\ b = inode'[f].indirect_index
          /\ c = inode'[f].double_indirect_index /\ n = Size(f)' /\ label = pc'[f] /\ more = left'[f]
    OBVIOUS
  <2>2. CASE pc[f] = "indirect"
    <3>1. a \in DIRECT_BLOCKS..(DOUBLE_INDIRECT_INDEX - 1) /\ u = a - DIRECT_BLOCKS
      BY <1>2, <1>5, <1>8, <2>1, <2>2 DEF Single, At
    <3>2. c = 0
      BY <1>1, <1>2, <1>5, <1>8, <2>1, <2>2 DEF Counters
    <3>3. n = Base(a - DIRECT_BLOCKS) + b /\ b = q + 1 /\ label = "indirect"
      BY <1>3, <1>6, <1>8, <1>9, <2>1, <2>2, <3>1
    <3>4. Count(a, b, c, n, label, more)
      BY <1>6, <3>1, <3>2, <3>3 DEF Count
    <3> QED
      BY <2>1, <3>4, CountNext
  <2>3. CASE pc[f] = "inner"
    <3>1. a = DOUBLE_INDIRECT_INDEX /\ u = INDIRECT_BLOCKS + b /\ c = q + 1 /\ ~Single(f)
      BY <1>1, <1>2, <1>5, <1>8, <2>1, <2>3 DEF Double, Says, At
    <3>2. b \in 0..INDIRECT_BLOCK_PTRS /\ b < INDIRECT_BLOCK_PTRS
      BY <1>1, <1>2, <1>8, <1>5, <2>1, <2>3, SizesAre DEF Counters, Double
    <3>3. n = Base(INDIRECT_BLOCKS + b) + c /\ label = "inner"
      BY <1>3, <1>6, <1>9, <2>1, <2>3, <3>1
    <3>4. Count(a, b, c, n, label, more)
      BY <1>6, <3>1, <3>2, <3>3 DEF Count
    <3> QED
      BY <2>1, <3>4, CountNext
  <2> QED
    BY <1>3, <2>2, <2>3
<1>11. CASE Broken(f)
  <2>1. full' /\ full
    BY <1>1, <1>11 DEF Alone, Broken
  <2>2. CASE pc[f] = "indirect"
    <3>1. inode[f].ptr[inode[f].direct_index] = FREE_MAP_SECTOR
      BY <1>11, <2>2 DEF Broken, InOuter
    <3>2. inode'[f].ptr[inode'[f].direct_index] = FREE_MAP_SECTOR
      BY <1>2, <1>8, <3>1
    <3>3. pc'[f] = "indirect" /\ full'
      BY <1>3, <2>1, <2>2
    <3> QED
      BY <1>10, <3>2, <3>3 DEF Broken, FREE_MAP_SECTOR, InOuter, OuterAt, DOUBLE_INDIRECT_INDEX
  <2>3. CASE pc[f] = "inner"
    <3>1. OuterAt(f) = FREE_MAP_SECTOR \/ block[f][inode[f].indirect_index] \notin index[f]
      BY <1>11, <2>3 DEF Broken, InOuter
    <3>2. OuterAt(f)' = OuterAt(f)
      BY <1>2, <1>8 DEF OuterAt, DOUBLE_INDIRECT_INDEX
    <3>3. block'[f][inode'[f].indirect_index] = block[f][inode[f].indirect_index]
      BY <1>2, <1>5, <1>8, <2>3
    <3>4. pc'[f] = "inner" /\ full' /\ index'[f] = index[f]
      BY <1>3, <2>1, <2>3
    <3>5. OuterAt(f)' = FREE_MAP_SECTOR \/ block'[f][inode'[f].indirect_index] \notin index'[f]
      BY <3>1, <3>2, <3>3, <3>4
    <3> QED
      BY <1>10, <3>4, <3>5 DEF Broken, FREE_MAP_SECTOR, InOuter, OuterAt, DOUBLE_INDIRECT_INDEX
  <2> QED
    BY <1>3, <1>10, <2>2, <2>3
<1>12. CASE Whole(f)
  <2>1. inode'[f] \in Inode
    BY AddSectorTypes DEF IndexTypes, Inode, Capacity, DOUBLE_INDIRECT_INDEX, Sector
  <2>2. Says(f)'
    BY <1>10, <2>1, CountersSayNext
  <2>3. /\ Single(f)' <=> Single(f)
        /\ Double(f)' <=> Double(f)
    BY <1>2, <1>8 DEF Single, Double, DOUBLE_INDIRECT_INDEX
  <2>4. At(f)' = u
    <3>1. CASE pc[f] = "indirect"
      BY <1>2, <1>5, <1>8, <2>3, <3>1 DEF At
    <3>2. CASE pc[f] = "inner"
      <4>1. ~Single(f) /\ ~Single(f)'
        BY <1>1, <1>5, <2>3, <3>2 DEF Says
      <4> QED
        BY <1>2, <1>5, <1>8, <3>2, <4>1 DEF At
    <3> QED
      BY <1>3, <3>1, <3>2
  <2>5. Ends(f) /\ Ends(f)'
    BY <1>3 DEF Ends
  <2>6. Live(f)' = Live(f)
    <3>1. \A t \in Leaves : t \in Live(f) <=> t =< u
      BY <1>1, <1>2, <1>5, <1>7, <2>5, SizesAre DEF Says
    <3>2. \A t \in Leaves : t \in Live(f)' <=> t =< u
      <4>1. \A t \in Leaves : t \in Live(f)' <=> t < At(f)' \/ (t = At(f)' /\ Ends(f)')
        BY <1>5, <2>2, <2>3 DEF Says, Leaves, Top
      <4> QED
        BY <1>7, <2>4, <2>5, <4>1, SizesAre
    <3>3. Live(f) \subseteq Leaves /\ Live(f)' \subseteq Leaves
      BY LiveLeaves DEF Live, Leaves, Top
    <3> QED
      BY <3>1, <3>2, <3>3
  <2>7. HasOuter(f)' <=> HasOuter(f)
    <3>1. CASE Single(f)
      BY <1>1, <2>2, <2>3, <3>1 DEF Says
    <3>2. CASE pc[f] = "inner"
      BY <1>3, <3>2 DEF HasOuter, InOuter
    <3> QED
      BY <1>5, <3>1, <3>2
  <2>8. \A t : InWork(f, t)' <=> InWork(f, t)
    BY <1>2, <1>3, <1>5, <1>8 DEF InWork
  <2>9. OuterAt(f)' = OuterAt(f)
    BY <1>2, <1>8 DEF OuterAt, DOUBLE_INDIRECT_INDEX
  <2>10. Leaf(f)' = Leaf(f)
    <3>1. Outer(f)' = Outer(f)
      <4>1. CASE Single(f)
        BY <1>1, <1>3, <1>5, <2>2, <2>3, <4>1 DEF Outer, Says, Garbage, Slot
      <4>2. CASE pc[f] = "inner"
        BY <1>3, <1>5, <4>2 DEF Outer
      <4> QED
        BY <1>5, <4>1, <4>2
    <3> QED
      BY <1>2, <1>8, <3>1 DEF Leaf, Leaves, Top
  <2>11. u \in Live(f)
    BY <1>1, <1>2, <1>5, <1>7, <2>5 DEF Says
  <2>12. InWork(f, u) /\ \A t \in Leaves : t # u => ~InWork(f, t)
    BY <1>1, <1>2, <1>3, <1>5, <1>7 DEF Says
  <2>13. Content(f)'[u][q] = x /\ \A r \in Slot : r # q => Content(f)'[u][r] = Content(f)[u][r]
    <3>1. Content(f)[u] = IF pc[f] = "indirect" THEN block[f] ELSE inner_block[f]
      BY <1>7, <2>12 DEF Content
    <3>2. Content(f)'[u] = IF pc'[f] = "indirect" THEN block'[f] ELSE inner_block'[f]
      BY <1>7, <2>8, <2>12 DEF Content, Leaves, Top
    <3> QED
      BY <1>3, <1>4, <1>5, <1>6, <3>1, <3>2 DEF Pointers
  <2>14. \A t \in Leaves : t # u => Content(f)'[t] = Content(f)[t]
    <3> TAKE t \in Leaves
    <3> HAVE t # u
    <3>1. PICK l : l = Leaf(f)
      OBVIOUS
    <3>2. Content(f)[t] = table[l[t]] /\ Content(f)'[t] = table'[l[t]]
      BY <2>8, <2>10, <2>12, <3>1 DEF Content, Leaves, Top
    <3> QED
      BY <1>3, <3>2
  <2>15. \E v \in Live(f), w \in Slot :
           /\ Size(f) = Base(v) + w /\ Content(f)'[v][w] = Lowest
           /\ \A t \in Live(f), r \in Slot :
                      t # v \/ r # w => Content(f)'[t][r] = Content(f)[t][r]
    BY <1>2, <1>6, <1>9, <2>11, <2>13, <2>14, LiveLeaves
  <2>16. Size(f) >= DIRECT_BLOCKS
    BY <1>6, <1>9, SizesAre
  <2>17. inode'[f].ptr = inode[f].ptr /\ inode'[f].sector = inode[f].sector
    BY <1>2, <1>8
  <2> QED
    BY <1>10, <1>12, <2>6, <2>7, <2>9, <2>10, <2>15, <2>16, <2>17, AddSectorWhole
<1> QED
  BY <1>1, <1>10, <1>11, <1>12

\* AddSector, in each of the three loops.
LEMMA AddSectorStep ==
  ASSUME IndexIInv, NEW f \in File, AddSector(f)
  PROVE  Step(f)
<1>1. Counters(f)' /\ (Whole(f)' \/ Broken(f)')
  BY AddDirect, AddBelow
<1>2. pc'[f] \in {"expand", "indirect", "inner"}
  BY AddSectorFrame DEF AddSector, Wanted
<1>3. FileInv(f)'
  BY <1>1, <1>2, AddSectorFrame, GrowsBy
<1> QED
  BY <1>3, AddSectorFrame, AddSectorTypes DEF Step

-----------------------------------------------------------------------------
(* No sector is free. *)

\* A fault changes nothing of the files.
LEMMA FaultStep ==
  ASSUME IndexIInv, NEW f \in File, full' = TRUE, fault' = TRUE,
         UNCHANGED <<disk, pc, inode, frame, data, index, lost>>
  PROVE  Step(f)
<1>1. UNCHANGED <<marked, table, named, pc, inode, calls, left, tables, goal, idx, block, inner_block, data,
                  index, lost>>
  BY DEF disk, frame
<1>2. \A g \in File : Same(g)
  BY <1>1 DEF Same
<1>3. FileInv(f)' /\ Own(f)' = Own(f)
  <2>1. FileInv(f)
    BY DEF IndexIInv
  <2>2. \A s \in Own(f) : table'[s] = table[s]
    BY <1>1
  <2> QED
    BY <1>2, <2>1, <2>2, OthersKeep
<1>4. Alone(f)
  BY <1>1, <1>2 DEF Alone
<1>5. Moves(f)
  BY <1>1, <1>3 DEF Moves, Keeps
<1>6. IndexTypes'
  BY <1>1 DEF IndexIInv, IndexTypes, Inode, Pointers, Sector, Slot, Labels, Capacity,
              DOUBLE_INDIRECT_INDEX
<1> QED
  BY <1>3, <1>4, <1>5, <1>6 DEF Step

\* A sector of data cannot be had.
LEMMA AddNothingStep ==
  ASSUME IndexIInv, NEW f \in File, AddNothing(f)
  PROVE  Step(f)
  BY FaultStep DEF AddNothing

\* What is on the stack has its sector.
LEMMA Stacked ==
  ASSUME IndexIInv, NEW f \in File, Grows(f)
  PROVE  /\ pc[f] = "indirect" =>
              /\ Single(f) /\ At(f) \in Leaves /\ At(f) \in Live(f) /\ At(f) < INDIRECT_BLOCKS
              /\ Leaf(f)[At(f)] = inode[f].ptr[inode[f].direct_index]
              /\ In(f) = inode[f].indirect_index /\ inode[f].double_indirect_index = 0
              /\ inode[f].direct_index = DIRECT_BLOCKS + At(f)
         /\ pc[f] = "inner" =>
              /\ Double(f) /\ At(f) \in Leaves /\ At(f) \in Live(f) /\ At(f) >= INDIRECT_BLOCKS
              /\ Leaf(f)[At(f)] = block[f][inode[f].indirect_index]
              /\ inode[f].indirect_index \in Slot
              /\ In(f) = inode[f].double_indirect_index
              /\ At(f) = INDIRECT_BLOCKS + inode[f].indirect_index
         /\ InOuter(f) => HasOuter(f) /\ Double(f) /\ ~Single(f)
<1>1. Counters(f) /\ Says(f) /\ inode[f] \in Inode
  BY GrowKnown, KnownIs
<1>2. /\ inode[f].direct_index \in Nat /\ inode[f].indirect_index \in Nat
      /\ inode[f].double_indirect_index \in Nat
  BY KnownIs
<1>3. ASSUME pc[f] = "indirect" PROVE
              /\ Single(f) /\ At(f) \in Leaves /\ At(f) \in Live(f) /\ At(f) < INDIRECT_BLOCKS
              /\ Leaf(f)[At(f)] = inode[f].ptr[inode[f].direct_index]
              /\ In(f) = inode[f].indirect_index /\ inode[f].double_indirect_index = 0
              /\ inode[f].direct_index = DIRECT_BLOCKS + At(f)
  <2>1. Single(f) /\ inode[f].double_indirect_index = 0
    BY <1>1, <1>3 DEF Counters, Single
  <2>2. At(f) = inode[f].direct_index - DIRECT_BLOCKS /\ In(f) = inode[f].indirect_index
    BY <2>1 DEF At, In
  <2>3. At(f) \in Nat /\ At(f) < INDIRECT_BLOCKS
    BY <1>1, <2>1 DEF Says
  <2>4. At(f) \in Leaves /\ inode[f].direct_index = DIRECT_BLOCKS + At(f)
    BY <1>2, <2>2, <2>3, SizesAre
  <2>5. At(f) \in Live(f)
    BY <1>1, <1>3, <2>1, <2>4 DEF Says, Ends
  <2>6. Leaf(f)[At(f)] = inode[f].ptr[inode[f].direct_index]
    BY <2>3, <2>4 DEF Leaf
  <2> QED
    BY <2>1, <2>2, <2>3, <2>4, <2>5, <2>6
<1>4. ASSUME InOuter(f) PROVE HasOuter(f) /\ Double(f) /\ ~Single(f)
  <2>1. Double(f) /\ HasOuter(f)
    BY <1>1, <1>4 DEF Counters, Double, InOuter, HasOuter
  <2> QED
    BY <1>1, <2>1 DEF Says
<1>5. ASSUME pc[f] = "inner" PROVE
              /\ Double(f) /\ At(f) \in Leaves /\ At(f) \in Live(f) /\ At(f) >= INDIRECT_BLOCKS
              /\ Leaf(f)[At(f)] = block[f][inode[f].indirect_index]
              /\ inode[f].indirect_index \in Slot
              /\ In(f) = inode[f].double_indirect_index
              /\ At(f) = INDIRECT_BLOCKS + inode[f].indirect_index
  <2>1. Double(f) /\ ~Single(f)
    BY <1>4, <1>5 DEF InOuter
  <2>2. At(f) = INDIRECT_BLOCKS + inode[f].indirect_index /\ In(f) = inode[f].double_indirect_index
    BY <2>1 DEF At, In
  <2>3. inode[f].indirect_index < INDIRECT_BLOCK_PTRS
    BY <1>1, <1>2, <1>5, <2>1, SizesAre DEF Counters, Double
  <2>4. At(f) \in Leaves /\ At(f) >= INDIRECT_BLOCKS /\ inode[f].indirect_index \in Slot
        /\ At(f) - INDIRECT_BLOCKS = inode[f].indirect_index
    BY <1>2, <2>2, <2>3, SizesAre
  <2>5. At(f) \in Live(f)
    BY <1>1, <1>5, <2>1, <2>4 DEF Says, Ends
  <2>6. Outer(f) = block[f]
    BY <1>5 DEF Outer
  <2>7. Leaf(f)[At(f)] = block[f][inode[f].indirect_index]
    BY <2>4, <2>6, SizesAre DEF Leaf
  <2> QED
    BY <2>1, <2>2, <2>4, <2>5, <2>7
<1> QED
  BY <1>3, <1>4, <1>5

\* The tables of a whole file are in its index.
LEMMA WholeHas ==
  ASSUME NEW f, Whole(f)
  PROVE  /\ \A t \in Live(f) : Leaf(f)[t] \in index[f]
         /\ HasOuter(f) => OuterAt(f) \in index[f]
  BY DEF Whole, Tables

\* A block without a sector is stored.
LEMMA StoresElsewhereStep ==
  ASSUME IndexIInv, NEW f \in File, StoresElsewhere(f)
  PROVE  Step(f)
<1>1. Grows(f) /\ (pc[f] \in {"indirect", "inner", "outer"})
  BY DEF StoresElsewhere, Grows
<1>2. ~Whole(f)
  <2>1. CASE pc[f] = "indirect"
    BY <1>1, <2>1, Stacked, WholeHas DEF StoresElsewhere
  <2>2. CASE pc[f] = "inner"
    BY <1>1, <2>2, Stacked, WholeHas DEF StoresElsewhere
  <2>3. CASE pc[f] = "outer"
    BY <1>1, <2>3, Stacked, WholeHas DEF StoresElsewhere, OuterAt, InOuter
  <2> QED
    BY <1>1, <2>1, <2>2, <2>3
<1>3. Broken(f)
  BY <1>1, <1>2, GrowKnown
<1>4. full = TRUE
  BY <1>3 DEF Broken, IndexIInv, IndexTypes
<1> QED
  BY <1>4, FaultStep DEF StoresElsewhere, Fault, history, disk, frame

-----------------------------------------------------------------------------
(* Index blocks: a new one, or one that is read. *)

\* A sector x that is not the file's yet.
Apart_from(n, d, l, live, o, ho, s, x) ==
  /\ live \subseteq Leaves /\ Apart(n, d, l, live, o, ho, s) /\ Blank(l, live, o, ho)
  /\ \A i \in 1..n : d[i] # x
  /\ x \notin Tables(l, live, o, ho) \cup {s}

\* It is to be leaf u, in leaves m.
AddsLeaf(n, d, l, live, o, ho, s, x, u, m) ==
  /\ Apart_from(n, d, l, live, o, ho, s, x)
  /\ u \in Leaves \ live /\ m[u] = x /\ \A t \in Leaves : t # u => m[t] = l[t]

\* A new index block is none of the sectors in use.
LEMMA LeafAdds ==
  ASSUME NEW n, NEW d, NEW l, NEW live, NEW o, NEW ho \in BOOLEAN, NEW s, NEW x, NEW u, NEW m,
         AddsLeaf(n, d, l, live, o, ho, s, x, u, m)
  PROVE  /\ Apart(n, d, m, live \cup {u}, o, ho, s) /\ Blank(m, live \cup {u}, o, ho)
         /\ Tables(m, live \cup {u}, o, ho) = Tables(l, live, o, ho) \cup {x}
<1>0. /\ live \subseteq Leaves /\ Apart(n, d, l, live, o, ho, s) /\ Blank(l, live, o, ho)
      /\ \A i \in 1..n : d[i] # x
      /\ x \notin Tables(l, live, o, ho) \cup {s}
      /\ u \in Leaves \ live /\ m[u] = x /\ \A t \in Leaves : t # u => m[t] = l[t]
  BY DEF AddsLeaf, Apart_from
<1>1. \A t \in live : t # u /\ m[t] = l[t] /\ l[t] # x
  BY <1>0 DEF Tables
<1>2. {m[t] : t \in live \cup {u}} = {l[t] : t \in live} \cup {x}
  BY <1>0, <1>1
<1>3. Tables(m, live \cup {u}, o, ho) = Tables(l, live, o, ho) \cup {x}
  BY <1>2 DEF Tables
<1>4. \A t, w \in live \cup {u} : m[t] = m[w] => t = w
  BY <1>0, <1>1 DEF Apart
<1>5. ho => \A t \in live \cup {u} : m[t] # o
  BY <1>0, <1>1 DEF Apart, Tables
<1>6. Apart(n, d, m, live \cup {u}, o, ho, s)
  BY <1>0, <1>3, <1>4, <1>5 DEF Apart
<1>7. Blank(m, live \cup {u}, o, ho)
  BY <1>0 DEF Blank
<1> QED
  BY <1>3, <1>6, <1>7

\* A step that begins with an index block.
Begins(f) ==
  /\ Grows(f) /\ pc'[f] \in {"indirect", "outer", "inner"} /\ left[f] > 0
  /\ UNCHANGED <<calls, table, named, left, tables, goal, idx, data, lost, fault>>
  /\ \A g \in File : g # f => Same(g)
  /\ pc' \in [File -> Labels] /\ inode' \in [File -> Inode]
  /\ block' \in [File -> Pointers] /\ inner_block' \in [File -> Pointers]
  /\ index' \in [File -> SUBSET Sector]
  /\ inode'[f].direct_index = inode[f].direct_index
  /\ inode'[f].indirect_index = inode[f].indirect_index
  /\ inode'[f].double_indirect_index = inode[f].double_indirect_index
  /\ inode'[f].sector = inode[f].sector
  /\ \/ marked' = marked /\ index' = index /\ (full' = full \/ full' = TRUE)
     \/ /\ ~Full /\ marked' = marked \cup {Lowest} /\ index'[f] = index[f] \cup {Lowest}
        /\ full' = full

\* What entering a loop has to show.
LEMMA BeginsStep ==
  ASSUME IndexIInv, NEW f \in File, Begins(f), Counters(f)', Whole(f)' \/ Broken(f)',
         pc'[f] = "outer" /\ OuterAt(f)' = FREE_MAP_SECTOR => inode[f].double_indirect_index = 0
  PROVE  Step(f)
<1>1. Grows(f) /\ ~Deallocs(f) /\ ~Deallocs(f)'
  BY GrowKnown DEF Begins, Deallocs
<1>2. Alone(f)
  BY DEF Begins, Alone, IndexIInv
<1>3. Moves(f)
  <2>1. CASE marked' = marked /\ index' = index
    <3>1. Own(f)' = Own(f)
      BY <1>1, <2>1 DEF Own, Begins, Range
    <3> QED
      BY <2>1, <3>1 DEF Moves, Keeps, Begins
  <2>2. CASE ~Full /\ marked' = marked \cup {Lowest} /\ index'[f] = index[f] \cup {Lowest}
    <3>1. Range(data[f])' = Range(data[f])
      BY DEF Begins, Range
    <3>2. Range(data[f])' \cup index'[f] = Range(data[f]) \cup index[f] \cup {Lowest}
      BY <2>2, <3>1
    <3>3. lost' = lost
      BY DEF Begins
    <3> QED
      BY <1>1, <2>2, <3>2, <3>3, TakesLowest
  <2> QED
    BY <2>1, <2>2 DEF Begins
<1>4. IndexTypes'
  <2>1. ~Full => Lowest \in Sector
    BY LowestFree DEF IndexIInv, IndexTypes
  <2>2. marked' \in SUBSET Sector /\ full' \in BOOLEAN
    BY <2>1 DEF Begins, IndexIInv, IndexTypes
  <2>3. UNCHANGED <<calls, table, named, left, tables, goal, idx, data, lost, fault>>
    BY DEF Begins
  <2>4. inode' \in [File -> Inode]'
    BY DEF Begins, Inode, Capacity, DOUBLE_INDIRECT_INDEX, Sector
  <2> QED
    BY <2>2, <2>3, <2>4 DEF Begins, IndexIInv, IndexTypes, Pointers, Sector, Slot, Labels
<1>5. FileInv(f)'
  <2>1. Size(f)' = Size(f) /\ left'[f] = left[f] /\ goal'[f] = goal[f] /\ idx'[f] = 0 /\ tables'[f] = 0
    BY <1>1, GrowKnown DEF Begins, Size
  <2>2. inode'[f].sector \in index'[f]
    BY <1>1, GrowKnown DEF Begins
  <2>3. Size(f)' + left'[f] = goal'[f]
    BY <1>1, <2>1, GrowKnown
  <2>4. pc'[f] = "outer" /\ OuterAt(f)' = FREE_MAP_SECTOR =>
           left'[f] = 0 \/ inode'[f].double_indirect_index = 0
    BY DEF Begins
  <2>5. pc'[f] \in {"expand", "indirect", "outer", "inner", "expanded"}
    BY DEF Begins
  <2> QED
    BY <2>1, <2>2, <2>3, <2>4, <2>5, GrowsBy
<1> QED
  BY <1>2, <1>3, <1>4, <1>5 DEF Step

\* Whole, with one index block more.
LEMMA BeginsWhole ==
  ASSUME IndexIInv, NEW f \in File, Begins(f), Whole(f), ~Full, index'[f] = index[f] \cup {Lowest},
         \A i \in 0..(DIRECT_BLOCKS - 1) : inode'[f].ptr[i] = inode[f].ptr[i],
         \/ /\ HasOuter(f)' <=> HasOuter(f)
            /\ OuterAt(f)' = OuterAt(f)
            /\ \E u \in Leaves \ Live(f) :
                 /\ Live(f)' = Live(f) \cup {u} /\ Leaf(f)'[u] = Lowest /\ Size(f) =< Base(u)
                 /\ \A t \in Leaves : t # u => Leaf(f)'[t] = Leaf(f)[t]
         \/ /\ ~HasOuter(f) /\ HasOuter(f)' /\ OuterAt(f)' = Lowest
            /\ Live(f)' = Live(f) /\ Leaf(f)' = Leaf(f),
         \A t \in Live(f) : Content(f)'[t] = Content(f)[t]
  PROVE  Whole(f)'
<1>1. PICK n, d, ptr, c, l, live, o, s, x :
        /\ n = Size(f) /\ d = data[f] /\ ptr = inode[f].ptr /\ c = Content(f) /\ live = Live(f)
        /\ o = OuterAt(f) /\ l = Leaf(f) /\ s = inode[f].sector /\ x = Lowest
  OBVIOUS
<1>2. PICK ho, hp \in BOOLEAN : (HasOuter(f) <=> ho) /\ (HasOuter(f)' <=> hp)
  BY DEF HasOuter
<1>3. PICK p, e, m, lives, q : p = inode'[f].ptr /\ e = Content(f)' /\ m = Leaf(f)' /\ lives = Live(f)'
        /\ q = OuterAt(f)'
  OBVIOUS
<1>4. ~Deallocs(f) /\ Passed(f) = 0 /\ Grows(f) /\ ~Deallocs(f)' /\ Passed(f)' = 0
  BY GrowKnown DEF Begins, Deallocs, Passed
<1>5. x \notin Range(d) \cup index[f] /\ n = Len(d) /\ n \in Nat
  BY <1>1, <1>4, FreshIs, KnownIs DEF Size
<1>6. index[f] = Tables(l, live, o, ho) \cup {s}
  BY <1>1, <1>2, <1>4 DEF Whole, Tables
<1>7. Leads(n, d, ptr, c, live, 0) /\ Blank(l, live, o, ho) /\ Apart(n, d, l, live, o, ho, s)
  BY <1>1, <1>2, <1>4 DEF Whole, Blank, Apart, Tables
<1>8. \A i \in 1..n : d[i] # x
  <2>1. d \in Seq(Sector)
    BY <1>1, KnownIs
  <2> QED
    BY <1>5, <2>1 DEF Range
<1>9. live \subseteq Leaves /\ x \notin Tables(l, live, o, ho) \cup {s}
  BY <1>1, <1>5, <1>6, LiveLeaves
<1>10. n = Size(f)' /\ d = data'[f] /\ s = inode'[f].sector
  BY <1>1 DEF Begins, Size
<1>11. index'[f] = Tables(l, live, o, ho) \cup {x} \cup {s}
  BY <1>1, <1>6
<1>13. Apart_from(n, d, l, live, o, ho, s, x)
  BY <1>7, <1>8, <1>9 DEF Apart_from
<1>12. /\ Apart(n, d, m, lives, q, hp, s) /\ Blank(m, lives, q, hp)
       /\ Tables(m, lives, q, hp) = Tables(l, live, o, ho) \cup {x}
       /\ \A t \in lives : t \in live \/ n =< Base(t)
  <2>1. CASE /\ hp = ho /\ q = o
             /\ \E u \in Leaves \ live :
                  /\ lives = live \cup {u} /\ m[u] = x /\ n =< Base(u)
                  /\ \A t \in Leaves : t # u => m[t] = l[t]
    <3>1. PICK u \in Leaves \ live :
                  /\ lives = live \cup {u} /\ m[u] = x /\ n =< Base(u)
                  /\ \A t \in Leaves : t # u => m[t] = l[t]
      BY <2>1
    <3>2. /\ Apart(n, d, m, live \cup {u}, o, ho, s) /\ Blank(m, live \cup {u}, o, ho)
          /\ Tables(m, live \cup {u}, o, ho) = Tables(l, live, o, ho) \cup {x}
      <4>1. AddsLeaf(n, d, l, live, o, ho, s, x, u, m)
        BY <1>13, <3>1 DEF AddsLeaf
      <4> QED
        BY <4>1, LeafAdds
    <3> QED
      BY <2>1, <3>1, <3>2
  <2>2. CASE ~ho /\ hp /\ q = x /\ lives = live /\ m = l
    <3>1. /\ Apart(n, d, l, live, x, hp, s) /\ Blank(l, live, x, hp)
          /\ Tables(l, live, x, hp) = Tables(l, live, o, ho) \cup {x}
      <4>0. /\ live \subseteq Leaves /\ Apart(n, d, l, live, o, ho, s) /\ Blank(l, live, o, ho)
            /\ \A i \in 1..n : d[i] # x
            /\ x \notin Tables(l, live, o, ho) \cup {s}
        BY <1>13 DEF Apart_from
      <4>1. Tables(l, live, x, hp) = Tables(l, live, o, ho) \cup {x}
        BY <2>2 DEF Tables
      <4>2. Apart(n, d, l, live, x, hp, s)
        BY <2>2, <4>0, <4>1 DEF Apart, Tables
      <4> QED
        BY <2>2, <4>0, <4>1, <4>2 DEF Blank
    <3> QED
      BY <2>2, <3>1
  <2> QED
    BY <1>1, <1>2, <1>3, <2>1, <2>2
<1>15. Leads(n, d, p, e, lives, 0)
  <2>1. \A i \in 0..(DIRECT_BLOCKS - 1) : p[i] = ptr[i]
    BY <1>1, <1>3
  <2>2. \A t \in live : e[t] = c[t]
    BY <1>1, <1>3
  <2>3. ASSUME NEW t \in lives, NEW r \in Slot, t >= 0, Base(t) + r < n PROVE e[t][r] = d[Base(t) + r + 1]
    <3>1. t \in Nat
      BY <1>3, SizesAre DEF Live, Leaves, Top
    <3>2. r \in Nat /\ Base(t) \in Nat
      BY <3>1, SizesAre, BaseIs
    <3>3. t \in live
      BY <1>5, <1>12, <2>3, <3>2
    <3> QED
      BY <1>7, <2>2, <2>3, <3>3 DEF Leads
  <2> QED
    BY <1>7, <2>1, <2>3 DEF Leads
<1>14. index'[f] = Tables(m, lives, q, hp) \cup (IF Deallocs(f)' THEN {} ELSE {s})
  BY <1>4, <1>11, <1>12
<1> QED
  BY <1>2, <1>3, <1>4, <1>10, <1>12, <1>14, <1>15, WholeNext

\* A block before it is filled has no sector in it.
LEMMA GarbageIs == Garbage \in Pointers /\ \A i \in Slot : Garbage[i] = NULL
  BY DEF Garbage, Pointers

\* What Indirect changes.
LEMMA IndirectBegins ==
  ASSUME IndexIInv, NEW f \in File, Indirect(f)
  PROVE  /\ Begins(f) /\ Whole(f) /\ pc[f] = "expand" /\ pc'[f] = "indirect" /\ Single(f) /\ ~Double(f)
         /\ In(f) = inode[f].indirect_index /\ inode[f].double_indirect_index = 0
         /\ In(f) \in Slot /\ At(f) \in Leaves /\ At(f) < INDIRECT_BLOCKS
         /\ inode[f].direct_index = DIRECT_BLOCKS + At(f)
         /\ Counters(f)'
<1>1. Grows(f)
  BY DEF Indirect, Grows
<1>2. Counters(f) /\ Says(f) /\ Whole(f) /\ inode[f] \in Inode
  BY <1>1, GrowKnown, NotBroken, KnownIs DEF Indirect
<1>3. /\ inode \in [File -> Inode] /\ pc \in [File -> Labels] /\ block \in [File -> Pointers]
      /\ inner_block \in [File -> Pointers] /\ index \in [File -> SUBSET Sector]
      /\ table \in [Sector -> Pointers]
  BY DEF IndexIInv, IndexTypes
<1>4. PICK a, x : a = inode[f].direct_index /\ x = Lowest
  OBVIOUS
<1>5. a \in DIRECT_BLOCKS..(DOUBLE_INDIRECT_INDEX - 1) /\ pc' = [pc EXCEPT ![f] = "indirect"]
      /\ pc[f] = "expand" /\ left[f] > 0
  BY <1>4 DEF Indirect, Goto
<1>6. a \in 0..DOUBLE_INDIRECT_INDEX /\ inode[f].ptr[a] \in Sector
      /\ inode[f].ptr \in [0..DOUBLE_INDIRECT_INDEX -> Sector]
  BY <1>2, <1>5, SizesAre DEF Inode
<1>7. Single(f) /\ ~Double(f) /\ In(f) = inode[f].indirect_index /\ At(f) = a - DIRECT_BLOCKS
  BY <1>2, <1>4, <1>5 DEF Single, Says, At, In
<1>8. In(f) \in Slot /\ At(f) \in Leaves /\ At(f) < INDIRECT_BLOCKS /\ inode[f].double_indirect_index = 0
      /\ a = DIRECT_BLOCKS + At(f)
  <2>1. inode[f].indirect_index < INDIRECT_BLOCK_PTRS /\ inode[f].indirect_index \in Nat
        /\ inode[f].double_indirect_index = 0
    <3>1. /\ a \in DIRECT_BLOCKS..(DOUBLE_INDIRECT_INDEX - 1)
          /\ ~(a \in 0..(DIRECT_BLOCKS - 1)) /\ a # DOUBLE_INDIRECT_INDEX
      BY <1>5, SizesAre
    <3> QED
      BY <1>2, <1>4, <1>5, <3>1, KnownIs DEF Counters
  <2>2. At(f) \in Nat /\ At(f) < INDIRECT_BLOCKS
    BY <1>2, <1>7 DEF Says
  <2> QED
    BY <1>6, <1>7, <2>1, <2>2, SizesAre
<1>9. ~Full => x \in Sector
  BY <1>4, LowestFree DEF IndexIInv, IndexTypes
<1>10. block' \in [File -> Pointers] /\ \A g \in File : g # f => block'[g] = block[g]
  <2>1. table[inode[f].ptr[a]] \in Pointers
    BY <1>3, <1>6
  <2> QED
    BY <1>3, <1>4, <2>1, GarbageIs DEF Indirect
<1>11. /\ inode' \in [File -> Inode] /\ \A g \in File : g # f => inode'[g] = inode[g]
       /\ inode'[f].direct_index = inode[f].direct_index
       /\ inode'[f].indirect_index = inode[f].indirect_index
       /\ inode'[f].double_indirect_index = inode[f].double_indirect_index
       /\ inode'[f].sector = inode[f].sector
  <2>1. CASE inode' = inode
    BY <1>3, <2>1
  <2>2. CASE ~Full /\ inode' = [inode EXCEPT ![f].ptr[a] = x]
    <3>1. [inode[f].ptr EXCEPT ![a] = x] \in [0..DOUBLE_INDIRECT_INDEX -> Sector]
      BY <1>6, <1>9, <2>2
    <3>2. inode'[f] = [inode[f] EXCEPT !.ptr = [inode[f].ptr EXCEPT ![a] = x]]
      BY <1>2, <1>3, <2>2 DEF Inode
    <3>3. inode'[f] \in Inode
      BY <1>2, <3>1, <3>2 DEF Inode
    <3> QED
      BY <1>2, <1>3, <2>2, <3>2, <3>3 DEF Inode
  <2> QED
    BY <1>4, <2>1, <2>2 DEF Indirect
<1>12. index' \in [File -> SUBSET Sector] /\ \A g \in File : g # f => index'[g] = index[g]
  BY <1>3, <1>4, <1>9 DEF Indirect, NewTable, ReadTable
<1>13. \/ marked' = marked /\ index' = index /\ (full' = full \/ full' = TRUE)
       \/ /\ ~Full /\ marked' = marked \cup {Lowest} /\ index'[f] = index[f] \cup {Lowest}
          /\ full' = full
  BY <1>3 DEF Indirect, NewTable, ReadTable, Give
<1>14. UNCHANGED <<calls, table, named, left, tables, goal, idx, inner_block, data, lost, fault>>
  BY DEF Indirect
<1>15. pc' \in [File -> Labels] /\ pc'[f] = "indirect" /\ \A g \in File : g # f => pc'[g] = pc[g]
  BY <1>3, <1>5 DEF Labels
<1>16. \A g \in File : g # f => Same(g)
  BY <1>10, <1>11, <1>12, <1>14, <1>15 DEF Same
<1>17. Begins(f)
  BY <1>1, <1>3, <1>5, <1>10, <1>11, <1>12, <1>13, <1>14, <1>15, <1>16 DEF Begins
<1>18. Counters(f)'
  <2>1. PICK b, c, n, more : b = inode[f].indirect_index /\ c = inode[f].double_indirect_index
                             /\ n = Size(f) /\ more = left[f]
    OBVIOUS
  <2>2. Count(a, b, c, n, "expand", more)
    BY <1>2, <1>4, <1>5, <2>1, CountIs
  <2>3. Count(a, b, c, n, "indirect", more)
    BY <1>5, <2>1, <2>2, SizesAre DEF Count
  <2>4. n = Size(f)' /\ more = left'[f]
    BY <1>14, <2>1 DEF Size
  <2> QED
    BY <1>4, <1>11, <1>15, <2>1, <2>3, <2>4, CountNext
<1> QED
  BY <1>2, <1>4, <1>5, <1>7, <1>8, <1>15, <1>17, <1>18

\* A leaf on the stack is on the stack's level.
LEMMA LiveLess ==
  ASSUME NEW f \in File, Counters(f)', inode'[f] \in Inode, Single(f)' \/ Double(f)',
         NEW u \in Leaves, u = At(f)', Ends(f)'
  PROVE  /\ \A t \in Leaves : t \in Live(f)' <=> t =< u
         /\ \A t \in Leaves : InWork(f, t)' <=> t = u /\ pc'[f] \in {"indirect", "inner"}
<1>1. Says(f)'
  BY CountersSayNext
<1>2. /\ \A t \in Leaves : t \in Live(f)' <=> t < At(f)' \/ (t = At(f)' /\ Ends(f)')
      /\ \A t \in Leaves : InWork(f, t)' <=> t = At(f)' /\ pc'[f] \in {"indirect", "inner"}
  BY <1>1 DEF Says, Leaves, Top
<1>3. \A t \in Leaves : t \in Int
  BY SizesAre
<1> QED
  BY <1>2, <1>3

\* inode_expand_indirect_block() begins.
LEMMA IndirectStep ==
  ASSUME IndexIInv, NEW f \in File, Indirect(f)
  PROVE  Step(f)
<1>1. /\ Begins(f) /\ Whole(f) /\ pc[f] = "expand" /\ pc'[f] = "indirect" /\ Single(f) /\ ~Double(f)
      /\ In(f) = inode[f].indirect_index /\ inode[f].double_indirect_index = 0
      /\ In(f) \in Slot /\ At(f) \in Leaves /\ At(f) < INDIRECT_BLOCKS
      /\ inode[f].direct_index = DIRECT_BLOCKS + At(f)
      /\ Counters(f)'
  BY IndirectBegins
<1>2. PICK u, a, x : u = At(f) /\ a = inode[f].direct_index /\ x = Lowest
  OBVIOUS
<1>3. Counters(f) /\ Says(f) /\ inode[f] \in Inode /\ inode \in [File -> Inode] /\ ~Deallocs(f)
      /\ Size(f) = Base(u) + In(f) /\ block \in [File -> Pointers]
  BY <1>1, <1>2, GrowKnown, KnownIs DEF Begins, Says, IndexIInv, IndexTypes
<1>4. u \in Leaves /\ u \in Nat /\ u < INDIRECT_BLOCKS /\ a = DIRECT_BLOCKS + u
      /\ a \in 0..DOUBLE_INDIRECT_INDEX /\ a # DOUBLE_INDIRECT_INDEX
  BY <1>1, <1>2, SizesAre
<1>5. Single(f)' /\ At(f)' = u /\ Ends(f)'
  <2>1. Single(f)'
    BY <1>1 DEF Begins, Single, DOUBLE_INDIRECT_INDEX
  <2> QED
    BY <1>1, <1>2, <2>1 DEF At, Ends, Begins
<1>6. /\ \A t \in Leaves : t \in Live(f)' <=> t =< u
      /\ \A t \in Leaves : InWork(f, t)' <=> t = u
  <2>1. inode'[f] \in Inode
    BY <1>1 DEF Begins
  <2> QED
    BY <1>1, <1>4, <1>5, <2>1, LiveLess
<1>7. \A t \in Leaves : t \in Live(f) <=> t < u \/ (t = u /\ In(f) > 0)
  BY <1>1, <1>2, <1>3 DEF Says, Ends
<1>8. \A t \in Leaves : ~InWork(f, t)
  BY <1>1, <1>3 DEF Says
<1>9. Live(f) \subseteq Leaves /\ Live(f)' \subseteq Leaves
  BY LiveLeaves DEF Live, Leaves, Top
<1>10. ~HasOuter(f) /\ ~HasOuter(f)'
  <2>1. inode'[f] \in Inode
    BY <1>1 DEF Begins
  <2>2. Says(f)'
    BY <1>1, <2>1, CountersSayNext
  <2> QED
    BY <1>1, <1>3, <1>5, <2>2 DEF Says
<1>11. Outer(f) = Garbage /\ Outer(f)' = Garbage
  BY <1>1, <1>10 DEF Outer, Garbage, Slot
<1>12. table' = table /\ \A t \in Leaves : t \in Int
  BY <1>1, SizesAre DEF Begins
<1>13. CASE inode[f].indirect_index = 0 /\ ~Full
  <2>1. inode' = [inode EXCEPT ![f].ptr[a] = x] /\ index' = [index EXCEPT ![f] = @ \cup {Lowest}]
    BY <1>1, <1>2, <1>13 DEF Indirect, NewTable
  <2>2. inode'[f].ptr = [inode[f].ptr EXCEPT ![a] = x] /\ inode[f].ptr \in [0..DOUBLE_INDIRECT_INDEX -> Sector]
    BY <1>3, <2>1 DEF Inode
  <2>3. /\ inode'[f].ptr[DIRECT_BLOCKS + u] = x
        /\ \A i \in 0..DOUBLE_INDIRECT_INDEX : i # DIRECT_BLOCKS + u => inode'[f].ptr[i] = inode[f].ptr[i]
    BY <1>4, <2>2
  <2>4. Leaf(f)'[u] = x
    BY <1>4, <2>3 DEF Leaf, Leaves, Top
  <2>5. \A t \in Leaves : t # u => Leaf(f)'[t] = Leaf(f)[t]
    <3> TAKE t \in Leaves
    <3> HAVE t # u
    <3>1. CASE t < INDIRECT_BLOCKS
      <4>1. DIRECT_BLOCKS + t \in 0..DOUBLE_INDIRECT_INDEX /\ DIRECT_BLOCKS + t # DIRECT_BLOCKS + u
        BY <1>4, <3>1, SizesAre
      <4> QED
        BY <2>3, <3>1, <4>1 DEF Leaf, Leaves, Top
    <3>2. CASE ~(t < INDIRECT_BLOCKS)
      BY <1>11, <3>2 DEF Leaf, Leaves, Top
    <3> QED
      BY <3>1, <3>2
  <2>6. Live(f)' = Live(f) \cup {u} /\ u \notin Live(f)
    <3>1. \A t \in Leaves : t \in Live(f) <=> t < u
      BY <1>1, <1>4, <1>7, <1>13
    <3>2. \A t \in Leaves : t =< u <=> t < u \/ t = u
      BY <1>4, <1>12
    <3>3. u \notin Live(f)
      BY <1>4, <3>1
    <3>4. \A t \in Leaves : t \in Live(f)' <=> t \in Live(f) \/ t = u
      BY <1>6, <3>1, <3>2
    <3> QED
      BY <1>4, <1>9, <3>3, <3>4
  <2>7. \A t \in Live(f) : Content(f)'[t] = Content(f)[t]
    <3> TAKE t \in Live(f)
    <3>1. t \in Leaves /\ t # u
      BY <1>9, <2>6
    <3>2. Leaf(f)'[t] = Leaf(f)[t] /\ ~InWork(f, t) /\ ~InWork(f, t)'
      BY <1>6, <1>8, <2>5, <3>1
    <3>3. Content(f)[t] = table[Leaf(f)[t]]
      BY <3>1, <3>2 DEF Content
    <3>4. Content(f)'[t] = table'[Leaf(f)'[t]]
      BY <3>1, <3>2 DEF Content, Leaves, Top
    <3> QED
      BY <1>12, <3>2, <3>3, <3>4
  <2>8. OuterAt(f)' = OuterAt(f)
    <3>1. DOUBLE_INDIRECT_INDEX \in 0..DOUBLE_INDIRECT_INDEX /\ DOUBLE_INDIRECT_INDEX # DIRECT_BLOCKS + u
      BY <1>4, SizesAre
    <3> QED
      BY <2>3, <3>1 DEF OuterAt, DOUBLE_INDIRECT_INDEX
  <2>9. \A i \in 0..(DIRECT_BLOCKS - 1) : inode'[f].ptr[i] = inode[f].ptr[i]
    BY <1>4, <2>3, SizesAre
  <2>10. Size(f) =< Base(u)
    <3>1. Base(u) \in Nat
      BY <1>4, BaseIs
    <3> QED
      BY <1>1, <1>3, <1>13, <3>1
  <2>11. index'[f] = index[f] \cup {Lowest}
    BY <2>1 DEF IndexIInv, IndexTypes
  <2>12. \E w \in Leaves \ Live(f) :
                 /\ Live(f)' = Live(f) \cup {w} /\ Leaf(f)'[w] = Lowest /\ Size(f) =< Base(w)
                 /\ \A t \in Leaves : t # w => Leaf(f)'[t] = Leaf(f)[t]
    BY <1>2, <1>4, <2>4, <2>5, <2>6, <2>10
  <2>13. Whole(f)'
    BY <1>1, <1>10, <1>13, <2>7, <2>8, <2>9, <2>11, <2>12, BeginsWhole
  <2> QED
    BY <1>1, <2>13, BeginsStep
<1>14. CASE inode[f].indirect_index = 0 /\ Full
  <2>1. inode' = inode /\ full' = TRUE
    BY <1>1, <1>14 DEF Indirect, NewTable
  <2>2. u \notin Live(f)
    BY <1>1, <1>4, <1>7, <1>14
  <2>3. Leaf(f)[u] = inode[f].ptr[a] /\ inode[f].ptr[a] \in Sector
    BY <1>3, <1>4 DEF Leaf, Inode
  <2>4. Leaf(f)[u] \in {FREE_MAP_SECTOR, NULL}
    BY <1>1, <1>4, <2>2 DEF Whole, Blank
  <2>5. inode[f].ptr[a] = FREE_MAP_SECTOR
    BY <2>3, <2>4, SectorsAre
  <2>6. Broken(f)'
    BY <1>1, <1>2, <2>1, <2>5 DEF Broken, FREE_MAP_SECTOR
  <2> QED
    BY <1>1, <2>6, BeginsStep
<1>15. CASE inode[f].indirect_index # 0
  <2>1. inode' = inode /\ block' = [block EXCEPT ![f] = table[inode[f].ptr[a]]] /\ index' = index
    BY <1>1, <1>2, <1>15 DEF Indirect, ReadTable
  <2>2. In(f) > 0
    BY <1>1, <1>15, SizesAre
  <2>3. Live(f)' = Live(f)
    <3>1. \A t \in Leaves : t =< u <=> t < u \/ t = u
      BY <1>4, <1>12
    <3> QED
      BY <1>6, <1>7, <1>9, <2>2, <3>1
  <2>4. Leaf(f)' = Leaf(f)
    BY <1>11, <2>1 DEF Leaf, Leaves, Top
  <2>5. \A t \in Live(f) : Content(f)'[t] = Content(f)[t]
    <3> TAKE t \in Live(f)
    <3>1. t \in Leaves /\ ~InWork(f, t) /\ (InWork(f, t)' <=> t = u)
      BY <1>6, <1>8, <1>9
    <3>2. Content(f)[t] = table[Leaf(f)[t]]
      BY <3>1 DEF Content
    <3>3. CASE t # u
      <4>1. Content(f)'[t] = table'[Leaf(f)'[t]]
        BY <3>1, <3>3 DEF Content, Leaves, Top
      <4> QED
        BY <1>12, <2>4, <3>2, <4>1
    <3>4. CASE t = u
      <4>1. Content(f)'[t] = block'[f]
        BY <1>1, <3>1, <3>4 DEF Content, Leaves, Top
      <4>2. Leaf(f)[t] = inode[f].ptr[a]
        BY <1>4, <3>4 DEF Leaf
      <4> QED
        BY <1>3, <2>1, <3>2, <4>1, <4>2
    <3> QED
      BY <3>3, <3>4
  <2>6. ~Deallocs(f)' /\ Passed(f) = 0 /\ Passed(f)' = 0
    BY <1>1 DEF Deallocs, Passed
  <2>7. data'[f] = data[f]
    BY <1>1 DEF Begins
  <2>8. Whole(f)'
    BY <1>1, <1>3, <1>10, <2>1, <2>3, <2>4, <2>5, <2>6, <2>7, WholeBy
  <2> QED
    BY <1>1, <2>8, BeginsStep
<1> QED
  BY <1>13, <1>14, <1>15

\* A leaf that is not on the stack is on its sector.
LEMMA ContentOut ==
  ASSUME NEW f, NEW t \in Leaves
  PROVE  /\ ~InWork(f, t) => Content(f)[t] = table[Leaf(f)[t]]
         /\ ~InWork(f, t)' => Content(f)'[t] = table'[Leaf(f)'[t]]
<1>1. ~InWork(f, t) => Content(f)[t] = table[Leaf(f)[t]]
  BY DEF Content
<1>2. ~InWork(f, t)' => Content(f)'[t] = table'[Leaf(f)'[t]]
  BY DEF Content, Leaves, Top
<1> QED
  BY <1>1, <1>2

\* What DoubleIndirect changes.
LEMMA DoubleIndirectBegins ==
  ASSUME IndexIInv, NEW f \in File, DoubleIndirect(f)
  PROVE  /\ Begins(f) /\ Whole(f) /\ pc[f] = "expand" /\ pc'[f] = "outer" /\ Double(f) /\ ~Single(f)
         /\ In(f) = inode[f].double_indirect_index
         /\ At(f) = INDIRECT_BLOCKS + inode[f].indirect_index
         /\ Counters(f)'
<1>1. Grows(f)
  BY DEF DoubleIndirect, Grows
<1>2. Counters(f) /\ Says(f) /\ Whole(f) /\ inode[f] \in Inode
  BY <1>1, GrowKnown, NotBroken, KnownIs DEF DoubleIndirect
<1>3. /\ inode \in [File -> Inode] /\ pc \in [File -> Labels] /\ block \in [File -> Pointers]
      /\ inner_block \in [File -> Pointers] /\ index \in [File -> SUBSET Sector]
      /\ table \in [Sector -> Pointers]
  BY DEF IndexIInv, IndexTypes
<1>4. PICK a, x : a = DOUBLE_INDIRECT_INDEX /\ x = Lowest
  OBVIOUS
<1>5. inode[f].direct_index = a /\ pc' = [pc EXCEPT ![f] = "outer"]
      /\ pc[f] = "expand" /\ left[f] > 0
  BY <1>4 DEF DoubleIndirect, Goto
<1>6. a \in 0..DOUBLE_INDIRECT_INDEX /\ inode[f].ptr[a] \in Sector
      /\ inode[f].ptr \in [0..DOUBLE_INDIRECT_INDEX -> Sector]
  BY <1>2, <1>4, SizesAre DEF Inode
<1>7. Double(f) /\ ~Single(f) /\ In(f) = inode[f].double_indirect_index
      /\ At(f) = INDIRECT_BLOCKS + inode[f].indirect_index
  BY <1>2, <1>4, <1>5 DEF Double, Says, At, In
<1>9. ~Full => x \in Sector
  BY <1>4, LowestFree DEF IndexIInv, IndexTypes
<1>10. block' \in [File -> Pointers] /\ \A g \in File : g # f => block'[g] = block[g]
  <2>1. table[inode[f].ptr[a]] \in Pointers
    BY <1>3, <1>6
  <2> QED
    BY <1>3, <1>4, <2>1, GarbageIs DEF DoubleIndirect
<1>11. /\ inode' \in [File -> Inode] /\ \A g \in File : g # f => inode'[g] = inode[g]
       /\ inode'[f].direct_index = inode[f].direct_index
       /\ inode'[f].indirect_index = inode[f].indirect_index
       /\ inode'[f].double_indirect_index = inode[f].double_indirect_index
       /\ inode'[f].sector = inode[f].sector
  <2>1. CASE inode' = inode
    BY <1>3, <2>1
  <2>2. CASE ~Full /\ inode' = [inode EXCEPT ![f].ptr[a] = x]
    <3>1. [inode[f].ptr EXCEPT ![a] = x] \in [0..DOUBLE_INDIRECT_INDEX -> Sector]
      BY <1>6, <1>9, <2>2
    <3>2. inode'[f] = [inode[f] EXCEPT !.ptr = [inode[f].ptr EXCEPT ![a] = x]]
      BY <1>2, <1>3, <2>2 DEF Inode
    <3>3. inode'[f] \in Inode
      BY <1>2, <3>1, <3>2 DEF Inode
    <3> QED
      BY <1>2, <1>3, <2>2, <3>2, <3>3 DEF Inode
  <2> QED
    BY <1>4, <2>1, <2>2 DEF DoubleIndirect
<1>12. index' \in [File -> SUBSET Sector] /\ \A g \in File : g # f => index'[g] = index[g]
  BY <1>3, <1>4, <1>9 DEF DoubleIndirect, NewTable, ReadTable
<1>13. \/ marked' = marked /\ index' = index /\ (full' = full \/ full' = TRUE)
       \/ /\ ~Full /\ marked' = marked \cup {Lowest} /\ index'[f] = index[f] \cup {Lowest}
          /\ full' = full
  BY <1>3 DEF DoubleIndirect, NewTable, ReadTable, Give
<1>14. UNCHANGED <<calls, table, named, left, tables, goal, idx, inner_block, data, lost, fault>>
  BY DEF DoubleIndirect
<1>15. pc' \in [File -> Labels] /\ pc'[f] = "outer" /\ \A g \in File : g # f => pc'[g] = pc[g]
  BY <1>3, <1>5 DEF Labels
<1>16. \A g \in File : g # f => Same(g)
  BY <1>10, <1>11, <1>12, <1>14, <1>15 DEF Same
<1>17. Begins(f)
  BY <1>1, <1>3, <1>5, <1>10, <1>11, <1>12, <1>13, <1>14, <1>15, <1>16 DEF Begins
<1>18. Counters(f)'
  <2>1. PICK b, c, n, more : b = inode[f].indirect_index /\ c = inode[f].double_indirect_index
                             /\ n = Size(f) /\ more = left[f]
    OBVIOUS
  <2>2. Count(a, b, c, n, "expand", more)
    BY <1>2, <1>4, <1>5, <2>1, CountIs
  <2>3. ~(a \in 0..(DIRECT_BLOCKS - 1)) /\ ~(a \in DIRECT_BLOCKS..(DOUBLE_INDIRECT_INDEX - 1))
    BY <1>4, SizesAre
  <2>4. Count(a, b, c, n, "outer", more)
    BY <1>5, <2>1, <2>2, <2>3 DEF Count
  <2>5. n = Size(f)' /\ more = left'[f]
    BY <1>14, <2>1 DEF Size
  <2> QED
    BY <1>5, <1>11, <1>15, <2>1, <2>4, <2>5, CountNext
<1> QED
  BY <1>2, <1>4, <1>5, <1>7, <1>15, <1>17, <1>18

\* inode_expand_double_indirect_block() begins.
LEMMA DoubleIndirectStep ==
  ASSUME IndexIInv, NEW f \in File, DoubleIndirect(f)
  PROVE  Step(f)
<1>1. /\ Begins(f) /\ Whole(f) /\ pc[f] = "expand" /\ pc'[f] = "outer" /\ Double(f) /\ ~Single(f)
      /\ In(f) = inode[f].double_indirect_index
      /\ At(f) = INDIRECT_BLOCKS + inode[f].indirect_index
      /\ Counters(f)'
  BY DoubleIndirectBegins
<1>2. PICK u, a, x : u = At(f) /\ a = DOUBLE_INDIRECT_INDEX /\ x = Lowest
  OBVIOUS
<1>3. Counters(f) /\ Says(f) /\ inode[f] \in Inode /\ inode \in [File -> Inode] /\ ~Deallocs(f)
      /\ block \in [File -> Pointers] /\ u \in Nat /\ u >= INDIRECT_BLOCKS
      /\ inode[f].indirect_index \in Nat /\ inode[f].double_indirect_index \in Nat
  BY <1>1, <1>2, GrowKnown, KnownIs DEF Begins, Says, IndexIInv, IndexTypes
<1>4. Double(f)' /\ ~Single(f)' /\ At(f)' = u /\ In(f)' = In(f) /\ (Ends(f) <=> In(f) > 0)
      /\ (Ends(f)' <=> In(f) > 0)
  <2>1. Double(f)' /\ ~Single(f)'
    BY <1>1 DEF Begins, Double, Single, DOUBLE_INDIRECT_INDEX
  <2> QED
    BY <1>1, <1>2, <2>1 DEF At, Ends, Begins, In
<1>5. inode'[f] \in Inode /\ Says(f)'
  <2>1. inode'[f] \in Inode
    BY <1>1 DEF Begins
  <2> QED
    BY <1>1, <2>1, CountersSayNext
<1>6. Live(f)' = Live(f)
  <2>1. \A t \in Leaves : t \in Live(f) <=> t < u \/ (t = u /\ In(f) > 0)
    BY <1>1, <1>2, <1>3, <1>4 DEF Says
  <2>2. \A t \in Leaves : t \in Live(f)' <=> t < At(f)' \/ (t = At(f)' /\ Ends(f)')
    BY <1>4, <1>5 DEF Says, Leaves, Top
  <2>3. Live(f) \subseteq Leaves /\ Live(f)' \subseteq Leaves
    BY LiveLeaves DEF Live, Leaves, Top
  <2>4. \A t \in Leaves : t \in Live(f)' <=> t \in Live(f)
    BY <1>4, <2>1, <2>2
  <2> QED
    BY <2>3, <2>4
<1>7. \A t : ~InWork(f, t) /\ ~InWork(f, t)'
  BY <1>1 DEF InWork
<1>8. HasOuter(f)' /\ InOuter(f)'
  BY <1>1 DEF HasOuter, InOuter
<1>9. HasOuter(f) <=> inode[f].indirect_index # 0 \/ inode[f].double_indirect_index # 0
  <2>1. HasOuter(f) <=> InOuter(f) \/ At(f) > INDIRECT_BLOCKS \/ In(f) > 0
    BY <1>1, <1>3 DEF Says
  <2>2. ~InOuter(f)
    BY <1>1 DEF InOuter
  <2> QED
    BY <1>1, <1>3, <2>1, <2>2, SizesAre
<1>10. Outer(f)' = block'[f]
  BY <1>1 DEF Outer
<1>11. table' = table /\ data' = data
  BY <1>1 DEF Begins
<1>12. \A t \in Leaves : t < INDIRECT_BLOCKS => DIRECT_BLOCKS + t \in 0..DOUBLE_INDIRECT_INDEX
                                               /\ DIRECT_BLOCKS + t # DOUBLE_INDIRECT_INDEX
  BY SizesAre
<1>13. CASE inode[f].indirect_index = 0 /\ inode[f].double_indirect_index = 0 /\ ~Full
  <2>1. inode' = [inode EXCEPT ![f].ptr[a] = x] /\ index' = [index EXCEPT ![f] = @ \cup {Lowest}]
        /\ block' = [block EXCEPT ![f] = Garbage]
    BY <1>1, <1>2, <1>13 DEF DoubleIndirect, NewTable
  <2>2. inode'[f].ptr = [inode[f].ptr EXCEPT ![a] = x] /\ inode[f].ptr \in [0..DOUBLE_INDIRECT_INDEX -> Sector]
    BY <1>3, <2>1 DEF Inode
  <2>3. /\ inode'[f].ptr[a] = x
        /\ \A i \in 0..DOUBLE_INDIRECT_INDEX : i # a => inode'[f].ptr[i] = inode[f].ptr[i]
    BY <1>2, <2>2, SizesAre
  <2>4. Outer(f)' = Garbage /\ Outer(f) = Garbage
    BY <1>1, <1>3, <1>9, <1>10, <1>13, <2>1 DEF Outer
  <2>5. Leaf(f)' = Leaf(f)
    BY <1>2, <1>12, <2>3, <2>4 DEF Leaf, Leaves, Top
  <2>6. \A t \in Live(f) : Content(f)'[t] = Content(f)[t]
    BY <1>7, <1>11, <2>5, LiveLeaves, ContentOut
  <2>7. OuterAt(f)' = Lowest
    BY <1>2, <2>3 DEF OuterAt, DOUBLE_INDIRECT_INDEX
  <2>8. \A i \in 0..(DIRECT_BLOCKS - 1) : inode'[f].ptr[i] = inode[f].ptr[i]
    BY <1>2, <2>3, SizesAre
  <2>9. index'[f] = index[f] \cup {Lowest}
    BY <2>1 DEF IndexIInv, IndexTypes
  <2>10. Whole(f)'
    BY <1>1, <1>6, <1>8, <1>9, <1>13, <2>5, <2>6, <2>7, <2>8, <2>9, BeginsWhole
  <2> QED
    BY <1>1, <1>13, <2>10, BeginsStep
<1>14. CASE inode[f].indirect_index = 0 /\ inode[f].double_indirect_index = 0 /\ Full
  <2>1. inode' = inode /\ full' = TRUE
    BY <1>1, <1>14 DEF DoubleIndirect, NewTable
  <2>2. OuterAt(f) = FREE_MAP_SECTOR
    BY <1>1, <1>9, <1>14 DEF Whole, Blank
  <2>3. OuterAt(f)' = FREE_MAP_SECTOR
    BY <2>1, <2>2 DEF OuterAt, DOUBLE_INDIRECT_INDEX
  <2>4. Broken(f)'
    BY <1>8, <2>1, <2>3 DEF Broken, FREE_MAP_SECTOR
  <2> QED
    BY <1>1, <1>14, <2>4, BeginsStep
<1>15. CASE inode[f].double_indirect_index # 0 \/ inode[f].indirect_index # 0
  <2>1. inode' = inode /\ block' = [block EXCEPT ![f] = table[inode[f].ptr[a]]] /\ index' = index
    BY <1>1, <1>2, <1>15 DEF DoubleIndirect, ReadTable
  <2>2. HasOuter(f)
    BY <1>9, <1>15
  <2>3. Outer(f)' = Outer(f)
    BY <1>1, <1>2, <1>3, <1>10, <2>1, <2>2 DEF Outer
  <2>4. Leaf(f)' = Leaf(f)
    BY <2>1, <2>3 DEF Leaf, Leaves, Top
  <2>5. \A t \in Live(f) : Content(f)'[t] = Content(f)[t]
    BY <1>7, <1>11, <2>4, LiveLeaves, ContentOut
  <2>6. ~Deallocs(f)' /\ Passed(f) = 0 /\ Passed(f)' = 0
    BY <1>1 DEF Deallocs, Passed
  <2>7. Whole(f)'
    BY <1>1, <1>3, <1>6, <1>8, <1>11, <2>1, <2>2, <2>4, <2>5, <2>6, WholeBy
  <2>8. OuterAt(f) \in index[f]
    BY <1>1, <2>2, WholeHas
  <2>9. OuterAt(f)' # FREE_MAP_SECTOR
    BY <1>3, <2>1, <2>8, IndexOwn DEF OuterAt, DOUBLE_INDIRECT_INDEX
  <2> QED
    BY <1>1, <2>7, <2>9, BeginsStep
<1> QED
  BY <1>13, <1>14, <1>15

\* A call whose outer block could not be had goes nowhere.
LEMMA NoOuter ==
  ASSUME IndexIInv, NEW f \in File, Grows(f), InOuter(f), Broken(f), pc[f] = "outer"
  PROVE  OuterAt(f) = FREE_MAP_SECTOR /\ (left[f] = 0 \/ inode[f].double_indirect_index = 0) /\ full
<1>1. OuterAt(f) = FREE_MAP_SECTOR /\ full
  BY DEF Broken
<1>2. FileInv(f)
  BY DEF IndexIInv
<1> QED
  BY <1>1, <1>2 DEF FileInv, Growing

\* What LevelTwo changes.
LEMMA LevelTwoBegins ==
  ASSUME IndexIInv, NEW f \in File, LevelTwo(f)
  PROVE  /\ Begins(f) /\ pc[f] = "outer" /\ pc'[f] = "inner" /\ Double(f) /\ ~Single(f)
         /\ In(f) = inode[f].double_indirect_index /\ In(f) \in Nat
         /\ At(f) = INDIRECT_BLOCKS + inode[f].indirect_index
         /\ At(f) \in Leaves /\ At(f) >= INDIRECT_BLOCKS
         /\ inode[f].indirect_index \in Slot /\ inode' = inode
         /\ Counters(f)' /\ (Whole(f) \/ Broken(f))
<1>1. Grows(f) /\ InOuter(f)
  BY DEF LevelTwo, Grows, InOuter
<1>2. Counters(f) /\ Says(f) /\ (Whole(f) \/ Broken(f)) /\ inode[f] \in Inode
  BY <1>1, GrowKnown, KnownIs
<1>3. /\ inode \in [File -> Inode] /\ pc \in [File -> Labels] /\ block \in [File -> Pointers]
      /\ inner_block \in [File -> Pointers] /\ index \in [File -> SUBSET Sector]
      /\ table \in [Sector -> Pointers]
  BY DEF IndexIInv, IndexTypes
<1>4. PICK b, x : b = inode[f].indirect_index /\ x = Lowest
  OBVIOUS
<1>5. pc' = [pc EXCEPT ![f] = "inner"] /\ pc[f] = "outer" /\ left[f] > 0 /\ b < INDIRECT_BLOCK_PTRS
  BY <1>4 DEF LevelTwo, Goto
<1>6. Double(f) /\ ~Single(f) /\ HasOuter(f)
  BY <1>1, Stacked
<1>7. In(f) = inode[f].double_indirect_index /\ At(f) = INDIRECT_BLOCKS + b /\ In(f) \in Nat
      /\ b \in Slot /\ At(f) \in Leaves /\ At(f) >= INDIRECT_BLOCKS /\ At(f) - INDIRECT_BLOCKS = b
  <2>1. In(f) = inode[f].double_indirect_index /\ At(f) = INDIRECT_BLOCKS + b
    BY <1>4, <1>6 DEF At, In
  <2>2. b \in Nat /\ inode[f].double_indirect_index \in Nat
    BY <1>4, KnownIs
  <2> QED
    BY <1>5, <2>1, <2>2, SizesAre
<1>8. ~Full => x \in Sector
  BY <1>4, LowestFree DEF IndexIInv, IndexTypes
<1>9. inode[f].double_indirect_index # 0 => block[f][b] \in Sector
  <2> HAVE inode[f].double_indirect_index # 0
  <2>1. Whole(f)
    <3>1. left[f] # 0
      BY <1>5
    <3>2. ~Broken(f)
      BY <1>1, <1>5, <3>1, NoOuter
    <3> QED
      BY <1>2, <3>2
  <2>2. At(f) \in Live(f)
    BY <1>2, <1>6, <1>7 DEF Says, Ends
  <2>3. Leaf(f)[At(f)] = block[f][b]
    <3>1. Outer(f) = block[f]
      BY <1>5 DEF Outer
    <3> QED
      BY <1>7, <3>1, SizesAre DEF Leaf
  <2> QED
    BY <2>1, <2>2, <2>3, WholeHas, KnownIs
<1>10. inner_block' \in [File -> Pointers] /\ \A g \in File : g # f => inner_block'[g] = inner_block[g]
  <2>1. inode[f].double_indirect_index # 0 => table[block[f][b]] \in Pointers
    BY <1>3, <1>9
  <2> QED
    BY <1>3, <1>4, <2>1, GarbageIs DEF LevelTwo
<1>11. block' \in [File -> Pointers] /\ \A g \in File : g # f => block'[g] = block[g]
  <2>1. CASE block' = block
    BY <1>3, <2>1
  <2>2. CASE ~Full /\ block' = [block EXCEPT ![f][b] = x]
    BY <1>3, <1>8, <2>2 DEF Pointers
  <2> QED
    BY <1>4, <2>1, <2>2 DEF LevelTwo
<1>12. index' \in [File -> SUBSET Sector] /\ \A g \in File : g # f => index'[g] = index[g]
  BY <1>3, <1>4, <1>8 DEF LevelTwo, NewTable, ReadTable
<1>13. \/ marked' = marked /\ index' = index /\ (full' = full \/ full' = TRUE)
       \/ /\ ~Full /\ marked' = marked \cup {Lowest} /\ index'[f] = index[f] \cup {Lowest}
          /\ full' = full
  BY <1>3 DEF LevelTwo, NewTable, ReadTable, Give
<1>14. UNCHANGED <<calls, table, named, inode, left, tables, goal, idx, data, lost, fault>>
  BY DEF LevelTwo
<1>15. pc' \in [File -> Labels] /\ pc'[f] = "inner" /\ \A g \in File : g # f => pc'[g] = pc[g]
  BY <1>3, <1>5 DEF Labels
<1>16. \A g \in File : g # f => Same(g)
  BY <1>10, <1>11, <1>12, <1>14, <1>15 DEF Same
<1>17. Begins(f)
  BY <1>1, <1>3, <1>5, <1>10, <1>11, <1>12, <1>13, <1>14, <1>15, <1>16 DEF Begins
<1>18. Counters(f)'
  <2>1. PICK a, c, n, more : a = inode[f].direct_index /\ c = inode[f].double_indirect_index
                             /\ n = Size(f) /\ more = left[f]
    OBVIOUS
  <2>2. Count(a, b, c, n, "outer", more)
    BY <1>2, <1>4, <1>5, <2>1, CountIs
  <2>3. Count(a, b, c, n, "inner", more)
    BY <1>5, <2>1, <2>2 DEF Count
  <2>4. n = Size(f)' /\ more = left'[f]
    BY <1>14, <2>1 DEF Size
  <2> QED
    BY <1>4, <1>14, <1>15, <2>1, <2>3, <2>4, CountNext
<1> QED
  BY <1>2, <1>4, <1>5, <1>6, <1>7, <1>14, <1>15, <1>17, <1>18

\* inode_expand_double_indirect_block_lvl_two() begins.
LEMMA LevelTwoStep ==
  ASSUME IndexIInv, NEW f \in File, LevelTwo(f)
  PROVE  Step(f)
<1>1. /\ Begins(f) /\ pc[f] = "outer" /\ pc'[f] = "inner" /\ Double(f) /\ ~Single(f)
      /\ In(f) = inode[f].double_indirect_index /\ In(f) \in Nat
      /\ At(f) = INDIRECT_BLOCKS + inode[f].indirect_index
      /\ At(f) \in Leaves /\ At(f) >= INDIRECT_BLOCKS
      /\ inode[f].indirect_index \in Slot /\ inode' = inode
      /\ Counters(f)' /\ (Whole(f) \/ Broken(f))
  BY LevelTwoBegins
<1>2. PICK u, b, x : u = At(f) /\ b = inode[f].indirect_index /\ x = Lowest
  OBVIOUS
<1>3. Counters(f) /\ Says(f) /\ inode[f] \in Inode /\ inode \in [File -> Inode] /\ ~Deallocs(f)
      /\ block \in [File -> Pointers] /\ inner_block \in [File -> Pointers]
      /\ u \in Leaves /\ u \in Nat /\ b \in Slot
      /\ u = INDIRECT_BLOCKS + b /\ u >= INDIRECT_BLOCKS /\ ~(u < INDIRECT_BLOCKS) /\ u - INDIRECT_BLOCKS = b
  <2>1. u \in Nat /\ b \in Nat
    BY <1>1, <1>2, SizesAre
  <2>2. u = INDIRECT_BLOCKS + b /\ u >= INDIRECT_BLOCKS /\ ~(u < INDIRECT_BLOCKS) /\ u - INDIRECT_BLOCKS = b
    BY <1>1, <1>2, <2>1, SizesAre
  <2>3. inode \in [File -> Inode] /\ block \in [File -> Pointers] /\ inner_block \in [File -> Pointers]
    BY DEF IndexIInv, IndexTypes
  <2>4. Grows(f)
    BY <1>1 DEF Grows
  <2>5. Counters(f) /\ Says(f) /\ ~Deallocs(f)
    BY <2>4, GrowKnown
  <2> QED
    BY <1>1, <1>2, <2>1, <2>2, <2>3, <2>5
<1>4. Double(f)' /\ ~Single(f)' /\ At(f)' = u /\ Ends(f)' /\ (Ends(f) <=> In(f) > 0)
  <2>1. Double(f)' /\ ~Single(f)'
    BY <1>1 DEF Double, Single, DOUBLE_INDIRECT_INDEX
  <2> QED
    BY <1>1, <1>2, <2>1 DEF At, Ends
<1>5. /\ \A t \in Leaves : t \in Live(f)' <=> t =< u
      /\ \A t \in Leaves : InWork(f, t)' <=> t = u
  <2>1. inode'[f] \in Inode
    BY <1>1 DEF Begins
  <2> QED
    BY <1>1, <1>3, <1>4, <2>1, LiveLess
<1>6. \A t \in Leaves : t \in Live(f) <=> t < u \/ (t = u /\ In(f) > 0)
  BY <1>1, <1>2, <1>3, <1>4 DEF Says
<1>7. \A t : ~InWork(f, t)
  BY <1>1 DEF InWork
<1>8. Live(f) \subseteq Leaves /\ Live(f)' \subseteq Leaves
  BY LiveLeaves DEF Live, Leaves, Top
<1>9. InOuter(f) /\ InOuter(f)' /\ HasOuter(f) /\ HasOuter(f)' /\ Grows(f)
  BY <1>1 DEF HasOuter, InOuter, Grows
<1>10. OuterAt(f)' = OuterAt(f)
  BY <1>1 DEF OuterAt, DOUBLE_INDIRECT_INDEX
<1>11. Outer(f) = block[f] /\ Outer(f)' = block'[f]
  BY <1>1 DEF Outer
<1>12. table' = table /\ data' = data /\ \A t \in Leaves : t \in Int
  BY <1>1, SizesAre DEF Begins
<1>13. \A t \in Leaves : t =< u <=> t < u \/ t = u
  BY <1>3, <1>12
<1>14. ~Deallocs(f)' /\ Passed(f) = 0 /\ Passed(f)' = 0
  BY <1>1 DEF Deallocs, Passed
<1>15. CASE Broken(f)
  <2>1. OuterAt(f)' = FREE_MAP_SECTOR /\ full
    BY <1>1, <1>9, <1>10, <1>15, NoOuter
  <2>2. full'
    BY <1>1, <2>1 DEF Begins
  <2>3. Broken(f)'
    BY <1>9, <2>1, <2>2 DEF Broken, FREE_MAP_SECTOR
  <2> QED
    BY <1>1, <2>3, BeginsStep
<1>16. CASE Whole(f) /\ inode[f].double_indirect_index = 0 /\ ~Full
  <2>1. block' = [block EXCEPT ![f][b] = x] /\ index' = [index EXCEPT ![f] = @ \cup {Lowest}]
    BY <1>1, <1>2, <1>16 DEF LevelTwo, NewTable
  <2>2. block'[f][b] = x /\ \A i \in Slot : i # b => block'[f][i] = block[f][i]
    BY <1>3, <2>1 DEF Pointers
  <2>3. Leaf(f)'[u] = x
    BY <1>3, <1>11, <2>2 DEF Leaf, Leaves, Top
  <2>4. \A t \in Leaves : t # u => Leaf(f)'[t] = Leaf(f)[t]
    <3> TAKE t \in Leaves
    <3> HAVE t # u
    <3>1. CASE t < INDIRECT_BLOCKS
      BY <1>1, <3>1 DEF Leaf, Leaves, Top
    <3>2. CASE ~(t < INDIRECT_BLOCKS)
      <4>1. t - INDIRECT_BLOCKS \in Slot /\ t - INDIRECT_BLOCKS # b
        BY <1>3, <3>2, SizesAre
      <4>2. Outer(f)'[t - INDIRECT_BLOCKS] = Outer(f)[t - INDIRECT_BLOCKS]
        BY <1>11, <2>2, <4>1
      <4>3. PICK ob, oc : ob = Outer(f)' /\ oc = Outer(f)
        OBVIOUS
      <4> QED
        BY <3>2, <4>2, <4>3 DEF Leaf, Leaves, Top
    <3> QED
      BY <3>1, <3>2
  <2>5. \A t \in Leaves : t \in Live(f) <=> t < u
    BY <1>1, <1>6, <1>16
  <2>6. Live(f)' = Live(f) \cup {u} /\ u \notin Live(f)
    <3>1. u \notin Live(f)
      BY <1>3, <2>5
    <3>2. \A t \in Leaves : t \in Live(f)' <=> t \in Live(f) \/ t = u
      BY <1>5, <1>13, <2>5
    <3> QED
      BY <1>3, <1>8, <3>1, <3>2
  <2>7. \A t \in Live(f) : Content(f)'[t] = Content(f)[t]
    <3> TAKE t \in Live(f)
    <3>1. t \in Leaves /\ t # u /\ ~InWork(f, t) /\ ~InWork(f, t)'
      BY <1>5, <1>7, <1>8, <2>6
    <3>2. Leaf(f)'[t] = Leaf(f)[t]
      BY <2>4, <3>1
    <3> QED
      BY <1>12, <3>1, <3>2, ContentOut
  <2>8. \A i \in 0..(DIRECT_BLOCKS - 1) : inode'[f].ptr[i] = inode[f].ptr[i]
    BY <1>1
  <2>9. index'[f] = index[f] \cup {Lowest}
    BY <2>1 DEF IndexIInv, IndexTypes
  <2>10. Size(f) =< Base(u)
    <3>1. Base(u) \in Nat /\ Size(f) = Base(u) + In(f)
      BY <1>1, <1>2, <1>3, BaseIs DEF Says
    <3> QED
      BY <1>1, <1>16, <3>1
  <2>11. \E w \in Leaves \ Live(f) :
                 /\ Live(f)' = Live(f) \cup {w} /\ Leaf(f)'[w] = Lowest /\ Size(f) =< Base(w)
                 /\ \A t \in Leaves : t # w => Leaf(f)'[t] = Leaf(f)[t]
    BY <1>2, <1>3, <2>3, <2>4, <2>6, <2>10
  <2>12. Whole(f)'
    BY <1>1, <1>9, <1>10, <1>16, <2>7, <2>8, <2>9, <2>11, BeginsWhole
  <2> QED
    BY <1>1, <2>12, BeginsStep
<1>17. CASE Whole(f) /\ inode[f].double_indirect_index = 0 /\ Full
  <2>1. block' = block /\ full' = TRUE /\ index' = index
    BY <1>1, <1>17 DEF LevelTwo, NewTable
  <2>2. u \notin Live(f)
    BY <1>1, <1>3, <1>6, <1>17
  <2>3. Leaf(f)[u] = block[f][b]
    BY <1>3, <1>11 DEF Leaf
  <2>4. Leaf(f)[u] \in {FREE_MAP_SECTOR, NULL}
    BY <1>3, <1>17, <2>2 DEF Whole, Blank
  <2>5. block[f][b] \notin index[f]
    BY <1>3, <2>3, <2>4, IndexOwn
  <2>6. block'[f][inode'[f].indirect_index] \notin index'[f]
    BY <1>1, <1>2, <2>1, <2>5
  <2>7. Broken(f)'
    BY <1>1, <2>1, <2>6 DEF Broken
  <2> QED
    BY <1>1, <2>7, BeginsStep
<1>18. CASE Whole(f) /\ inode[f].double_indirect_index # 0
  <2>1. block' = block /\ inner_block' = [inner_block EXCEPT ![f] = table[block[f][b]]] /\ index' = index
    BY <1>1, <1>2, <1>18 DEF LevelTwo, ReadTable
  <2>2. In(f) > 0
    BY <1>1, <1>18
  <2>3. Live(f)' = Live(f)
    <3>1. \A t \in Leaves : t \in Live(f)' <=> t \in Live(f)
      BY <1>5, <1>6, <1>13, <2>2
    <3> QED
      BY <1>8, <3>1
  <2>4. Leaf(f)' = Leaf(f)
    BY <1>1, <1>11, <2>1 DEF Leaf, Leaves, Top
  <2>5. \A t \in Live(f) : Content(f)'[t] = Content(f)[t]
    <3> TAKE t \in Live(f)
    <3>1. t \in Leaves /\ ~InWork(f, t) /\ (InWork(f, t)' <=> t = u)
      BY <1>5, <1>7, <1>8
    <3>2. Content(f)[t] = table[Leaf(f)[t]]
      BY <3>1, ContentOut
    <3>3. CASE t # u
      <4>1. Content(f)'[t] = table'[Leaf(f)'[t]]
        BY <3>1, <3>3, ContentOut
      <4> QED
        BY <1>12, <2>4, <3>2, <4>1
    <3>4. CASE t = u
      <4>1. Content(f)'[t] = inner_block'[f]
        BY <1>1, <3>1, <3>4 DEF Content, Leaves, Top
      <4>2. Leaf(f)[t] = block[f][b]
        BY <1>3, <1>11, <3>4 DEF Leaf
      <4> QED
        BY <1>3, <2>1, <3>2, <4>1, <4>2
    <3> QED
      BY <3>3, <3>4
  <2>6. Whole(f)'
    BY <1>1, <1>3, <1>9, <1>12, <1>14, <1>18, <2>1, <2>3, <2>4, <2>5, WholeBy
  <2> QED
    BY <1>1, <2>6, BeginsStep
<1> QED
  BY <1>1, <1>15, <1>16, <1>17, <1>18

-----------------------------------------------------------------------------
(* An index block is stored. *)

Stores(f, s, p) ==
  /\ Grows(f) /\ s \in index[f] /\ p \in Pointers /\ table' = [table EXCEPT ![s] = p]
  /\ UNCHANGED <<marked, named, frame, history, fault>>
  /\ pc' \in [File -> Labels] /\ pc'[f] \in {"expand", "outer", "expanded"}
  /\ inode' \in [File -> Inode]
  /\ \A g \in File : g # f => pc'[g] = pc[g] /\ inode'[g] = inode[g]
  /\ inode'[f].ptr = inode[f].ptr /\ inode'[f].sector = inode[f].sector

\* What storing a block has to show.
LEMMA StoresStep ==
  ASSUME IndexIInv, NEW f \in File, NEW s, NEW p, Stores(f, s, p), Counters(f)',
         Whole(f)' \/ Broken(f)',
         pc'[f] = "outer" /\ OuterAt(f)' = FREE_MAP_SECTOR =>
           left[f] = 0 \/ inode'[f].double_indirect_index = 0
  PROVE  Step(f)
<1>1. Grows(f) /\ ~Deallocs(f) /\ ~Deallocs(f)'
  BY GrowKnown DEF Stores, Deallocs
<1>2. UNCHANGED <<marked, named, calls, left, tables, goal, idx, block, inner_block, data, index, lost,
                  full, fault>>
  BY DEF Stores, frame, history
<1>3. Alone(f)
  <2>1. \A g \in File : g # f => Same(g)
    BY <1>2 DEF Stores, Same
  <2>2. s \in Own(f)
    BY <1>1, IndexOwn DEF Stores
  <2>3. \A z \in Sector : z \notin Own(f) => table'[z] = table[z]
    BY <2>2 DEF Stores, IndexIInv, IndexTypes
  <2> QED
    BY <1>2, <2>1, <2>3 DEF Alone, IndexIInv
<1>4. Moves(f)
  <2>1. Own(f)' = Own(f)
    BY <1>1, <1>2 DEF Own, Range
  <2> QED
    BY <1>2, <2>1 DEF Moves, Keeps
<1>5. IndexTypes'
  <2>1. table' \in [Sector -> Pointers]
    BY DEF Stores, IndexIInv, IndexTypes
  <2>2. inode' \in [File -> Inode]'
    BY DEF Stores, Inode, Capacity, DOUBLE_INDIRECT_INDEX, Sector
  <2>3. pc' \in [File -> Labels]
    BY DEF Stores
  <2> QED
    BY <1>2, <2>1, <2>2, <2>3 DEF IndexIInv, IndexTypes, Pointers, Sector, Slot, Labels
<1>6. FileInv(f)'
  <2>1. Size(f)' = Size(f) /\ left'[f] = left[f] /\ goal'[f] = goal[f] /\ idx'[f] = 0 /\ tables'[f] = 0
    BY <1>1, <1>2, GrowKnown DEF Size
  <2>2. inode'[f].sector \in index'[f]
    BY <1>1, <1>2, GrowKnown DEF Stores
  <2>3. Size(f)' + left'[f] = goal'[f]
    BY <1>1, <2>1, GrowKnown
  <2>4. pc'[f] \in {"expand", "indirect", "outer", "inner", "expanded"}
    BY DEF Stores
  <2> QED
    BY <2>1, <2>2, <2>3, <2>4, GrowsBy
<1> QED
  BY <1>3, <1>4, <1>5, <1>6 DEF Step

\* The sector holds then what the stack did.
LEMMA StoresWhole ==
  ASSUME IndexIInv, NEW f \in File, NEW s, NEW p, Stores(f, s, p), Whole(f),
         Live(f)' = Live(f), HasOuter(f)' <=> HasOuter(f), Leaf(f)' = Leaf(f),
         \A t \in Leaves : ~InWork(f, t)',
         \/ \E u \in Live(f) :
              /\ Leaf(f)[u] = s /\ Content(f)[u] = p
              /\ \A t \in Leaves : InWork(f, t) => t = u
         \/ HasOuter(f) /\ s = OuterAt(f) /\ \A t \in Leaves : ~InWork(f, t)
  PROVE  Whole(f)'
<1>1. UNCHANGED <<data, index>> /\ table \in [Sector -> Pointers] /\ s \in Sector
  BY KnownIs DEF Stores, history, IndexIInv, IndexTypes
<1>2. \A t, u \in Live(f) : Leaf(f)[t] = Leaf(f)[u] => t = u
  BY DEF Whole, Apart
<1>3. HasOuter(f) => \A t \in Live(f) : Leaf(f)[t] # OuterAt(f)
  BY DEF Whole, Apart
<1>4. \A t \in Live(f) : t \in Leaves /\ Leaf(f)[t] \in Sector
  BY LiveLeaves, WholeHas, KnownIs
<1>5. ASSUME NEW t \in Live(f) PROVE Content(f)'[t] = Content(f)[t]
  <2>1. Content(f)'[t] = table'[Leaf(f)[t]]
    BY <1>4, ContentOut
  <2>2. CASE Leaf(f)[t] # s /\ ~InWork(f, t)
    <3>1. Content(f)[t] = table[Leaf(f)[t]]
      BY <1>4, <2>2, ContentOut
    <3>2. table'[Leaf(f)[t]] = table[Leaf(f)[t]]
      BY <1>1, <1>4, <2>2 DEF Stores
    <3> QED
      BY <2>1, <3>1, <3>2
  <2>3. CASE Leaf(f)[t] = s /\ Content(f)[t] = p
    <3>1. table'[s] = p
      BY <1>1 DEF Stores
    <3> QED
      BY <2>1, <2>3, <3>1
  <2> QED
    BY <1>2, <1>3, <1>4, <2>2, <2>3
<1>6. Grows(f) /\ ~Deallocs(f) /\ ~Deallocs(f)' /\ Passed(f) = 0 /\ Passed(f)' = 0
  BY GrowKnown DEF Stores, Deallocs, Passed
<1> QED
  BY <1>1, <1>5, <1>6, WholeBy DEF Stores

\* inode_expand_indirect_block() ends.
LEMMA IndirectEndsStep ==
  ASSUME IndexIInv, NEW f \in File, IndirectEnds(f)
  PROVE  Step(f)
<1>1. Grows(f) /\ pc[f] = "indirect"
  BY DEF IndirectEnds, Grows
<1>2. PICK u, s, p, a, b : u = At(f) /\ s = inode[f].ptr[inode[f].direct_index] /\ p = block[f]
        /\ a = inode[f].direct_index /\ b = inode[f].indirect_index
  OBVIOUS
<1>3. /\ Single(f) /\ u \in Leaves /\ u \in Live(f) /\ u < INDIRECT_BLOCKS /\ u \in Nat
      /\ Leaf(f)[u] = s /\ In(f) = b /\ inode[f].double_indirect_index = 0
      /\ a = DIRECT_BLOCKS + u
  BY <1>1, <1>2, Stacked, SizesAre
<1>4. Counters(f) /\ Says(f) /\ inode[f] \in Inode /\ inode \in [File -> Inode] /\ ~Deallocs(f)
      /\ pc \in [File -> Labels] /\ p \in Pointers /\ b \in 0..INDIRECT_BLOCK_PTRS /\ left[f] \in Nat
  BY <1>1, <1>2, GrowKnown, KnownIs DEF IndexIInv, IndexTypes, Inode
<1>5. /\ s \in index[f] /\ table' = [table EXCEPT ![s] = p] /\ pc' = [pc EXCEPT ![f] = "expand"]
      /\ UNCHANGED <<marked, named, frame, history, fault>>
      /\ inode' = IF b = INDIRECT_BLOCK_PTRS
                    THEN [inode EXCEPT ![f].indirect_index = 0, ![f].direct_index = @ + 1]
                    ELSE inode
      /\ (left[f] = 0 \/ b >= INDIRECT_BLOCK_PTRS)
  <2>1. ~Wanted(f)
    BY DEF IndirectEnds
  <2>2. left[f] = 0 \/ b >= INDIRECT_BLOCK_PTRS
    BY <1>1, <1>2, <1>4, <2>1, SizesAre DEF Wanted
  <2> QED
    BY <1>1, <1>2, <2>2 DEF IndirectEnds, Store, Goto
<1>6. Whole(f)
  <2>1. s # FREE_MAP_SECTOR
    BY <1>4, <1>5, IndexOwn
  <2>2. ~Broken(f)
    BY <1>1, <1>2, <2>1 DEF Broken, InOuter
  <2> QED
    BY <1>1, <2>2, GrowKnown
<1>7. /\ inode' \in [File -> Inode] /\ \A g \in File : g # f => inode'[g] = inode[g]
      /\ inode'[f].ptr = inode[f].ptr /\ inode'[f].sector = inode[f].sector
      /\ inode'[f].double_indirect_index = 0
      /\ inode'[f].direct_index = IF b = INDIRECT_BLOCK_PTRS THEN a + 1 ELSE a
      /\ inode'[f].indirect_index = IF b = INDIRECT_BLOCK_PTRS THEN 0 ELSE b
  <2>1. CASE b = INDIRECT_BLOCK_PTRS
    <3>1. inode' = [inode EXCEPT ![f].indirect_index = 0, ![f].direct_index = @ + 1]
      BY <1>5, <2>1
    <3>2. a + 1 \in 0..DOUBLE_INDIRECT_INDEX /\ 0 \in 0..INDIRECT_BLOCK_PTRS
      BY <1>3, SizesAre
    <3>3. /\ inode'[f].direct_index = a + 1 /\ inode'[f].indirect_index = 0
          /\ inode'[f].ptr = inode[f].ptr /\ inode'[f].sector = inode[f].sector
          /\ inode'[f].double_indirect_index = inode[f].double_indirect_index
          /\ inode'[f].length = inode[f].length
      BY <1>2, <1>4, <3>1 DEF Inode
    <3>4. inode'[f] \in Inode
      BY <1>2, <1>4, <3>1, <3>2 DEF Inode
    <3> QED
      BY <1>3, <1>4, <2>1, <3>1, <3>3, <3>4
  <2>2. CASE b # INDIRECT_BLOCK_PTRS
    <3>1. inode' = inode
      BY <1>5, <2>2
    <3> QED
      BY <1>2, <1>3, <1>4, <2>2, <3>1
  <2> QED
    BY <2>1, <2>2
<1>8. pc' \in [File -> Labels] /\ pc'[f] = "expand" /\ \A g \in File : g # f => pc'[g] = pc[g]
  BY <1>4, <1>5 DEF Labels
<1>9. Stores(f, s, p)
  BY <1>1, <1>4, <1>5, <1>7, <1>8 DEF Stores
<1>10. left[f] = 0 => b > 0
  <2>1. ~(a \in 0..(DIRECT_BLOCKS - 1)) /\ a # DOUBLE_INDIRECT_INDEX
    BY <1>3, SizesAre
  <2>2. left[f] > 0 \/ b > 0
    BY <1>1, <1>2, <1>4, <2>1 DEF Counters
  <2> QED
    BY <1>4, <2>2, SizesAre
<1>11. Size(f) = Base(u) + b /\ Base(u) \in Nat /\ Base(u + 1) = Base(u) + INDIRECT_BLOCK_PTRS
  BY <1>2, <1>3, <1>4, BaseIs DEF Says
<1>12. PICK n : n = Size(f)
  OBVIOUS
<1>13. n = Size(f)' /\ left'[f] = left[f]
  BY <1>5, <1>12 DEF Size, history, frame
<1>14. b # INDIRECT_BLOCK_PTRS => b < INDIRECT_BLOCK_PTRS /\ b > 0
  <2> HAVE b # INDIRECT_BLOCK_PTRS
  <2>1. b < INDIRECT_BLOCK_PTRS
    BY <1>4, SizesAre
  <2>2. left[f] = 0
    BY <1>4, <1>5, <2>1, SizesAre
  <2> QED
    BY <1>10, <2>1, <2>2
<1>15. Counters(f)'
  <2>1. CASE b # INDIRECT_BLOCK_PTRS
    <3>1. a \in DIRECT_BLOCKS..(DOUBLE_INDIRECT_INDEX - 1) /\ a - DIRECT_BLOCKS = u
      BY <1>3, SizesAre
    <3>2. n = Base(a - DIRECT_BLOCKS) + b
      BY <1>11, <1>12, <3>1
    <3>3. Count(a, b, 0, n, "expand", left[f])
      BY <1>4, <1>14, <2>1, <3>1, <3>2 DEF Count
    <3> QED
      BY <1>7, <1>8, <1>13, <2>1, <3>3, CountNext
  <2>2. CASE b = INDIRECT_BLOCK_PTRS
    <3>1. n = Base(u + 1) + 0 /\ 0 \in 0..INDIRECT_BLOCK_PTRS /\ 0 < INDIRECT_BLOCK_PTRS
          /\ 0 # INDIRECT_BLOCK_PTRS
      BY <1>11, <1>12, <2>2, SizesAre
    <3>2. CASE u + 1 < INDIRECT_BLOCKS
      <4>1. a + 1 \in DIRECT_BLOCKS..(DOUBLE_INDIRECT_INDEX - 1) /\ a + 1 - DIRECT_BLOCKS = u + 1
        BY <1>3, <3>2, SizesAre
      <4>2. PICK z : z = a + 1
        OBVIOUS
      <4>3. z \in DIRECT_BLOCKS..(DOUBLE_INDIRECT_INDEX - 1) /\ z - DIRECT_BLOCKS = u + 1
        BY <1>3, <3>2, <4>2, SizesAre
      <4>4. n = Base(z - DIRECT_BLOCKS) + 0
        BY <3>1, <4>3
      <4>5. Count(z, 0, 0, n, "expand", left[f])
        BY <3>1, <4>3, <4>4 DEF Count
      <4> QED
        BY <1>7, <1>8, <1>13, <2>2, <4>2, <4>5, CountNext
    <3>3. CASE u + 1 = INDIRECT_BLOCKS
      <4>1. a + 1 = DOUBLE_INDIRECT_INDEX /\ INDIRECT_BLOCKS + 0 = u + 1
        BY <1>3, <3>3, SizesAre
      <4>2. n = Base(INDIRECT_BLOCKS + 0) + 0
        BY <3>1, <4>1
      <4>3. Count(a + 1, 0, 0, n, "expand", left[f])
        BY <3>1, <4>1, <4>2 DEF Count
      <4> QED
        BY <1>7, <1>8, <1>13, <2>2, <4>3, CountNext
    <3> QED
      BY <1>3, <3>2, <3>3, SizesAre
  <2> QED
    BY <2>1, <2>2
<1>16. Says(f)' /\ inode'[f] \in Inode
  <2>1. inode'[f] \in Inode
    BY <1>7
  <2> QED
    BY <1>15, <2>1, CountersSayNext
<1>17. \A t : ~InWork(f, t)'
  BY <1>8 DEF InWork
<1>18. ~HasOuter(f) /\ ~HasOuter(f)' /\ \A t \in Leaves : t \in Live(f)' <=> t =< u
  <2>1. ~HasOuter(f)
    BY <1>3, <1>4 DEF Says
  <2>2. \A t \in Nat : Base(t) < n <=> t =< u
    <3> TAKE t \in Nat
    <3>1. Base(t) < Base(u) + b <=> t < u \/ (t = u /\ b > 0)
      BY <1>3, <1>4, BaseAt
    <3>2. b > 0
      BY <1>4, <1>14, SizesAre
    <3> QED
      BY <1>3, <1>11, <1>12, <3>1, <3>2
  <2>3. Live(f)' = {t \in Leaves : Base(t) < Size(f)' \/ InWork(f, t)'}
    BY DEF Live, Leaves, Top, Base
  <2>4. HasOuter(f)' <=> Base(INDIRECT_BLOCKS) < Size(f)' \/ InOuter(f)'
    BY DEF HasOuter, Base
  <2>5. ~InOuter(f)'
    BY <1>8 DEF InOuter
  <2>6. \A t \in Leaves : t \in Nat
    BY SizesAre
  <2>7. ~(Base(INDIRECT_BLOCKS) < n)
    BY <1>3, <2>2, SizesAre
  <2> QED
    BY <1>13, <1>17, <2>1, <2>2, <2>3, <2>4, <2>5, <2>6, <2>7
<1>19. Live(f)' = Live(f)
  <2>1. \A t \in Leaves : t \in Live(f) <=> t < u \/ t = u
    BY <1>1, <1>2, <1>3, <1>4 DEF Says, Ends
  <2>2. \A t \in Leaves : t =< u <=> t < u \/ t = u
    BY <1>3, SizesAre
  <2>3. Live(f) \subseteq Leaves /\ Live(f)' \subseteq Leaves
    BY LiveLeaves DEF Live, Leaves, Top
  <2> QED
    BY <1>18, <2>1, <2>2, <2>3
<1>20. Leaf(f)' = Leaf(f)
  <2>1. Outer(f) = Garbage /\ Outer(f)' = Garbage
    BY <1>1, <1>8, <1>18 DEF Outer, Garbage, Slot
  <2> QED
    BY <1>7, <2>1 DEF Leaf, Leaves, Top
<1>21. Content(f)[u] = p /\ \A t \in Leaves : InWork(f, t) => t = u
  <2>1. InWork(f, u) /\ \A t \in Leaves : InWork(f, t) => t = u
    BY <1>1, <1>2, <1>3, <1>4 DEF Says
  <2> QED
    BY <1>1, <1>2, <1>3, <2>1 DEF Content
<1>22. Whole(f)'
  BY <1>3, <1>6, <1>9, <1>17, <1>18, <1>19, <1>20, <1>21, StoresWhole
<1> QED
  BY <1>8, <1>9, <1>15, <1>22, StoresStep

\* inode_expand_double_indirect_block_lvl_two() ends.
LEMMA LevelTwoEndsStep ==
  ASSUME IndexIInv, NEW f \in File, LevelTwoEnds(f)
  PROVE  Step(f)
<1>1. Grows(f) /\ pc[f] = "inner" /\ InOuter(f)
  BY DEF LevelTwoEnds, Grows, InOuter
<1>2. PICK u, s, p, a, b, c : u = At(f) /\ s = block[f][inode[f].indirect_index] /\ p = inner_block[f]
        /\ a = inode[f].direct_index /\ b = inode[f].indirect_index /\ c = inode[f].double_indirect_index
  OBVIOUS
<1>3. /\ Double(f) /\ ~Single(f) /\ u \in Leaves /\ u \in Live(f) /\ u >= INDIRECT_BLOCKS /\ u \in Nat
      /\ Leaf(f)[u] = s /\ In(f) = c /\ a = DOUBLE_INDIRECT_INDEX /\ u = INDIRECT_BLOCKS + b
      /\ b \in Slot /\ HasOuter(f)
  BY <1>1, <1>2, Stacked, SizesAre DEF Double
<1>4. Counters(f) /\ Says(f) /\ inode[f] \in Inode /\ inode \in [File -> Inode] /\ ~Deallocs(f)
      /\ pc \in [File -> Labels] /\ p \in Pointers /\ c \in 0..INDIRECT_BLOCK_PTRS /\ left[f] \in Nat
  BY <1>1, <1>2, GrowKnown, KnownIs DEF IndexIInv, IndexTypes, Inode
<1>5. left[f] = 0 \/ c >= INDIRECT_BLOCK_PTRS
  <2>1. ~Wanted(f)
    BY DEF LevelTwoEnds
  <2> QED
    BY <1>1, <1>2, <1>4, <2>1, SizesAre DEF Wanted
<1>6. /\ s \in index[f] /\ table' = [table EXCEPT ![s] = p] /\ pc' = [pc EXCEPT ![f] = "outer"]
      /\ UNCHANGED <<marked, named, frame, history, fault>>
      /\ inode' = IF c = INDIRECT_BLOCK_PTRS
                    THEN [inode EXCEPT ![f].double_indirect_index = 0, ![f].indirect_index = @ + 1]
                    ELSE inode
  BY <1>1, <1>2, <1>4 DEF LevelTwoEnds, Store, Goto
<1>7. /\ inode' \in [File -> Inode] /\ \A g \in File : g # f => inode'[g] = inode[g]
      /\ inode'[f].ptr = inode[f].ptr /\ inode'[f].sector = inode[f].sector
      /\ inode'[f].direct_index = a
      /\ inode'[f].indirect_index = IF c = INDIRECT_BLOCK_PTRS THEN b + 1 ELSE b
      /\ inode'[f].double_indirect_index = IF c = INDIRECT_BLOCK_PTRS THEN 0 ELSE c
  <2>1. CASE c = INDIRECT_BLOCK_PTRS
    <3>1. inode' = [inode EXCEPT ![f].double_indirect_index = 0, ![f].indirect_index = @ + 1]
      BY <1>6, <2>1
    <3>2. b + 1 \in 0..INDIRECT_BLOCK_PTRS /\ 0 \in 0..INDIRECT_BLOCK_PTRS
      BY <1>3, SizesAre
    <3>3. /\ inode'[f].direct_index = a /\ inode'[f].indirect_index = b + 1
          /\ inode'[f].ptr = inode[f].ptr /\ inode'[f].sector = inode[f].sector
          /\ inode'[f].double_indirect_index = 0
      BY <1>2, <1>4, <3>1 DEF Inode
    <3>4. inode'[f] \in Inode
      BY <1>2, <1>4, <3>1, <3>2 DEF Inode
    <3> QED
      BY <1>3, <1>4, <2>1, <3>1, <3>3, <3>4
  <2>2. CASE c # INDIRECT_BLOCK_PTRS
    <3>1. inode' = inode
      BY <1>6, <2>2
    <3> QED
      BY <1>2, <1>3, <1>4, <2>2, <3>1
  <2> QED
    BY <2>1, <2>2
<1>8. pc' \in [File -> Labels] /\ pc'[f] = "outer" /\ \A g \in File : g # f => pc'[g] = pc[g]
  BY <1>4, <1>6 DEF Labels
<1>9. Stores(f, s, p)
  BY <1>1, <1>4, <1>6, <1>7, <1>8 DEF Stores
<1>10. c # INDIRECT_BLOCK_PTRS => c < INDIRECT_BLOCK_PTRS /\ c > 0 /\ left[f] = 0
  <2> HAVE c # INDIRECT_BLOCK_PTRS
  <2>1. c < INDIRECT_BLOCK_PTRS
    BY <1>4, SizesAre
  <2>2. left[f] = 0
    BY <1>4, <1>5, <2>1, SizesAre
  <2>3. left[f] > 0 \/ c > 0
    <3>1. ~(a \in 0..(DIRECT_BLOCKS - 1)) /\ ~(a \in DIRECT_BLOCKS..(DOUBLE_INDIRECT_INDEX - 1))
      BY <1>3, SizesAre
    <3> QED
      BY <1>1, <1>2, <1>4, <3>1 DEF Counters
  <2> QED
    BY <1>4, <2>1, <2>2, <2>3
<1>11. Size(f) = Base(u) + c /\ Base(u) \in Nat /\ Base(u + 1) = Base(u) + INDIRECT_BLOCK_PTRS
  BY <1>2, <1>3, <1>4, BaseIs DEF Says
<1>12. PICK n : n = Size(f)
  OBVIOUS
<1>13. n = Size(f)' /\ left'[f] = left[f] /\ block' = block
  BY <1>6, <1>12 DEF Size, history, frame
<1>14. c > 0
  BY <1>10, SizesAre
<1>15. Counters(f)'
  <2>1. CASE c # INDIRECT_BLOCK_PTRS
    <3>1. b \in 0..INDIRECT_BLOCK_PTRS /\ b # INDIRECT_BLOCK_PTRS
      BY <1>3, SizesAre
    <3>2. Count(a, b, c, n, "outer", left[f])
      BY <1>3, <1>4, <1>10, <1>11, <1>12, <2>1, <3>1 DEF Count
    <3> QED
      BY <1>7, <1>8, <1>13, <2>1, <3>2, CountNext
  <2>2. CASE c = INDIRECT_BLOCK_PTRS
    <3>1. PICK z : z = b + 1
      OBVIOUS
    <3>2. z \in 0..INDIRECT_BLOCK_PTRS /\ z > 0 /\ INDIRECT_BLOCKS + z = u + 1
          /\ 0 \in 0..INDIRECT_BLOCK_PTRS /\ 0 < INDIRECT_BLOCK_PTRS
      BY <1>3, <3>1, SizesAre
    <3>3. n = Base(u + 1) + 0
      BY <1>11, <1>12, <2>2, SizesAre
    <3>4. Count(a, z, 0, n, "outer", left[f])
      BY <1>3, <3>2, <3>3 DEF Count
    <3> QED
      BY <1>7, <1>8, <1>13, <2>2, <3>1, <3>4, CountNext
  <2> QED
    BY <2>1, <2>2
<1>16. inode'[f].double_indirect_index = 0 \/ left[f] = 0
  BY <1>7, <1>10
<1>17. OuterAt(f)' = OuterAt(f) /\ InOuter(f)' /\ HasOuter(f)'
  BY <1>7, <1>8 DEF OuterAt, DOUBLE_INDIRECT_INDEX, InOuter, HasOuter
<1>18. CASE Broken(f)
  <2>1. full /\ OuterAt(f) = FREE_MAP_SECTOR
    BY <1>1, <1>2, <1>6, <1>18 DEF Broken
  <2>2. full'
    BY <1>6, <2>1 DEF history
  <2>3. Broken(f)'
    BY <1>17, <2>1, <2>2 DEF Broken, FREE_MAP_SECTOR
  <2> QED
    BY <1>9, <1>15, <1>16, <2>3, StoresStep
<1>19. CASE Whole(f)
  <2>1. \A t : ~InWork(f, t)'
    BY <1>8 DEF InWork
  <2>2. \A t \in Leaves : t \in Live(f)' <=> t =< u
    <3>1. \A t \in Nat : Base(t) < n <=> t =< u
      <4> TAKE t \in Nat
      <4>1. Base(t) < Base(u) + c <=> t < u \/ (t = u /\ c > 0)
        BY <1>3, <1>4, BaseAt
      <4> QED
        BY <1>3, <1>11, <1>12, <1>14, <4>1
    <3>2. Live(f)' = {t \in Leaves : Base(t) < Size(f)' \/ InWork(f, t)'}
      BY DEF Live, Leaves, Top, Base
    <3>3. \A t \in Leaves : t \in Nat
      BY SizesAre
    <3> QED
      BY <1>13, <2>1, <3>1, <3>2, <3>3
  <2>3. Live(f)' = Live(f)
    <3>1. \A t \in Leaves : t \in Live(f) <=> t < u \/ t = u
      BY <1>1, <1>2, <1>3, <1>4 DEF Says, Ends
    <3>2. \A t \in Leaves : t =< u <=> t < u \/ t = u
      BY <1>3, SizesAre
    <3>3. Live(f) \subseteq Leaves /\ Live(f)' \subseteq Leaves
      BY LiveLeaves DEF Live, Leaves, Top
    <3> QED
      BY <2>2, <3>1, <3>2, <3>3
  <2>4. Leaf(f)' = Leaf(f)
    <3>1. Outer(f) = block[f] /\ Outer(f)' = block[f]
      BY <1>1, <1>8, <1>13 DEF Outer
    <3> QED
      BY <1>7, <3>1 DEF Leaf, Leaves, Top
  <2>5. Content(f)[u] = p /\ \A t \in Leaves : InWork(f, t) => t = u
    <3>1. InWork(f, u) /\ \A t \in Leaves : InWork(f, t) => t = u
      BY <1>1, <1>2, <1>3, <1>4 DEF Says
    <3> QED
      BY <1>1, <1>2, <1>3, <3>1 DEF Content
  <2>6. Whole(f)'
    BY <1>3, <1>9, <1>17, <1>19, <2>1, <2>3, <2>4, <2>5, StoresWhole
  <2> QED
    BY <1>9, <1>15, <1>16, <2>6, StoresStep
<1> QED
  BY <1>1, <1>18, <1>19, GrowKnown

\* inode_expand_double_indirect_block() ends.
LEMMA DoubleIndirectEndsStep ==
  ASSUME IndexIInv, NEW f \in File, DoubleIndirectEnds(f)
  PROVE  Step(f)
<1>1. Grows(f) /\ pc[f] = "outer" /\ InOuter(f)
  BY DEF DoubleIndirectEnds, Grows, InOuter
<1>2. PICK u, s, p, a, b, c : u = At(f) /\ s = OuterAt(f) /\ p = block[f]
        /\ a = inode[f].direct_index /\ b = inode[f].indirect_index /\ c = inode[f].double_indirect_index
  OBVIOUS
<1>3. Double(f) /\ ~Single(f) /\ HasOuter(f)
  BY <1>1, Stacked
<1>4. Counters(f) /\ Says(f) /\ inode[f] \in Inode /\ inode \in [File -> Inode] /\ ~Deallocs(f)
      /\ pc \in [File -> Labels] /\ p \in Pointers /\ left[f] \in Nat
      /\ b \in 0..INDIRECT_BLOCK_PTRS /\ c \in 0..INDIRECT_BLOCK_PTRS
  BY <1>1, <1>2, GrowKnown, KnownIs DEF IndexIInv, IndexTypes, Inode
<1>5. /\ s \in index[f] /\ table' = [table EXCEPT ![s] = p] /\ pc' = [pc EXCEPT ![f] = "expanded"]
      /\ UNCHANGED <<marked, named, frame, history, fault>>
      /\ inode' = inode /\ (left[f] = 0 \/ b = INDIRECT_BLOCK_PTRS)
  BY <1>1, <1>2 DEF DoubleIndirectEnds, Store, Goto, OuterAt
<1>6. Whole(f)
  <2>1. s # FREE_MAP_SECTOR
    BY <1>4, <1>5, IndexOwn
  <2>2. ~Broken(f)
    BY <1>1, <1>2, <2>1 DEF Broken
  <2> QED
    BY <1>1, <2>2, GrowKnown
<1>7. pc' \in [File -> Labels] /\ pc'[f] = "expanded" /\ \A g \in File : g # f => pc'[g] = pc[g]
  BY <1>4, <1>5 DEF Labels
<1>8. Stores(f, s, p)
  BY <1>1, <1>4, <1>5, <1>7 DEF Stores
<1>9. PICK n : n = Size(f)
  OBVIOUS
<1>10. n = Size(f)' /\ left'[f] = left[f]
  BY <1>5, <1>9 DEF Size, history, frame
<1>11. a = DOUBLE_INDIRECT_INDEX /\ ~(a \in 0..(DIRECT_BLOCKS - 1))
       /\ ~(a \in DIRECT_BLOCKS..(DOUBLE_INDIRECT_INDEX - 1))
  BY <1>2, <1>3, SizesAre DEF Double
<1>12. left[f] > 0 \/ b > 0 \/ c > 0
  BY <1>1, <1>2, <1>4, <1>11 DEF Counters
<1>13. b > 0 \/ c > 0
  BY <1>4, <1>5, <1>12, SizesAre
<1>14. Counters(f)'
  <2>1. Count(a, b, c, n, "outer", left[f])
    BY <1>1, <1>2, <1>4, <1>9, CountIs
  <2>2. Count(a, b, c, n, "expanded", left[f])
    BY <1>11, <2>1 DEF Count
  <2> QED
    BY <1>2, <1>5, <1>7, <1>10, <2>2, CountNext
<1>15. \A t : ~InWork(f, t) /\ ~InWork(f, t)'
  BY <1>1, <1>7 DEF InWork
<1>16. Live(f)' = Live(f)
  BY <1>9, <1>10, <1>15 DEF Live, Leaves, Top, Base
<1>17. HasOuter(f)'
  <2>1. At(f) = INDIRECT_BLOCKS + b /\ In(f) = c /\ Size(f) = Base(At(f)) + c
    BY <1>2, <1>3, <1>4 DEF At, In, Says
  <2>2. u \in Nat /\ u = INDIRECT_BLOCKS + b /\ n = Base(u) + c
    BY <1>2, <1>4, <1>9, <2>1, SizesAre
  <2>3. Base(INDIRECT_BLOCKS) < Base(u) + c <=> INDIRECT_BLOCKS < u \/ (INDIRECT_BLOCKS = u /\ c > 0)
    BY <1>4, <2>2, SizesAre, BaseAt
  <2>4. INDIRECT_BLOCKS < u \/ (INDIRECT_BLOCKS = u /\ c > 0)
    BY <1>4, <1>13, <2>2, SizesAre
  <2>5. HasOuter(f)' <=> Base(INDIRECT_BLOCKS) < Size(f)' \/ InOuter(f)'
    BY DEF HasOuter, Base
  <2> QED
    BY <1>10, <2>2, <2>3, <2>4, <2>5
<1>18. Leaf(f)' = Leaf(f)
  <2>1. s \in Sector /\ table \in [Sector -> Pointers]
    BY <1>5, KnownIs
  <2>2. Outer(f) = p
    BY <1>1, <1>2 DEF Outer
  <2>3. Outer(f)' = table'[OuterAt(f)']
    BY <1>7, <1>17 DEF Outer, OuterAt, DOUBLE_INDIRECT_INDEX
  <2>4. OuterAt(f)' = s
    BY <1>2, <1>5 DEF OuterAt, DOUBLE_INDIRECT_INDEX
  <2>5. Outer(f)' = Outer(f)
    BY <1>5, <2>1, <2>2, <2>3, <2>4
  <2> QED
    BY <1>5, <2>5 DEF Leaf, Leaves, Top
<1>19. Whole(f)'
  BY <1>2, <1>3, <1>6, <1>8, <1>15, <1>16, <1>17, <1>18, StoresWhole
<1> QED
  BY <1>7, <1>8, <1>14, <1>19, StoresStep

-----------------------------------------------------------------------------
(* Between the calls. *)

\* No index block is on the stack, before and after.
Calm(f) ==
  /\ pc[f] \in {"none", "expand", "expanded", "created", "open"}
  /\ pc'[f] \in {"none", "expand", "expanded", "created", "open"}
  /\ UNCHANGED <<table, data, index>>
  /\ inode'[f].ptr = inode[f].ptr /\ inode'[f].sector = inode[f].sector

\* The index stays whole, and the file's.
LEMMA CalmWhole ==
  ASSUME NEW f, Calm(f), Whole(f)
  PROVE  Whole(f)' /\ Size(f)' = Size(f) /\ ~Deallocs(f) /\ ~Deallocs(f)' /\ Own(f)' = Own(f)
<1>1. Size(f)' = Size(f)
  BY DEF Calm, Size
<1>2. \A t : ~InWork(f, t) /\ ~InWork(f, t)'
  BY DEF Calm, InWork
<1>3. Live(f)' = Live(f)
  BY <1>1, <1>2 DEF Live, Leaves, Top, Base
<1>4. (HasOuter(f)' <=> HasOuter(f)) /\ OuterAt(f)' = OuterAt(f)
  <2>1. ~InOuter(f) /\ ~InOuter(f)'
    BY DEF Calm, InOuter
  <2> QED
    BY <1>1, <2>1 DEF HasOuter, Base, Calm, OuterAt, DOUBLE_INDIRECT_INDEX
<1>5. Leaf(f)' = Leaf(f)
  <2>1. Outer(f)' = Outer(f)
    BY <1>4 DEF Outer, Calm, OuterAt, Garbage, Slot
  <2> QED
    BY <2>1 DEF Leaf, Leaves, Top, Calm
<1>6. \A t \in Live(f) : Content(f)'[t] = Content(f)[t]
  <2>1. table' = table
    BY DEF Calm
  <2> QED
    BY <1>2, <1>5, <2>1, LiveLeaves, ContentOut
<1>7. ~Deallocs(f) /\ ~Deallocs(f)' /\ Passed(f) = 0 /\ Passed(f)' = 0
  BY DEF Calm, Deallocs, Passed
<1>8. Whole(f)'
  BY <1>3, <1>4, <1>5, <1>6, <1>7, WholeBy DEF Calm
<1>9. Own(f)' = Own(f)
  BY <1>7 DEF Own, Calm, Range
<1> QED
  BY <1>1, <1>7, <1>8, <1>9

\* What a step that leaves the file whole has to show.
LEMMA StandsBy ==
  ASSUME NEW f \in File, pc'[f] \in {"created", "open"}, Counters(f)', Size(f)' = inode'[f].length,
         left'[f] = 0, inode'[f].sector \in index'[f], Whole(f)', inode'[f].length =< MaxLength[f],
         idx'[f] = 0, tables'[f] = 0
  PROVE  FileInv(f)'
<1>1. Standing(f)'
  BY DEF Standing
<1>2. Growing(f)' /\ Shrinking(f)' /\ Absent(f)' /\ Idle(f)'
  BY DEF Growing, Grows, Shrinking, Deallocs, Absent, Idle
<1> QED
  BY <1>1, <1>2 DEF FileInv

\* What is known of a file that nobody extends.
LEMMA StandKnown ==
  ASSUME IndexIInv, NEW f \in File, Stands(f)
  PROVE  /\ Counters(f) /\ Size(f) = inode[f].length /\ left[f] = 0 /\ inode[f].sector \in index[f]
         /\ Whole(f) /\ inode[f].length =< MaxLength[f]
         /\ idx[f] = 0 /\ tables[f] = 0 /\ ~Deallocs(f)
<1>1. ~Deallocs(f)
  BY DEF Stands, Deallocs
<1> QED
  BY <1>1 DEF IndexIInv, FileInv, Standing, Idle

\* inode_expand() ends: the length is what there are sectors for.
LEMMA ExpandedStep ==
  ASSUME IndexIInv, NEW f \in File, Expanded(f)
  PROVE  Step(f)
<1>1. Grows(f) /\ pc[f] \in {"expand", "expanded"}
  BY DEF Expanded, Grows
<1>2. Counters(f) /\ Whole(f) /\ Size(f) + left[f] = goal[f] /\ inode[f].sector \in index[f]
      /\ idx[f] = 0 /\ tables[f] = 0
  BY <1>1, GrowKnown, NotBroken
<1>3. IndexTypes /\ inode \in [File -> Inode] /\ inode[f] \in Inode /\ pc \in [File -> Labels]
      /\ block \in [File -> Pointers] /\ inner_block \in [File -> Pointers]
      /\ left \in [File -> Nat] /\ goal \in [File -> Nat] /\ goal[f] =< MaxLength[f]
      /\ MaxLength \in [File -> Nat]
  BY IndexAssumption DEF IndexIInv, IndexTypes
<1>4. Size(f) \in Nat /\ goal[f] - left[f] = Size(f) /\ Size(f) =< MaxLength[f]
  BY <1>2, <1>3, KnownIs
<1>5. Size(f) \in 0..Capacity
  BY <1>1, <1>2, <1>4, CountersFit, CapacityIs
<1>6. PICK n, label : n = Size(f) /\ label = IF f \in named THEN "open" ELSE "created"
  OBVIOUS
<1>7. /\ inode' = [inode EXCEPT ![f].length = n]
      /\ left' = [left EXCEPT ![f] = 0] /\ goal' = [goal EXCEPT ![f] = 0]
      /\ block' = [block EXCEPT ![f] = Garbage] /\ inner_block' = [inner_block EXCEPT ![f] = Garbage]
      /\ pc' = [pc EXCEPT ![f] = label]
      /\ UNCHANGED <<calls, marked, table, named, tables, idx, data, index, lost, full, fault>>
  BY <1>4, <1>6 DEF Expanded, Goto, history
<1>8. /\ inode'[f].length = n /\ inode'[f].ptr = inode[f].ptr /\ inode'[f].sector = inode[f].sector
      /\ inode'[f].direct_index = inode[f].direct_index
      /\ inode'[f].indirect_index = inode[f].indirect_index
      /\ inode'[f].double_indirect_index = inode[f].double_indirect_index
      /\ inode' \in [File -> Inode]
  BY <1>3, <1>5, <1>6, <1>7 DEF Inode
<1>9. pc'[f] \in {"created", "open"} /\ pc' \in [File -> Labels]
  BY <1>3, <1>6, <1>7 DEF Labels
<1>10. Calm(f)
  BY <1>1, <1>7, <1>8, <1>9 DEF Calm
<1>11. Whole(f)' /\ Size(f)' = n /\ Own(f)' = Own(f)
  BY <1>2, <1>6, <1>10, CalmWhole
<1>12. Counters(f)'
  <2>1. PICK a, b, c : a = inode[f].direct_index /\ b = inode[f].indirect_index
                       /\ c = inode[f].double_indirect_index
    OBVIOUS
  <2>2. Count(a, b, c, n, pc[f], left[f])
    BY <1>2, <1>6, <2>1, CountIs
  <2>3. PICK l, o, m : l = pc'[f] /\ o = pc[f] /\ m = left[f]
    OBVIOUS
  <2>4. Count(a, b, c, n, o, m) /\ o \in {"expand", "expanded"} /\ l \in {"created", "open"}
    BY <1>1, <1>9, <2>2, <2>3
  <2>5. Count(a, b, c, n, l, left'[f])
    BY <2>4 DEF Count
  <2> QED
    BY <1>8, <1>11, <2>1, <2>3, <2>5, CountNext
<1>13. FileInv(f)'
  BY <1>2, <1>3, <1>4, <1>6, <1>7, <1>8, <1>9, <1>11, <1>12, StandsBy
<1>14. Alone(f)
  <2>1. \A g \in File : g # f => Same(g)
    BY <1>3, <1>7 DEF Same
  <2> QED
    BY <1>7, <2>1 DEF Alone, IndexIInv
<1>15. Moves(f)
  BY <1>7, <1>11 DEF Moves, Keeps
<1>16. IndexTypes'
  <2>1. inode' \in [File -> Inode]'
    BY <1>8 DEF Inode, Capacity, DOUBLE_INDIRECT_INDEX, Sector
  <2>2. block' \in [File -> Pointers] /\ inner_block' \in [File -> Pointers]
    BY <1>3, <1>7, GarbageIs
  <2>3. left' \in [File -> Nat] /\ goal' \in [File -> Nat]
        /\ \A g \in File : left'[g] =< MaxLength[g] /\ goal'[g] =< MaxLength[g]
    BY <1>3, <1>7 DEF IndexTypes
  <2> QED
    BY <1>3, <1>7, <1>9, <2>1, <2>2, <2>3 DEF IndexTypes, Pointers, Sector, Slot, Labels
<1> QED
  BY <1>13, <1>14, <1>15, <1>16 DEF Step

\* dir_add()
LEMMA AddStep ==
  ASSUME IndexIInv, NEW f \in File, Add(f)
  PROVE  Step(f)
<1>1. Stands(f) /\ pc[f] = "created"
  BY DEF Add, Stands
<1>2. Counters(f) /\ Size(f) = inode[f].length /\ left[f] = 0 /\ inode[f].sector \in index[f]
      /\ Whole(f) /\ inode[f].length =< MaxLength[f] /\ idx[f] = 0 /\ tables[f] = 0
  BY <1>1, StandKnown
<1>3. IndexTypes /\ pc \in [File -> Labels]
  BY DEF IndexIInv, IndexTypes
<1>4. /\ pc' = [pc EXCEPT ![f] = "open"] /\ named' = named \cup {f}
      /\ UNCHANGED <<marked, table, inode, calls, left, tables, goal, idx, block, inner_block, data, index,
                     lost, full, fault>>
  BY DEF Add, Goto, frame, history
<1>5. pc'[f] = "open" /\ pc' \in [File -> Labels] /\ \A g \in File : g # f => pc'[g] = pc[g]
  BY <1>3, <1>4 DEF Labels
<1>6. Calm(f)
  BY <1>1, <1>4, <1>5 DEF Calm
<1>7. Whole(f)' /\ Size(f)' = Size(f) /\ Own(f)' = Own(f)
  BY <1>2, <1>6, CalmWhole
<1>8. Counters(f)'
  <2>1. PICK a, b, c, n, m : a = inode[f].direct_index /\ b = inode[f].indirect_index
                       /\ c = inode[f].double_indirect_index /\ n = Size(f) /\ m = left[f]
    OBVIOUS
  <2>2. Count(a, b, c, n, "created", m)
    BY <1>1, <1>2, <2>1, CountIs
  <2>3. Count(a, b, c, n, "open", m)
    BY <2>2 DEF Count
  <2> QED
    BY <1>4, <1>5, <1>7, <2>1, <2>3, CountNext
<1>9. FileInv(f)'
  BY <1>2, <1>4, <1>5, <1>7, <1>8, StandsBy
<1>10. Alone(f)
  BY <1>4, <1>5 DEF Alone, Same, IndexIInv
<1>11. Moves(f)
  BY <1>4, <1>7 DEF Moves, Keeps
<1>12. IndexTypes'
  BY <1>3, <1>4, <1>5 DEF IndexTypes, Inode, Capacity, DOUBLE_INDIRECT_INDEX, Pointers, Sector, Slot, Labels
<1> QED
  BY <1>9, <1>10, <1>11, <1>12 DEF Step

\* inode_expand() is called for an open file.
LEMMA ExpandStepOf ==
  ASSUME IndexIInv, NEW f \in File, NEW n \in 0..MaxLength[f], Expand(f, n)
  PROVE  Step(f)
<1>1. Stands(f) /\ pc[f] = "open"
  BY DEF Expand, Stands
<1>2. Counters(f) /\ Size(f) = inode[f].length /\ left[f] = 0 /\ inode[f].sector \in index[f]
      /\ Whole(f) /\ inode[f].length =< MaxLength[f] /\ idx[f] = 0 /\ tables[f] = 0
  BY <1>1, StandKnown
<1>3. IndexTypes /\ pc \in [File -> Labels] /\ left \in [File -> Nat] /\ goal \in [File -> Nat]
      /\ calls \in [File -> Nat] /\ MaxLength \in [File -> Nat] /\ Size(f) \in Nat
  BY IndexAssumption, KnownIs DEF IndexIInv, IndexTypes
<1>4. /\ pc' = [pc EXCEPT ![f] = "expand"]
      /\ left' = [left EXCEPT ![f] = n - inode[f].length] /\ goal' = [goal EXCEPT ![f] = n]
      /\ calls' = [calls EXCEPT ![f] = @ - 1] /\ calls[f] > 0 /\ n > inode[f].length
      /\ UNCHANGED <<marked, table, named, inode, tables, idx, block, inner_block, data, index,
                     lost, full, fault>>
  BY DEF Expand, Goto, Counted, disk, history
<1>5. pc'[f] = "expand" /\ pc' \in [File -> Labels] /\ \A g \in File : g # f => pc'[g] = pc[g]
  BY <1>3, <1>4 DEF Labels
<1>6. Calm(f)
  BY <1>1, <1>4, <1>5 DEF Calm
<1>7. Whole(f)' /\ Size(f)' = Size(f) /\ Own(f)' = Own(f)
  BY <1>2, <1>6, CalmWhole
<1>8. Counters(f)'
  <2>1. PICK a, b, c, s, m : a = inode[f].direct_index /\ b = inode[f].indirect_index
                       /\ c = inode[f].double_indirect_index /\ s = Size(f) /\ m = left[f]
    OBVIOUS
  <2>2. Count(a, b, c, s, "open", m)
    BY <1>1, <1>2, <2>1, CountIs
  <2>3. Count(a, b, c, s, "expand", left'[f])
    BY <2>2 DEF Count
  <2> QED
    BY <1>4, <1>5, <1>7, <2>1, <2>3, CountNext
<1>9. left'[f] = n - Size(f) /\ goal'[f] = n /\ n \in Nat /\ n =< MaxLength[f] /\ left'[f] \in Nat
      /\ left'[f] =< n
  BY <1>2, <1>3, <1>4
<1>10. FileInv(f)'
  <2>1. Size(f)' + left'[f] = goal'[f]
    BY <1>3, <1>7, <1>9
  <2> QED
    BY <1>2, <1>4, <1>5, <1>7, <1>8, <2>1, GrowsBy
<1>11. Alone(f)
  BY <1>3, <1>4, <1>5 DEF Alone, Same, IndexIInv
<1>12. Moves(f)
  BY <1>4, <1>7 DEF Moves, Keeps
<1>13. IndexTypes'
  <2>1. left' \in [File -> Nat] /\ goal' \in [File -> Nat] /\ calls' \in [File -> Nat]
    BY <1>3, <1>4, <1>9
  <2>2. \A g \in File : left'[g] =< MaxLength[g] /\ goal'[g] =< MaxLength[g]
    BY <1>3, <1>4, <1>9 DEF IndexTypes
  <2> QED
    BY <1>3, <1>4, <1>5, <2>1, <2>2
       DEF IndexTypes, Inode, Capacity, DOUBLE_INDIRECT_INDEX, Pointers, Sector, Slot, Labels
<1> QED
  BY <1>10, <1>11, <1>12, <1>13 DEF Step

\* An inode that is not in use.
LEMMA NewInodeIs == NewInode \in Inode
<1>1. 0 \in 0..Capacity /\ 0 \in 0..DOUBLE_INDIRECT_INDEX /\ 0 \in 0..INDIRECT_BLOCK_PTRS
  BY SizesAre, CapacityIs
<1>2. FREE_MAP_SECTOR \in Sector
  BY SectorsAre
<1> QED
  BY <1>1, <1>2 DEF NewInode, Inode

\* A file that is gone owns nothing.
LEMMA AbsentBy ==
  ASSUME NEW f \in File, pc'[f] = "none", data'[f] = <<>>, index'[f] = {}, inode'[f] = NewInode,
         left'[f] = 0, idx'[f] = 0, tables'[f] = 0
  PROVE  FileInv(f)' /\ Own(f)' = {}
<1>1. Absent(f)'
  BY DEF Absent, NewInode, FREE_MAP_SECTOR, DOUBLE_INDIRECT_INDEX
<1>2. Growing(f)' /\ Standing(f)' /\ Shrinking(f)' /\ Idle(f)' /\ ~Deallocs(f)'
  BY DEF Growing, Grows, Standing, Stands, Shrinking, Deallocs, Idle
<1>3. Own(f)' = {}
  <2>1. Range(<<>>) = {}
    BY DEF Range
  <2> QED
    BY <1>2, <2>1 DEF Own, Range
<1> QED
  BY <1>1, <1>2, <1>3 DEF FileInv

\* free_map_release() touches no other sector.
LEMMA ReleaseTypes ==
  ASSUME IndexIInv, NEW S, Release(S)
  PROVE  /\ marked' \in SUBSET Sector /\ table' \in [Sector -> Pointers]
         /\ \A s \in Sector : s \notin S => table'[s] = table[s]
  BY GarbageIs DEF Release, IndexIInv, IndexTypes

\* dir_add() fails.
LEMMA CreateFailsStep ==
  ASSUME IndexIInv, NEW f \in File, CreateFails(f)
  PROVE  Step(f)
<1>1. Stands(f) /\ pc[f] = "created"
  BY DEF CreateFails, Stands
<1>2. left[f] = 0 /\ inode[f].sector \in index[f] /\ idx[f] = 0 /\ tables[f] = 0 /\ ~Deallocs(f)
  BY <1>1, StandKnown
<1>3. IndexTypes /\ pc \in [File -> Labels] /\ inode \in [File -> Inode] /\ data \in [File -> Seq(Sector)]
      /\ index \in [File -> SUBSET Sector]
  BY DEF IndexIInv, IndexTypes
<1>4. PICK s : s = inode[f].sector
  OBVIOUS
<1>5. /\ Release({s}) /\ lost' = lost \cup ((Range(data[f]) \cup index[f]) \ {s})
      /\ inode' = [inode EXCEPT ![f] = NewInode]
      /\ data' = [data EXCEPT ![f] = <<>>] /\ index' = [index EXCEPT ![f] = {}]
      /\ pc' = [pc EXCEPT ![f] = "none"]
      /\ UNCHANGED <<named, calls, left, tables, goal, idx, block, inner_block, full, fault>>
  BY <1>4 DEF CreateFails, Goto, frame
<1>6. pc'[f] = "none" /\ pc' \in [File -> Labels] /\ inode'[f] = NewInode /\ data'[f] = <<>> /\ index'[f] = {}
  BY <1>3, <1>5 DEF Labels
<1>7. FileInv(f)' /\ Own(f)' = {}
  BY <1>2, <1>5, <1>6, AbsentBy
<1>8. Own(f) = Range(data[f]) \cup index[f] /\ s \in Own(f) /\ Own(f) \subseteq Sector
  BY <1>2, <1>4, IndexOwn, OwnSectors
<1>9. Alone(f)
  <2>1. \A g \in File : g # f => Same(g)
    BY <1>3, <1>5 DEF Same
  <2>2. \A z \in Sector : z \notin Own(f) => table'[z] = table[z]
    BY <1>5, <1>8, ReleaseTypes
  <2> QED
    BY <1>5, <2>1, <2>2 DEF Alone, IndexIInv
<1>10. Moves(f)
  <2>1. Loses(f, {s})
    BY <1>5, <1>7, <1>8 DEF Loses, Release
  <2> QED
    BY <2>1 DEF Moves
<1>11. IndexTypes'
  <2>1. inode' \in [File -> Inode]'
    <3>1. inode' \in [File -> Inode]
      BY <1>3, <1>5, NewInodeIs
    <3> QED
      BY <3>1 DEF Inode, Capacity, DOUBLE_INDIRECT_INDEX, Sector
  <2>2. data' \in [File -> Seq(Sector)] /\ index' \in [File -> SUBSET Sector] /\ lost' \in SUBSET Sector
    <3>1. <<>> \in Seq(Sector)
      OBVIOUS
    <3>2. lost \subseteq Sector
      BY <1>3 DEF IndexTypes
    <3> QED
      BY <1>3, <1>5, <1>8, <3>1, <3>2
  <2>3. marked' \in SUBSET Sector /\ table' \in [Sector -> Pointers]
    BY <1>5, ReleaseTypes
  <2> QED
    BY <1>3, <1>5, <1>6, <2>1, <2>2, <2>3 DEF IndexTypes, Pointers, Sector, Slot, Labels
<1> QED
  BY <1>7, <1>9, <1>10, <1>11 DEF Step

\* filesys_create() has its first sector.
LEMMA CreateStep ==
  ASSUME IndexIInv, NEW f \in File, NEW n \in 0..MaxLength[f], Create(f, n)
  PROVE  Step(f)
<1>1. IndexTypes /\ pc \in [File -> Labels] /\ inode \in [File -> Inode] /\ index \in [File -> SUBSET Sector]
      /\ left \in [File -> Nat] /\ goal \in [File -> Nat] /\ calls \in [File -> Nat]
      /\ MaxLength \in [File -> Nat]
  BY IndexAssumption DEF IndexIInv, IndexTypes
<1>2. pc[f] = "none" /\ data[f] = <<>> /\ index[f] = {} /\ inode[f] = NewInode /\ left[f] = 0 /\ ~Full
      /\ idx[f] = 0 /\ tables[f] = 0 /\ ~Deallocs(f)
  <2>1. pc[f] = "none" /\ ~Full
    BY DEF Create
  <2>2. ~Deallocs(f)
    BY <2>1 DEF Deallocs
  <2> QED
    BY <2>1, <2>2 DEF IndexIInv, FileInv, Absent, Idle
<1>3. PICK x, m : x = Lowest /\ m = Smaller(n, Capacity)
  OBVIOUS
<1>4. x \in Sector /\ m \in Nat /\ m =< MaxLength[f] /\ m =< n
  <2>1. x \in Sector
    BY <1>2, <1>3, FreshIs
  <2>2. n \in Nat /\ n =< MaxLength[f] /\ MaxLength[f] \in Nat
    BY <1>1
  <2> QED
    BY <1>3, <2>1, <2>2, CapacityIs DEF Smaller
<1>5. /\ inode' = [inode EXCEPT ![f].sector = x] /\ marked' = marked \cup {x}
      /\ index' = [index EXCEPT ![f] = {x}] /\ left' = [left EXCEPT ![f] = m]
      /\ goal' = [goal EXCEPT ![f] = m] /\ pc' = [pc EXCEPT ![f] = "expand"]
      /\ calls' = [calls EXCEPT ![f] = @ - 1] /\ calls[f] > 0
      /\ UNCHANGED <<table, named, tables, idx, block, inner_block, data, lost, full, fault>>
  BY <1>3 DEF Create, Give, Goto, Counted
<1>6. /\ inode'[f].sector = x /\ inode'[f].ptr = NewInode.ptr /\ inode'[f].direct_index = 0
      /\ inode'[f].indirect_index = 0 /\ inode'[f].double_indirect_index = 0
      /\ inode' \in [File -> Inode] /\ \A g \in File : g # f => inode'[g] = inode[g]
  <2>1. inode'[f] = [NewInode EXCEPT !.sector = x]
    BY <1>1, <1>2, <1>5
  <2>2. inode'[f] \in Inode
    BY <1>4, <2>1, NewInodeIs DEF Inode
  <2> QED
    BY <1>1, <1>5, <2>1, <2>2 DEF NewInode
<1>7. pc'[f] = "expand" /\ pc' \in [File -> Labels] /\ index'[f] = {x} /\ data'[f] = <<>>
      /\ left'[f] = m /\ goal'[f] = m
  BY <1>1, <1>2, <1>5 DEF Labels
<1>8. Size(f)' = 0
  BY <1>7 DEF Size
<1>9. Counters(f)'
  <2>1. Base(0) = DIRECT_BLOCKS
    BY BaseIs
  <2>2. Count(0, 0, 0, 0, "expand", m)
    <3>1. CASE DIRECT_BLOCKS > 0
      BY <3>1, SizesAre DEF Count
    <3>2. CASE DIRECT_BLOCKS = 0 /\ INDIRECT_BLOCKS > 0
      <4>1. 0 \in DIRECT_BLOCKS..(DOUBLE_INDIRECT_INDEX - 1) /\ 0 - DIRECT_BLOCKS = 0
        BY <3>2, SizesAre
      <4>2. 0 = Base(0 - DIRECT_BLOCKS) + 0
        BY <2>1, <3>2, <4>1
      <4> QED
        BY <4>1, <4>2, SizesAre DEF Count
    <3>3. CASE DIRECT_BLOCKS = 0 /\ INDIRECT_BLOCKS = 0
      <4>1. 0 = DOUBLE_INDIRECT_INDEX /\ INDIRECT_BLOCKS + 0 = 0
        BY <3>3, SizesAre
      <4>2. 0 = Base(INDIRECT_BLOCKS + 0) + 0
        BY <2>1, <3>3, <4>1
      <4> QED
        BY <4>1, <4>2, SizesAre DEF Count
    <3> QED
      BY <3>1, <3>2, <3>3, SizesAre
  <2> QED
    BY <1>6, <1>7, <1>8, <2>2, CountNext
<1>10. Live(f)' = {} /\ ~HasOuter(f)'
  <2>1. \A t \in Nat : ~(Base(t) < 0)
    BY BaseIs
  <2>2. Live(f)' = {t \in Leaves : Base(t) < Size(f)' \/ InWork(f, t)'}
    BY DEF Live, Leaves, Top, Base
  <2>3. HasOuter(f)' <=> Base(INDIRECT_BLOCKS) < Size(f)' \/ InOuter(f)'
    BY DEF HasOuter, Base
  <2>4. ~InOuter(f)' /\ \A t : ~InWork(f, t)'
    BY <1>7 DEF InOuter, InWork
  <2>5. INDIRECT_BLOCKS \in Nat /\ \A t \in Leaves : t \in Nat
    BY SizesAre
  <2>6. ~HasOuter(f)'
    BY <1>8, <2>1, <2>3, <2>4, <2>5
  <2>7. \A t \in Leaves : ~(Base(t) < Size(f)') /\ ~InWork(f, t)'
    BY <1>8, <2>1, <2>4, <2>5
  <2> QED
    BY <2>2, <2>6, <2>7
<1>11. \A i \in 0..DOUBLE_INDIRECT_INDEX : inode'[f].ptr[i] = FREE_MAP_SECTOR
  BY <1>6 DEF NewInode
<1>12. \A t \in Leaves : Leaf(f)'[t] \in {FREE_MAP_SECTOR, NULL}
  <2> TAKE t \in Leaves
  <2>1. CASE t < INDIRECT_BLOCKS
    <3>1. DIRECT_BLOCKS + t \in 0..DOUBLE_INDIRECT_INDEX
      BY <2>1, SizesAre
    <3>2. Leaf(f)'[t] = inode'[f].ptr[DIRECT_BLOCKS + t]
      BY <2>1 DEF Leaf, Leaves, Top
    <3> QED
      BY <1>11, <3>1, <3>2
  <2>2. CASE ~(t < INDIRECT_BLOCKS)
    <3>1. Outer(f)' = Garbage
      BY <1>7, <1>10 DEF Outer, Garbage, Slot
    <3>2. t - INDIRECT_BLOCKS \in Slot
      BY <2>2, SizesAre
    <3>3. Leaf(f)'[t] = Garbage[t - INDIRECT_BLOCKS]
      BY <2>2, <3>1 DEF Leaf, Leaves, Top
    <3> QED
      BY <3>2, <3>3, GarbageIs
  <2> QED
    BY <2>1, <2>2
<1>13. OuterAt(f)' = FREE_MAP_SECTOR
  BY <1>11, SizesAre DEF OuterAt, DOUBLE_INDIRECT_INDEX
<1>14. ~Deallocs(f)' /\ Passed(f)' = 0
  BY <1>7 DEF Deallocs, Passed
<1>15. Whole(f)'
  <2>1. PICK ptr, c, l : ptr = inode'[f].ptr /\ c = Content(f)' /\ l = Leaf(f)'
    OBVIOUS
  <2>2. PICK ho \in BOOLEAN : ho <=> HasOuter(f)'
    BY DEF HasOuter
  <2>3. PICK d, live, o : d = data'[f] /\ live = Live(f)' /\ o = OuterAt(f)'
    OBVIOUS
  <2>4. d = <<>> /\ live = {} /\ o = FREE_MAP_SECTOR /\ ~ho
    BY <1>7, <1>10, <1>13, <2>2, <2>3
  <2>5. Leads(0, d, ptr, c, live, 0)
    BY <2>4, SizesAre DEF Leads
  <2>6. Tables(l, live, o, ho) = {}
    BY <2>4 DEF Tables
  <2>7. Apart(0, d, l, live, o, ho, x)
    BY <2>4, <2>6 DEF Apart
  <2>8. Blank(l, live, o, ho)
    BY <1>12, <2>1, <2>4 DEF Blank
  <2>9. index'[f] = Tables(l, live, o, ho) \cup (IF Deallocs(f)' THEN {} ELSE {x})
    BY <1>7, <1>14, <2>6
  <2> QED
    BY <1>6, <1>8, <1>14, <2>1, <2>2, <2>3, <2>5, <2>7, <2>8, <2>9, WholeNext
<1>16. FileInv(f)'
  <2>1. Size(f)' + left'[f] = goal'[f] /\ inode'[f].sector \in index'[f] /\ idx'[f] = 0 /\ tables'[f] = 0
    BY <1>2, <1>4, <1>5, <1>6, <1>7, <1>8
  <2> QED
    BY <1>7, <1>9, <1>15, <2>1, GrowsBy
<1>17. Alone(f)
  BY <1>1, <1>5 DEF Alone, Same, IndexIInv
<1>18. Moves(f)
  <2>1. Range(data[f])' \cup index'[f] = Range(data[f]) \cup index[f] \cup {Lowest}
    BY <1>2, <1>3, <1>5, <1>7 DEF Range
  <2> QED
    BY <1>2, <1>3, <1>5, <1>14, <2>1, TakesLowest
<1>19. IndexTypes'
  <2>1. inode' \in [File -> Inode]'
    BY <1>6 DEF Inode, Capacity, DOUBLE_INDIRECT_INDEX, Sector
  <2>2. /\ left' \in [File -> Nat] /\ goal' \in [File -> Nat] /\ calls' \in [File -> Nat]
        /\ \A g \in File : left'[g] =< MaxLength[g] /\ goal'[g] =< MaxLength[g]
    BY <1>1, <1>4, <1>5 DEF IndexTypes
  <2>3. index' \in [File -> SUBSET Sector] /\ marked' \in SUBSET Sector
    BY <1>1, <1>4, <1>5 DEF IndexTypes
  <2> QED
    BY <1>1, <1>5, <1>7, <2>1, <2>2, <2>3 DEF IndexTypes, Pointers, Sector, Slot, Labels
<1> QED
  BY <1>16, <1>17, <1>18, <1>19 DEF Step

-----------------------------------------------------------------------------
(* inode_dealloc() counts. *)

\* Quotient and remainder of a number of pointers.
LEMMA DivModIs ==
  ASSUME NEW j \in Nat
  PROVE  /\ j \div INDIRECT_BLOCK_PTRS \in Nat /\ j % INDIRECT_BLOCK_PTRS \in Slot
         /\ j = (j \div INDIRECT_BLOCK_PTRS) * INDIRECT_BLOCK_PTRS + (j % INDIRECT_BLOCK_PTRS)
<1>1. PICK p : p = INDIRECT_BLOCK_PTRS
  OBVIOUS
<1>2. p \in Nat /\ p > 0 /\ Slot = 0..(p - 1)
  BY <1>1, SizesAre
<1>3. j \div p \in Nat /\ j % p \in 0..(p - 1) /\ j = (j \div p) * p + (j % p)
  BY <1>2, Z3
<1> QED
  BY <1>1, <1>2, <1>3

\* The number of leaves for n sectors.
LEMMA LeavesOf ==
  ASSUME NEW n \in Nat
  PROVE  /\ bytes_to_indirect_sectors(n) \in Nat
         /\ \A t \in Nat : t < bytes_to_indirect_sectors(n) <=> Base(t) < n
<1>1. PICK p, d, q : p = INDIRECT_BLOCK_PTRS /\ d = DIRECT_BLOCKS /\ q = bytes_to_indirect_sectors(n)
  OBVIOUS
<1>2. p \in Nat /\ p > 0 /\ d \in Nat
  BY <1>1, SizesAre
<1>3. CASE n =< d
  <2>1. q = 0
    BY <1>1, <1>3 DEF bytes_to_indirect_sectors
  <2>2. \A t \in Nat : Base(t) \in Nat /\ Base(t) >= d
    BY <1>1, BaseIs
  <2> QED
    BY <1>1, <1>2, <1>3, <2>1, <2>2
<1>4. CASE n > d
  <2>1. PICK m : m = n - d + p - 1
    OBVIOUS
  <2>2. m \in Nat
    BY <1>2, <1>4, <2>1
  <2>3. q = m \div p
    BY <1>1, <1>2, <1>4, <2>1 DEF bytes_to_indirect_sectors
  <2>4. PICK r : r = m % p
    OBVIOUS
  <2>5. q \in Nat /\ r \in 0..(p - 1) /\ m = q * p + r
    BY <1>1, <2>2, <2>3, <2>4, SizesAre, DivModIs
  <2>6. Base(q) = d + q * p
    BY <1>1 DEF Base
  <2>7. Base(q) \in Nat
    BY <2>5, BaseIs
  <2>8. q * p \in Nat
    BY <1>2, <2>5
  <2>9. Base(q) >= n /\ Base(q) < n + p
    BY <1>2, <2>1, <2>5, <2>6, <2>8
  <2>10. ASSUME NEW t \in Nat PROVE t < q <=> Base(t) < n
    <3>1. Base(t) \in Nat
      BY BaseIs
    <3>2. t < q => Base(t) + p =< Base(q)
      BY <1>1, <2>5, BaseLess
    <3>3. q < t => Base(q) + p =< Base(t)
      BY <1>1, <2>5, BaseLess
    <3> QED
      BY <1>2, <2>5, <2>7, <2>9, <3>1, <3>2, <3>3
  <2> QED
    BY <1>1, <2>5, <2>10
<1> QED
  BY <1>2, <1>3, <1>4

\* There is an outer block for n sectors.
LEMMA OuterOf ==
  ASSUME NEW n
  PROVE  bytes_to_double_indirect_sector(n) <=> Base(INDIRECT_BLOCKS) < n
  BY DEF bytes_to_double_indirect_sector, Base

\* What the size says of the index while no block is on the stack.
LEMMA SizeSays ==
  ASSUME IndexIInv, NEW f \in File, Stands(f) \/ Deallocs(f)
  PROVE  /\ Tables_left(f) \in Nat /\ Size(f) = inode[f].length /\ Size(f) =< Capacity
         /\ Tables_left(f) =< Top
         /\ \A t \in Nat : t \in Live(f) <=> t < Tables_left(f)
         /\ \A t \in Nat : t < Tables_left(f) <=> Base(t) < Size(f)
         /\ HasOuter(f) <=> Base(INDIRECT_BLOCKS) < Size(f)
         /\ HasOuter(f) <=> bytes_to_double_indirect_sector(inode[f].length)
         /\ HasOuter(f) <=> INDIRECT_BLOCKS < Tables_left(f)
<1>1. Size(f) = inode[f].length /\ inode[f].length \in 0..Capacity
  BY KnownIs DEF IndexIInv, FileInv, Standing, Shrinking, Inode
<1>2. PICK n, q : n = Size(f) /\ q = Tables_left(f)
  OBVIOUS
<1>3. n \in Nat /\ n =< Capacity /\ q = bytes_to_indirect_sectors(n)
  BY <1>1, <1>2, CapacityIs DEF Tables_left
<1>4. q \in Nat /\ \A t \in Nat : t < q <=> Base(t) < n
  BY <1>3, LeavesOf
<1>5. Top \in Nat /\ INDIRECT_BLOCKS \in Nat
  BY SizesAre DEF Top
<1>6. q =< Top
  <2>1. ~(Base(Top) < n)
    BY <1>3, CapacityIs
  <2> QED
    BY <1>4, <1>5, <2>1
<1>7. \A t \in Nat : t \in Live(f) <=> t < q
  <2> TAKE t \in Nat
  <2>1. ~InWork(f, t)
    BY DEF Stands, Deallocs, InWork
  <2>2. t \in Live(f) <=> t \in Leaves /\ Base(t) < n
    BY <1>2, <2>1 DEF Live
  <2>3. t < q => t \in Leaves
    BY <1>4, <1>5, <1>6, SizesAre DEF Top
  <2> QED
    BY <1>4, <2>2, <2>3
<1>8. HasOuter(f) <=> Base(INDIRECT_BLOCKS) < n
  BY <1>2 DEF HasOuter, InOuter, Stands, Deallocs
<1> QED
  BY <1>1, <1>2, <1>3, <1>4, <1>5, <1>6, <1>7, <1>8, OuterOf

\* The last close of a removed file releases the inode's sector, and no other.
LEMMA RemoveStep ==
  ASSUME IndexIInv, NEW f \in File, Remove(f)
  PROVE  Step(f)
<1>1. Stands(f) /\ pc[f] = "open"
  BY DEF Remove, Stands
<1>2. Counters(f) /\ Size(f) = inode[f].length /\ left[f] = 0 /\ inode[f].sector \in index[f]
      /\ Whole(f) /\ idx[f] = 0 /\ tables[f] = 0 /\ ~Deallocs(f) /\ inode[f].length =< MaxLength[f]
  BY <1>1, StandKnown
<1>3. IndexTypes /\ pc \in [File -> Labels] /\ left \in [File -> Nat] /\ tables \in [File -> Nat]
      /\ index \in [File -> SUBSET Sector] /\ inode \in [File -> Inode]
  BY DEF IndexIInv, IndexTypes
<1>4. PICK s, n, q : s = inode[f].sector /\ n = Size(f) /\ q = Tables_left(f)
  OBVIOUS
<1>5. /\ Release({s}) /\ named' = named \ {f}
      /\ left' = [left EXCEPT ![f] = n] /\ tables' = [tables EXCEPT ![f] = q]
      /\ index' = [index EXCEPT ![f] = @ \ {s}] /\ pc' = [pc EXCEPT ![f] = "dealloc"]
      /\ UNCHANGED <<calls, inode, goal, idx, block, inner_block, data, lost, full, fault>>
  BY <1>2, <1>4 DEF Remove, Goto, Tables_left
<1>6. n \in Nat /\ q \in Nat /\ n =< MaxLength[f]
  BY <1>1, <1>2, <1>4, SizeSays, KnownIs
<1>7. pc'[f] = "dealloc" /\ pc' \in [File -> Labels] /\ left'[f] = n /\ tables'[f] = q
      /\ index'[f] = index[f] \ {s}
  BY <1>3, <1>5 DEF Labels
<1>8. Deallocs(f)' /\ Size(f)' = n /\ Passed(f)' = 0 /\ Passed(f) = 0
  <2>1. Passed(f)' = q - q
    BY <1>4, <1>5, <1>7 DEF Passed, Tables_left, bytes_to_indirect_sectors
  <2> QED
    BY <1>1, <1>4, <1>5, <1>6, <1>7, <2>1 DEF Deallocs, Size, Passed
<1>9. \A t : ~InWork(f, t) /\ ~InWork(f, t)'
  BY <1>1, <1>7 DEF InWork
<1>10. Live(f)' = Live(f)
  BY <1>4, <1>8, <1>9 DEF Live, Leaves, Top, Base
<1>11. (HasOuter(f)' <=> HasOuter(f)) /\ OuterAt(f)' = OuterAt(f)
  BY <1>1, <1>4, <1>5, <1>7, <1>8 DEF HasOuter, InOuter, Base, OuterAt, DOUBLE_INDIRECT_INDEX
<1>12. PICK live, l, o, d : live = Live(f) /\ l = Leaf(f) /\ o = OuterAt(f) /\ d = data[f]
  OBVIOUS
<1>13. PICK ho \in BOOLEAN : ho <=> HasOuter(f)
  BY DEF HasOuter
<1>14. Apart(n, d, l, live, o, ho, s) /\ Blank(l, live, o, ho)
       /\ index[f] = Tables(l, live, o, ho) \cup {s}
  <2>1. Apart(n, d, l, live, o, HasOuter(f), s) /\ Blank(l, live, o, HasOuter(f))
        /\ index[f] = Tables(l, live, o, HasOuter(f)) \cup {s}
    BY <1>2, <1>4, <1>12 DEF Whole
  <2> QED
    BY <1>13, <2>1 DEF Apart, Blank, Tables
<1>15. s \notin Tables(l, live, o, ho) /\ index'[f] = Tables(l, live, o, ho)
  BY <1>7, <1>14 DEF Apart
<1>16. \A z \in Tables(l, live, o, ho) : z \in Sector /\ table'[z] = table[z]
  <2>1. Tables(l, live, o, ho) \subseteq Sector
    BY <1>3, <1>14
  <2> QED
    BY <1>5, <1>15, <2>1, ReleaseTypes
<1>17. Leaf(f)' = l
  <2>1. ho => table'[o] = table[o]
    BY <1>16 DEF Tables
  <2>2. Outer(f)' = Outer(f)
    BY <1>1, <1>5, <1>7, <1>11, <1>12, <1>13, <2>1 DEF Outer, OuterAt, Garbage, Slot
  <2> QED
    BY <1>5, <1>12, <2>2 DEF Leaf, Leaves, Top
<1>18. \A t \in live : Content(f)'[t] = Content(f)[t]
  <2> TAKE t \in live
  <2>1. t \in Leaves /\ l[t] \in Tables(l, live, o, ho)
    BY <1>12, LiveLeaves DEF Tables
  <2> QED
    BY <1>9, <1>12, <1>16, <1>17, <2>1, ContentOut
<1>19. Whole(f)'
  <2>1. PICK ptr, c, e : ptr = inode[f].ptr /\ c = Content(f) /\ e = Content(f)'
    OBVIOUS
  <2>2. Leads(n, d, ptr, c, live, 0)
    BY <1>2, <1>4, <1>8, <1>12, <2>1 DEF Whole
  <2>3. Leads(n, d, ptr, e, live, 0)
    BY <1>18, <2>1, <2>2 DEF Leads
  <2>4. index'[f] = Tables(l, live, o, ho) \cup (IF Deallocs(f)' THEN {} ELSE {s})
    BY <1>8, <1>15
  <2> QED
    BY <1>4, <1>5, <1>8, <1>10, <1>11, <1>12, <1>13, <1>14, <1>17, <2>1, <2>3, <2>4, WholeNext
<1>20. FileInv(f)'
  <2>1. idx'[f] = 0 /\ Freed(f)' = 0 /\ inode'[f].length = n
    BY <1>2, <1>4, <1>5, <1>6, <1>7, <1>8 DEF Freed
  <2>2. Shrinking(f)'
    BY <1>6, <1>7, <1>8, <1>19, <2>1, SizesAre DEF Shrinking
  <2> QED
    BY <1>7, <1>8, <2>2 DEF FileInv, Growing, Grows, Standing, Stands, Absent, Idle
<1>21. Own(f) = Range(d) \cup index[f] /\ s \in Own(f) /\ Own(f) \subseteq Sector
  BY <1>2, <1>4, <1>12, IndexOwn, OwnSectors
<1>22. Own(f)' = Range(d) \cup index'[f]
  <2>1. Own(f)' = {d[i] : i \in (n - n + 1)..n} \cup Tables(l, {t \in live : t >= 0}, o, ho)
    BY <1>5, <1>7, <1>8, <1>10, <1>11, <1>12, <1>13, <1>17 DEF Own, Rest, Tables
  <2>2. {t \in live : t >= 0} = live
    BY <1>12, LiveLeaves, SizesAre
  <2>3. Range(d) = {d[i] : i \in 1..n}
    BY <1>3, <1>4, <1>12, KnownIs DEF Range, Size
  <2>4. n - n + 1 = 1
    BY <1>6
  <2> QED
    BY <1>15, <2>1, <2>2, <2>3, <2>4
<1>23. s \notin Range(d)
  <2>1. Range(d) = {d[i] : i \in 1..n}
    BY <1>3, <1>4, <1>12, KnownIs DEF Range, Size
  <2> QED
    BY <1>14, <2>1 DEF Apart
<1>24. Moves(f)
  <2>1. Own(f)' = Own(f) \ {s}
    BY <1>7, <1>21, <1>22, <1>23
  <2>2. Gives(f, {s})
    BY <1>5, <1>21, <2>1 DEF Gives, Release
  <2> QED
    BY <2>2 DEF Moves
<1>25. Alone(f)
  <2>1. \A g \in File : g # f => Same(g)
    BY <1>3, <1>5 DEF Same
  <2>2. \A z \in Sector : z \notin Own(f) => table'[z] = table[z]
    BY <1>5, <1>21, ReleaseTypes
  <2> QED
    BY <1>5, <2>1, <2>2 DEF Alone, IndexIInv
<1>26. IndexTypes'
  <2>1. marked' \in SUBSET Sector /\ table' \in [Sector -> Pointers]
    BY <1>5, ReleaseTypes
  <2>2. /\ left' \in [File -> Nat] /\ tables' \in [File -> Nat] /\ index' \in [File -> SUBSET Sector]
        /\ \A g \in File : left'[g] =< MaxLength[g]
    BY <1>3, <1>5, <1>6 DEF IndexTypes
  <2> QED
    BY <1>3, <1>5, <1>7, <2>1, <2>2
       DEF IndexTypes, Inode, Capacity, DOUBLE_INDIRECT_INDEX, Pointers, Sector, Slot, Labels
<1> QED
  BY <1>20, <1>24, <1>25, <1>26 DEF Step

\* inode_dealloc() is past more leaves, and knows of the same index.
LEMMA ShrinkWhole ==
  ASSUME NEW f \in File, Whole(f), Deallocs(f), Deallocs(f)', UNCHANGED <<inode, data, index>>,
         Outer(f)' = Outer(f), Passed(f) \in Int, Passed(f)' \in Int, Passed(f) =< Passed(f)',
         \A t \in Live(f) : t >= Passed(f)' => table'[Leaf(f)[t]] = table[Leaf(f)[t]]
  PROVE  /\ Whole(f)' /\ Size(f)' = Size(f) /\ Live(f)' = Live(f) /\ Leaf(f)' = Leaf(f)
         /\ (HasOuter(f)' <=> HasOuter(f)) /\ OuterAt(f)' = OuterAt(f)
<1>1. Size(f)' = Size(f)
  BY DEF Size
<1>2. \A t : ~InWork(f, t) /\ ~InWork(f, t)'
  BY DEF Deallocs, InWork
<1>3. Live(f)' = Live(f)
  BY <1>1, <1>2 DEF Live, Leaves, Top, Base
<1>4. (HasOuter(f)' <=> HasOuter(f)) /\ OuterAt(f)' = OuterAt(f)
  BY <1>1 DEF HasOuter, InOuter, Base, OuterAt, DOUBLE_INDIRECT_INDEX, Deallocs
<1>5. Leaf(f)' = Leaf(f)
  BY DEF Leaf, Leaves, Top
<1>6. \A t \in Live(f) : t >= Passed(f)' => t >= Passed(f) /\ Content(f)'[t] = Content(f)[t]
  <2> TAKE t \in Live(f)
  <2> HAVE t >= Passed(f)'
  <2>1. t \in Leaves /\ t \in Int
    BY LiveLeaves, SizesAre
  <2>2. table'[Leaf(f)[t]] = table[Leaf(f)[t]]
    OBVIOUS
  <2>3. Content(f)'[t] = Content(f)[t]
    BY <1>2, <1>5, <2>1, <2>2, ContentOut
  <2> QED
    BY <2>1, <2>3
<1>7. Whole(f)'
  BY <1>3, <1>4, <1>5, <1>6, WholeBy
<1> QED
  BY <1>1, <1>3, <1>4, <1>5, <1>7

\* The data and the leaves that a step of inode_dealloc() releases.
Frees(d, i, j, l, live, p, q) ==
  {d[k] : k \in (i + 1)..j} \cup {l[t] : t \in {u \in live : u >= p /\ u < q}}

\* It makes Q, of R, the sectors that inode_dealloc() has still to release; X holds
\* the outer block.
FreesOf(n, d, i, j, l, live, p, q, X, S, R, Q) ==
  /\ n \in Nat /\ i \in Nat /\ j \in Nat /\ i =< j /\ j =< n
  /\ p \in Int /\ q \in Int /\ p =< q /\ live \in SUBSET Leaves
  /\ \A t, u \in live : l[t] = l[u] => t = u
  /\ \A k, m \in 1..n : d[k] = d[m] => k = m
  /\ \A k \in 1..n, t \in live : d[k] # l[t]
  /\ \A t \in live : l[t] \notin X
  /\ \A k \in 1..n : d[k] \notin X
  /\ S = Frees(d, i, j, l, live, p, q)
  /\ R = {d[k] : k \in (i + 1)..n} \cup {l[t] : t \in {u \in live : u >= p}} \cup X
  /\ Q = {d[k] : k \in (j + 1)..n} \cup {l[t] : t \in {u \in live : u >= q}} \cup X

\* What is released was the file's, what is left still is, and they share nothing.
LEMMA FreesFrom ==
  ASSUME NEW n, NEW d, NEW i, NEW j, NEW l, NEW live, NEW p, NEW q, NEW X,
         NEW S, NEW R, NEW Q, FreesOf(n, d, i, j, l, live, p, q, X, S, R, Q)
  PROVE  /\ S \subseteq R /\ Q = R \ S
         /\ \A t \in live : t >= q => l[t] \notin S
         /\ X \cap S = {}
<1>1. /\ n \in Nat /\ i \in Nat /\ j \in Nat /\ i =< j /\ j =< n
      /\ p \in Int /\ q \in Int /\ p =< q /\ \A t \in live : t \in Int
  BY SizesAre DEF FreesOf
<1>2. /\ \A t, u \in live : l[t] = l[u] => t = u
      /\ \A k, m \in 1..n : d[k] = d[m] => k = m
      /\ \A k \in 1..n, t \in live : d[k] # l[t]
      /\ \A t \in live : l[t] \notin X
      /\ \A k \in 1..n : d[k] \notin X
  BY DEF FreesOf
<1>3. \A x : x \in S <=> \/ \E k \in 1..n : k > i /\ k =< j /\ x = d[k]
                         \/ \E t \in live : t >= p /\ t < q /\ x = l[t]
  BY <1>1 DEF FreesOf, Frees
<1>4. \A x : x \in R <=> \/ \E k \in 1..n : k > i /\ x = d[k]
                         \/ \E t \in live : t >= p /\ x = l[t]
                         \/ x \in X
  BY <1>1 DEF FreesOf
<1>5. \A x : x \in Q <=> \/ \E k \in 1..n : k > j /\ x = d[k]
                         \/ \E t \in live : t >= q /\ x = l[t]
                         \/ x \in X
  BY <1>1 DEF FreesOf
<1>6. S \subseteq R
  BY <1>3, <1>4
<1>7. \A t \in live : t >= q => l[t] \notin S
  BY <1>1, <1>2, <1>3
<1>8. \A x \in X : x \notin S
  BY <1>2, <1>3
<1>9. ASSUME NEW x \in Q PROVE x \in R /\ x \notin S
  <2>1. CASE \E k \in 1..n : k > j /\ x = d[k]
    <3>1. PICK k \in 1..n : k > j /\ x = d[k]
      BY <2>1
    <3>2. x \in R
      BY <1>1, <1>4, <3>1
    <3>3. x \notin S
      BY <1>1, <1>2, <1>3, <3>1
    <3> QED
      BY <3>2, <3>3
  <2>2. CASE \E t \in live : t >= q /\ x = l[t]
    BY <1>1, <1>4, <1>7, <2>2
  <2>3. CASE x \in X
    BY <1>4, <1>8, <2>3
  <2> QED
    BY <1>5, <2>1, <2>2, <2>3
<1>10. ASSUME NEW x \in R, x \notin S PROVE x \in Q
  <2>1. CASE \E k \in 1..n : k > i /\ x = d[k]
    BY <1>1, <1>3, <1>5, <1>10, <2>1
  <2>2. CASE \E t \in live : t >= p /\ x = l[t]
    BY <1>1, <1>3, <1>5, <1>10, <2>2
  <2>3. CASE x \in X
    BY <1>5, <2>3
  <2> QED
    BY <1>4, <1>10, <2>1, <2>2, <2>3
<1>11. Q = R \ S
  BY <1>9, <1>10
<1> QED
  BY <1>6, <1>7, <1>8, <1>11

\* What is known inside of inode_dealloc().
LEMMA ShrinkKnown ==
  ASSUME IndexIInv, NEW f \in File, Deallocs(f)
  PROVE  /\ Whole(f) /\ left[f] =< Size(f) /\ Freed(f) \in Nat /\ Freed(f) + left[f] = Size(f)
         /\ Passed(f) \in Int /\ Tables_left(f) \in Nat
         /\ pc[f] = "dealloc" => Passed(f) = Tables_left(f) - tables[f]
         /\ pc[f] = "dealloc outer" => Passed(f) = INDIRECT_BLOCKS + idx[f]
<1>1. Whole(f) /\ left[f] =< Size(f) /\ left[f] \in Nat /\ Size(f) \in Nat /\ tables[f] \in Nat
      /\ idx[f] \in Nat
  BY KnownIs DEF IndexIInv, FileInv, Shrinking
<1>2. Freed(f) \in Nat /\ Freed(f) + left[f] = Size(f)
  BY <1>1 DEF Freed
<1>3. Tables_left(f) \in Nat
  BY SizeSays
<1>4. pc[f] = "dealloc" => Passed(f) = Tables_left(f) - tables[f]
  BY DEF Passed, Tables_left
<1>5. pc[f] = "dealloc outer" => Passed(f) = INDIRECT_BLOCKS + idx[f]
  BY DEF Passed
<1>6. Passed(f) \in Int
  <2>1. CASE pc[f] = "dealloc"
    BY <1>1, <1>3, <1>4, <2>1
  <2>2. CASE pc[f] = "dealloc outer"
    <3>1. INDIRECT_BLOCKS + idx[f] \in Int
      BY <1>1, SizesAre
    <3> QED
      BY <1>5, <2>2, <3>1
  <2> QED
    BY <2>1, <2>2 DEF Deallocs
<1> QED
  BY <1>1, <1>2, <1>3, <1>4, <1>5, <1>6

\* A step of inode_dealloc() that releases S, k of its counted tables and n of its data.
FreesBy(f, S, n, k) ==
  /\ Release(S)
  /\ left' = [left EXCEPT ![f] = @ - n] /\ tables' = [tables EXCEPT ![f] = @ - k]
  /\ idx' = [idx EXCEPT ![f] = @ + 1]
  /\ UNCHANGED <<calls, named, pc, inode, goal, block, inner_block, data, index, lost, full, fault>>

\* How far it has got.
Progress(f) ==
  \/ pc[f] = "dealloc" /\ idx[f] =< DIRECT_BLOCKS /\ Passed(f) = 0 /\ Freed(f) = idx[f]
  \/ /\ pc[f] = "dealloc" /\ Passed(f) \in 0..INDIRECT_BLOCKS /\ tables[f] >= 0
     /\ idx[f] = DIRECT_BLOCKS + Passed(f) /\ Freed(f) = Smaller(Size(f), Base(Passed(f)))
  \/ /\ pc[f] = "dealloc outer" /\ tables[f] = Tables_left(f) - INDIRECT_BLOCKS
     /\ idx[f] \in 0..tables[f] /\ HasOuter(f)
     /\ Freed(f) = Smaller(Size(f), Base(Passed(f)))

\* What a step of inode_dealloc() has to show.
LEMMA ShrinksBy ==
  ASSUME NEW f \in File, Deallocs(f)', Whole(f)', Progress(f)', Size(f)' = inode'[f].length,
         left'[f] =< Size(f)'
  PROVE  FileInv(f)'
<1>1. Shrinking(f)'
  BY DEF Shrinking, Progress
<1>2. Growing(f)' /\ Standing(f)' /\ Absent(f)' /\ Idle(f)'
  BY DEF Growing, Grows, Standing, Stands, Absent, Idle, Deallocs
<1> QED
  BY <1>1, <1>2 DEF FileInv

\* A step that releases the next data, or the next leaf with its data.
LEMMA FreesStep ==
  ASSUME IndexIInv, NEW f \in File, Deallocs(f), NEW n \in Nat, n =< left[f], NEW k \in Nat, k =< tables[f],
         NEW q \in Int, Passed(f) =< q, Passed(f)' = q, NEW S, FreesBy(f, S, n, k),
         S = Frees(data[f], Freed(f), Freed(f) + n, Leaf(f), Live(f), Passed(f), q),
         Freed(f)' = Freed(f) + n /\ Size(f)' = Size(f) /\ (HasOuter(f)' <=> HasOuter(f)) => Progress(f)'
  PROVE  Step(f)
<1>1. Whole(f) /\ left[f] =< Size(f) /\ Freed(f) \in Nat /\ Freed(f) + left[f] = Size(f) /\ Passed(f) \in Int
  BY ShrinkKnown
<1>2. Size(f) \in Nat /\ left[f] \in Nat /\ idx[f] \in Nat /\ tables[f] \in Nat /\ Size(f) = inode[f].length
  BY KnownIs, SizeSays
<1>3. IndexTypes /\ left \in [File -> Nat] /\ tables \in [File -> Nat] /\ idx \in [File -> Nat]
  BY DEF IndexIInv, IndexTypes
<1>4. PICK d, i, j, l, live, p, o, z, s :
        /\ d = data[f] /\ i = Freed(f) /\ j = i + n /\ l = Leaf(f) /\ live = Live(f) /\ p = Passed(f)
        /\ o = OuterAt(f) /\ z = Size(f) /\ s = inode[f].sector
  OBVIOUS
<1>5. PICK ho \in BOOLEAN : ho <=> HasOuter(f)
  BY DEF HasOuter
<1>6. Apart(z, d, l, live, o, ho, s) /\ index[f] = Tables(l, live, o, ho)
  <2>1. Apart(z, d, l, live, o, HasOuter(f), s) /\ index[f] = Tables(l, live, o, HasOuter(f))
    BY <1>1, <1>4 DEF Whole
  <2> QED
    BY <1>5, <2>1 DEF Apart, Tables
<1>7. PICK R : R = {d[m] : m \in (i + 1)..z} \cup Tables(l, {t \in live : t >= p}, o, ho)
  OBVIOUS
<1>8. PICK Q : Q = {d[m] : m \in (j + 1)..z} \cup Tables(l, {t \in live : t >= q}, o, ho)
  OBVIOUS
<1>9. S = Frees(d, i, j, l, live, p, q)
  BY <1>4
<1>10. z \in Nat /\ i \in Nat /\ j \in Nat /\ i =< j /\ j =< z /\ p \in Int /\ p =< q /\ live \in SUBSET Leaves
  BY <1>1, <1>2, <1>4, LiveLeaves
<1>11. /\ S \subseteq R /\ Q = R \ S /\ (ho => o \notin S)
       /\ \A t \in live : t >= q => l[t] \notin S
  <2>1. PICK X : X = IF ho THEN {o} ELSE {}
    OBVIOUS
  <2>2. /\ \A t, u \in live : l[t] = l[u] => t = u
        /\ \A k1, m \in 1..z : d[k1] = d[m] => k1 = m
        /\ \A k1 \in 1..z, t \in live : d[k1] # l[t]
        /\ \A t \in live : l[t] \notin X
        /\ \A k1 \in 1..z : d[k1] \notin X
    BY <1>6, <2>1 DEF Apart, Tables
  <2>3. /\ R = {d[m] : m \in (i + 1)..z} \cup {l[t] : t \in {u \in live : u >= p}} \cup X
        /\ Q = {d[m] : m \in (j + 1)..z} \cup {l[t] : t \in {u \in live : u >= q}} \cup X
    BY <1>7, <1>8, <2>1 DEF Tables
  <2>4. FreesOf(z, d, i, j, l, live, p, q, X, S, R, Q)
    BY <1>9, <1>10, <2>2, <2>3 DEF FreesOf
  <2>5. /\ S \subseteq R /\ Q = R \ S /\ X \cap S = {}
        /\ \A t \in live : t >= q => l[t] \notin S
    BY <2>4, FreesFrom
  <2> QED
    BY <2>1, <2>5
<1>12. Own(f) = R
  <2>1. i = z - left[f]
    BY <1>1, <1>2, <1>4
  <2> QED
    BY <1>4, <1>5, <1>7, <2>1 DEF Own, Rest, Tables
<1>13. Own(f) \subseteq Sector /\ S \subseteq Sector
  BY <1>11, <1>12, OwnSectors
<1>14. \A x \in Sector : x \notin S => table'[x] = table[x]
  BY ReleaseTypes DEF FreesBy
<1>15. /\ left'[f] = left[f] - n /\ tables'[f] = tables[f] - k /\ idx'[f] = idx[f] + 1
       /\ pc' = pc /\ UNCHANGED <<inode, data, index, block>>
       /\ marked' = marked \ S /\ lost' = lost
  BY <1>3 DEF FreesBy, Release
<1>16. Deallocs(f)'
  BY <1>15 DEF Deallocs
<1>17. index[f] \subseteq Sector
  BY KnownIs
<1>18. Outer(f)' = Outer(f)
  <2>1. CASE pc[f] = "dealloc outer"
    BY <1>15, <2>1 DEF Outer
  <2>2. CASE pc[f] = "dealloc"
    <3>1. HasOuter(f)' <=> HasOuter(f)
      BY <1>15, <2>2 DEF HasOuter, InOuter, Base, Size
    <3>2. ho => table'[o] = table[o]
      BY <1>6, <1>11, <1>14, <1>17 DEF Tables
    <3> QED
      BY <1>4, <1>5, <1>15, <2>2, <3>1, <3>2 DEF Outer, OuterAt, Garbage, Slot, DOUBLE_INDIRECT_INDEX
  <2> QED
    BY <2>1, <2>2 DEF Deallocs
<1>19. \A t \in Live(f) : t >= Passed(f)' => table'[Leaf(f)[t]] = table[Leaf(f)[t]]
  <2>1. \A t \in live : l[t] \in index[f]
    BY <1>6 DEF Tables
  <2> QED
    BY <1>4, <1>11, <1>14, <1>17, <2>1
<1>20. /\ Whole(f)' /\ Size(f)' = z /\ Live(f)' = live /\ Leaf(f)' = l
       /\ (HasOuter(f)' <=> ho) /\ OuterAt(f)' = o
  BY <1>1, <1>4, <1>5, <1>15, <1>16, <1>18, <1>19, ShrinkWhole
<1>21. Freed(f)' = j /\ left'[f] \in Nat /\ left'[f] =< left[f] /\ left'[f] =< z
  BY <1>1, <1>2, <1>4, <1>15, <1>20 DEF Freed
<1>22. FileInv(f)'
  <2>1. Progress(f)'
    BY <1>4, <1>5, <1>20, <1>21
  <2> QED
    BY <1>2, <1>4, <1>15, <1>16, <1>20, <1>21, <2>1, ShrinksBy
<1>23. Own(f)' = Q
  <2>1. z - left'[f] = j
    BY <1>1, <1>2, <1>4, <1>15
  <2>2. Own(f)' = {d[m] : m \in (z - left'[f] + 1)..z} \cup Tables(l, {t \in live : t >= q}, o, ho)
    BY <1>4, <1>15, <1>16, <1>20 DEF Own, Rest, Tables
  <2> QED
    BY <1>8, <2>1, <2>2
<1>24. Moves(f)
  <2>1. Gives(f, S)
    BY <1>11, <1>12, <1>15, <1>23 DEF Gives
  <2> QED
    BY <2>1 DEF Moves
<1>25. Alone(f)
  <2>1. \A g \in File : g # f => Same(g)
    BY <1>3 DEF Same, FreesBy
  <2>2. \A x \in Sector : x \notin Own(f) => table'[x] = table[x]
    BY <1>11, <1>12, <1>14
  <2>3. full' = full /\ fault' = fault
    BY DEF FreesBy
  <2> QED
    BY <2>1, <2>2, <2>3 DEF Alone, IndexIInv
<1>26. IndexTypes'
  <2>1. marked' \in SUBSET Sector /\ table' \in [Sector -> Pointers]
    BY ReleaseTypes DEF FreesBy
  <2>2. tables[f] - k \in Nat /\ idx[f] + 1 \in Nat /\ left[f] - n \in Nat /\ left[f] - n =< left[f]
    BY <1>2
  <2>3. /\ left' \in [File -> Nat] /\ tables' \in [File -> Nat] /\ idx' \in [File -> Nat]
    BY <1>3, <2>2 DEF FreesBy
  <2>4. \A g \in File : left'[g] =< MaxLength[g]
    <3> TAKE g \in File
    <3>1. left[g] =< MaxLength[g] /\ MaxLength[g] \in Nat /\ left[g] \in Nat
      BY <1>3, IndexAssumption DEF IndexTypes
    <3>2. g # f => left'[g] = left[g]
      BY <1>3 DEF FreesBy
    <3> QED
      BY <1>15, <2>2, <3>1, <3>2
  <2> QED
    BY <1>3, <2>1, <2>3, <2>4
       DEF IndexTypes, Inode, Capacity, DOUBLE_INDIRECT_INDEX, Pointers, Sector, Slot, Labels, FreesBy
<1> QED
  BY <1>22, <1>24, <1>25, <1>26 DEF Step

\* The first of the leaves left, with the data it leads to.
LEMMA FirstLeaf ==
  ASSUME IndexIInv, NEW f \in File, Deallocs(f), NEW p \in Nat, p = Passed(f), p < Tables_left(f),
         Freed(f) = Smaller(Size(f), Base(p)),
         NEW s, s = Leaf(f)[p], NEW n, n = Smaller(left[f], INDIRECT_BLOCK_PTRS)
  PROVE  /\ n \in Nat /\ n =< left[f] /\ Freed(f) + n = Smaller(Size(f), Base(p + 1))
         /\ {table[s][i] : i \in 0..(n - 1)} \cup {s}
              = Frees(data[f], Freed(f), Freed(f) + n, Leaf(f), Live(f), p, p + 1)
<1>1. Whole(f) /\ left[f] =< Size(f) /\ Freed(f) + left[f] = Size(f)
  BY ShrinkKnown
<1>2. PICK b, z, d, l, live : b = Base(p) /\ z = Size(f) /\ d = data[f] /\ l = Leaf(f) /\ live = Live(f)
  OBVIOUS
<1>3. p \in live /\ b < z /\ live \subseteq Leaves
  BY <1>2, SizeSays, LiveLeaves
<1>4. b \in Nat /\ z \in Nat /\ left[f] \in Nat
  BY <1>2, BaseIs, KnownIs
<1>5. Base(p + 1) = b + INDIRECT_BLOCK_PTRS
  BY <1>2, BaseIs
<1>6. Freed(f) = b /\ left[f] = z - b
  BY <1>1, <1>2, <1>3, <1>4 DEF Smaller
<1>7. n \in Nat /\ n =< left[f] /\ n =< INDIRECT_BLOCK_PTRS
  BY <1>4, SizesAre DEF Smaller
<1>8. b + n = Smaller(z, Base(p + 1))
  BY <1>4, <1>5, <1>6, SizesAre DEF Smaller
<1>9. \A i \in 0..(n - 1) : table[s][i] = d[b + i + 1]
  <2>1. PICK c, ptr : c = Content(f) /\ ptr = inode[f].ptr
    OBVIOUS
  <2>2. Leads(z, d, ptr, c, live, p)
    BY <1>1, <1>2, <2>1 DEF Whole
  <2>3. ~InWork(f, p)
    BY DEF Deallocs, InWork
  <2>4. c[p] = table[s]
    BY <1>3, <2>1, <2>3, ContentOut
  <2>5. \A i \in 0..(n - 1) : i \in Slot /\ b + i < z
    BY <1>4, <1>6, <1>7, SizesAre
  <2> QED
    BY <1>2, <1>3, <2>2, <2>4, <2>5 DEF Leads
<1>10. {table[s][i] : i \in 0..(n - 1)} = {d[k] : k \in (b + 1)..(b + n)}
  <2>1. ASSUME NEW i \in 0..(n - 1) PROVE \E k \in (b + 1)..(b + n) : table[s][i] = d[k]
    BY <1>4, <1>7, <1>9
  <2>2. ASSUME NEW k \in (b + 1)..(b + n) PROVE \E i \in 0..(n - 1) : table[s][i] = d[k]
    <3>1. k - b - 1 \in 0..(n - 1) /\ b + (k - b - 1) + 1 = k
      BY <1>4, <1>7
    <3> QED
      BY <1>9, <3>1
  <2> QED
    BY <2>1, <2>2
<1>11. {t \in live : t >= p /\ t < p + 1} = {p}
  <2>1. \A t \in live : t \in Nat
    BY <1>3, SizesAre
  <2>2. \A t \in live : t >= p /\ t < p + 1 <=> t = p
    BY <2>1
  <2> QED
    BY <1>3, <2>2
<1>12. {l[t] : t \in {u \in live : u >= p /\ u < p + 1}} = {s}
  BY <1>2, <1>11
<1> QED
  BY <1>2, <1>6, <1>7, <1>8, <1>10, <1>12 DEF Frees

\* ... and how far it has got.
LEMMA ShrinkProgress ==
  ASSUME IndexIInv, NEW f \in File, Deallocs(f)
  PROVE  Progress(f)
  BY DEF IndexIInv, FileInv, Shrinking, Progress

\* inode_dealloc() releases the next direct sector.
LEMMA DeallocDirectStep ==
  ASSUME IndexIInv, NEW f \in File, DeallocDirect(f)
  PROVE  Step(f)
<1>1. pc[f] = "dealloc" /\ left[f] > 0 /\ idx[f] < DIRECT_BLOCKS /\ Deallocs(f)
  BY DEF DeallocDirect, Deallocs
<1>2. idx[f] \in Nat /\ left[f] \in Nat /\ tables[f] \in Nat /\ Size(f) \in Nat
  BY KnownIs
<1>3. idx[f] =< DIRECT_BLOCKS /\ Passed(f) = 0 /\ Freed(f) = idx[f]
  <2>1. ASSUME NEW p \in 0..INDIRECT_BLOCKS, idx[f] = DIRECT_BLOCKS + p PROVE FALSE
    <3>1. PICK i, d : i = idx[f] /\ d = DIRECT_BLOCKS
      OBVIOUS
    <3>2. i \in Nat /\ d \in Nat /\ p \in Nat /\ i < d /\ i = d + p
      BY <1>1, <1>2, <2>1, <3>1, SizesAre
    <3> QED
      BY <3>2
  <2> QED
    BY <1>1, <2>1, ShrinkProgress DEF Progress
<1>4. Whole(f) /\ Freed(f) + left[f] = Size(f) /\ Passed(f) = Tables_left(f) - tables[f]
  BY <1>1, ShrinkKnown
<1>5. PICK i, s, d, l, live : i = idx[f] /\ s = inode[f].ptr[i] /\ d = data[f] /\ l = Leaf(f) /\ live = Live(f)
  OBVIOUS
<1>6. s = d[i + 1]
  <2>1. i \in 0..(DIRECT_BLOCKS - 1) /\ i < Size(f)
    BY <1>1, <1>2, <1>3, <1>4, <1>5, SizesAre
  <2> QED
    BY <1>4, <1>5, <2>1 DEF Whole, Leads
<1>7. {s} = Frees(d, i, i + 1, l, live, 0, 0)
  <2>1. (i + 1)..(i + 1) = {i + 1}
    BY <1>2, <1>5
  <2>2. {t \in live : t >= 0 /\ t < 0} = {}
    <3>1. \A t \in live : t \in Nat
      BY <1>5, LiveLeaves, SizesAre
    <3> QED
      BY <3>1
  <2> QED
    BY <1>6, <2>1, <2>2 DEF Frees
<1>8. FreesBy(f, {s}, 1, 0)
  <2>1. tables' = [tables EXCEPT ![f] = @ - 0]
    <3>1. tables' = tables /\ tables \in [File -> Nat]
      BY DEF DeallocDirect, IndexIInv, IndexTypes
    <3> QED
      BY <1>2, <3>1
  <2> QED
    BY <1>5, <2>1 DEF DeallocDirect, FreesBy, history
<1>9. idx'[f] = i + 1 /\ pc'[f] = "dealloc" /\ inode' = inode /\ tables' = tables
  BY <1>1, <1>5 DEF DeallocDirect, IndexIInv, IndexTypes
<1>10. Passed(f)' = 0
  BY <1>1, <1>3, <1>4, <1>9 DEF Passed, Tables_left, bytes_to_indirect_sectors
<1>11. Freed(f)' = Freed(f) + 1 => Progress(f)'
  <2>1. i + 1 =< DIRECT_BLOCKS
    BY <1>1, <1>2, <1>5, SizesAre
  <2> QED
    BY <1>3, <1>5, <1>9, <1>10, <2>1 DEF Progress
<1>12. 1 =< left[f] /\ 0 =< tables[f] /\ 1 \in Nat /\ 0 \in Nat /\ 0 \in Int /\ Passed(f) =< 0
  BY <1>1, <1>2, <1>3
<1>13. {s} = Frees(data[f], Freed(f), Freed(f) + 1, Leaf(f), Live(f), Passed(f), 0)
  BY <1>3, <1>5, <1>7
<1> QED
  BY <1>1, <1>8, <1>10, <1>11, <1>12, <1>13, FreesStep

\* ... the next indirect block and what it leads to.
LEMMA DeallocIndirectStep ==
  ASSUME IndexIInv, NEW f \in File, DeallocIndirect(f)
  PROVE  Step(f)
<1>1. pc[f] = "dealloc" /\ tables[f] > 0 /\ idx[f] \in DIRECT_BLOCKS..(DOUBLE_INDIRECT_INDEX - 1)
      /\ Deallocs(f)
  BY DEF DeallocIndirect, Deallocs
<1>2. idx[f] \in Nat /\ left[f] \in Nat /\ tables[f] \in Nat /\ Size(f) \in Nat
  BY KnownIs
<1>3. Freed(f) + left[f] = Size(f) /\ Passed(f) = Tables_left(f) - tables[f] /\ Tables_left(f) \in Nat
  BY <1>1, ShrinkKnown
<1>4. PICK p, s, n : p = Passed(f) /\ s = inode[f].ptr[idx[f]] /\ n = Smaller(left[f], INDIRECT_BLOCK_PTRS)
  OBVIOUS
<1>5. p \in Nat /\ idx[f] = DIRECT_BLOCKS + p /\ Freed(f) = Smaller(Size(f), Base(p))
  <2>1. CASE idx[f] =< DIRECT_BLOCKS /\ Passed(f) = 0 /\ Freed(f) = idx[f]
    <3>0. PICK i, d, e : i = idx[f] /\ d = DIRECT_BLOCKS /\ e = DOUBLE_INDIRECT_INDEX
      OBVIOUS
    <3>1. idx[f] = DIRECT_BLOCKS /\ Freed(f) = DIRECT_BLOCKS /\ Base(0) = DIRECT_BLOCKS
      <4>1. i \in Nat /\ d \in Nat /\ e \in Nat /\ i \in d..(e - 1) /\ i =< d
        BY <1>1, <1>2, <2>1, <3>0, SizesAre
      <4>2. i = d
        BY <4>1
      <4> QED
        BY <2>1, <3>0, <4>2, BaseIs
    <3>2. DIRECT_BLOCKS =< Size(f)
      BY <1>2, <1>3, <3>1, SizesAre
    <3> QED
      BY <1>2, <1>4, <2>1, <3>1, <3>2, SizesAre DEF Smaller
  <2>2. CASE /\ Passed(f) \in 0..INDIRECT_BLOCKS /\ idx[f] = DIRECT_BLOCKS + Passed(f)
             /\ Freed(f) = Smaller(Size(f), Base(Passed(f)))
    BY <1>4, <2>2, SizesAre
  <2> QED
    BY <1>1, <2>1, <2>2, ShrinkProgress DEF Progress
<1>6. p < INDIRECT_BLOCKS /\ p < Tables_left(f) /\ p + 1 \in 0..INDIRECT_BLOCKS
  <2>1. PICK i, d, e, x, y : i = idx[f] /\ d = DIRECT_BLOCKS /\ e = INDIRECT_BLOCKS /\ x = tables[f]
                             /\ y = Tables_left(f)
    OBVIOUS
  <2>2. i \in Nat /\ d \in Nat /\ e \in Nat /\ x \in Nat /\ y \in Nat /\ x > 0
        /\ i \in d..(d + e - 1) /\ i = d + p /\ p = y - x /\ p \in Nat
    BY <1>1, <1>2, <1>3, <1>4, <1>5, <2>1, SizesAre
  <2>3. p < e /\ p < y /\ p + 1 \in 0..e
    BY <2>2
  <2> QED
    BY <2>1, <2>3
<1>7. s = Leaf(f)[p]
  <2>1. p \in Leaves
    BY <1>5, <1>6, SizesAre
  <2> QED
    BY <1>4, <1>5, <1>6, <2>1 DEF Leaf
<1>8. PICK S : S = {table[s][i] : i \in 0..(n - 1)} \cup {s}
  OBVIOUS
<1>9. /\ n \in Nat /\ n =< left[f] /\ Freed(f) + n = Smaller(Size(f), Base(p + 1))
      /\ S = Frees(data[f], Freed(f), Freed(f) + n, Leaf(f), Live(f), p, p + 1)
  BY <1>1, <1>4, <1>5, <1>6, <1>7, <1>8, FirstLeaf
<1>10. FreesBy(f, S, n, 1)
  BY <1>4, <1>8 DEF DeallocIndirect, Dealloc, FreesBy, history
<1>11. /\ idx'[f] = idx[f] + 1 /\ pc'[f] = "dealloc" /\ inode' = inode /\ tables'[f] = tables[f] - 1
  BY <1>1 DEF DeallocIndirect, IndexIInv, IndexTypes
<1>12. Passed(f)' = p + 1
  <2>1. Passed(f)' = Tables_left(f) - (tables[f] - 1)
    BY <1>11 DEF Passed, Tables_left, bytes_to_indirect_sectors
  <2> QED
    BY <1>2, <1>3, <1>4, <2>1
<1>13. Freed(f)' = Freed(f) + n /\ Size(f)' = Size(f) => Progress(f)'
  <2>1. idx'[f] = DIRECT_BLOCKS + (p + 1)
    BY <1>5, <1>11, SizesAre
  <2>2. tables'[f] >= 0
    BY <1>1, <1>2, <1>11
  <2>3. Smaller(Size(f), Base(Passed(f)))' = Smaller(Size(f)', Base(p + 1))
    BY <1>12 DEF Smaller, Base
  <2> QED
    BY <1>6, <1>9, <1>11, <1>12, <2>1, <2>2, <2>3 DEF Progress
<1>14. 1 =< tables[f] /\ 1 \in Nat /\ p + 1 \in Int /\ Passed(f) =< p + 1
  BY <1>1, <1>2, <1>4, <1>5
<1>15. S = Frees(data[f], Freed(f), Freed(f) + n, Leaf(f), Live(f), Passed(f), p + 1)
  BY <1>4, <1>9
<1> QED
  BY <1>1, <1>9, <1>10, <1>12, <1>13, <1>14, <1>15, FreesStep

\* ... the next one below the outer block.
LEMMA DeallocInnerStep ==
  ASSUME IndexIInv, NEW f \in File, DeallocInner(f)
  PROVE  Step(f)
<1>1. pc[f] = "dealloc outer" /\ idx[f] < tables[f] /\ Deallocs(f)
  BY DEF DeallocInner, Deallocs
<1>2. idx[f] \in Nat /\ left[f] \in Nat /\ tables[f] \in Nat /\ Size(f) \in Nat
  BY KnownIs
<1>3. Freed(f) + left[f] = Size(f) /\ Passed(f) = INDIRECT_BLOCKS + idx[f] /\ Tables_left(f) \in Nat
  BY <1>1, ShrinkKnown
<1>4. PICK p, s, n : p = Passed(f) /\ s = block[f][idx[f]] /\ n = Smaller(left[f], INDIRECT_BLOCK_PTRS)
  OBVIOUS
<1>5. /\ tables[f] = Tables_left(f) - INDIRECT_BLOCKS /\ HasOuter(f)
      /\ Freed(f) = Smaller(Size(f), Base(p))
  BY <1>1, <1>4, ShrinkProgress DEF Progress
<1>6. p \in Nat /\ p >= INDIRECT_BLOCKS /\ p < Tables_left(f) /\ p - INDIRECT_BLOCKS = idx[f]
      /\ p + 1 \in Nat /\ idx[f] + 1 \in 0..tables[f]
  <2>1. PICK i, e, x, y : i = idx[f] /\ e = INDIRECT_BLOCKS /\ x = tables[f] /\ y = Tables_left(f)
    OBVIOUS
  <2>2. i \in Nat /\ e \in Nat /\ x \in Nat /\ y \in Nat /\ i < x /\ x = y - e /\ p = e + i
    BY <1>1, <1>2, <1>3, <1>4, <1>5, <2>1, SizesAre
  <2>3. p \in Nat /\ p >= e /\ p < y /\ p - e = i /\ p + 1 \in Nat /\ i + 1 \in 0..x
    BY <2>2
  <2> QED
    BY <2>1, <2>3
<1>7. s = Leaf(f)[p]
  <2>1. p \in Leaves
    BY <1>1, <1>6, SizeSays, LiveLeaves
  <2>2. Outer(f) = block[f]
    BY <1>1 DEF Outer
  <2>3. ~(p < INDIRECT_BLOCKS)
    BY <1>6, SizesAre
  <2> QED
    BY <1>4, <1>6, <2>1, <2>2, <2>3 DEF Leaf
<1>8. PICK S : S = {table[s][i] : i \in 0..(n - 1)} \cup {s}
  OBVIOUS
<1>9. /\ n \in Nat /\ n =< left[f] /\ Freed(f) + n = Smaller(Size(f), Base(p + 1))
      /\ S = Frees(data[f], Freed(f), Freed(f) + n, Leaf(f), Live(f), p, p + 1)
  <2>1. Deallocs(f) /\ p \in Nat /\ p = Passed(f) /\ p < Tables_left(f)
        /\ Freed(f) = Smaller(Size(f), Base(p))
    BY <1>1, <1>4, <1>5, <1>6
  <2> QED
    BY <1>4, <1>7, <1>8, <2>1, FirstLeaf
<1>10. FreesBy(f, S, n, 0)
  <2>1. tables' = [tables EXCEPT ![f] = @ - 0]
    <3>1. tables' = tables /\ tables \in [File -> Nat]
      BY DEF DeallocInner, IndexIInv, IndexTypes
    <3> QED
      BY <1>2, <3>1
  <2> QED
    BY <1>4, <1>8, <2>1 DEF DeallocInner, Dealloc, FreesBy, history
<1>11. idx'[f] = idx[f] + 1 /\ pc'[f] = "dealloc outer" /\ inode' = inode /\ tables' = tables
  BY <1>1 DEF DeallocInner, IndexIInv, IndexTypes
<1>12. Passed(f)' = p + 1
  <2>1. Passed(f)' = INDIRECT_BLOCKS + (idx[f] + 1)
    BY <1>11 DEF Passed
  <2> QED
    BY <1>2, <1>3, <1>4, <2>1, SizesAre
<1>13. Freed(f)' = Freed(f) + n /\ Size(f)' = Size(f) /\ (HasOuter(f)' <=> HasOuter(f)) => Progress(f)'
  <2>1. idx'[f] \in 0..tables'[f]
    BY <1>6, <1>11
  <2>2. tables'[f] = Tables_left(f)' - INDIRECT_BLOCKS
    BY <1>5, <1>11 DEF Tables_left, bytes_to_indirect_sectors
  <2>3. Smaller(Size(f), Base(Passed(f)))' = Smaller(Size(f)', Base(p + 1))
    BY <1>12 DEF Smaller, Base
  <2> QED
    BY <1>5, <1>9, <1>11, <2>1, <2>2, <2>3 DEF Progress
<1>14. 0 =< tables[f] /\ 0 \in Nat /\ p + 1 \in Int /\ Passed(f) =< p + 1
  <2>1. p =< p + 1 /\ p + 1 \in Int
    BY <1>6
  <2> QED
    BY <1>2, <1>4, <2>1
<1>15. S = Frees(data[f], Freed(f), Freed(f) + n, Leaf(f), Live(f), Passed(f), p + 1)
  BY <1>4, <1>9
<1> QED
  BY <1>1, <1>9, <1>10, <1>12, <1>13, <1>14, <1>15, FreesStep

\* Both loops of inode_dealloc() are over: all is released, or what the outer block leads to
\* is left.
LEMMA WalkedIs ==
  ASSUME IndexIInv, NEW f \in File, Walked(f)
  PROVE  /\ pc[f] = "dealloc" /\ Deallocs(f)
         /\ HasOuter(f) => /\ Passed(f) = INDIRECT_BLOCKS /\ idx[f] = DOUBLE_INDIRECT_INDEX
                           /\ tables[f] = Tables_left(f) - INDIRECT_BLOCKS
                           /\ Freed(f) = Smaller(Size(f), Base(INDIRECT_BLOCKS))
         /\ ~HasOuter(f) => Freed(f) = Size(f) /\ Passed(f) >= Tables_left(f)
<1>1. pc[f] = "dealloc" /\ Deallocs(f)
  BY DEF Walked, Deallocs
<1>2. PICK i, D, I, x, q, z, fr, lf, p, b :
        /\ i = idx[f] /\ D = DIRECT_BLOCKS /\ I = INDIRECT_BLOCKS /\ x = tables[f] /\ q = Tables_left(f)
        /\ z = Size(f) /\ fr = Freed(f) /\ lf = left[f] /\ p = Passed(f) /\ b = Base(I)
  OBVIOUS
<1>3. i \in Nat /\ D \in Nat /\ I \in Nat /\ x \in Nat /\ q \in Nat /\ z \in Nat /\ lf \in Nat
      /\ fr \in Nat /\ p \in Int
  BY <1>1, <1>2, SizesAre, KnownIs, ShrinkKnown
<1>4. fr + lf = z /\ p = q - x /\ DOUBLE_INDIRECT_INDEX = D + I
  BY <1>1, <1>2, SizesAre, ShrinkKnown
<1>5. b \in Nat /\ b >= D /\ Base(0) = D
  BY <1>2, <1>3, BaseIs
<1>6. (HasOuter(f) <=> b < z) /\ (HasOuter(f) <=> I < q) /\ (0 < q <=> D < z) /\ ~(Base(q) < z)
  <2>1. \A t \in Nat : t < q <=> Base(t) < z
    BY <1>1, <1>2, SizeSays
  <2>2. HasOuter(f) <=> I < q
    BY <1>1, <1>2, SizeSays
  <2> QED
    BY <1>2, <1>3, <1>5, <2>1, <2>2
<1>7. (lf = 0 \/ i >= D) /\ (x = 0 \/ i = D + I)
  BY <1>2, <1>4 DEF Walked
<1>8. CASE i =< D /\ p = 0 /\ fr = i
  <2>1. CASE HasOuter(f)
    <3>1. i = D /\ I = 0 /\ x = q
      BY <1>3, <1>4, <1>5, <1>6, <1>7, <1>8, <2>1
    <3>2. fr = Smaller(z, b)
      BY <1>2, <1>3, <1>5, <1>6, <1>8, <2>1, <3>1 DEF Smaller
    <3> QED
      BY <1>1, <1>2, <1>3, <1>4, <1>8, <2>1, <3>1, <3>2
  <2>2. CASE ~HasOuter(f)
    <3>1. fr = z /\ p >= q
      BY <1>3, <1>4, <1>5, <1>6, <1>7, <1>8, <2>2
    <3> QED
      BY <1>1, <1>2, <2>2, <3>1
  <2> QED
    BY <2>1, <2>2
<1>9. CASE p \in 0..I /\ i = D + p /\ fr = Smaller(z, Base(p))
  <2>1. CASE HasOuter(f)
    <3>1. p = I /\ x = q - I
      BY <1>3, <1>4, <1>6, <1>7, <1>9, <2>1
    <3> QED
      BY <1>1, <1>2, <1>4, <1>9, <2>1, <3>1
  <2>2. CASE ~HasOuter(f)
    <3>1. p = q
      BY <1>3, <1>4, <1>6, <1>7, <1>9, <2>2
    <3>2. fr = z
      <4>1. Base(q) \in Nat
        BY <1>3, BaseIs
      <4> QED
        BY <1>3, <1>6, <1>9, <3>1, <4>1 DEF Smaller
    <3> QED
      BY <1>1, <1>2, <1>3, <2>2, <3>1, <3>2
  <2> QED
    BY <2>1, <2>2
<1> QED
  BY <1>1, <1>2, <1>8, <1>9, ShrinkProgress DEF Progress

\* inode_dealloc_double_indirect_block() reads the outer block.
LEMMA DeallocOuterStep ==
  ASSUME IndexIInv, NEW f \in File, DeallocOuter(f)
  PROVE  Step(f)
<1>1. Walked(f) /\ HasOuter(f) /\ Deallocs(f) /\ pc[f] = "dealloc"
  <2>1. Walked(f) /\ bytes_to_double_indirect_sector(inode[f].length)
    BY DEF DeallocOuter
  <2> QED
    BY <2>1, WalkedIs, SizeSays
<1>2. /\ Passed(f) = INDIRECT_BLOCKS /\ idx[f] = DOUBLE_INDIRECT_INDEX
      /\ tables[f] = Tables_left(f) - INDIRECT_BLOCKS
      /\ Freed(f) = Smaller(Size(f), Base(INDIRECT_BLOCKS))
  BY <1>1, WalkedIs
<1>3. IndexTypes /\ pc \in [File -> Labels] /\ idx \in [File -> Nat] /\ block \in [File -> Pointers]
      /\ inode[f] \in Inode
  BY DEF IndexIInv, IndexTypes
<1>4. Whole(f) /\ left[f] =< Size(f) /\ Size(f) = inode[f].length /\ tables[f] \in Nat
  BY <1>1, ShrinkKnown, SizeSays, KnownIs
<1>5. PICK o : o = OuterAt(f)
  OBVIOUS
<1>6. o \in Sector /\ table[o] \in Pointers
  <2>1. o \in index[f] /\ index[f] \subseteq Sector
    BY <1>1, <1>4, <1>5, WholeHas, KnownIs
  <2> QED
    BY <2>1, KnownIs
<1>7. /\ block' = [block EXCEPT ![f] = table[o]] /\ idx' = [idx EXCEPT ![f] = 0]
      /\ pc' = [pc EXCEPT ![f] = "dealloc outer"]
      /\ UNCHANGED <<calls, marked, table, named, inode, left, tables, goal, inner_block, data, index,
                     lost, full, fault>>
  BY <1>2, <1>5 DEF DeallocOuter, Goto, disk, history, OuterAt
<1>8. pc'[f] = "dealloc outer" /\ pc' \in [File -> Labels] /\ block'[f] = table[o] /\ idx'[f] = 0
      /\ Deallocs(f)'
  BY <1>3, <1>7 DEF Labels, Deallocs
<1>9. Outer(f)' = Outer(f)
  BY <1>1, <1>5, <1>8 DEF Outer, OuterAt
<1>10. Passed(f)' = INDIRECT_BLOCKS /\ INDIRECT_BLOCKS \in Int
  <2>1. Passed(f)' = INDIRECT_BLOCKS + 0
    BY <1>8 DEF Passed
  <2> QED
    BY <2>1, SizesAre
<1>11. /\ Whole(f)' /\ Size(f)' = Size(f) /\ Live(f)' = Live(f) /\ Leaf(f)' = Leaf(f)
       /\ (HasOuter(f)' <=> HasOuter(f)) /\ OuterAt(f)' = OuterAt(f)
  <2>1. Passed(f) \in Int /\ Passed(f)' \in Int /\ Passed(f) =< Passed(f)'
    BY <1>2, <1>10
  <2>2. UNCHANGED <<inode, data, index>> /\ table' = table
    BY <1>7
  <2> QED
    BY <1>1, <1>4, <1>8, <1>9, <2>1, <2>2, ShrinkWhole
<1>12. Freed(f)' = Freed(f)
  BY <1>7, <1>11 DEF Freed
<1>13. FileInv(f)'
  <2>1. tables'[f] = Tables_left(f)' - INDIRECT_BLOCKS
    BY <1>2, <1>7 DEF Tables_left, bytes_to_indirect_sectors
  <2>2. Smaller(Size(f), Base(Passed(f)))' = Smaller(Size(f)', Base(INDIRECT_BLOCKS))
    BY <1>10 DEF Smaller, Base
  <2>3. idx'[f] \in 0..tables'[f]
    <3>1. PICK x : x = tables[f]
      OBVIOUS
    <3>2. x \in Nat /\ 0 \in 0..x
      BY <1>4, <3>1
    <3> QED
      BY <1>7, <1>8, <3>1, <3>2
  <2>4. Progress(f)'
    BY <1>1, <1>2, <1>8, <1>11, <1>12, <2>1, <2>2, <2>3 DEF Progress
  <2> QED
    BY <1>4, <1>7, <1>8, <1>11, <2>4, ShrinksBy
<1>14. Own(f)' = Own(f)
  <2>1. Rest(f)' = Rest(f)
    <3>1. PICK n, d, m, l, live, p, o1 : n = Size(f) /\ d = data[f] /\ m = left[f] /\ l = Leaf(f)
            /\ live = Live(f) /\ p = Passed(f) /\ o1 = OuterAt(f)
      OBVIOUS
    <3>2. n = Size(f)' /\ d = data'[f] /\ m = left'[f] /\ l = Leaf(f)'
            /\ live = Live(f)' /\ p = Passed(f)' /\ o1 = OuterAt(f)'
      BY <1>2, <1>7, <1>10, <1>11, <3>1
    <3> QED
      BY <1>11, <3>1, <3>2 DEF Rest, Tables
  <2> QED
    BY <1>1, <1>8, <2>1 DEF Own
<1>15. Moves(f)
  BY <1>7, <1>14 DEF Moves, Keeps
<1>16. Alone(f)
  BY <1>3, <1>7 DEF Alone, Same, IndexIInv
<1>17. IndexTypes'
  <2>1. block' \in [File -> Pointers] /\ idx' \in [File -> Nat]
    BY <1>3, <1>6, <1>7
  <2> QED
    BY <1>3, <1>7, <1>8, <2>1
       DEF IndexTypes, Inode, Capacity, DOUBLE_INDIRECT_INDEX, Pointers, Sector, Slot, Labels
<1> QED
  BY <1>13, <1>15, <1>16, <1>17 DEF Step

\* Only the outer block is left, if there is one.
LEMMA OuterLeft ==
  ASSUME IndexIInv, NEW f \in File, Deallocs(f), Freed(f) = Size(f), Passed(f) >= Tables_left(f)
  PROVE  Own(f) = IF HasOuter(f) THEN {OuterAt(f)} ELSE {}
<1>1. PICK z, p, q, live, l, d : z = Size(f) /\ p = Passed(f) /\ q = Tables_left(f) /\ live = Live(f)
        /\ l = Leaf(f) /\ d = data[f]
  OBVIOUS
<1>2. z \in Nat /\ p \in Int /\ q \in Nat /\ left[f] \in Nat /\ Freed(f) + left[f] = z /\ p >= q
  BY <1>1, KnownIs, ShrinkKnown
<1>3. left[f] = 0
  BY <1>1, <1>2
<1>4. {t \in live : t >= p} = {}
  <2>1. \A t \in live : t \in Nat /\ t < q
    BY <1>1, LiveLeaves, SizesAre, SizeSays
  <2> QED
    BY <1>2, <2>1
<1>5. {d[i] : i \in (z - left[f] + 1)..z} = {}
  <2>1. (z - left[f] + 1)..z = {}
    BY <1>2, <1>3
  <2> QED
    BY <2>1
<1> QED
  BY <1>1, <1>4, <1>5 DEF Own, Rest, Tables

\* inode_dealloc() ends.
LEMMA DeallocEndsStep ==
  ASSUME IndexIInv, NEW f \in File, DeallocEnds(f)
  PROVE  Step(f)
<1>1. IndexTypes /\ pc \in [File -> Labels] /\ inode \in [File -> Inode] /\ data \in [File -> Seq(Sector)]
      /\ index \in [File -> SUBSET Sector] /\ left \in [File -> Nat] /\ tables \in [File -> Nat]
      /\ idx \in [File -> Nat] /\ block \in [File -> Pointers]
  BY DEF IndexIInv, IndexTypes
<1>2. /\ inode' = [inode EXCEPT ![f] = NewInode]
      /\ left' = [left EXCEPT ![f] = 0] /\ tables' = [tables EXCEPT ![f] = 0]
      /\ idx' = [idx EXCEPT ![f] = 0] /\ block' = [block EXCEPT ![f] = Garbage]
      /\ data' = [data EXCEPT ![f] = <<>>] /\ index' = [index EXCEPT ![f] = {}]
      /\ pc' = [pc EXCEPT ![f] = "none"]
      /\ UNCHANGED <<calls, named, goal, inner_block, lost, full, fault>>
  BY DEF DeallocEnds, Goto
<1>3. pc'[f] = "none" /\ pc' \in [File -> Labels] /\ inode'[f] = NewInode /\ data'[f] = <<>> /\ index'[f] = {}
      /\ left'[f] = 0 /\ idx'[f] = 0 /\ tables'[f] = 0
  BY <1>1, <1>2 DEF Labels
<1>4. FileInv(f)' /\ Own(f)' = {}
  BY <1>3, AbsentBy
<1>5. /\ \/ marked' = marked /\ table' = table /\ Own(f) = {}
         \/ \E S : Release(S) /\ Own(f) = S
  <2>1. CASE pc[f] = "dealloc outer" /\ idx[f] = tables[f] /\ Release({OuterAt(f)})
    <3>1. Deallocs(f)
      BY <2>1 DEF Deallocs
    <3>2. PICK p, q, z, e, i : p = Passed(f) /\ q = Tables_left(f) /\ z = Size(f) /\ e = INDIRECT_BLOCKS
            /\ i = idx[f]
      OBVIOUS
    <3>3. p = e + i /\ i = q - e /\ HasOuter(f) /\ Freed(f) = Smaller(z, Base(p))
      BY <2>1, <3>1, <3>2, ShrinkProgress, ShrinkKnown DEF Progress
    <3>4. i \in Nat /\ q \in Nat /\ e \in Nat /\ z \in Nat
      BY <3>1, <3>2, KnownIs, SizesAre, ShrinkKnown
    <3>5. p = q
      BY <3>3, <3>4
    <3>6. ~(Base(q) < z)
      <4>1. q < q <=> Base(q) < z
        BY <3>1, <3>2, <3>4, SizeSays
      <4> QED
        BY <3>4, <4>1
    <3>7. Base(q) \in Nat
      BY <3>4, BaseIs
    <3>8. Freed(f) = z
      BY <3>3, <3>4, <3>5, <3>6, <3>7 DEF Smaller
    <3>9. Own(f) = {OuterAt(f)}
      <4>1. Freed(f) = Size(f) /\ Passed(f) >= Tables_left(f)
        BY <3>2, <3>4, <3>5, <3>8
      <4> QED
        BY <3>1, <3>3, <4>1, OuterLeft
    <3> QED
      BY <2>1, <3>9
  <2>2. CASE Walked(f) /\ ~bytes_to_double_indirect_sector(inode[f].length) /\ UNCHANGED <<marked, table>>
    <3>1. Deallocs(f)
      BY <2>2, WalkedIs
    <3>2. ~HasOuter(f)
      BY <2>2, <3>1, SizeSays
    <3>3. Freed(f) = Size(f) /\ Passed(f) >= Tables_left(f)
      BY <2>2, <3>2, WalkedIs
    <3>4. Own(f) = {}
      BY <3>1, <3>2, <3>3, OuterLeft
    <3> QED
      BY <2>2, <3>4
  <2> QED
    BY <2>1, <2>2 DEF DeallocEnds, OuterAt
<1>6. Alone(f)
  <2>1. \A g \in File : g # f => Same(g)
    BY <1>1, <1>2 DEF Same
  <2>2. \A z \in Sector : z \notin Own(f) => table'[z] = table[z]
    BY <1>5, ReleaseTypes
  <2> QED
    BY <1>2, <2>1, <2>2 DEF Alone, IndexIInv
<1>7. Moves(f)
  <2>1. CASE marked' = marked /\ table' = table /\ Own(f) = {}
    BY <1>2, <1>4, <2>1 DEF Moves, Keeps
  <2>2. CASE \E S : Release(S) /\ Own(f) = S
    <3>1. Gives(f, Own(f))
      BY <1>2, <1>4, <2>2 DEF Gives, Release
    <3> QED
      BY <3>1 DEF Moves
  <2> QED
    BY <1>5, <2>1, <2>2
<1>8. IndexTypes'
  <2>1. inode' \in [File -> Inode]'
    <3>1. inode' \in [File -> Inode]
      BY <1>1, <1>2, NewInodeIs
    <3> QED
      BY <3>1 DEF Inode, Capacity, DOUBLE_INDIRECT_INDEX, Sector
  <2>2. data' \in [File -> Seq(Sector)] /\ index' \in [File -> SUBSET Sector]
    <3>1. <<>> \in Seq(Sector)
      OBVIOUS
    <3> QED
      BY <1>1, <1>2, <3>1
  <2>3. marked' \in SUBSET Sector /\ table' \in [Sector -> Pointers]
    BY <1>1, <1>5, ReleaseTypes DEF IndexTypes
  <2>4. block' \in [File -> Pointers]
    BY <1>1, <1>2, GarbageIs
  <2>5. /\ left' \in [File -> Nat] /\ tables' \in [File -> Nat] /\ idx' \in [File -> Nat]
        /\ \A g \in File : left'[g] =< MaxLength[g]
    <3>1. /\ left' \in [File -> Nat] /\ tables' \in [File -> Nat] /\ idx' \in [File -> Nat]
      BY <1>1, <1>2
    <3>2. \A g \in File : g # f => left'[g] = left[g]
      BY <1>1, <1>2
    <3>3. MaxLength[f] \in Nat /\ left'[f] =< MaxLength[f]
      BY <1>3, IndexAssumption
    <3> QED
      BY <1>1, <3>1, <3>2, <3>3 DEF IndexTypes
  <2> QED
    BY <1>1, <1>2, <1>3, <2>1, <2>2, <2>3, <2>4, <2>5 DEF IndexTypes, Pointers, Sector, Slot, Labels
<1> QED
  BY <1>4, <1>6, <1>7, <1>8 DEF Step

-----------------------------------------------------------------------------
(* The invariant holds. *)

\* At the start there are no files.
LEMMA IndexInitInv ==
  ASSUME IndexInit
  PROVE  IndexIInv
<1>1. IndexTypes
  <2>1. marked \in SUBSET Sector /\ table \in [Sector -> Pointers]
    BY SectorsAre, GarbageIs DEF IndexInit, Reserved
  <2>2. inode \in [File -> Inode] /\ block \in [File -> Pointers] /\ inner_block \in [File -> Pointers]
    BY NewInodeIs, GarbageIs DEF IndexInit
  <2>3. calls \in [File -> Nat] /\ MaxLength \in [File -> Nat]
    BY IndexAssumption DEF IndexInit
  <2>4. \A f \in File : left[f] =< MaxLength[f] /\ goal[f] =< MaxLength[f]
    BY <2>3 DEF IndexInit
  <2>5. data \in [File -> Seq(Sector)]
    <3>1. <<>> \in Seq(Sector)
      OBVIOUS
    <3> QED
      BY <3>1 DEF IndexInit
  <2> QED
    BY <2>1, <2>2, <2>3, <2>4, <2>5 DEF IndexInit, IndexTypes, Labels
<1>2. ASSUME NEW f \in File PROVE FileInv(f) /\ Own(f) = {}
  <2>1. pc[f] = "none" /\ data[f] = <<>> /\ index[f] = {} /\ inode[f] = NewInode /\ left[f] = 0
        /\ idx[f] = 0 /\ tables[f] = 0
    BY DEF IndexInit
  <2>2. Range(<<>>) = {}
    BY DEF Range
  <2> QED
    BY <2>1, <2>2
       DEF FileInv, Growing, Grows, Standing, Stands, Shrinking, Deallocs, Absent, Idle, Own, Range
<1>3. OwnInv
  <2>1. marked = Reserved /\ lost = {}
    BY DEF IndexInit, Reserved
  <2> QED
    BY <1>2, <2>1 DEF OwnInv
<1>4. fault = FALSE
  BY DEF IndexInit
<1> QED
  BY <1>1, <1>2, <1>3, <1>4 DEF IndexIInv

\* Every step keeps the invariant.
LEMMA IndexNextInv ==
  ASSUME IndexIInv, [IndexNext]_index_vars
  PROVE  IndexIInv'
<1>1. ASSUME NEW f \in File, FileStep(f) PROVE IndexIInv'
  <2>1. Step(f)
    <3>1. CASE \E n \in 0..MaxLength[f] : Create(f, n) \/ Expand(f, n)
      BY <3>1, CreateStep, ExpandStepOf
    <3>2. CASE ExpandStep(f)
      BY <3>2, AddSectorStep, AddNothingStep, IndirectStep, DoubleIndirectStep, LevelTwoStep,
         IndirectEndsStep, LevelTwoEndsStep, DoubleIndirectEndsStep, StoresElsewhereStep, ExpandedStep
         DEF ExpandStep
    <3>3. CASE Add(f) \/ CreateFails(f) \/ Remove(f)
      BY <3>3, AddStep, CreateFailsStep, RemoveStep
    <3>4. CASE DeallocStep(f)
      BY <3>4, DeallocDirectStep, DeallocIndirectStep, DeallocOuterStep, DeallocInnerStep,
         DeallocEndsStep DEF DeallocStep
    <3> QED
      BY <1>1, <3>1, <3>2, <3>3, <3>4 DEF FileStep
  <2> QED
    BY <2>1, StepKeeps DEF Step
<1>2. CASE UNCHANGED index_vars
  <2>1. \A g \in File : Same(g) /\ (full => full')
    BY <1>2 DEF index_vars, Same
  <2>2. \A g \in File : FileInv(g)' /\ Own(g)' = Own(g)
    <3> TAKE g \in File
    <3>1. FileInv(g) /\ Same(g) /\ (full => full') /\ \A s \in Own(g) : table'[s] = table[s]
      BY <1>2, <2>1 DEF IndexIInv, index_vars
    <3> QED
      BY <3>1, OthersKeep
  <2>3. IndexTypes'
    BY <1>2 DEF IndexIInv, IndexTypes, index_vars, Inode, Capacity, DOUBLE_INDIRECT_INDEX, Pointers,
       Sector, Slot, Labels
  <2>4. OwnInv'
    BY <1>2, <2>2 DEF IndexIInv, OwnInv, index_vars, Reserved
  <2> QED
    BY <1>2, <2>2, <2>3, <2>4 DEF IndexIInv, index_vars
<1> QED
  BY <1>1, <1>2 DEF IndexNext

-----------------------------------------------------------------------------
(* What it says. *)

\* The free map and the files.
LEMMA AccountedBy == ASSUME IndexIInv PROVE Accounted
<1>1. IndexTypes
  BY DEF IndexIInv
<1>2. IndexTypeOK
  <2>1. \A f \in File :
          /\ inode[f].sector \in Sector \cup {NULL} /\ inode[f].length \in 0..Capacity
          /\ inode[f].direct_index \in 0..DOUBLE_INDIRECT_INDEX
          /\ inode[f].indirect_index \in 0..INDIRECT_BLOCK_PTRS
          /\ inode[f].double_indirect_index \in 0..INDIRECT_BLOCK_PTRS
          /\ inode[f].ptr \in [0..DOUBLE_INDIRECT_INDEX -> Sector]
    BY <1>1 DEF IndexTypes, Inode
  <2>2. \A f \in File :
          /\ left[f] \in 0..MaxLength[f] /\ goal[f] \in 0..MaxLength[f]
          /\ idx[f] \in Nat /\ tables[f] \in Nat /\ index[f] \in SUBSET Sector
    BY <1>1, IndexAssumption DEF IndexTypes
  <2> QED
    BY <1>1, <2>1, <2>2 DEF IndexTypeOK, IndexTypes, Labels, Pointers
<1>3. ASSUME Deallocating = {}
      PROVE  marked = 0..(RESERVED - 1) \cup lost \cup UNION {Range(data[f]) \cup index[f] : f \in File}
  <2>1. \A f \in File : Own(f) = Range(data[f]) \cup index[f]
    BY <1>3 DEF Deallocating, Deallocs, Own
  <2> QED
    BY <2>1 DEF IndexIInv, OwnInv, Reserved
<1> QED
  BY <1>2, <1>3 DEF Accounted

\* byte_to_sector() is at block i of a file.
LEMMA LeadsTo ==
  ASSUME IndexIInv, NEW f \in File, pc[f] = "open", NEW i \in Nat, i < Size(f)
  PROVE  byte_to_sector(f, i) = data[f][i + 1]
<1> DEFINE D == DIRECT_BLOCKS
           I == INDIRECT_BLOCKS
           P == INDIRECT_BLOCK_PTRS
<1>1. Stands(f) /\ ~Deallocs(f) /\ Passed(f) = 0
  BY DEF Stands, Deallocs, Passed
<1>2. Whole(f)
  BY <1>1, StandKnown
<1>3. PICK z, d, ptr, c, l, live, j : z = Size(f) /\ d = data[f] /\ ptr = inode[f].ptr /\ c = Content(f)
        /\ l = Leaf(f) /\ live = Live(f) /\ j = i - D
  OBVIOUS
<1>4. PICK k : k = j - I * P
  OBVIOUS
<1>5. D \in Nat /\ I \in Nat /\ P \in Nat /\ P > 0 /\ z \in Nat /\ i < z
  BY <1>3, SizesAre, KnownIs
<1>6. I * P \in Nat
  BY <1>5
<1>7. j \in Int /\ k \in Int
  BY <1>3, <1>4, <1>5, <1>6
<1>8. byte_to_sector(f, i) =
        IF j < 0 THEN ptr[i]
        ELSE IF k < 0 THEN table[ptr[D + j \div P]][j % P]
        ELSE table[table[ptr[DOUBLE_INDIRECT_INDEX]][k \div P]][k % P]
  BY <1>3, <1>4 DEF byte_to_sector
<1>9. Leads(z, d, ptr, c, live, 0)
  BY <1>1, <1>2, <1>3 DEF Whole
<1>10. ASSUME NEW t \in Nat, NEW r \in Slot, Base(t) + r = i
       PROVE  t \in live /\ t \in Leaves /\ table[l[t]][r] = d[i + 1]
  <2>1. Base(t) \in Nat /\ r \in Nat
    BY <1>10, BaseIs, SizesAre
  <2>2. Base(t) < z
    BY <1>5, <1>10, <2>1
  <2>3. t \in live
    BY <1>1, <1>3, <2>2, SizeSays
  <2>4. t \in Leaves
    BY <1>3, <2>3, LiveLeaves
  <2>5. ~InWork(f, t)
    BY DEF InWork
  <2>6. c[t] = table[l[t]]
    BY <1>3, <2>4, <2>5, ContentOut
  <2>7. t >= 0 /\ Base(t) + r < z
    BY <1>5, <1>10
  <2>8. c[t][r] = d[Base(t) + r + 1]
    BY <1>9, <1>10, <2>3, <2>7 DEF Leads
  <2> QED
    BY <1>10, <2>3, <2>4, <2>6, <2>8
<1>11. CASE j < 0
  <2>1. i \in 0..(D - 1)
    BY <1>3, <1>5, <1>11
  <2>2. ptr[i] = d[i + 1]
    BY <1>5, <1>9, <2>1 DEF Leads
  <2> QED
    BY <1>3, <1>8, <1>11, <2>2
<1>12. CASE ~(j < 0) /\ k < 0
  <2>1. PICK t, r : t = j \div P /\ r = j % P
    OBVIOUS
  <2>2. j \in Nat
    BY <1>7, <1>12
  <2>3. t \in Nat /\ r \in Slot /\ j = t * P + r
    BY <2>1, <2>2, DivModIs
  <2>4. t * P \in Nat /\ r \in Nat
    BY <1>5, <2>3, SizesAre
  <2>5. Base(t) + r = i
    BY <1>3, <1>5, <2>3, <2>4 DEF Base
  <2>6. t < I
    <3>1. Base(t) < Base(I)
      BY <1>3, <1>4, <1>5, <1>6, <1>12, <2>3, <2>4 DEF Base
    <3>2. I < t => Base(I) + P =< Base(t)
      BY <1>5, <2>3, BaseLess
    <3>3. Base(t) \in Nat /\ Base(I) \in Nat
      BY <1>5, <2>3, BaseIs
    <3> QED
      BY <1>5, <2>3, <3>1, <3>2, <3>3
  <2>7. t \in Leaves /\ table[l[t]][r] = d[i + 1]
    BY <1>10, <2>3, <2>5
  <2>8. l[t] = ptr[D + t]
    BY <1>3, <2>6, <2>7 DEF Leaf
  <2> QED
    BY <1>3, <1>8, <1>12, <2>1, <2>7, <2>8
<1>13. CASE ~(j < 0) /\ ~(k < 0)
  <2>1. PICK u, r : u = k \div P /\ r = k % P
    OBVIOUS
  <2>2. k \in Nat
    BY <1>7, <1>13
  <2>3. u \in Nat /\ r \in Slot /\ k = u * P + r
    BY <2>1, <2>2, DivModIs
  <2>4. PICK t : t = I + u
    OBVIOUS
  <2>5. t \in Nat /\ ~(t < I) /\ t - I = u
    BY <1>5, <2>3, <2>4
  <2>6. t * P = I * P + u * P /\ u * P \in Nat /\ r \in Nat
    BY <1>5, <2>3, <2>4, SizesAre
  <2>7. Base(t) + r = i
    BY <1>3, <1>4, <1>5, <1>6, <2>3, <2>6 DEF Base
  <2>8. t \in live /\ t \in Leaves /\ table[l[t]][r] = d[i + 1]
    BY <1>10, <2>3, <2>5, <2>7
  <2>9. HasOuter(f)
    <3>1. t < Tables_left(f) /\ Tables_left(f) \in Nat
      BY <1>1, <1>3, <2>5, <2>8, SizeSays
    <3>2. I < Tables_left(f)
      BY <1>5, <2>5, <3>1
    <3> QED
      BY <1>1, <3>2, SizeSays
  <2>10. Outer(f) = table[ptr[DOUBLE_INDIRECT_INDEX]]
    BY <1>3, <2>9 DEF Outer
  <2>11. l[t] = table[ptr[DOUBLE_INDIRECT_INDEX]][u]
    BY <1>3, <2>5, <2>8, <2>10 DEF Leaf
  <2> QED
    BY <1>3, <1>8, <1>13, <2>1, <2>8, <2>11
<1> QED
  BY <1>11, <1>12, <1>13

\* Every block of a file has its sector.
LEMMA MappedBy == ASSUME IndexIInv PROVE Mapped
<1>1. ASSUME NEW f \in File, pc[f] = "open"
      PROVE  /\ Len(data[f]) = inode[f].length
             /\ \A i \in 0..(inode[f].length - 1) :
                  /\ byte_to_sector(f, i) = data[f][i + 1]
                  /\ data[f][i + 1] \in marked \ index[f]
                  /\ \A j \in 0..(i - 1) : data[f][j + 1] # data[f][i + 1]
                  /\ \A g \in (File \ {f}) \ Deallocating :
                       data[f][i + 1] \notin Range(data[g]) \cup index[g]
  <2>1. Stands(f) /\ ~Deallocs(f)
    BY <1>1 DEF Stands, Deallocs
  <2>2. Whole(f) /\ Size(f) = inode[f].length /\ Len(data[f]) = inode[f].length
    BY <2>1, StandKnown DEF Size
  <2>3. PICK z, d, T : z = Size(f) /\ d = data[f] /\ T = Tables(Leaf(f), Live(f), OuterAt(f), HasOuter(f))
    OBVIOUS
  <2>4. z \in Nat /\ d \in Seq(Sector) /\ z = Len(d)
    BY <2>3, KnownIs DEF Size
  <2>5. /\ \A i, j \in 1..z : d[i] = d[j] => i = j
        /\ \A i \in 1..z : d[i] \notin T \cup {inode[f].sector}
        /\ index[f] = T \cup {inode[f].sector}
    BY <2>1, <2>2, <2>3 DEF Whole, Apart
  <2>6. Own(f) \subseteq marked /\ Own(f) = Range(d) \cup index[f]
    BY <2>1, <2>3, OwnSectors, IndexOwn
  <2>7. \A g \in (File \ {f}) \ Deallocating : Own(g) = Range(data[g]) \cup index[g] /\ Own(g) \cap Own(f) = {}
    BY OwnSectors DEF Own, Deallocs, Deallocating
  <2>8. ASSUME NEW i \in 0..(z - 1)
        PROVE  /\ byte_to_sector(f, i) = data[f][i + 1]
               /\ data[f][i + 1] \in marked \ index[f]
               /\ \A j \in 0..(i - 1) : data[f][j + 1] # data[f][i + 1]
               /\ \A g \in (File \ {f}) \ Deallocating :
                    data[f][i + 1] \notin Range(data[g]) \cup index[g]
    <3>1. i \in Nat /\ i < z /\ i + 1 \in 1..z
      BY <2>4
    <3>2. byte_to_sector(f, i) = d[i + 1]
      BY <1>1, <2>3, <3>1, LeadsTo
    <3>3. d[i + 1] \in Range(d) /\ d[i + 1] \notin index[f]
      BY <2>4, <2>5, <3>1 DEF Range
    <3>4. \A j \in 0..(i - 1) : d[j + 1] # d[i + 1]
      <4> TAKE j \in 0..(i - 1)
      <4>1. j + 1 \in 1..z /\ j + 1 # i + 1
        BY <2>4, <3>1
      <4> QED
        BY <2>5, <3>1, <4>1
    <3>5. d[i + 1] \in Own(f) /\ d[i + 1] \in marked
      BY <2>6, <3>3
    <3> QED
      BY <2>3, <2>7, <3>2, <3>3, <3>4, <3>5
  <2> QED
    BY <2>2, <2>3, <2>8
<1>2. fault => full
  BY DEF IndexIInv
<1> QED
  BY <1>1, <1>2 DEF Mapped

\* For any files, sizes of the index and sectors: the free map marks exactly the sectors
\* that some file uses for its inode, its index or its bytes, and those that a failed
\* filesys_create() left marked.  inode_dealloc() finds by counting every sector that
\* inode_expand() took, whatever the length and however it grew.
THEOREM IndexAccounted == IndexSpec => []Accounted
<1>1. IndexInit => IndexIInv
  BY IndexInitInv
<1>2. IndexIInv /\ [IndexNext]_index_vars => IndexIInv'
  BY IndexNextInv
<1>3. IndexIInv => Accounted
  BY AccountedBy
<1> QED
  BY <1>1, <1>2, <1>3, PTL DEF IndexSpec

\* For any files, sizes of the index and sectors: byte_to_sector() leads from each block of
\* a file to the sector it was given, through three levels and across the places where a
\* table becomes full, and no sector has two uses; a sector that is not the file's is
\* written only when one could not be had.
THEOREM IndexMapped == IndexSpec => []Mapped
<1>1. IndexInit => IndexIInv
  BY IndexInitInv
<1>2. IndexIInv /\ [IndexNext]_index_vars => IndexIInv'
  BY IndexNextInv
<1>3. IndexIInv => Mapped
  BY MappedBy
<1> QED
  BY <1>1, <1>2, <1>3, PTL DEF IndexSpec
===============================================================================
