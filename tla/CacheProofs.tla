----------------------------- MODULE CacheProofs ------------------------------
(*****************************************************************************)
(* The buffer cache holds no sector twice, counts and keeps the entries in   *)
(* use, and loses no write but one that a flush or the halt overtakes, for   *)
(* any number of users, sectors and entries, with write-behind and halt at   *)
(* any time: OneEntryPerSector, PinInv and NoLostWrite.  The system calls    *)
(* that lead there: the descriptors of any number of processes and the       *)
(* open counts of the files agree: FilesCounted.                             *)
(*****************************************************************************)
EXTENDS BufferCache, Descriptors, QueueLemmas, FiniteSetTheorems, FunctionTheorems, TLAPS

\* Where a thread holds filesys_cache_lock.
Locking == {"scan", "load", "flush", "clean", "halt", "halt clean"}
Labels == {"idle", "get", "off"} \cup Locking \cup Using

USE DEF CacheEntry

\* As much of TypeOK as the steps need, and where the list ends.
CacheTypes ==
  /\ disk \in [Sector -> Nat]
  /\ entry \in [Entry -> CacheEntry]
  /\ first \in Nat \ {0} /\ filesys_cache_size \in 0..MAX_FILESYS_CACHE_SIZE
  /\ first =< filesys_cache_size + 1
  /\ pc \in [Thread -> Labels] /\ pc[WriteBack] \in {"idle", "flush", "clean"}
  /\ request \in [User -> Request \cup {NoRequest}]
  /\ at \in [Thread -> Nat]

\* The lock's mutual exclusion.
LockInv == \A t \in Thread : pc[t] \in Locking => owner = t

\* What each thread knows of the entry it is at, and of its request.
AtInv ==
  /\ \A t \in Thread : pc[t] \in {"load", "clean", "halt clean"} => at[t] \in Cached
  /\ \A t \in User : pc[t] \in Using => at[t] \in 1..filesys_cache_size
  /\ \A t \in User : pc[t] \in {"get", "scan", "load"} \cup Using => request[t] \in Request

Users(e) == {t \in User : pc[t] \in Using /\ at[t] = e}

\* A thread that fills an entry has it to itself, and the sector it is about to
\* put there is nowhere else.
FillInv ==
  \A t \in User :
    /\ pc[t] = "load" => Users(at[t]) = {}
    /\ pc[t] \in {"scan", "load"} =>
         \A e \in Cached : entry[e].sector = request[t].sector => pc[t] = "load" /\ at[t] = e

CacheIInv == CacheTypes /\ LockInv /\ AtInv /\ FillInv /\ OneEntryPerSector /\ PinInv

-----------------------------------------------------------------------------
\* The cache starts empty, and nobody is at an entry.
LEMMA CacheInit ==
  ASSUME CacheAssumption, Init
  PROVE  CacheIInv
<1>1. Cached = {}
  BY DEF Init, Cached
<1>2. \A t \in Thread : pc[t] = "idle"
  BY DEF Init
<1>3. CacheTypes
  <2>1. entry \in [Entry -> CacheEntry]
    BY DEF Init
  <2>2. pc \in [Thread -> Labels] /\ pc[WriteBack] \in {"idle", "flush", "clean"}
    BY DEF Init, Labels, Thread
  <2>3. QED
    BY <2>1, <2>2 DEF CacheAssumption, Init, CacheTypes, NoEntry
<1>4. LockInv /\ AtInv /\ FillInv /\ PinInv
  BY <1>1, <1>2 DEF LockInv, AtInv, FillInv, PinInv, Locking, Using, Thread
<1>5. OneEntryPerSector
  BY <1>1 DEF OneEntryPerSector
<1>6. QED
  BY <1>3, <1>4, <1>5 DEF CacheIInv

\* While the lock is free nobody is filling an entry, and its holder is alone.
LEMMA Exclusion ==
  ASSUME CacheAssumption, CacheIInv
  PROVE  /\ owner = NULL => \A t \in Thread : pc[t] \notin Locking
         /\ \A t, u \in Thread : pc[t] \in Locking /\ pc[u] \in Locking => t = u
         /\ User \subseteq Thread /\ WriteBack \in Thread \ User
  BY DEF CacheAssumption, CacheIInv, LockInv, Thread

\* The list lies within the entries that were ever handed out.
LEMMA CachedEntries ==
  ASSUME CacheAssumption, CacheTypes
  PROVE  Cached \subseteq 1..filesys_cache_size /\ 1..filesys_cache_size \subseteq Entry
  BY DEF CacheAssumption, CacheTypes, Cached, Entry

\* Steps that add nothing to the list and leave the entries' sectors and pins, and
\* who uses and fills them, alone.
LEMMA Frame ==
  ASSUME CacheAssumption, CacheIInv, CacheTypes', LockInv', AtInv',
         Cached' \subseteq Cached,
         \A e \in Entry : /\ entry'[e].sector = entry[e].sector
                          /\ entry'[e].open_cnt = entry[e].open_cnt,
         \A t \in User :
           /\ pc'[t] \in Using <=> pc[t] \in Using
           /\ pc'[t] = "load" <=> pc[t] = "load"
           /\ pc'[t] = "scan" => pc[t] = "scan"
           /\ pc'[t] \in Using \cup {"load"} => at'[t] = at[t]
           /\ pc'[t] \in Using \cup {"load", "scan"} => request'[t] = request[t]
  PROVE  CacheIInv'
<1>1. \A e : Users(e)' = Users(e)
  BY DEF Users
<1>2. Cached \subseteq Entry /\ Cached' \subseteq Entry
  BY CachedEntries DEF CacheIInv
<1>3. \A e : Filling(e)' <=> Filling(e)
  BY DEF Filling, Using
<1>4. FillInv'
  <2>1. SUFFICES ASSUME NEW t \in User
                 PROVE  FillInv!(t)'
    BY DEF FillInv
  <2>2. FillInv!(t)
    BY DEF CacheIInv, FillInv
  <2>3. QED
    BY <1>1, <1>2, <2>2
<1>5. OneEntryPerSector'
  BY <1>2, <1>3 DEF CacheIInv, OneEntryPerSector
<1>6. PinInv'
  <2>1. \A e \in Cached : Filling(e) \/ entry[e].open_cnt = Cardinality(Users(e))
    BY DEF CacheIInv, PinInv, Users
  <2>2. \A e \in Cached' : Filling(e)' \/ entry'[e].open_cnt = Cardinality(Users(e)')
    BY <1>1, <1>2, <1>3, <2>1
  <2>3. \A t \in User : pc'[t] \in Using => entry'[at'[t]].sector = request'[t].sector
    <3>1. \A t \in User : pc[t] \in Using => at[t] \in Entry /\ entry[at[t]].sector = request[t].sector
      BY CachedEntries DEF CacheIInv, PinInv, AtInv
    <3>2. QED
      BY <3>1
  <2>4. QED
    BY <2>2, <2>3 DEF PinInv, Users
<1>7. QED
  BY <1>4, <1>5, <1>6 DEF CacheIInv

-----------------------------------------------------------------------------
(* The actions. *)

\* filesys_cache_block_get() waits for the lock: nothing on the list changes.
LEMMA GetKeeps ==
  ASSUME CacheAssumption, CacheIInv, NEW t \in User, NEW r \in Request, Get(t, r)
  PROVE  CacheIInv'
<1>1. CacheTypes'
  BY DEF Get, Goto, CacheIInv, CacheTypes, Labels, Locking, Using, Thread, Cached
<1>2. LockInv'
  BY Exclusion DEF Get, Goto, CacheIInv, CacheTypes, LockInv, Locking, Using
<1>3. AtInv'
  BY Exclusion DEF Get, Goto, CacheIInv, CacheTypes, AtInv, Locking, Using, Cached
<1>4. QED
  BY <1>1, <1>2, <1>3, Frame, Exclusion
     DEF Get, Goto, CacheIInv, CacheTypes, Cached, Using

\* The clock passes an entry: only its accessed flag may change.
LEMMA PassKeeps ==
  ASSUME CacheAssumption, CacheIInv, NEW t \in User, Pass(t)
  PROVE  CacheIInv'
<1> DEFINE second == entry[at[t]].accessed /\ entry[at[t]].open_cnt > 0
<1>1. /\ pc[t] = "scan"
      /\ at[t] \in Entry
      /\ entry' = [entry EXCEPT ![at[t]].accessed = second]
      /\ at' = [at EXCEPT ![t] = at[t] + 1]
      /\ UNCHANGED <<disk, first, filesys_cache_size, owner, pc, request>>
  BY CachedEntries DEF Pass, CacheIInv
<1>2. second \in BOOLEAN
  OBVIOUS
<1> HIDE DEF second
<1>3. CacheTypes'
  BY <1>1, <1>2 DEF CacheIInv, CacheTypes, Thread
<1>4. LockInv' /\ AtInv'
  BY <1>1, Exclusion DEF CacheIInv, CacheTypes, LockInv, AtInv, Cached, Using
<1>5. QED
  BY <1>1, <1>3, <1>4, Frame, Exclusion DEF CacheIInv, CacheTypes, Cached, Using

\* The clock starts over: only its hand moves.
LEMMA WrapKeeps ==
  ASSUME CacheAssumption, CacheIInv, NEW t \in User, Wrap(t)
  PROVE  CacheIInv'
<1>1. CacheTypes'
  BY DEF Wrap, CacheIInv, CacheTypes, Labels, Locking, Using, Thread, Cached
<1>2. LockInv'
  BY Exclusion DEF Wrap, CacheIInv, CacheTypes, LockInv, Locking, Using
<1>3. AtInv'
  BY Exclusion DEF Wrap, CacheIInv, CacheTypes, AtInv, Locking, Using, Cached
<1>4. QED
  BY <1>1, <1>2, <1>3, Frame, Exclusion
     DEF Wrap, CacheIInv, CacheTypes, Cached, Using

\* memcpy() without the lock changes an entry's data only, and its user stays.
LEMMA CopyKeeps ==
  ASSUME CacheAssumption, CacheIInv, NEW t \in User, Copy(t)
  PROVE  CacheIInv'
<1>1. CacheTypes'
  <2>1. at[t] \in Entry
    BY CachedEntries DEF Copy, Goto, CacheIInv, AtInv, Using
  <2>2. entry' \in [Entry -> CacheEntry]
    BY <2>1 DEF Copy, CacheIInv, CacheTypes
  <2>3. QED
    BY <2>2 DEF Copy, Goto, CacheIInv, CacheTypes, Labels, Locking, Using, Thread, Cached
<1>2. LockInv'
  BY Exclusion DEF Copy, Goto, CacheIInv, CacheTypes, LockInv, Locking, Using
<1>3. AtInv'
  BY Exclusion DEF Copy, Goto, CacheIInv, CacheTypes, AtInv, Locking, Using, Cached
<1>4. QED
  BY <1>1, <1>2, <1>3, Frame, Exclusion
     DEF Copy, Goto, CacheIInv, CacheTypes, Cached, Using

\* Marking an entry without the lock changes its flags only, and its user stays.
LEMMA MarkKeeps ==
  ASSUME CacheAssumption, CacheIInv, NEW t \in User, Mark(t)
  PROVE  CacheIInv'
<1>1. CacheTypes'
  <2>1. at[t] \in Entry
    BY CachedEntries DEF Mark, Goto, CacheIInv, AtInv, Using
  <2>2. entry' \in [Entry -> CacheEntry]
    <3>1. request[t].dirty \in BOOLEAN
      BY DEF Mark, CacheIInv, AtInv, Using, Request
    <3>2. entry[at[t]].dirty \/ request[t].dirty \in BOOLEAN
      BY <2>1, <3>1 DEF CacheIInv, CacheTypes
    <3>3. entry[at[t]] \in CacheEntry
      BY <2>1 DEF CacheIInv, CacheTypes
    <3>4. [entry[at[t]] EXCEPT !.accessed = TRUE, !.dirty = @ \/ request[t].dirty] \in CacheEntry
      BY <3>2, <3>3
    <3>5. entry' = [entry EXCEPT ![at[t]] =
                      [entry[at[t]] EXCEPT !.accessed = TRUE, !.dirty = @ \/ request[t].dirty]]
      BY <2>1 DEF Mark, CacheIInv, CacheTypes
    <3>6. QED
      BY <2>1, <3>4, <3>5 DEF CacheIInv, CacheTypes
  <2>3. QED
    BY <2>2 DEF Mark, Goto, CacheIInv, CacheTypes, Labels, Locking, Using, Thread, Cached
<1>2. LockInv'
  BY Exclusion DEF Mark, Goto, CacheIInv, CacheTypes, LockInv, Locking, Using
<1>3. AtInv'
  BY Exclusion DEF Mark, Goto, CacheIInv, CacheTypes, AtInv, Locking, Using, Cached
<1>4. QED
  BY <1>1, <1>2, <1>3, Frame, Exclusion
     DEF Mark, Goto, CacheIInv, CacheTypes, Cached, Using

\* Whoever takes the lock to flush finds nobody filling an entry.
LEMMA BeginFlushKeeps ==
  ASSUME CacheAssumption, CacheIInv, NEW t \in Thread, NEW label \in {"flush", "halt"},
         t = WriteBack => label = "flush", BeginFlush(t, label)
  PROVE  CacheIInv'
<1>1. CacheTypes'
  <2>1. pc' \in [Thread -> Labels] /\ pc'[WriteBack] \in {"idle", "flush", "clean"}
    BY Exclusion DEF BeginFlush, Goto, CacheIInv, CacheTypes, Labels, Locking
  <2>2. at' \in [Thread -> Nat]
    BY DEF BeginFlush, CacheIInv, CacheTypes
  <2>3. QED
    BY <2>1, <2>2 DEF BeginFlush, CacheIInv, CacheTypes
<1>2. LockInv'
  BY Exclusion DEF BeginFlush, Goto, CacheIInv, CacheTypes, LockInv, Locking
<1>3. AtInv'
  BY Exclusion DEF BeginFlush, Goto, CacheIInv, CacheTypes, AtInv, Using, Cached
<1>4. QED
  BY <1>1, <1>2, <1>3, Frame, Exclusion
     DEF BeginFlush, Goto, CacheIInv, CacheTypes, Cached, Using

\* Writing an entry to disk, or freeing a clean one at halt, renames none.
LEMMA FlushEntryKeeps ==
  ASSUME CacheAssumption, CacheIInv, NEW t \in Thread, NEW halt \in BOOLEAN,
         t = WriteBack => ~halt, FlushEntry(t, halt)
  PROVE  CacheIInv'
<1> DEFINE clean == IF halt THEN "halt clean" ELSE "clean"
<1>1. /\ pc[t] \in {"flush", "halt"} /\ at[t] \in Cached /\ at[t] \in Entry
      /\ clean \in {"clean", "halt clean"} /\ (t = WriteBack => clean = "clean")
      /\ UNCHANGED <<entry, filesys_cache_size, owner, request>>
  BY CachedEntries DEF FlushEntry, CacheIInv
<1>2. CASE entry[at[t]].dirty
  <2>1. /\ disk' = [disk EXCEPT ![entry[at[t]].sector] = entry[at[t]].data]
        /\ pc' = [pc EXCEPT ![t] = clean]
        /\ UNCHANGED <<first, at>>
    BY <1>2 DEF FlushEntry, Goto
  <2> HIDE DEF clean
  <2>2. disk' \in [Sector -> Nat]
    BY <1>1, <2>1 DEF CacheIInv, CacheTypes
  <2>3. pc' \in [Thread -> Labels] /\ pc'[WriteBack] \in {"idle", "flush", "clean"}
    BY <1>1, <2>1, Exclusion DEF CacheIInv, CacheTypes, Labels, Locking
  <2>4. CacheTypes'
    BY <1>1, <2>1, <2>2, <2>3 DEF CacheIInv, CacheTypes
  <2>5. LockInv' /\ AtInv'
    BY <1>1, <2>1, Exclusion DEF CacheIInv, CacheTypes, LockInv, AtInv, Locking, Using, Cached
  <2>6. QED
    BY <1>1, <2>1, <2>4, <2>5, Frame, Exclusion DEF CacheIInv, CacheTypes, Cached, Using
<1>3. CASE ~entry[at[t]].dirty
  <2>1. /\ at' = [at EXCEPT ![t] = at[t] + 1]
        /\ first' \in {first, at[t] + 1}
        /\ UNCHANGED <<disk, pc>>
    BY <1>3 DEF FlushEntry, FlushNext
  <2>2. CacheTypes'
    BY <1>1, <2>1 DEF CacheIInv, CacheTypes, Cached
  <2>3. LockInv' /\ AtInv'
    BY <1>1, <2>1, Exclusion DEF CacheIInv, CacheTypes, LockInv, AtInv, Locking, Using, Cached
  <2>4. Cached' \subseteq Cached
    BY <1>1, <2>1 DEF CacheIInv, CacheTypes, Cached
  <2>5. QED
    BY <1>1, <2>1, <2>2, <2>3, <2>4, Frame, Exclusion DEF CacheIInv, CacheTypes, Using
<1>4. QED
  BY <1>2, <1>3

\* Marking a flushed entry clean, or freeing it at halt, renames none.
LEMMA FlushCleanKeeps ==
  ASSUME CacheAssumption, CacheIInv, NEW t \in Thread, NEW halt \in BOOLEAN,
         t = WriteBack => ~halt, FlushClean(t, halt)
  PROVE  CacheIInv'
<1> DEFINE label == IF halt THEN "halt" ELSE "flush"
<1>1. /\ pc[t] \in {"clean", "halt clean"} /\ at[t] \in Cached /\ at[t] \in Entry
      /\ label \in {"flush", "halt"} /\ (t = WriteBack => label = "flush")
      /\ entry' = [entry EXCEPT ![at[t]].dirty = FALSE]
      /\ pc' = [pc EXCEPT ![t] = label]
      /\ UNCHANGED <<disk, filesys_cache_size, owner, request>>
  BY CachedEntries DEF FlushClean, Goto, CacheIInv, AtInv
<1>2. /\ at' = [at EXCEPT ![t] = at[t] + 1]
      /\ first' = first \/ first' = at[t] + 1
  BY DEF FlushClean, FlushNext
<1> HIDE DEF label
<1>3. /\ first \in Nat \ {0} /\ filesys_cache_size \in Nat /\ first =< filesys_cache_size + 1
      /\ at[t] \in first..filesys_cache_size
      /\ at \in [Thread -> Nat]
  <2>1. at[t] \in first..filesys_cache_size
    BY <1>1 DEF Cached
  <2>2. first \in Nat \ {0} /\ filesys_cache_size \in Nat /\ first =< filesys_cache_size + 1
        /\ at \in [Thread -> Nat]
    BY DEF CacheIInv, CacheTypes
  <2>3. QED
    BY <2>1, <2>2
<1>4. /\ first' \in Nat \ {0} /\ first =< first' /\ first' =< filesys_cache_size + 1
      /\ at' \in [Thread -> Nat]
  BY <1>2, <1>3
<1>5. Cached' \subseteq Cached
  <2>1. filesys_cache_size' = filesys_cache_size
    BY <1>1
  <2>2. QED
    BY <1>3, <1>4, <2>1 DEF Cached
<1>6. CacheTypes'
  <2>1. entry' \in [Entry -> CacheEntry]
    BY <1>1 DEF CacheIInv, CacheTypes
  <2>2. pc' \in [Thread -> Labels] /\ pc'[WriteBack] \in {"idle", "flush", "clean"}
    BY <1>1, Exclusion DEF CacheIInv, CacheTypes, Labels, Locking
  <2>3. QED
    BY <1>1, <1>4, <2>1, <2>2 DEF CacheIInv, CacheTypes
<1>7. LockInv' /\ AtInv'
  <2>1. LockInv'
    BY <1>1, Exclusion DEF CacheIInv, CacheTypes, LockInv, Locking
  <2>2. \A u \in Thread \ {t} : pc'[u] = pc[u] /\ at'[u] = at[u]
    BY <1>1, <1>2 DEF CacheIInv, CacheTypes
  <2>3. pc'[t] = label
    BY <1>1 DEF CacheIInv, CacheTypes
  <2>4. \A u \in Thread \ {t} : pc[u] \notin {"load", "clean", "halt clean"}
    BY <1>1, Exclusion DEF Locking
  <2>5. AtInv'
    BY <1>1, <2>2, <2>3, <2>4, Exclusion DEF CacheIInv, AtInv, Using
  <2>6. QED
    BY <2>1, <2>5
<1>8. \A e \in Entry : /\ entry'[e].sector = entry[e].sector
                       /\ entry'[e].open_cnt = entry[e].open_cnt
  BY <1>1 DEF CacheIInv, CacheTypes
<1>9. QED
  BY <1>1, <1>2, <1>5, <1>6, <1>7, <1>8, Frame, Exclusion DEF CacheIInv, CacheTypes, Using

\* The end of a flush gives the lock back and changes nothing on the list.
LEMMA EndFlushKeeps ==
  ASSUME CacheAssumption, CacheIInv, NEW t \in Thread, NEW halt \in BOOLEAN,
         t = WriteBack => ~halt, EndFlush(t, halt)
  PROVE  CacheIInv'
<1>1. CacheTypes'
  BY DEF EndFlush, Goto, NoEntry, CacheIInv, CacheTypes, Labels
<1>2. LockInv'
  BY Exclusion DEF EndFlush, Goto, CacheIInv, CacheTypes, LockInv, Locking
<1>3. AtInv'
  BY Exclusion DEF EndFlush, Goto, CacheIInv, CacheTypes, AtInv, Using, Cached
<1>4. QED
  BY <1>1, <1>2, <1>3, Frame, Exclusion
     DEF EndFlush, Goto, CacheIInv, CacheTypes, Cached, Using

\* The users of an entry are finitely many, whichever they are.
LEMMA UsersFinite ==
  ASSUME CacheAssumption
  PROVE  \A e : IsFiniteSet(Users(e)) /\ Users(e) \subseteq User
BY FS_Subset DEF CacheAssumption, Users

\* A hit adds the caller to the users of the entry it counts one more of.
LEMMA HitKeeps ==
  ASSUME CacheAssumption, CacheIInv, NEW t \in User, Hit(t)
  PROVE  CacheIInv'
<1>1. PICK e \in Cached :
        /\ entry[e].sector = request[t].sector
        /\ entry' = [entry EXCEPT ![e].open_cnt = @ + 1,
                                  ![e].accessed = TRUE,
                                  ![e].dirty = @ \/ request[t].dirty]
        /\ at' = [at EXCEPT ![t] = e]
  BY DEF Hit, block_in_cache
<1>2. /\ pc[t] = "get" /\ owner = NULL /\ pc' = [pc EXCEPT ![t] = "copy"]
      /\ UNCHANGED <<disk, first, filesys_cache_size, owner, request>>
  BY DEF Hit, Goto
<1>3. e \in Entry /\ e \in 1..filesys_cache_size /\ Cached' = Cached /\ Cached \subseteq Entry
  BY <1>2, CachedEntries DEF CacheIInv, Cached
<1>4. /\ \A f \in Entry : entry'[f].sector = entry[f].sector
      /\ \A f \in Entry \ {e} : entry'[f].open_cnt = entry[f].open_cnt
      /\ entry'[e].open_cnt = entry[e].open_cnt + 1
  BY <1>1, <1>3 DEF CacheIInv, CacheTypes
<1>5. /\ \A u \in User : pc[u] \notin {"scan", "load"} /\ pc'[u] \notin {"scan", "load"}
      /\ \A f : ~Filling(f) /\ ~Filling(f)'
  BY <1>2, Exclusion DEF CacheIInv, CacheTypes, Locking, Filling
<1>6. CacheTypes'
  <2>1. entry' \in [Entry -> CacheEntry]
    <3>1. request[t] \in Request
      BY <1>2 DEF CacheIInv, AtInv
    <3>2. entry[e] \in CacheEntry
      BY <1>3 DEF CacheIInv, CacheTypes
    <3>3. entry[e].dirty \/ request[t].dirty \in BOOLEAN
      BY <3>1, <3>2 DEF Request
    <3>4. entry[e].open_cnt + 1 \in Int
      BY <3>2
    <3>5. [entry[e] EXCEPT !.open_cnt = @ + 1] \in CacheEntry
      BY <3>2, <3>4
    <3>6. [[entry[e] EXCEPT !.open_cnt = @ + 1] EXCEPT
             !.accessed = TRUE, !.dirty = entry[e].dirty \/ request[t].dirty] \in CacheEntry
      BY <3>3, <3>5
    <3>7. entry' = [entry EXCEPT ![e] =
                      [[entry[e] EXCEPT !.open_cnt = @ + 1] EXCEPT
                         !.accessed = TRUE, !.dirty = entry[e].dirty \/ request[t].dirty]]
      BY <1>1, <1>3, <3>2 DEF CacheIInv, CacheTypes
    <3>8. QED
      BY <1>3, <3>6, <3>7 DEF CacheIInv, CacheTypes
  <2>2. pc' \in [Thread -> Labels] /\ pc'[WriteBack] \in {"idle", "flush", "clean"}
    BY <1>2, Exclusion DEF CacheIInv, CacheTypes, Labels, Using
  <2>3. at' \in [Thread -> Nat]
    <3>1. e \in Nat
      BY <1>3
    <3>2. QED
      BY <1>1, <3>1 DEF CacheIInv, CacheTypes
  <2>4. QED
    BY <1>2, <2>1, <2>2, <2>3 DEF CacheIInv, CacheTypes
<1>7. LockInv' /\ AtInv'
  BY <1>1, <1>2, <1>3, Exclusion DEF CacheIInv, CacheTypes, LockInv, AtInv, Locking, Using
<1>8. FillInv'
  BY <1>5 DEF FillInv
<1>9. OneEntryPerSector'
  BY <1>3, <1>4, <1>5 DEF CacheIInv, OneEntryPerSector
<1>10. /\ t \notin Users(e) /\ Users(e)' = Users(e) \cup {t}
       /\ \A f \in Entry \ {e} : Users(f)' = Users(f)
  BY <1>1, <1>2, Exclusion DEF CacheIInv, CacheTypes, Users, Using
<1>11. PinInv'
  <2>1. \A f \in Cached : entry[f].open_cnt = Cardinality(Users(f))
    BY <1>5 DEF CacheIInv, PinInv, Users
  <2>2. entry'[e].open_cnt = Cardinality(Users(e)')
    <3>1. IsFiniteSet(Users(e))
      BY UsersFinite
    <3>2. Cardinality(Users(e) \cup {t}) = Cardinality(Users(e)) + 1
      BY <1>10, <3>1, FS_AddElement
    <3>3. entry[e].open_cnt = Cardinality(Users(e))
      BY <2>1
    <3>4. QED
      BY <1>4, <1>10, <3>2, <3>3
  <2>3. \A f \in Cached' : entry'[f].open_cnt = Cardinality(Users(f)')
    BY <1>3, <1>4, <1>10, <2>1, <2>2
  <2>4. ASSUME NEW u \in User, pc'[u] \in Using
        PROVE  entry'[at'[u]].sector = request'[u].sector
    <3>1. CASE u = t
      BY <3>1, <1>1, <1>2, <1>3, <1>4, Exclusion DEF CacheIInv, CacheTypes
    <3>2. CASE u # t
      <4>1. pc[u] \in Using /\ at'[u] = at[u] /\ request'[u] = request[u]
        BY <3>2, <2>4, <1>1, <1>2, Exclusion DEF CacheIInv, CacheTypes
      <4>2. at[u] \in Entry /\ entry[at[u]].sector = request[u].sector
        BY <4>1, CachedEntries DEF CacheIInv, AtInv, PinInv
      <4>3. QED
        BY <4>1, <4>2, <1>4
    <3>3. QED
      BY <3>1, <3>2
  <2>5. QED
    BY <2>3, <2>4 DEF PinInv, Users
<1>12. QED
  BY <1>6, <1>7, <1>8, <1>9, <1>11 DEF CacheIInv

\* A miss takes an entry nobody uses, or starts the search for one, for a
\* sector that is on no entry.
LEMMA MissKeeps ==
  ASSUME CacheAssumption, CacheIInv, NEW t \in User, Miss(t)
  PROVE  CacheIInv'
<1>1. /\ pc[t] = "get" /\ owner = NULL /\ owner' = t
      /\ \A e \in Cached : entry[e].sector # request[t].sector
      /\ UNCHANGED <<disk, entry, first, request>>
  BY DEF Miss, block_in_cache
<1>2. \A u \in User : pc[u] \notin {"scan", "load"}
  BY <1>1, Exclusion DEF Locking
<1>3. \A e : ~Filling(e)
  BY <1>2 DEF Filling
<1>4. Cached \subseteq Entry
  BY CachedEntries DEF CacheIInv
<1>5. \A u \in User : pc[u] \in Using => at[u] \in 1..filesys_cache_size
  BY DEF CacheIInv, AtInv
<1>6. CASE /\ filesys_cache_size < MAX_FILESYS_CACHE_SIZE
           /\ filesys_cache_size' = filesys_cache_size + 1
           /\ at' = [at EXCEPT ![t] = filesys_cache_size']
           /\ Goto(t, "load")
  <2>1. PICK n : n = filesys_cache_size + 1
    OBVIOUS
  <2>2. /\ at' = [at EXCEPT ![t] = n] /\ pc' = [pc EXCEPT ![t] = "load"]
        /\ n \in Nat \ {0} /\ n =< MAX_FILESYS_CACHE_SIZE /\ filesys_cache_size' = n
    BY <2>1, <1>6 DEF Goto, CacheIInv, CacheTypes
  <2>3. /\ Cached' = Cached \cup {n} /\ n \notin Cached /\ first =< n
        /\ \A e \in 1..filesys_cache_size : e \in 1..n /\ e # n
    <3>1. first \in Nat /\ filesys_cache_size \in Nat /\ first =< n /\ first' = first
      BY <1>1, <2>1 DEF CacheIInv, CacheTypes
    <3>2. QED
      BY <2>1, <2>2, <3>1 DEF Cached
  <2>4. CacheTypes'
    <3>1. pc' \in [Thread -> Labels] /\ pc'[WriteBack] \in {"idle", "flush", "clean"}
      BY <2>2, Exclusion DEF CacheIInv, CacheTypes, Labels, Locking
    <3>2. at' \in [Thread -> Nat]
      BY <2>2 DEF CacheIInv, CacheTypes
    <3>3. QED
      BY <1>1, <2>2, <2>3, <3>1, <3>2 DEF CacheIInv, CacheTypes, CacheAssumption
  <2>5. LockInv'
    BY <1>1, <2>2, Exclusion DEF CacheIInv, CacheTypes, LockInv, Locking
  <2>6. /\ \A u \in Thread \ {t} : pc'[u] = pc[u] /\ at'[u] = at[u]
        /\ pc'[t] = "load" /\ at'[t] = n
        /\ \A u \in User : pc'[u] = "load" => u = t
    BY <1>2, <2>2, Exclusion DEF CacheIInv, CacheTypes
  <2>7. /\ \A e \in Cached : Users(e)' = Users(e)
        /\ Users(n)' = {}
        /\ \A e \in Cached : ~Filling(e)'
        /\ Filling(n)'
    <3>1. \A u \in User : pc'[u] \in Using <=> pc[u] \in Using /\ u # t
      BY <1>1, <2>6, Exclusion DEF Using
    <3>2. \A u \in User : pc[u] \in Using => u # t /\ at[u] # n /\ at'[u] = at[u]
      BY <1>1, <1>5, <2>3, <2>6, Exclusion DEF Using
    <3>3. \A e \in Cached : Users(e)' = Users(e)
      BY <3>1, <3>2 DEF Users
    <3>4. Users(n)' = {}
      BY <3>1, <3>2 DEF Users
    <3>5. \A e \in Cached : ~Filling(e)'
      BY <2>3, <2>6 DEF Filling
    <3>6. Filling(n)'
      BY <2>6 DEF Filling
    <3>7. QED
      BY <3>3, <3>4, <3>5, <3>6
  <2>8. AtInv'
    <3>1. \A u \in Thread \ {t} : pc[u] \in {"load", "clean", "halt clean"} => at[u] \in Cached
      BY DEF CacheIInv, AtInv
    <3>2. \A u \in User \ {t} : pc[u] \in {"get", "scan", "load"} \cup Using => request[u] \in Request
      BY DEF CacheIInv, AtInv
    <3>3. request[t] \in Request
      BY <1>1 DEF CacheIInv, AtInv
    <3>4. \A u \in Thread : pc'[u] \in {"load", "clean", "halt clean"} => at'[u] \in Cached'
      BY <2>3, <2>6, <3>1
    <3>5. \A u \in User : pc'[u] \in Using => at'[u] \in 1..filesys_cache_size'
      BY <1>5, <2>2, <2>3, <2>6, Exclusion DEF Using
    <3>6. \A u \in User : pc'[u] \in {"get", "scan", "load"} \cup Using => request'[u] \in Request
      BY <1>1, <2>6, <3>2, <3>3, Exclusion
    <3>7. QED
      BY <3>4, <3>5, <3>6 DEF AtInv
  <2>9. FillInv'
    <3>1. \A u \in User : pc'[u] \in {"scan", "load"} => u = t
      BY <1>2, <2>6, Exclusion
    <3>2. QED
      <4>1. \A e \in Cached' : entry'[e].sector = request'[t].sector => e = n
        BY <1>1, <2>3
      <4>2. QED
        BY <2>6, <2>7, <3>1, <4>1 DEF FillInv
  <2>10. OneEntryPerSector'
    <3>1. \A e, f \in Cached : entry[e].sector = entry[f].sector => e = f
      BY <1>3 DEF CacheIInv, OneEntryPerSector
    <3>2. \A e \in Cached' : ~Filling(e)' => e \in Cached
      <4>1. SUFFICES ASSUME NEW e \in Cached', e \notin Cached
                     PROVE  Filling(e)'
        OBVIOUS
      <4>2. e = n
        BY <2>3, <4>1
      <4>3. QED
        BY <2>7, <4>2
    <3>3. QED
      BY <1>1, <3>1, <3>2 DEF OneEntryPerSector
  <2>11. PinInv'
    <3>1. \A e \in Cached : entry[e].open_cnt = Cardinality(Users(e))
      BY <1>3 DEF CacheIInv, PinInv, Users
    <3>2. \A e \in Cached' : Filling(e)' \/ entry'[e].open_cnt = Cardinality(Users(e)')
      <4>1. SUFFICES ASSUME NEW e \in Cached', ~Filling(e)'
                     PROVE  entry'[e].open_cnt = Cardinality(Users(e)')
        OBVIOUS
      <4>2. e \in Cached
        <5>1. e = n => Filling(e)'
          BY <2>7
        <5>2. QED
          BY <2>3, <4>1, <5>1
      <4>3. QED
        BY <1>1, <2>7, <3>1, <4>2
    <3>3. \A u \in User : pc'[u] \in Using => entry'[at'[u]].sector = request'[u].sector
      BY <1>1, <2>6, Exclusion DEF CacheIInv, PinInv, Using
    <3>4. QED
      BY <3>2, <3>3 DEF PinInv, Users
  <2>12. QED
    BY <2>4, <2>5, <2>9, <2>10, <2>11, <2>8 DEF CacheIInv
<1>7. CASE /\ at' = [at EXCEPT ![t] = first]
           /\ Goto(t, "scan")
           /\ UNCHANGED filesys_cache_size
  <2>1. pc' = [pc EXCEPT ![t] = "scan"]
    BY <1>7 DEF Goto
  <2>2. CacheTypes'
    <3>1. pc' \in [Thread -> Labels] /\ pc'[WriteBack] \in {"idle", "flush", "clean"}
      BY <2>1, Exclusion DEF CacheIInv, CacheTypes, Labels, Locking
    <3>2. at' \in [Thread -> Nat]
      BY <1>7 DEF CacheIInv, CacheTypes
    <3>3. QED
      BY <1>1, <1>7, <3>1, <3>2 DEF CacheIInv, CacheTypes
  <2>3. LockInv' /\ AtInv' /\ Cached' = Cached
    BY <1>1, <1>7, <2>1, Exclusion
       DEF CacheIInv, CacheTypes, LockInv, AtInv, Locking, Using, Cached
  <2>4. /\ \A e \in Cached : Users(e)' = Users(e) /\ ~Filling(e)'
        /\ \A u \in User \ {t} : pc'[u] = pc[u] /\ at'[u] = at[u]
        /\ pc'[t] = "scan"
    BY <1>1, <1>2, <1>7, <2>1, Exclusion DEF CacheIInv, CacheTypes, Users, Using, Filling
  <2>5. FillInv'
    BY <1>1, <1>2, <2>3, <2>4 DEF FillInv
  <2>6. OneEntryPerSector'
    BY <1>1, <1>3, <2>3 DEF CacheIInv, OneEntryPerSector
  <2>7. PinInv'
    <3>1. \A e \in Cached' : entry'[e].open_cnt = Cardinality(Users(e)')
      BY <1>1, <1>3, <2>3, <2>4 DEF CacheIInv, PinInv, Users
    <3>2. \A u \in User : pc'[u] \in Using => entry'[at'[u]].sector = request'[u].sector
      BY <1>1, <2>4 DEF CacheIInv, PinInv, Using
    <3>3. QED
      BY <3>1, <3>2 DEF PinInv, Users
  <2>8. QED
    BY <2>2, <2>3, <2>5, <2>6, <2>7 DEF CacheIInv
<1>8. QED
  BY <1>6, <1>7 DEF Miss

\* The victim has open_cnt 0, so nobody uses it when it is renamed.
LEMMA EvictKeeps ==
  ASSUME CacheAssumption, CacheIInv, NEW t \in User, Evict(t)
  PROVE  CacheIInv'
<1>1. /\ pc[t] = "scan" /\ at[t] \in Cached /\ entry[at[t]].open_cnt = 0
      /\ pc' = [pc EXCEPT ![t] = "load"]
      /\ UNCHANGED <<entry, first, filesys_cache_size, owner, request, at>>
  BY DEF Evict, Goto, Victim
<1>2. \A u \in User \ {t} : pc[u] \notin {"scan", "load"}
  BY <1>1, Exclusion DEF Locking
<1>3. \A e : ~Filling(e)
  BY <1>1, <1>2 DEF Filling
<1>4. Users(at[t]) = {}
  BY <1>1, <1>3, UsersFinite, FS_EmptySet DEF CacheIInv, PinInv, Users
<1>5. CacheTypes'
  <2>1. pc' \in [Thread -> Labels] /\ pc'[WriteBack] \in {"idle", "flush", "clean"}
    BY <1>1, Exclusion DEF CacheIInv, CacheTypes, Labels, Locking
  <2>2. disk' \in [Sector -> Nat]
    <3>1. at[t] \in Entry
      BY <1>1, CachedEntries DEF CacheIInv
    <3>2. QED
      BY <3>1 DEF Evict, CacheIInv, CacheTypes
  <2>3. QED
    BY <1>1, <2>1, <2>2 DEF CacheIInv, CacheTypes
<1>6. LockInv' /\ AtInv' /\ Cached' = Cached
  BY <1>1, Exclusion DEF CacheIInv, CacheTypes, LockInv, AtInv, Locking, Using, Cached
<1>7. /\ \A u \in User \ {t} : pc'[u] = pc[u]
      /\ pc'[t] = "load"
      /\ \A e : Users(e)' = Users(e)
      /\ \A e : Filling(e)' => e = at[t]
  BY <1>1, <1>2, Exclusion DEF CacheIInv, CacheTypes, Users, Using, Filling
<1>8. \A e \in Cached : entry[e].sector # request[t].sector
  BY <1>1 DEF CacheIInv, FillInv
<1>9. FillInv'
  BY <1>1, <1>2, <1>4, <1>6, <1>7, <1>8 DEF FillInv
<1>10. OneEntryPerSector'
  BY <1>1, <1>3, <1>6 DEF CacheIInv, OneEntryPerSector
<1>11. PinInv'
  <2>1. \A e \in Cached' : entry'[e].open_cnt = Cardinality(Users(e)')
    BY <1>1, <1>3, <1>6, <1>7 DEF CacheIInv, PinInv, Users
  <2>2. \A u \in User : pc'[u] \in Using => entry'[at'[u]].sector = request'[u].sector
    BY <1>1, <1>7 DEF CacheIInv, PinInv, Using
  <2>3. QED
    BY <2>1, <2>2 DEF PinInv, Users
<1>12. QED
  BY <1>5, <1>6, <1>9, <1>10, <1>11 DEF CacheIInv

\* The entry gets its sector, which is nowhere else, and its first user.
LEMMA LoadKeeps ==
  ASSUME CacheAssumption, CacheIInv, NEW t \in User, Load(t)
  PROVE  CacheIInv'
<1>1. PICK e : e = at[t]
  OBVIOUS
<1> DEFINE loaded == [sector |-> request[t].sector, data |-> disk[request[t].sector],
                      dirty |-> request[t].dirty, accessed |-> TRUE, open_cnt |-> 1]
<1>2. /\ pc[t] = "load" /\ e \in Cached /\ e \in Entry
      /\ entry' = [entry EXCEPT ![e] = loaded]
      /\ owner' = NULL /\ pc' = [pc EXCEPT ![t] = "copy"]
      /\ UNCHANGED <<disk, first, filesys_cache_size, request, at>>
  BY <1>1, CachedEntries, Exclusion DEF Load, Goto, CacheIInv, AtInv
<1>3. /\ \A u \in User \ {t} : pc[u] \notin {"scan", "load"}
      /\ \A u \in User \ {t} : pc'[u] = pc[u]
      /\ pc'[t] = "copy"
  BY <1>2, Exclusion DEF CacheIInv, CacheTypes, Locking
<1>4. /\ \A f : Filling(f) => f = e
      /\ \A f : ~Filling(f)'
  BY <1>1, <1>3 DEF Filling
<1>5. /\ Users(e) = {}
      /\ \A f \in Cached \ {e} : entry[f].sector # request[t].sector
  BY <1>1, <1>2 DEF CacheIInv, FillInv
<1>6. Users(e)' = {t} /\ \A f : f # e => Users(f)' = Users(f)
  BY <1>1, <1>2, <1>3, <1>5 DEF Users, Using
<1>7. /\ entry'[e].sector = request[t].sector /\ entry'[e].open_cnt = 1
      /\ \A f \in Entry \ {e} : entry'[f] = entry[f]
  BY <1>2 DEF CacheIInv, CacheTypes
<1>8. CacheTypes'
  <2>1. loaded \in CacheEntry
    <3>1. request[t] \in Request
      BY <1>2 DEF CacheIInv, AtInv
    <3>2. disk[request[t].sector] \in Nat
      BY <3>1 DEF CacheIInv, CacheTypes, Request
    <3>3. QED
      BY <3>1, <3>2 DEF Request
  <2>2. entry' \in [Entry -> CacheEntry]
    BY <1>2, <2>1 DEF CacheIInv, CacheTypes
  <2>3. pc' \in [Thread -> Labels] /\ pc'[WriteBack] \in {"idle", "flush", "clean"}
    BY <1>2, Exclusion DEF CacheIInv, CacheTypes, Labels, Using
  <2>4. QED
    BY <1>2, <2>2, <2>3 DEF CacheIInv, CacheTypes
<1>9. Cached' = Cached /\ Cached \subseteq 1..filesys_cache_size /\ Cached \subseteq Entry
  BY <1>2, CachedEntries DEF CacheIInv, Cached
<1>10. LockInv'
  BY <1>2, Exclusion DEF CacheIInv, CacheTypes, LockInv, Locking
<1>11. AtInv'
  BY <1>1, <1>2, <1>9, Exclusion DEF CacheIInv, CacheTypes, AtInv, Using
<1>12. FillInv'
  BY <1>3 DEF FillInv
<1>13. OneEntryPerSector'
  <2>1. \A f, g \in Cached \ {e} : entry[f].sector = entry[g].sector => f = g
    BY <1>4 DEF CacheIInv, OneEntryPerSector
  <2>2. \A f, g \in Cached : entry'[f].sector = entry'[g].sector => f = g
    BY <1>5, <1>7, <1>9, <2>1
  <2>3. QED
    BY <1>9, <2>2 DEF OneEntryPerSector
<1>14. PinInv'
  <2>1. \A f \in Cached \ {e} : entry[f].open_cnt = Cardinality(Users(f))
    BY <1>4 DEF CacheIInv, PinInv, Users
  <2>2. Cardinality(Users(e)') = 1
    BY <1>6, FS_Singleton
  <2>3. \A f \in Cached' : entry'[f].open_cnt = Cardinality(Users(f)')
    <3>1. \A f \in Cached \ {e} : entry'[f].open_cnt = Cardinality(Users(f)')
      BY <1>6, <1>7, <1>9, <2>1
    <3>2. entry'[e].open_cnt = Cardinality(Users(e)')
      BY <1>7, <2>2
    <3>3. SUFFICES ASSUME NEW f \in Cached
                   PROVE  entry'[f].open_cnt = Cardinality(Users(f)')
      BY <1>9
    <3>4. CASE f = e
      BY <3>2, <3>4
    <3>5. CASE f # e
      BY <3>1, <3>5
    <3>6. QED
      BY <3>4, <3>5
  <2>4. ASSUME NEW u \in User, pc'[u] \in Using
        PROVE  entry'[at'[u]].sector = request'[u].sector
    <3>1. CASE u = t
      BY <3>1, <1>1, <1>2, <1>7
    <3>2. CASE u # t
      <4>1. pc[u] \in Using /\ at[u] # e
        BY <3>2, <2>4, <1>3, <1>5 DEF Users
      <4>2. at[u] \in Entry
        BY <4>1, CachedEntries DEF CacheIInv, AtInv
      <4>3. QED
        BY <4>1, <4>2, <1>2, <1>7 DEF CacheIInv, PinInv
    <3>3. QED
      BY <3>1, <3>2
  <2>5. QED
    BY <2>3, <2>4 DEF PinInv, Users
<1>15. QED
  BY <1>8, <1>10, <1>11, <1>12, <1>13, <1>14 DEF CacheIInv

\* A user that leaves takes one from open_cnt, wherever the entry is.
LEMMA UnpinKeeps ==
  ASSUME CacheAssumption, CacheIInv, NEW t \in User, Unpin(t)
  PROVE  CacheIInv'
<1>1. PICK e : e = at[t]
  OBVIOUS
<1>2. /\ pc[t] = "unpin" /\ e \in Entry
      /\ entry' = [entry EXCEPT ![e].open_cnt = @ - 1]
      /\ pc' = [pc EXCEPT ![t] = "idle"]
      /\ request' = [request EXCEPT ![t] = NoRequest]
      /\ at' = [at EXCEPT ![t] = NoEntry]
      /\ UNCHANGED <<disk, first, filesys_cache_size, owner>>
  BY <1>1, CachedEntries DEF Unpin, Return, Goto, CacheIInv, AtInv, Using
<1>3. /\ \A u \in User \ {t} : pc'[u] = pc[u] /\ at'[u] = at[u] /\ request'[u] = request[u]
      /\ pc'[t] = "idle"
  BY <1>2, Exclusion DEF CacheIInv, CacheTypes
<1>4. /\ \A f \in Entry : entry'[f].sector = entry[f].sector
      /\ \A f \in Entry \ {e} : entry'[f].open_cnt = entry[f].open_cnt
      /\ entry'[e].open_cnt = entry[e].open_cnt - 1
  BY <1>2 DEF CacheIInv, CacheTypes
<1>5. /\ t \in Users(e) /\ Users(e)' = Users(e) \ {t}
      /\ \A f : f # e => Users(f)' = Users(f)
      /\ \A f : Filling(f)' <=> Filling(f)
  <2>1. t \in Users(e) /\ pc[t] \in Using /\ pc'[t] \notin Using
    BY <1>1, <1>2, <1>3 DEF Users, Using
  <2>2. Users(e)' = Users(e) \ {t} /\ \A f : f # e => Users(f)' = Users(f)
    <3>1. \A u \in User : u # t => (pc'[u] \in Using <=> pc[u] \in Using) /\ at'[u] = at[u]
      BY <1>3
    <3>2. Users(e)' = Users(e) \ {t}
      BY <1>1, <2>1, <3>1 DEF Users
    <3>3. \A f : f # e => Users(f)' = Users(f)
      BY <1>1, <2>1, <3>1 DEF Users
    <3>4. QED
      BY <3>2, <3>3
  <2>3. \A f : Filling(f)' <=> Filling(f)
    BY <1>2, <1>3 DEF Filling
  <2>4. QED
    BY <2>1, <2>2, <2>3
<1>6. CacheTypes'
  <2>1. entry' \in [Entry -> CacheEntry]
    BY <1>2 DEF CacheIInv, CacheTypes
  <2>2. pc' \in [Thread -> Labels] /\ pc'[WriteBack] \in {"idle", "flush", "clean"}
    BY <1>2, Exclusion DEF CacheIInv, CacheTypes, Labels
  <2>3. QED
    BY <1>2, <2>1, <2>2 DEF CacheIInv, CacheTypes, NoEntry
<1>7. LockInv'
  BY <1>2, Exclusion DEF CacheIInv, CacheTypes, LockInv, Locking
<1>8. AtInv' /\ Cached' = Cached /\ Cached \subseteq Entry
  BY <1>2, CachedEntries, Exclusion DEF CacheIInv, CacheTypes, AtInv, Using, Cached
<1>9. FillInv'
  <2>1. SUFFICES ASSUME NEW u \in User
                 PROVE  FillInv!(u)'
    BY DEF FillInv
  <2>2. CASE u = t
    BY <2>2, <1>3
  <2>3. CASE u # t
    <3>1. FillInv!(u)
      BY DEF CacheIInv, FillInv
    <3>2. pc[u] = "load" => at[u] # e
      BY <3>1, <1>5
    <3>3. QED
      BY <2>3, <3>1, <3>2, <1>3, <1>4, <1>5, <1>8
  <2>4. QED
    BY <2>2, <2>3
<1>10. OneEntryPerSector'
  BY <1>4, <1>5, <1>8 DEF CacheIInv, OneEntryPerSector
<1>11. PinInv'
  <2>1. \A f \in Cached : Filling(f) \/ entry[f].open_cnt = Cardinality(Users(f))
    BY DEF CacheIInv, PinInv, Users
  <2>2. Cardinality(Users(e)') = Cardinality(Users(e)) - 1
    <3>1. IsFiniteSet(Users(e))
      BY UsersFinite
    <3>2. Cardinality(Users(e) \ {t}) = Cardinality(Users(e)) - 1
      BY <1>5, <3>1, FS_RemoveElement
    <3>3. QED
      BY <1>5, <3>2
  <2>3. \A f \in Cached' : Filling(f)' \/ entry'[f].open_cnt = Cardinality(Users(f)')
    <3>1. \A f \in Cached \ {e} : Filling(f)' \/ entry'[f].open_cnt = Cardinality(Users(f)')
      BY <1>4, <1>5, <1>8, <2>1
    <3>2. ASSUME e \in Cached
          PROVE  Filling(e)' \/ entry'[e].open_cnt = Cardinality(Users(e)')
      <4>1. CASE Filling(e)
        BY <1>5, <4>1
      <4>2. CASE entry[e].open_cnt = Cardinality(Users(e))
        BY <1>4, <2>2, <4>2
      <4>3. QED
        BY <2>1, <3>2, <4>1, <4>2
    <3>3. SUFFICES ASSUME NEW f \in Cached
                   PROVE  Filling(f)' \/ entry'[f].open_cnt = Cardinality(Users(f)')
      BY <1>8
    <3>4. CASE f = e
      BY <3>2, <3>4
    <3>5. CASE f # e
      BY <3>1, <3>5
    <3>6. QED
      BY <3>4, <3>5
  <2>4. ASSUME NEW u \in User, pc'[u] \in Using
        PROVE  entry'[at'[u]].sector = request'[u].sector
    <3>1. u # t /\ pc[u] \in Using
      BY <2>4, <1>3 DEF Using
    <3>2. at[u] \in Entry /\ entry[at[u]].sector = request[u].sector
      BY <3>1, CachedEntries DEF CacheIInv, AtInv, PinInv
    <3>3. QED
      BY <3>1, <3>2, <1>3, <1>4
  <2>5. QED
    BY <2>3, <2>4 DEF PinInv, Users
<1>12. QED
  BY <1>6, <1>7, <1>8, <1>9, <1>10, <1>11 DEF CacheIInv

-----------------------------------------------------------------------------
\* Each step of filesys_cache_write_to_disk() keeps the invariant.
LEMMA FlushKeeps ==
  ASSUME CacheAssumption, CacheIInv, NEW t \in Thread, NEW halt \in BOOLEAN,
         t = WriteBack => ~halt, Flush(t, halt)
  PROVE  CacheIInv'
BY FlushEntryKeeps, FlushCleanKeeps, EndFlushKeeps DEF Flush

\* Every step keeps the invariant.
LEMMA NextKeeps ==
  ASSUME CacheAssumption, CacheIInv, [Next]_vars
  PROVE  CacheIInv'
<1>1. ASSUME NEW t \in User, NEW r \in Request, Get(t, r)
      PROVE  CacheIInv'
  BY <1>1, GetKeeps
<1>2. ASSUME NEW t \in User, GetStep(t)
      PROVE  CacheIInv'
  BY <1>2, HitKeeps, MissKeeps DEF GetStep
<1>3. ASSUME NEW t \in User, EvictStep(t)
      PROVE  CacheIInv'
  BY <1>3, PassKeeps, WrapKeeps, EvictKeeps, LoadKeeps DEF EvictStep
<1>4. ASSUME NEW t \in User, UseStep(t)
      PROVE  CacheIInv'
  BY <1>4, CopyKeeps, MarkKeeps, UnpinKeeps DEF UseStep
<1>5. ASSUME NEW t \in User, Flush(t, TRUE)
      PROVE  CacheIInv'
  BY <1>5, FlushKeeps, Exclusion
<1>6. ASSUME BeginFlush(WriteBack, "flush")
      PROVE  CacheIInv'
  BY <1>6, BeginFlushKeeps, Exclusion
<1>7. ASSUME Flush(WriteBack, FALSE)
      PROVE  CacheIInv'
  BY <1>7, FlushKeeps, Exclusion
<1>8. ASSUME NEW t \in User, BeginFlush(t, "halt")
      PROVE  CacheIInv'
  BY <1>8, BeginFlushKeeps, Exclusion
<1>9. ASSUME UNCHANGED vars
      PROVE  CacheIInv'
  <2>1. UNCHANGED <<disk, entry, first, filesys_cache_size, owner, pc, request, at>>
    BY <1>9 DEF vars
  <2>2. Cached' = Cached /\ \A e : Filling(e)' <=> Filling(e)
    BY <2>1 DEF Cached, Filling
  <2>3. CacheTypes' /\ LockInv' /\ AtInv'
    BY <2>1, <2>2 DEF CacheIInv, CacheTypes, LockInv, AtInv
  <2>4. QED
    BY <2>1, <2>2, <2>3, Frame
<1>10. QED
  BY <1>1, <1>2, <1>3, <1>4, <1>5, <1>6, <1>7, <1>8, <1>9 DEF Next

\* filesys_cache_lock, held from the lookup to the end of the block_read(), keeps
\* every sector in one entry; and open_cnt, changed under the lock and decremented
\* without it, counts exactly the threads that use the entry, which keeps their
\* sector until the last has left.
THEOREM CacheCorrect == Spec => [](OneEntryPerSector /\ PinInv)
<1>1. Init => CacheIInv
  BY CacheAssumption, CacheInit
<1>2. CacheIInv /\ [Next]_vars => CacheIInv'
  BY CacheAssumption, NextKeeps
<1>3. CacheIInv => OneEntryPerSector /\ PinInv
  BY DEF CacheIInv
<1>4. QED
  BY <1>1, <1>2, <1>3, PTL DEF Spec

\* open_cnt counts the users of an entry whatever the evictions, flushes and
\* halts do meanwhile.
THEOREM PinCorrect == Spec => []PinInv
  BY CacheCorrect, PTL

-----------------------------------------------------------------------------
\* No halt is under way, and nothing was freed.
NoHalt == first = 1 /\ \A t \in User : pc[t] \notin {"halt", "halt clean"}

\* Only a halt starts a halt.
LEMMA NoHaltKeeps ==
  ASSUME CacheAssumption, ~Halting, CacheTypes, NoHalt, [Next]_vars
  PROVE  NoHalt'
<1>1. ASSUME NEW t \in Thread, NEW label \in Labels \ {"halt", "halt clean"},
             Goto(t, label), first' = first
      PROVE  NoHalt'
  BY <1>1 DEF Goto, CacheTypes, NoHalt, Thread
<1>2. ASSUME UNCHANGED <<pc, first>>
      PROVE  NoHalt'
  BY <1>2 DEF NoHalt
<1>3. ASSUME NEW t \in User, NEW r \in Request, Get(t, r)
      PROVE  NoHalt'
  BY <1>1, <1>3 DEF Get, Thread, Labels
<1>4. ASSUME NEW t \in User, GetStep(t)
      PROVE  NoHalt'
  BY <1>1, <1>4 DEF GetStep, Hit, Miss, Thread, Labels, Locking, Using
<1>5. ASSUME NEW t \in User, EvictStep(t)
      PROVE  NoHalt'
  BY <1>1, <1>2, <1>5 DEF EvictStep, Pass, Wrap, Evict, Load, Thread, Labels, Locking, Using
<1>6. ASSUME NEW t \in User, UseStep(t)
      PROVE  NoHalt'
  BY <1>1, <1>6 DEF UseStep, Copy, Mark, Unpin, Return, Thread, Labels, Using
<1>7. ASSUME NEW t \in User, Flush(t, TRUE)
      PROVE  NoHalt'
  BY <1>7 DEF Flush, FlushEntry, FlushClean, EndFlush, NoHalt
<1>8. ASSUME BeginFlush(WriteBack, "flush") \/ Flush(WriteBack, FALSE)
      PROVE  NoHalt'
  BY <1>1, <1>2, <1>8
     DEF BeginFlush, Flush, FlushEntry, FlushClean, EndFlush, FlushNext, Thread, Labels, Locking
<1>9. CASE UNCHANGED vars
  BY <1>2, <1>9 DEF vars
<1>10. QED
  BY <1>3, <1>4, <1>5, <1>6, <1>7, <1>8, <1>9 DEF Next

\* As long as the machine is not halted, an entry in use is on the list: no write
\* and no read can go to an entry that was freed.
THEOREM CacheHolds == ASSUME ~Halting PROVE Spec => []HeldEntryCached
<1>1. Init => CacheIInv /\ NoHalt
  BY CacheAssumption, CacheInit DEF Init, NoHalt, Thread
<1>2. CacheIInv /\ NoHalt /\ [Next]_vars => CacheIInv' /\ NoHalt'
  BY CacheAssumption, NextKeeps, NoHaltKeeps DEF CacheIInv
<1>3. CacheIInv /\ NoHalt => HeldEntryCached
  BY DEF CacheIInv, AtInv, NoHalt, HeldEntryCached, Cached
<1>4. QED
  BY <1>1, <1>2, <1>3, PTL DEF Spec

-----------------------------------------------------------------------------
(* No write is lost.                                                       *)

\* Somebody has copied into the entry of s and not yet marked it dirty.
Pending(s) == \E t \in User : pc[t] = "mark" /\ request[t] = [sector |-> s, dirty |-> TRUE]

\* A write to s that is pending at the halt counts as overtaken from then on.
Settled(s) == s \notin overtaken /\ ~(Pending(s) /\ Halted)

\* e is the entry of s.
Holder(e, s) == e \in Cached /\ ~Filling(e) /\ entry[e].sector = s

\* The entry of s has all its writes, and unless it is dirty, or about to be, so
\* does the disk; so does the disk when a flush is about to clear the flag, and
\* when s has no entry.
Safe(s) ==
  /\ \A e \in Entry : Holder(e, s) =>
       /\ entry[e].data = last[s]
       /\ entry[e].dirty \/ Pending(s) \/ disk[s] = last[s]
       /\ BeingFlushed(e) => disk[s] = last[s]
  /\ (\A e \in Entry : ~Holder(e, s)) /\ ~Pending(s) => disk[s] = last[s]

WriteInv == \A s \in Sector : Settled(s) => Safe(s)

\* Entries leave the list at a halt only, and from the front.
HaltInv ==
  /\ ~Halted => first = 1
  /\ \A t \in User : pc[t] \in {"halt", "halt clean"} => at[t] = first

\* What TypeOK says beyond CacheTypes.
HistoryTypes ==
  /\ owner \in Thread \cup {NULL}
  /\ last \in [Sector -> Nat]
  /\ overtaken \in SUBSET Sector
  /\ \A t \in Thread : at[t] =< filesys_cache_size + 1

WriteIInv == CacheIInv /\ HaltInv /\ HistoryTypes /\ WriteInv

-----------------------------------------------------------------------------
(* What the invariant says of the sector a thread is about. *)

\* Before the halt, an entry in use is its sector's only one.
LEMMA UserHolds ==
  ASSUME CacheAssumption, CacheIInv, HaltInv, ~Halted,
         NEW t \in User, pc[t] \in Using
  PROVE  /\ Holder(at[t], request[t].sector)
         /\ \A e \in Entry : Holder(e, request[t].sector) => e = at[t]
<1>1. at[t] \in Cached
  BY DEF CacheIInv, AtInv, HaltInv, Cached
<1>2. ~Filling(at[t])
  BY DEF CacheIInv, FillInv, Filling, Users
<1>3. entry[at[t]].sector = request[t].sector
  BY DEF CacheIInv, PinInv
<1>4. QED
  BY <1>1, <1>2, <1>3 DEF Holder, CacheIInv, OneEntryPerSector

\* So is the entry that the lock's holder looks at, unless it is filling it.
LEMMA LookerHolds ==
  ASSUME CacheAssumption, CacheIInv, NEW t \in Thread, at[t] \in Cached,
         pc[t] \in Locking \ {"load"}
  PROVE  /\ Holder(at[t], entry[at[t]].sector)
         /\ \A e \in Entry : Holder(e, entry[at[t]].sector) => e = at[t]
         /\ \A e : ~Filling(e)
<1>1. \A e : ~Filling(e)
  BY Exclusion DEF Filling, Locking
<1>2. QED
  BY <1>1 DEF Holder, CacheIInv, OneEntryPerSector

\* What the request of a pending write is.
LEMMA WriteRequest ==
  ASSUME NEW r \in Request, NEW s
  PROVE  r = [sector |-> s, dirty |-> TRUE] <=> r.dirty /\ r.sector = s
BY DEF Request

\* A sector that was settled before the step or was overtaken by it.
LEMMA SettledBefore ==
  ASSUME NEW s, overtaken \subseteq overtaken', Halted => Halted',
         Pending(s) /\ Halted => Pending(s)' \/ s \in overtaken',
         Settled(s)'
  PROVE  Settled(s)
BY DEF Settled

\* A step that leaves a sector, its entry and its writers alone, and can only mark
\* the entry dirty, keeps it safe.
LEMMA SafeKept ==
  ASSUME NEW s, Safe(s), disk'[s] = disk[s], last'[s] = last[s],
         Pending(s)' <=> Pending(s),
         \A e \in Entry : Holder(e, s)' <=> Holder(e, s),
         \A e \in Entry : Holder(e, s) =>
           /\ entry'[e].data = entry[e].data
           /\ entry[e].dirty => entry'[e].dirty
           /\ BeingFlushed(e)' => BeingFlushed(e)
  PROVE  Safe(s)'
BY DEF Safe

\* So does a step that does this for all sectors.
LEMMA QuietStep ==
  ASSUME WriteInv, UNCHANGED <<disk, last, overtaken>>, Halted => Halted',
         \A s \in Sector : Pending(s)' <=> Pending(s),
         \A e \in Entry, s \in Sector : Holder(e, s)' <=> Holder(e, s),
         \A e \in Entry, s \in Sector : Holder(e, s) =>
           /\ entry'[e].data = entry[e].data
           /\ entry[e].dirty => entry'[e].dirty
           /\ BeingFlushed(e)' => BeingFlushed(e)
  PROVE  WriteInv'
<1>1. SUFFICES ASSUME NEW s \in Sector, Settled(s)'
               PROVE  Safe(s)'
  BY DEF WriteInv
<1>2. Settled(s)
  BY <1>1, SettledBefore
<1>3. QED
  BY <1>1, <1>2, SafeKept DEF WriteInv

\* What a step of t leaves as it was if t was not, and is not then, about to mark,
\* to fill or to clear an entry.
LEMMA Bystanders ==
  ASSUME NEW t \in Thread,
         \A u \in Thread \ {t} : pc'[u] = pc[u] /\ at'[u] = at[u],
         \A u \in User \ {t} : request'[u] = request[u],
         pc[t] \notin {"mark", "load"}, pc'[t] \notin {"mark", "load", "clean", "halt clean"},
         pc[t] \in {"halt", "halt clean", "off"} => pc'[t] \in {"halt", "off"}
  PROVE  /\ Halted => Halted'
         /\ \A s : Pending(s)' <=> Pending(s)
         /\ \A e : Filling(e)' <=> Filling(e)
         /\ \A e : BeingFlushed(e)' => BeingFlushed(e)
<1>1. User \subseteq Thread
  BY DEF Thread
<1>2. Halted => Halted'
  BY <1>1 DEF Halted
<1>3. ASSUME NEW s
      PROVE  Pending(s)' <=> Pending(s)
  BY <1>1 DEF Pending
<1>4. ASSUME NEW e
      PROVE  Filling(e)' <=> Filling(e)
  BY <1>1 DEF Filling
<1>5. ASSUME NEW e
      PROVE  BeingFlushed(e)' => BeingFlushed(e)
  BY DEF BeingFlushed
<1>6. QED
  BY <1>2, <1>3, <1>4, <1>5

\* So a step that neither adds to the list nor takes from it, and of the entries
\* changes flags and pins only, setting dirty but not clearing it, is quiet.
LEMMA BystandersKeep ==
  ASSUME WriteInv, NEW t \in Thread,
         \A u \in Thread \ {t} : pc'[u] = pc[u] /\ at'[u] = at[u],
         \A u \in User \ {t} : request'[u] = request[u],
         pc[t] \notin {"mark", "load"}, pc'[t] \notin {"mark", "load", "clean", "halt clean"},
         pc[t] \in {"halt", "halt clean", "off"} => pc'[t] \in {"halt", "off"},
         UNCHANGED <<disk, last, overtaken, first, filesys_cache_size>>,
         \A e \in Entry : /\ entry'[e].sector = entry[e].sector
                          /\ entry'[e].data = entry[e].data
                          /\ entry[e].dirty => entry'[e].dirty
  PROVE  WriteInv'
<1>1. /\ Halted => Halted'
      /\ \A s : Pending(s)' <=> Pending(s)
      /\ \A e : Filling(e)' <=> Filling(e)
      /\ \A e : BeingFlushed(e)' => BeingFlushed(e)
  BY Bystanders
<1>2. \A e \in Entry, s \in Sector : Holder(e, s)' <=> Holder(e, s)
  BY <1>1 DEF Holder, Cached
<1>3. QED
  BY <1>1, <1>2, QuietStep

-----------------------------------------------------------------------------
(* The actions. *)

\* filesys_cache_block_get() waits for the lock.
LEMMA GetSafe ==
  ASSUME CacheAssumption, CacheIInv, WriteInv, NEW t \in User, NEW r \in Request, Get(t, r)
  PROVE  WriteInv'
<1>1. t \in Thread /\ pc'[t] = "get"
  BY DEF Get, Goto, CacheIInv, CacheTypes, Thread
<1>2. QED
  BY <1>1, BystandersKeep DEF Get, Goto, CacheIInv, CacheTypes

\* A hit pins the entry and may mark it dirty.
LEMMA HitSafe ==
  ASSUME CacheAssumption, CacheIInv, WriteInv, NEW t \in User, Hit(t)
  PROVE  WriteInv'
<1>1. t \in Thread /\ pc'[t] = "copy"
  BY DEF Hit, Goto, CacheIInv, CacheTypes, Thread
<1>2. PICK e \in Cached :
        /\ entry' = [entry EXCEPT ![e].open_cnt = @ + 1, ![e].accessed = TRUE,
                                  ![e].dirty = @ \/ request[t].dirty]
        /\ at' = [at EXCEPT ![t] = e]
  BY DEF Hit, block_in_cache
<1>3. \A f \in Entry : /\ entry'[f].sector = entry[f].sector
                       /\ entry'[f].data = entry[f].data
                       /\ entry[f].dirty => entry'[f].dirty
  <2>1. SUFFICES ASSUME NEW f \in Entry
                 PROVE  /\ entry'[f].sector = entry[f].sector
                        /\ entry'[f].data = entry[f].data
                        /\ entry[f].dirty => entry'[f].dirty
    OBVIOUS
  <2>2. entry \in [Entry -> CacheEntry] /\ entry[f] \in CacheEntry
    BY DEF CacheIInv, CacheTypes
  <2>3. CASE f = e
    <3> DEFINE d == entry[f].dirty \/ request[t].dirty
    <3>1. entry'[f] = [entry[f] EXCEPT !.open_cnt = @ + 1, !.accessed = TRUE, !.dirty = d]
      BY <1>2, <2>2, <2>3
    <3>2. entry[f].dirty => d
      OBVIOUS
    <3> HIDE DEF d
    <3>3. /\ entry'[f].sector = entry[f].sector
          /\ entry'[f].data = entry[f].data
          /\ entry'[f].dirty = d
      BY <2>2, <3>1
    <3>4. QED
      BY <3>2, <3>3
  <2>4. CASE f # e
    BY <1>2, <2>2, <2>4
  <2>5. QED
    BY <2>3, <2>4
<1>4. QED
  BY <1>1, <1>2, <1>3, BystandersKeep DEF Hit, Goto, CacheIInv, CacheTypes

\* A miss makes room: a new entry is nobody's until it is filled.
LEMMA MissSafe ==
  ASSUME CacheAssumption, CacheIInv, WriteInv, NEW t \in User, Miss(t)
  PROVE  WriteInv'
<1>1. t \in Thread /\ User \subseteq Thread /\ pc[t] = "get"
  BY DEF Thread, Miss
<1>2. /\ pc' = [pc EXCEPT ![t] = pc'[t]] /\ pc'[t] \in {"load", "scan"}
      /\ \A u \in Thread \ {t} : at'[u] = at[u]
      /\ UNCHANGED <<disk, entry, first, request, last, overtaken>>
  BY <1>1 DEF Miss, Goto, CacheIInv, CacheTypes
<1>3. Halted => Halted'
  BY <1>1, <1>2 DEF Halted, CacheIInv, CacheTypes
<1>4. \A s : Pending(s)' <=> Pending(s)
  BY <1>1, <1>2 DEF Pending, CacheIInv, CacheTypes
<1>5. \A e : BeingFlushed(e)' => BeingFlushed(e)
  BY <1>1, <1>2 DEF BeingFlushed, CacheIInv, CacheTypes
<1>6. \A e \in Entry, s \in Sector : Holder(e, s)' <=> Holder(e, s)
  <2>1. \A e : ~Filling(e)
    BY Exclusion DEF Miss, Filling, Locking
  <2>2. CASE filesys_cache_size' = filesys_cache_size /\ pc'[t] = "scan"
    <3>1. \A e : ~Filling(e)'
      BY <1>1, <1>2, <2>1, <2>2 DEF Filling, CacheIInv, CacheTypes
    <3>2. QED
      BY <1>2, <2>1, <2>2, <3>1 DEF Holder, Cached
  <2>3. CASE /\ filesys_cache_size' = filesys_cache_size + 1 /\ pc'[t] = "load"
             /\ at'[t] = filesys_cache_size + 1
    <3>1. \A e : Filling(e)' <=> e = filesys_cache_size + 1
      <4>1. pc'[t] = "load" /\ \A u \in Thread \ {t} : pc'[u] = pc[u]
        BY <1>1, <1>2, <2>3 DEF CacheIInv, CacheTypes
      <4>2. \A u \in Thread \ {t} : pc[u] \notin Locking
        BY Exclusion DEF Miss
      <4> QED
        BY <1>1, <2>3, <4>1, <4>2 DEF Filling, Locking
    <3>2. \A e \in Entry : e \in Cached <=> e \in Cached' /\ e # filesys_cache_size + 1
      BY <1>2, <2>3 DEF Cached, Entry, CacheIInv, CacheTypes, CacheAssumption
    <3>3. QED
      BY <1>2, <2>1, <3>1, <3>2 DEF Holder
  <2>4. QED
    BY <1>1, <2>2, <2>3 DEF Miss, Goto, CacheIInv, CacheTypes
<1>7. QED
  BY <1>2, <1>3, <1>4, <1>5, <1>6, QuietStep

\* The clock's hand moves and accessed flags are cleared.
LEMMA ScanSafe ==
  ASSUME CacheAssumption, CacheIInv, WriteInv, NEW t \in User, Pass(t) \/ Wrap(t)
  PROVE  WriteInv'
<1>1. t \in Thread /\ pc'[t] = "scan" /\ pc[t] = "scan"
  BY DEF Pass, Wrap, Thread
<1>2. \A e \in Entry : /\ entry'[e].sector = entry[e].sector
                       /\ entry'[e].data = entry[e].data
                       /\ entry[e].dirty => entry'[e].dirty
  <2>1. entry \in [Entry -> CacheEntry]
    BY DEF CacheIInv, CacheTypes
  <2>2. CASE Pass(t)
    <3>1. PICK second : entry' = [entry EXCEPT ![at[t]].accessed = second]
      BY <2>2 DEF Pass
    <3>2. QED
      BY <2>1, <3>1
  <2>3. CASE Wrap(t)
    BY <2>3 DEF Wrap
  <2>4. QED
    BY <2>2, <2>3
<1>3. QED
  BY <1>1, <1>2, BystandersKeep DEF Pass, Wrap, CacheIInv, CacheTypes

\* The last step of a user changes its pin only.
LEMMA UnpinSafe ==
  ASSUME CacheAssumption, CacheIInv, WriteInv, NEW t \in User, Unpin(t)
  PROVE  WriteInv'
<1>1. t \in Thread /\ pc'[t] = "idle" /\ pc[t] = "unpin"
  BY DEF Unpin, Return, Goto, CacheIInv, CacheTypes, Thread
<1>2. \A e \in Entry : /\ entry'[e].sector = entry[e].sector
                       /\ entry'[e].data = entry[e].data
                       /\ entry[e].dirty => entry'[e].dirty
  BY DEF Unpin, CacheIInv, CacheTypes
<1>3. QED
  BY <1>1, <1>2, BystandersKeep DEF Unpin, Return, Goto, CacheIInv, CacheTypes

\* A flush begins and ends without looking at an entry.
LEMMA FlushEndsSafe ==
  ASSUME CacheAssumption, CacheIInv, WriteInv, NEW t \in Thread, NEW halt \in BOOLEAN,
         BeginFlush(t, IF halt THEN "halt" ELSE "flush") \/ EndFlush(t, halt)
  PROVE  WriteInv'
<1>1. /\ pc[t] \in {"idle", "flush", "halt"} /\ pc'[t] \in {"flush", "halt", "off", "idle"}
      /\ pc[t] = "halt" => pc'[t] = "off"
      /\ pc[t] # "off"
  BY DEF BeginFlush, EndFlush, Goto, CacheIInv, CacheTypes
<1>2. QED
  BY <1>1, BystandersKeep DEF BeginFlush, EndFlush, Goto, CacheIInv, CacheTypes

\* memcpy(): a write that no flush and no halt overtakes brings its entry up to date.
LEMMA CopySafe ==
  ASSUME CacheAssumption, CacheIInv, HaltInv, HistoryTypes, WriteInv, NEW t \in User, Copy(t)
  PROVE  WriteInv'
<1> DEFINE x == request[t].sector
<1>1. /\ t \in Thread /\ User \subseteq Thread /\ pc[t] = "copy" /\ pc[t] \in Using
      /\ pc' = [pc EXCEPT ![t] = "mark"] /\ pc \in [Thread -> Labels]
      /\ UNCHANGED <<disk, first, filesys_cache_size, request, at>>
      /\ request[t] \in Request /\ x \in Sector
  BY DEF Copy, Goto, CacheIInv, CacheTypes, AtInv, Thread, Using, Request
<1>2. /\ at[t] \in Entry /\ entry[at[t]].sector = x
      /\ entry \in [Entry -> CacheEntry] /\ entry[at[t]] \in CacheEntry
  BY <1>1, CachedEntries DEF CacheIInv, CacheTypes, AtInv, PinInv
<1>3. /\ Halted' <=> Halted
      /\ \A e : Filling(e)' <=> Filling(e)
      /\ \A e : BeingFlushed(e)' => BeingFlushed(e)
  BY <1>1 DEF Halted, Filling, BeingFlushed
<1>4. \A s : Pending(s)' <=> Pending(s) \/ (request[t].dirty /\ x = s)
  <2>1. \A s : Pending(s)' <=> Pending(s) \/ request[t] = [sector |-> s, dirty |-> TRUE]
    BY <1>1 DEF Pending
  <2>2. QED
    BY <1>1, <2>1, WriteRequest
<1>5. CASE ~request[t].dirty
  <2>1. UNCHANGED <<entry, last, overtaken>>
    BY <1>5 DEF Copy
  <2>2. \A s : Pending(s)' <=> Pending(s)
    BY <1>4, <1>5
  <2>3. \A e, s : Holder(e, s)' <=> Holder(e, s)
    BY <1>1, <1>3, <2>1 DEF Holder, Cached
  <2>4. QED
    BY <1>1, <1>3, <2>1, <2>2, <2>3, QuietStep
<1>6. CASE request[t].dirty
  <2>1. /\ entry' = [entry EXCEPT ![at[t]].data = @ + 1]
        /\ last' = [last EXCEPT ![x] = @ + 1]
        /\ overtaken' = IF BeingFlushed(at[t]) \/ Halted THEN overtaken \cup {x} ELSE overtaken
    BY <1>6 DEF Copy
  <2>2. /\ \A e \in Entry : entry'[e].sector = entry[e].sector /\ entry'[e].dirty = entry[e].dirty
        /\ \A e \in Entry : e # at[t] => entry'[e].data = entry[e].data
        /\ entry'[at[t]].data = entry[at[t]].data + 1
    BY <1>2, <2>1
  <2>3. \A s : \A e \in Entry : Holder(e, s)' <=> Holder(e, s)
    BY <1>1, <1>3, <2>2 DEF Holder, Cached
  <2>4. SUFFICES ASSUME NEW s \in Sector, Settled(s)'
                 PROVE  Safe(s)'
    BY DEF WriteInv
  <2>5. Settled(s)
    BY <1>3, <1>4, <2>1, <2>4, SettledBefore
  <2>6. Safe(s)
    BY <2>5 DEF WriteInv
  <2>7. CASE s # x
    <3>1. last'[s] = last[s] /\ (Pending(s)' <=> Pending(s))
      BY <1>1, <1>4, <2>1, <2>7 DEF HistoryTypes
    <3>2. \A e \in Entry : Holder(e, s) => e # at[t]
      BY <1>2, <2>7 DEF Holder
    <3>3. QED
      BY <1>1, <1>3, <2>2, <2>3, <2>6, <3>1, <3>2, SafeKept
  <2>8. CASE s = x
    <3>1. ~BeingFlushed(at[t]) /\ ~Halted
      BY <2>1, <2>4, <2>8 DEF Settled
    <3>3. Holder(at[t], s) /\ \A e \in Entry : Holder(e, s) => e = at[t]
      BY <1>1, <2>8, <3>1, UserHolds
    <3>4. entry'[at[t]].data = last'[s]
      BY <1>2, <2>1, <2>2, <2>6, <2>8, <3>3 DEF Safe, HistoryTypes
    <3>5. Pending(s)' /\ \A e : e = at[t] => ~BeingFlushed(e)'
      BY <1>3, <1>4, <1>6, <2>8, <3>1
    <3>6. \A e \in Entry : Holder(e, s)' => e = at[t]
      BY <2>3, <3>3
    <3>7. QED
      BY <3>4, <3>5, <3>6 DEF Safe
  <2>9. QED
    BY <2>7, <2>8
<1>7. QED
  BY <1>5, <1>6

\* The writer marks the entry dirty: the flag takes over from its pending write.
LEMMA MarkSafe ==
  ASSUME CacheAssumption, CacheIInv, HaltInv, WriteInv, NEW t \in User, Mark(t)
  PROVE  WriteInv'
<1> DEFINE x == request[t].sector
           d == entry[at[t]].dirty \/ request[t].dirty
<1>1. /\ t \in Thread /\ User \subseteq Thread /\ pc[t] = "mark" /\ pc[t] \in Using
      /\ pc' = [pc EXCEPT ![t] = "unpin"] /\ pc \in [Thread -> Labels]
      /\ UNCHANGED <<disk, first, filesys_cache_size, request, at, last>>
      /\ request[t] \in Request /\ x \in Sector
  BY DEF Mark, Goto, CacheIInv, CacheTypes, AtInv, Thread, Using, Request
<1>2. /\ at[t] \in Entry /\ entry[at[t]].sector = x
      /\ entry \in [Entry -> CacheEntry] /\ entry[at[t]] \in CacheEntry
  BY <1>1, CachedEntries DEF CacheIInv, CacheTypes, AtInv, PinInv
<1>3. /\ entry' = [entry EXCEPT ![at[t]].accessed = TRUE, ![at[t]].dirty = d]
      /\ overtaken' = IF request[t].dirty /\ Halted THEN overtaken \cup {x} ELSE overtaken
  BY DEF Mark
<1>4. /\ entry[at[t]].dirty => d
      /\ request[t].dirty => d
  OBVIOUS
<1> HIDE DEF d
<1>5. /\ \A e \in Entry : /\ entry'[e].sector = entry[e].sector
                          /\ entry'[e].data = entry[e].data
                          /\ e # at[t] => entry'[e].dirty = entry[e].dirty
      /\ entry'[at[t]].dirty = d
  BY <1>2, <1>3
<1>6. /\ Halted' <=> Halted
      /\ \A e : Filling(e)' <=> Filling(e)
      /\ \A e : BeingFlushed(e)' => BeingFlushed(e)
  BY <1>1 DEF Halted, Filling, BeingFlushed
<1>7. \A s : Pending(s) <=> Pending(s)' \/ (request[t].dirty /\ x = s)
  <2>1. \A s : Pending(s) <=> Pending(s)' \/ request[t] = [sector |-> s, dirty |-> TRUE]
    BY <1>1 DEF Pending
  <2>2. QED
    BY <1>1, <2>1, WriteRequest
<1>8. \A s : \A e \in Entry : Holder(e, s)' <=> Holder(e, s)
  BY <1>1, <1>5, <1>6 DEF Holder, Cached
<1>9. \A e \in Entry : entry[e].dirty => entry'[e].dirty
  BY <1>4, <1>5
<1>10. SUFFICES ASSUME NEW s \in Sector, Settled(s)'
                PROVE  Safe(s)'
  BY DEF WriteInv
<1>11. Settled(s)
  <2>1. Pending(s) /\ Halted => Pending(s)' \/ s \in overtaken'
    BY <1>3, <1>7
  <2>2. QED
    BY <1>3, <1>6, <1>10, <2>1, SettledBefore
<1>12. Safe(s)
  BY <1>11 DEF WriteInv
<1>13. CASE Pending(s)' <=> Pending(s)
  BY <1>1, <1>5, <1>6, <1>8, <1>9, <1>12, <1>13, SafeKept
<1>14. CASE ~(Pending(s)' <=> Pending(s))
  <2>1. /\ Pending(s) /\ ~Pending(s)'
        /\ request[t].dirty /\ x = s
    BY <1>7, <1>14
  <2>2. ~Halted
    BY <1>3, <1>10, <2>1 DEF Settled
  <2>3. Holder(at[t], s) /\ \A e \in Entry : Holder(e, s) => e = at[t]
    BY <1>1, <2>1, <2>2, UserHolds
  <2>4. entry'[at[t]].dirty
    BY <1>4, <1>5, <2>1
  <2>5. QED
    BY <1>1, <1>2, <1>5, <1>6, <1>8, <1>12, <2>3, <2>4 DEF Safe
<1>15. QED
  BY <1>13, <1>14

\* The clock's victim goes to disk if it is dirty: nobody uses it, so no write of it
\* is pending.
LEMMA EvictSafe ==
  ASSUME CacheAssumption, CacheIInv, WriteInv, NEW t \in User, Evict(t)
  PROVE  WriteInv'
<1> DEFINE x == entry[at[t]].sector
<1>1. /\ t \in Thread /\ User \subseteq Thread /\ pc[t] = "scan" /\ at[t] \in Cached
      /\ pc' = [pc EXCEPT ![t] = "load"] /\ pc \in [Thread -> Labels]
      /\ disk' = IF entry[at[t]].dirty THEN [disk EXCEPT ![x] = entry[at[t]].data] ELSE disk
      /\ disk \in [Sector -> Nat]
      /\ UNCHANGED <<entry, first, filesys_cache_size, request, at, last, overtaken>>
  BY DEF Evict, Goto, CacheIInv, CacheTypes, Thread
<1>2. at[t] \in Entry
  BY <1>1, CachedEntries DEF CacheIInv
<1>3. /\ Halted' <=> Halted
      /\ \A s : Pending(s)' <=> Pending(s)
      /\ \A e : BeingFlushed(e)' => BeingFlushed(e)
  BY <1>1 DEF Halted, Pending, BeingFlushed
<1>4. /\ Holder(at[t], x) /\ \A e \in Entry : Holder(e, x) => e = at[t]
      /\ \A e : ~Filling(e)
  BY <1>1, LookerHolds DEF Locking
<1>5. \A e : Filling(e)' <=> e = at[t]
  BY <1>1, <1>4 DEF Filling
<1>6. \A e, s : Holder(e, s)' <=> Holder(e, s) /\ e # at[t]
  BY <1>1, <1>4, <1>5 DEF Holder, Cached
<1>7. SUFFICES ASSUME NEW s \in Sector, Settled(s)'
               PROVE  Safe(s)'
  BY DEF WriteInv
<1>8. Safe(s)
  BY <1>1, <1>3, <1>7, SettledBefore DEF WriteInv
<1>9. CASE s # x
  <2>1. \A e \in Entry : Holder(e, s)' <=> Holder(e, s)
    BY <1>6, <1>9 DEF Holder
  <2>2. disk'[s] = disk[s]
    BY <1>1, <1>9
  <2>3. QED
    BY <1>1, <1>3, <1>8, <2>1, <2>2, SafeKept
<1>10. CASE s = x
  <2>1. \A e \in Entry : ~Holder(e, s)'
    BY <1>4, <1>6, <1>10
  <2>2. ~Pending(s) => disk'[s] = last[s]
    <3>1. /\ entry[at[t]].data = last[s]
          /\ entry[at[t]].dirty \/ Pending(s) \/ disk[s] = last[s]
      BY <1>2, <1>4, <1>8, <1>10 DEF Safe
    <3>2. QED
      BY <1>1, <1>10, <3>1
  <2>3. QED
    BY <1>1, <1>3, <2>1, <2>2 DEF Safe
<1>11. QED
  BY <1>9, <1>10

\* The entry is filled from the disk, which has every write: the sector is in no
\* other entry, and so nobody is writing to it.
LEMMA LoadSafe ==
  ASSUME CacheAssumption, CacheIInv, HaltInv, WriteInv, NEW t \in User, Load(t)
  PROVE  WriteInv'
<1> DEFINE x == request[t].sector
<1>1. /\ t \in Thread /\ User \subseteq Thread /\ pc[t] = "load" /\ at[t] \in Cached
      /\ pc' = [pc EXCEPT ![t] = "copy"] /\ pc \in [Thread -> Labels]
      /\ UNCHANGED <<disk, first, filesys_cache_size, request, at, last, overtaken>>
  BY DEF Load, Goto, CacheIInv, CacheTypes, AtInv, Thread
<1>2. at[t] \in Entry
  BY <1>1, CachedEntries DEF CacheIInv
<1>3. /\ \A e \in Entry : e # at[t] => entry'[e] = entry[e]
      /\ entry'[at[t]].sector = x
      /\ entry'[at[t]].data = disk[x]
  BY <1>2 DEF Load, CacheIInv, CacheTypes
<1>4. /\ Halted' <=> Halted
      /\ \A s : Pending(s)' <=> Pending(s)
      /\ \A e : BeingFlushed(e)' => BeingFlushed(e)
  BY <1>1 DEF Halted, Pending, BeingFlushed
<1>5. \A e : Filling(e) <=> e = at[t]
  BY <1>1, Exclusion DEF Filling, Locking
<1>6. \A e : ~Filling(e)'
  BY <1>1, <1>5, Exclusion DEF Filling, Locking
<1>7. \A e \in Cached : entry[e].sector = x => e = at[t]
  BY <1>1 DEF CacheIInv, FillInv
<1>8. SUFFICES ASSUME NEW s \in Sector, Settled(s)'
               PROVE  Safe(s)'
  BY DEF WriteInv
<1>9. Settled(s) /\ Safe(s)
  BY <1>1, <1>4, <1>8, SettledBefore DEF WriteInv
<1>10. CASE s # x
  <2>1. \A e \in Entry : Holder(e, s)' <=> Holder(e, s)
    BY <1>1, <1>3, <1>5, <1>6, <1>10 DEF Holder, Cached
  <2>2. \A e \in Entry : Holder(e, s) => entry'[e] = entry[e]
    BY <1>3, <1>5 DEF Holder
  <2>3. QED
    BY <1>1, <1>4, <1>9, <2>1, <2>2, SafeKept
<1>11. CASE s = x
  <2>1. \A e \in Entry : ~Holder(e, s)
    BY <1>5, <1>7, <1>11 DEF Holder
  <2>2. ~Pending(s)
    <3>1. SUFFICES ASSUME Pending(s)
                   PROVE  FALSE
      OBVIOUS
    <3>2. ~Halted
      BY <1>9, <3>1 DEF Settled
    <3>3. PICK u \in User : pc[u] = "mark" /\ request[u] = [sector |-> s, dirty |-> TRUE]
      BY <3>1 DEF Pending
    <3>4. request[u].sector = s
      BY <3>3
    <3>5. Holder(at[u], s)
      BY <3>2, <3>3, <3>4, UserHolds DEF Using
    <3>6. at[u] \in Entry
      BY <3>3, CachedEntries DEF CacheIInv, AtInv, Using
    <3>7. QED
      BY <2>1, <3>5, <3>6
  <2>3. disk[s] = last[s]
    BY <1>9, <2>1, <2>2 DEF Safe
  <2>4. \A e \in Entry : Holder(e, s)' => e = at[t]
    BY <1>1, <1>3, <1>7, <1>11 DEF Holder, Cached
  <2>5. QED
    BY <1>1, <1>3, <1>11, <2>3, <2>4 DEF Safe
<1>12. QED
  BY <1>10, <1>11

\* block_write() of a flush: it copies all writes of the sector to the disk.
LEMMA FlushEntrySafe ==
  ASSUME CacheAssumption, CacheIInv, HaltInv, WriteInv, NEW t \in Thread, NEW halt \in BOOLEAN,
         t = WriteBack => ~halt, FlushEntry(t, halt)
  PROVE  WriteInv'
<1> DEFINE x == entry[at[t]].sector
<1>1. /\ User \subseteq Thread /\ at[t] \in Cached /\ pc[t] = (IF halt THEN "halt" ELSE "flush")
      /\ pc \in [Thread -> Labels] /\ disk \in [Sector -> Nat]
      /\ UNCHANGED <<entry, filesys_cache_size, owner, request, last, overtaken>>
      /\ halt => t \in User
  BY DEF FlushEntry, CacheIInv, CacheTypes, Thread
<1>2. at[t] \in Entry /\ first \in Nat /\ filesys_cache_size \in Nat /\ at \in [Thread -> Nat]
  BY <1>1, CachedEntries DEF CacheIInv, CacheTypes
<1>3. /\ Holder(at[t], x) /\ \A e \in Entry : Holder(e, x) => e = at[t]
      /\ \A e : ~Filling(e)
  BY <1>1, LookerHolds DEF Locking
<1>4. CASE entry[at[t]].dirty
  <2>1. /\ disk' = [disk EXCEPT ![x] = entry[at[t]].data]
        /\ pc' = [pc EXCEPT ![t] = IF halt THEN "halt clean" ELSE "clean"]
        /\ UNCHANGED <<first, at>>
    BY <1>4 DEF FlushEntry, Goto
  <2>2. /\ Halted' <=> Halted
        /\ \A s : Pending(s)' <=> Pending(s)
        /\ \A e : ~Filling(e)'
        /\ \A e : e # at[t] => (BeingFlushed(e)' => BeingFlushed(e))
    BY <1>1, <1>3, <2>1 DEF Halted, Pending, Filling, BeingFlushed
  <2>3. \A e, s : Holder(e, s)' <=> Holder(e, s)
    BY <1>1, <1>3, <2>1, <2>2 DEF Holder, Cached
  <2>4. SUFFICES ASSUME NEW s \in Sector, Settled(s)'
                 PROVE  Safe(s)'
    BY DEF WriteInv
  <2>5. Safe(s)
    BY <1>1, <2>2, <2>4, SettledBefore DEF WriteInv
  <2>6. CASE s # x
    <3>1. disk'[s] = disk[s] /\ \A e \in Entry : Holder(e, s) => e # at[t]
      BY <1>1, <2>1, <2>6 DEF Holder
    <3>2. QED
      BY <1>1, <2>2, <2>3, <2>5, <3>1, SafeKept
  <2>7. CASE s = x
    <3>1. disk'[s] = last'[s] /\ entry'[at[t]].data = last'[s]
      BY <1>1, <1>2, <1>3, <2>1, <2>5, <2>7 DEF Safe
    <3>2. \A e \in Entry : Holder(e, s)' => e = at[t]
      BY <1>3, <2>3, <2>7
    <3>3. QED
      BY <3>1, <3>2 DEF Safe
  <2>8. QED
    BY <2>6, <2>7
<1>5. CASE ~entry[at[t]].dirty /\ ~halt
  <2>1. /\ UNCHANGED <<disk, pc, first>> /\ pc[t] = "flush"
        /\ at' = [at EXCEPT ![t] = at[t] + 1]
    BY <1>1, <1>5 DEF FlushEntry, FlushNext
  <2>2. \A u \in Thread \ {t} : pc'[u] = pc[u] /\ at'[u] = at[u]
    BY <1>2, <2>1
  <2>3. QED
    BY <1>1, <2>1, <2>2, BystandersKeep
<1>6. CASE ~entry[at[t]].dirty /\ halt
  <2>1. /\ UNCHANGED <<disk, pc>> /\ pc[t] = "halt" /\ first' = first + 1
        /\ at' = [at EXCEPT ![t] = at[t] + 1] /\ at[t] = first
    BY <1>1, <1>6 DEF FlushEntry, FlushNext, HaltInv
  <2>2. /\ Halted' <=> Halted
        /\ \A s : Pending(s)' <=> Pending(s)
        /\ \A e : ~Filling(e)'
        /\ \A e : BeingFlushed(e)' => BeingFlushed(e)
    BY <1>1, <1>2, <1>3, <2>1 DEF Halted, Pending, Filling, BeingFlushed
  <2>3. \A s : \A e \in Entry : Holder(e, s)' <=> Holder(e, s) /\ e # at[t]
    BY <1>1, <1>2, <1>3, <2>1, <2>2 DEF Holder, Cached, Entry
  <2>4. SUFFICES ASSUME NEW s \in Sector, Settled(s)'
                 PROVE  Safe(s)'
    BY DEF WriteInv
  <2>5. Safe(s)
    BY <1>1, <2>2, <2>4, SettledBefore DEF WriteInv
  <2>6. CASE s # x
    <3>1. \A e \in Entry : Holder(e, s)' <=> Holder(e, s)
      BY <2>3, <2>6 DEF Holder
    <3>2. QED
      BY <1>1, <2>1, <2>2, <2>5, <3>1, SafeKept
  <2>7. CASE s = x
    <3>1. \A e \in Entry : ~Holder(e, s)'
      BY <1>3, <2>3, <2>7
    <3>2. ~Pending(s) => disk[s] = last[s]
      BY <1>2, <1>3, <1>6, <2>5, <2>7 DEF Safe
    <3>3. QED
      BY <1>1, <2>1, <2>2, <3>1, <3>2 DEF Safe
  <2>8. QED
    BY <2>6, <2>7
<1>7. QED
  BY <1>4, <1>5, <1>6

\* The flag is cleared, and at a halt the entry freed, when the disk has all writes.
LEMMA FlushCleanSafe ==
  ASSUME CacheAssumption, CacheIInv, HaltInv, WriteInv, NEW t \in Thread, NEW halt \in BOOLEAN,
         t = WriteBack => ~halt, FlushClean(t, halt)
  PROVE  WriteInv'
<1> DEFINE x == entry[at[t]].sector
<1>1. /\ User \subseteq Thread /\ pc[t] = (IF halt THEN "halt clean" ELSE "clean")
      /\ pc \in [Thread -> Labels]
      /\ pc' = [pc EXCEPT ![t] = IF halt THEN "halt" ELSE "flush"]
      /\ at' = [at EXCEPT ![t] = at[t] + 1]
      /\ first' = (IF halt THEN at[t] + 1 ELSE first)
      /\ UNCHANGED <<disk, filesys_cache_size, owner, request, last, overtaken>>
      /\ halt => t \in User
  BY DEF FlushClean, FlushNext, Goto, CacheIInv, CacheTypes, Thread
<1>2. at[t] \in Cached /\ (halt => at[t] = first)
  BY <1>1 DEF CacheIInv, AtInv, HaltInv
<1>3. /\ at[t] \in Entry /\ first \in Nat /\ filesys_cache_size \in Nat /\ at \in [Thread -> Nat]
      /\ entry \in [Entry -> CacheEntry]
  BY <1>2, CachedEntries DEF CacheIInv, CacheTypes
<1>4. /\ entry' = [entry EXCEPT ![at[t]].dirty = FALSE]
      /\ BeingFlushed(at[t])
  BY <1>1 DEF FlushClean, BeingFlushed
<1>5. /\ Holder(at[t], x) /\ \A e \in Entry : Holder(e, x) => e = at[t]
      /\ \A e : ~Filling(e)
  BY <1>1, <1>2, LookerHolds DEF Locking
<1>6. /\ Halted' <=> Halted
      /\ \A s : Pending(s)' <=> Pending(s)
      /\ \A e : ~Filling(e)'
      /\ \A e : BeingFlushed(e)' => BeingFlushed(e)
  BY <1>1, <1>3, <1>5 DEF Halted, Pending, Filling, BeingFlushed
<1>7. \A e \in Entry : /\ entry'[e].sector = entry[e].sector
                       /\ entry'[e].data = entry[e].data
                       /\ e # at[t] => entry'[e].dirty = entry[e].dirty
  <2>1. \A e \in Entry : e # at[t] => entry'[e] = entry[e]
    BY <1>3, <1>4
  <2>2. entry'[at[t]] = [entry[at[t]] EXCEPT !.dirty = FALSE] /\ entry[at[t]] \in CacheEntry
    BY <1>3, <1>4
  <2>3. entry'[at[t]].sector = entry[at[t]].sector /\ entry'[at[t]].data = entry[at[t]].data
    BY <2>2
  <2>4. QED
    BY <2>1, <2>3
<1>8. \A s : \A e \in Entry : Holder(e, s)' <=> Holder(e, s) /\ ~(halt /\ e = at[t])
  <2>1. CASE ~halt
    BY <1>1, <1>5, <1>6, <1>7, <2>1 DEF Holder, Cached
  <2>2. CASE halt
    <3>1. first' = first + 1 /\ at[t] = first /\ filesys_cache_size' = filesys_cache_size
      BY <1>1, <1>2, <2>2
    <3>2. \A e \in Entry : e \in Cached' <=> e \in Cached /\ e # at[t]
      BY <1>3, <3>1 DEF Cached, Entry
    <3>3. QED
      BY <1>5, <1>6, <1>7, <2>2, <3>2 DEF Holder
  <2>3. QED
    BY <2>1, <2>2
<1>9. SUFFICES ASSUME NEW s \in Sector, Settled(s)'
               PROVE  Safe(s)'
  BY DEF WriteInv
<1>10. Safe(s)
  BY <1>1, <1>6, <1>9, SettledBefore DEF WriteInv
<1>11. CASE s # x
  <2>1. \A e \in Entry : Holder(e, s) => e # at[t]
    BY <1>11 DEF Holder
  <2>2. \A e \in Entry : Holder(e, s)' <=> Holder(e, s)
    BY <1>8, <2>1
  <2>3. QED
    BY <1>1, <1>6, <1>7, <1>10, <2>1, <2>2, SafeKept
<1>12. CASE s = x
  <2>1. disk'[s] = last'[s] /\ entry'[at[t]].data = last'[s]
    BY <1>1, <1>3, <1>4, <1>5, <1>7, <1>10, <1>12 DEF Safe
  <2>2. \A e \in Entry : Holder(e, s)' => e = at[t]
    BY <1>5, <1>8, <1>12
  <2>3. QED
    BY <2>1, <2>2 DEF Safe
<1>13. QED
  BY <1>11, <1>12

-----------------------------------------------------------------------------
\* Every step keeps the writes.
LEMMA NextSafe ==
  ASSUME CacheAssumption, CacheIInv, HaltInv, HistoryTypes, WriteInv, [Next]_vars
  PROVE  WriteInv'
<1>1. ASSUME NEW t \in User, NEW r \in Request, Get(t, r)
      PROVE  WriteInv'
  BY <1>1, GetSafe
<1>2. ASSUME NEW t \in User, GetStep(t)
      PROVE  WriteInv'
  BY <1>2, HitSafe, MissSafe DEF GetStep
<1>3. ASSUME NEW t \in User, EvictStep(t)
      PROVE  WriteInv'
  BY <1>3, ScanSafe, EvictSafe, LoadSafe DEF EvictStep
<1>4. ASSUME NEW t \in User, UseStep(t)
      PROVE  WriteInv'
  BY <1>4, CopySafe, MarkSafe, UnpinSafe DEF UseStep
<1>5. ASSUME NEW t \in Thread, NEW halt \in BOOLEAN, t = WriteBack => ~halt, Flush(t, halt)
      PROVE  WriteInv'
  BY <1>5, FlushEntrySafe, FlushCleanSafe, FlushEndsSafe DEF Flush
<1>6. ASSUME NEW t \in User, Flush(t, TRUE)
      PROVE  WriteInv'
  BY <1>5, <1>6, Exclusion
<1>7. ASSUME BeginFlush(WriteBack, "flush")
      PROVE  WriteInv'
  BY <1>7, FlushEndsSafe, Exclusion
<1>8. ASSUME Flush(WriteBack, FALSE)
      PROVE  WriteInv'
  BY <1>5, <1>8, Exclusion
<1>9. ASSUME NEW t \in User, BeginFlush(t, "halt")
      PROVE  WriteInv'
  BY <1>9, FlushEndsSafe, Exclusion
<1>10. ASSUME UNCHANGED vars
       PROVE  WriteInv'
  <2>1. UNCHANGED <<disk, entry, first, filesys_cache_size, pc, request, at, last, overtaken>>
    BY <1>10 DEF vars
  <2>2. /\ Halted' <=> Halted
        /\ \A s : Pending(s)' <=> Pending(s)
        /\ \A e : Filling(e)' <=> Filling(e)
        /\ \A e : BeingFlushed(e)' => BeingFlushed(e)
    BY <2>1 DEF Halted, Pending, Filling, BeingFlushed
  <2>3. \A e, s : Holder(e, s)' <=> Holder(e, s)
    BY <2>1, <2>2 DEF Holder, Cached
  <2>4. QED
    BY <2>1, <2>2, <2>3, QuietStep
<1>11. QED
  BY <1>1, <1>2, <1>3, <1>4, <1>6, <1>7, <1>8, <1>9, <1>10 DEF Next

\* The types of the histories, of the lock and of the places threads are at.
LEMMA TypesKept ==
  ASSUME CacheAssumption, CacheIInv, HistoryTypes, [Next]_vars
  PROVE  HistoryTypes'
<1>1. ASSUME UNCHANGED <<owner, last, overtaken, filesys_cache_size, at>>
      PROVE  HistoryTypes'
  BY <1>1 DEF HistoryTypes
<1>2. ASSUME NEW t \in Thread, NEW e \in Nat, e =< filesys_cache_size + 1,
             at' = [at EXCEPT ![t] = e], owner' \in {owner, t, NULL},
             UNCHANGED <<last, overtaken, filesys_cache_size>>
      PROVE  HistoryTypes'
  BY <1>2 DEF HistoryTypes, CacheIInv, CacheTypes
<1>3. /\ User \subseteq Thread /\ WriteBack \in Thread
      /\ first \in Nat /\ first =< filesys_cache_size + 1 /\ filesys_cache_size \in Nat
      /\ 0 \in Nat /\ 0 =< filesys_cache_size + 1
      /\ \A e \in Cached : /\ e \in Nat /\ e =< filesys_cache_size
                           /\ e + 1 \in Nat /\ e + 1 =< filesys_cache_size + 1
  BY DEF Thread, Cached, CacheIInv, CacheTypes
<1>4. ASSUME NEW t \in User, NEW r \in Request, Get(t, r)
      PROVE  HistoryTypes'
  BY <1>1, <1>4 DEF Get
<1>5. ASSUME NEW t \in User, Hit(t)
      PROVE  HistoryTypes'
  <2>1. PICK e \in Cached : at' = [at EXCEPT ![t] = e]
    BY <1>5 DEF Hit, block_in_cache
  <2>2. /\ e \in Nat /\ e =< filesys_cache_size + 1
        /\ UNCHANGED <<owner, last, overtaken, filesys_cache_size>>
    BY <1>3, <1>5, <2>1 DEF Hit
  <2>3. QED
    BY <1>2, <1>3, <2>1, <2>2
<1>6. ASSUME NEW t \in User, Miss(t)
      PROVE  HistoryTypes'
  BY <1>3, <1>6 DEF Miss, HistoryTypes, CacheIInv, CacheTypes
<1>7. ASSUME NEW t \in User, Pass(t) \/ Wrap(t)
      PROVE  HistoryTypes'
  BY <1>2, <1>3, <1>7 DEF Pass, Wrap
<1>8. ASSUME NEW t \in User, Evict(t)
      PROVE  HistoryTypes'
  BY <1>1, <1>8 DEF Evict
<1>9. ASSUME NEW t \in User, Load(t)
      PROVE  HistoryTypes'
  BY <1>3, <1>9 DEF Load, HistoryTypes
<1>10. ASSUME NEW t \in User, Copy(t)
       PROVE  HistoryTypes'
  <2>1. request[t] \in Request /\ request[t].sector \in Sector
    BY <1>10 DEF Copy, CacheIInv, AtInv, Using, Request
  <2>2. QED
    BY <1>10, <2>1 DEF Copy, HistoryTypes
<1>11. ASSUME NEW t \in User, Mark(t)
       PROVE  HistoryTypes'
  <2>1. request[t] \in Request /\ request[t].sector \in Sector
    BY <1>11 DEF Mark, CacheIInv, AtInv, Using, Request
  <2>2. QED
    BY <1>11, <2>1 DEF Mark, HistoryTypes
<1>12. ASSUME NEW t \in User, Unpin(t)
       PROVE  HistoryTypes'
  BY <1>2, <1>3, <1>12 DEF Unpin, Return, NoEntry
<1>13. ASSUME NEW t \in Thread, NEW label, BeginFlush(t, label)
       PROVE  HistoryTypes'
  BY <1>2, <1>3, <1>13 DEF BeginFlush
<1>14. ASSUME NEW t \in Thread, NEW halt \in BOOLEAN, Flush(t, halt)
       PROVE  HistoryTypes'
  <2>1. CASE FlushEntry(t, halt)
    BY <1>1, <1>2, <1>3, <2>1 DEF FlushEntry, FlushNext
  <2>2. CASE FlushClean(t, halt)
    <3>1. at[t] \in Cached
      BY <2>2 DEF FlushClean, CacheIInv, AtInv
    <3>2. QED
      BY <1>2, <1>3, <2>2, <3>1 DEF FlushClean, FlushNext
  <2>3. CASE EndFlush(t, halt)
    BY <1>2, <1>3, <2>3 DEF EndFlush, NoEntry
  <2>4. QED
    BY <1>14, <2>1, <2>2, <2>3 DEF Flush
<1>15. ASSUME UNCHANGED vars
       PROVE  HistoryTypes'
  BY <1>1, <1>15 DEF vars
<1>16. QED
  BY <1>3, <1>4, <1>5, <1>6, <1>7, <1>8, <1>9, <1>10, <1>11, <1>12, <1>13, <1>14, <1>15
     DEF Next, GetStep, EvictStep, UseStep

\* One thread at a time frees entries, from the front.
LEMMA HaltKept ==
  ASSUME CacheAssumption, CacheIInv, HaltInv, [Next]_vars
  PROVE  HaltInv'
<1> DEFINE HaltLabels == {"halt", "halt clean", "off"}
<1>1. /\ User \subseteq Thread /\ WriteBack \in Thread \ User
      /\ pc \in [Thread -> Labels] /\ at \in [Thread -> Nat]
  BY Exclusion DEF CacheIInv, CacheTypes
<1>2. ASSUME NEW t \in Thread, pc[t] \notin HaltLabels, pc'[t] \notin HaltLabels,
             first' = first,
             \A u \in Thread \ {t} : pc'[u] = pc[u] /\ at'[u] = at[u]
      PROVE  HaltInv'
  BY <1>1, <1>2 DEF HaltInv, Halted
<1>3. ASSUME NEW t \in User, NEW r \in Request, Get(t, r)
      PROVE  HaltInv'
  BY <1>1, <1>2, <1>3 DEF Get, Goto
<1>4. ASSUME NEW t \in User, GetStep(t)
      PROVE  HaltInv'
  BY <1>1, <1>2, <1>4 DEF GetStep, Hit, Miss, Goto
<1>5. ASSUME NEW t \in User, EvictStep(t)
      PROVE  HaltInv'
  BY <1>1, <1>2, <1>5 DEF EvictStep, Pass, Wrap, Evict, Load, Goto
<1>6. ASSUME NEW t \in User, UseStep(t)
      PROVE  HaltInv'
  BY <1>1, <1>2, <1>6 DEF UseStep, Copy, Mark, Unpin, Return, Goto
<1>7. ASSUME NEW t \in User, Flush(t, TRUE)
      PROVE  HaltInv'
  <2>1. pc[t] \in {"halt", "halt clean"} /\ at[t] = first
    BY <1>7 DEF Flush, FlushEntry, FlushClean, EndFlush, HaltInv
  <2>2. /\ pc'[t] \in HaltLabels
        /\ \A u \in User \ {t} : pc'[u] = pc[u]
        /\ pc'[t] \in {"halt", "halt clean"} => at'[t] = first'
    BY <1>1, <1>7, <2>1 DEF Flush, FlushEntry, FlushClean, EndFlush, FlushNext, Goto
  <2>3. \A u \in User \ {t} : pc[u] \notin {"halt", "halt clean"}
    BY <1>1, <2>1, Exclusion DEF Locking
  <2>4. QED
    BY <2>2, <2>3 DEF HaltInv, Halted
<1>8. ASSUME BeginFlush(WriteBack, "flush") \/ Flush(WriteBack, FALSE)
      PROVE  HaltInv'
  BY <1>1, <1>2, <1>8 DEF BeginFlush, Flush, FlushEntry, FlushClean, EndFlush, FlushNext, Goto
<1>9. ASSUME NEW t \in User, BeginFlush(t, "halt")
      PROVE  HaltInv'
  <2>1. /\ pc' = [pc EXCEPT ![t] = "halt"] /\ at' = [at EXCEPT ![t] = first] /\ first' = first
    BY <1>9 DEF BeginFlush, Goto
  <2>2. \A u \in User : pc[u] \notin {"halt", "halt clean"}
    BY <1>1, <1>9, Exclusion DEF BeginFlush, Locking
  <2>3. QED
    BY <1>1, <2>1, <2>2 DEF HaltInv, Halted
<1>10. ASSUME UNCHANGED vars
       PROVE  HaltInv'
  BY <1>10 DEF vars, HaltInv, Halted
<1>11. QED
  BY <1>3, <1>4, <1>5, <1>6, <1>7, <1>8, <1>9, <1>10 DEF Next

-----------------------------------------------------------------------------
\* The empty cache has lost nothing.
LEMMA WriteInit ==
  ASSUME CacheAssumption, Init
  PROVE  WriteIInv
<1>1. \A s : \A e \in Entry : ~Holder(e, s)
  BY DEF Init, Holder, Cached
<1>2. \A t \in User : pc[t] = "idle"
  BY DEF Init, Thread
<1>3. HaltInv
  BY <1>2 DEF Init, HaltInv
<1>4. HistoryTypes
  BY DEF Init, HistoryTypes, NoEntry
<1>5. WriteInv
  BY <1>1 DEF Init, WriteInv, Safe
<1>6. QED
  BY <1>3, <1>4, <1>5, CacheInit DEF WriteIInv

\* The invariant gives back what it strengthens.
LEMMA WriteImplies ==
  ASSUME CacheAssumption, WriteIInv
  PROVE  NoLostWrite
<1>1. TypeOK
  <2>1. first \in 1..(MAX_FILESYS_CACHE_SIZE + 1)
    BY DEF CacheAssumption, WriteIInv, CacheIInv, CacheTypes
  <2>2. pc \in [Thread -> {"idle", "get", "scan", "load", "flush", "clean", "halt",
                           "halt clean", "off"} \cup Using]
    BY DEF WriteIInv, CacheIInv, CacheTypes, Labels, Locking
  <2>3. at \in [Thread -> 0..(MAX_FILESYS_CACHE_SIZE + 1)]
    BY DEF CacheAssumption, WriteIInv, CacheIInv, CacheTypes, HistoryTypes
  <2>4. QED
    BY <2>1, <2>2, <2>3 DEF TypeOK, WriteIInv, CacheIInv, CacheTypes, HistoryTypes
<1>2. ASSUME NEW s \in Sector \ overtaken,
             \A t \in User : pc[t] = "mark" => request[t] # [sector |-> s, dirty |-> TRUE]
      PROVE  Latest(s) = last[s]
  <2> DEFINE E == {e \in block_in_cache(s) : ~Filling(e)}
  <2>1. ~Pending(s) /\ Safe(s)
    BY <1>2 DEF Pending, Settled, WriteIInv, WriteInv
  <2>2. E \subseteq Entry /\ \A e \in Entry : e \in E <=> Holder(e, s)
    BY CachedEntries DEF block_in_cache, Holder, WriteIInv, CacheIInv
  <2>3. CASE E = {}
    BY <2>1, <2>2, <2>3 DEF Latest, Safe
  <2>4. CASE E # {}
    <3>1. (CHOOSE e \in E : TRUE) \in E
      BY <2>4
    <3>2. Latest(s) = entry[CHOOSE e \in E : TRUE].data
      BY <2>4 DEF Latest
    <3> HIDE DEF E
    <3>3. QED
      BY <2>1, <2>2, <3>1, <3>2 DEF Safe
  <2>5. QED
    BY <2>3, <2>4
<1>3. QED
  BY <1>1, <1>2 DEF NoLostWrite

\* Eviction, write-behind and halt lose no write, and every reader gets all of them,
\* but for a sector that was written to while a flush was writing it to disk, or at
\* the halt: the dirty flag, set without the lock, and open_cnt are enough.
THEOREM WritesKept == Spec => []NoLostWrite
<1>1. Init => WriteIInv
  BY CacheAssumption, WriteInit
<1>2. WriteIInv /\ [Next]_vars => WriteIInv'
  BY CacheAssumption, NextKeeps, NextSafe, TypesKept, HaltKept DEF WriteIInv
<1>3. WriteIInv => NoLostWrite
  BY CacheAssumption, WriteImplies
<1>4. QED
  BY <1>1, <1>2, <1>3, PTL DEF Spec

-----------------------------------------------------------------------------
(* System calls and file descriptors.                                      *)

OpenFile == [fd : Nat, isdir : BOOLEAN, inode : Inodes, pos : Nat]
WriteCall == [inode : Inodes \cup {NOTHING}, at : Nat, size : Nat, left : Nat, loads : SUBSET Process]

FilesTypeOK ==
  /\ status \in [Process -> {"new", "loading", "running", "writing", "closing", "exiting", "dead"}]
  /\ file_list \in [Process -> Seq(OpenFile)]
  /\ fd \in [Process -> Nat]
  /\ executable \in [Process -> Inodes \cup {NOTHING}]
  /\ write_call \in [Process -> WriteCall]
  /\ open_cnt \in [Inodes -> Int] /\ deny_write_cnt \in [Inodes -> Int]
  /\ length \in [Inodes -> Nat]
  /\ leaked \in [Inodes -> Nat]

\* A process that does not run has no file; the others have an executable and a
\* table by descriptor, in which a write that is under way finds its file again.
Table(p) ==
  /\ status[p] \in {"new", "dead"} <=> executable[p] = NOTHING
  /\ status[p] \in {"new", "dead"} => file_list[p] = <<>>
  /\ \A k \in 1..Len(file_list[p]) : /\ file_list[p][k].isdir <=> file_list[p][k].inode \in Directory
                                     /\ file_list[p][k].fd < fd[p]
  /\ \A j, k \in 1..Len(file_list[p]) : j < k => file_list[p][j].fd < file_list[p][k].fd
  /\ status[p] = "writing" => write_call[p].at \in 1..Len(file_list[p])

\* The opens of i, each known by its process and descriptor, and the processes that
\* run it.
Opened(i) ==
  {r \in Process \X Nat : \E k \in 1..Len(file_list[r[1]]) :
     file_list[r[1]][k].fd = r[2] /\ file_list[r[1]][k].inode = i}
Loaded(i) == {p \in Process : executable[p] = i}

Counted(i) ==
  /\ IsFiniteSet(Opened(i))
  /\ open_cnt[i] = Cardinality(Opened(i)) + Cardinality(Loaded(i)) + leaked[i]

Denied(i) ==
  /\ deny_write_cnt[i] = Cardinality(Loaded(i))
  /\ \A p \in Process : write_call[p].inode = i => Loaded(i) \subseteq write_call[p].loads

FilesIInv ==
  /\ FilesTypeOK
  /\ \A p \in Process : Table(p)
  /\ \A i \in Inodes : Counted(i)
  /\ \A i \in File : Denied(i)

\* The processes that have an inode as their executable can be counted.
LEMMA LoadedFinite ==
  ASSUME DescriptorsAssumption, NEW i
  PROVE  IsFiniteSet(Loaded(i)) /\ Cardinality(Loaded(i)) \in Nat
  BY FS_Subset, FS_CardinalityType DEF DescriptorsAssumption, Loaded

\* Tables that are the same but for the positions in the files.
SameTables ==
  \A p \in Process :
    /\ Len(file_list'[p]) = Len(file_list[p])
    /\ \A k \in 1..Len(file_list[p]) :
         /\ file_list'[p][k].fd = file_list[p][k].fd
         /\ file_list'[p][k].inode = file_list[p][k].inode
         /\ file_list'[p][k].isdir = file_list[p][k].isdir

\* Such tables have the same descriptors of each inode.
LEMMA SameOpened ==
  ASSUME SameTables, NEW i
  PROVE  Opened(i)' = Opened(i)
<1>1. ASSUME NEW r \in Process \X Nat
      PROVE  (\E k \in 1..Len(file_list'[r[1]]) : file_list'[r[1]][k].fd = r[2] /\ file_list'[r[1]][k].inode = i)
         <=> (\E k \in 1..Len(file_list[r[1]]) : file_list[r[1]][k].fd = r[2] /\ file_list[r[1]][k].inode = i)
  <2>1. r[1] \in Process
    OBVIOUS
  <2> QED
    BY <2>1 DEF SameTables
<1> QED
  BY <1>1 DEF Opened

\* A process other than the one that acts.
LEMMA OtherTable ==
  ASSUME NEW q \in Process, Table(q), status'[q] = status[q], file_list'[q] = file_list[q],
         fd'[q] = fd[q], executable'[q] = executable[q], write_call'[q].at = write_call[q].at
  PROVE  Table(q)'
  BY DEF Table

\* The position in p's k-th file changes.
LEMMA Reposition ==
  ASSUME FilesIInv, NEW p \in Process, NEW k \in 1..Len(file_list[p]), NEW pos \in Nat,
         file_list' = [file_list EXCEPT ![p][k].pos = pos]
  PROVE  /\ file_list' \in [Process -> Seq(OpenFile)]
         /\ SameTables
         /\ \A q \in Process \ {p} : file_list'[q] = file_list[q]
<1> PICK q \in Seq(OpenFile) : q = file_list[p]
  BY DEF FilesIInv, FilesTypeOK
<1> PICK r \in OpenFile : r = [q[k] EXCEPT !.pos = pos]
  <2>1. q[k] \in OpenFile
    OBVIOUS
  <2>2. [q[k] EXCEPT !.pos = pos] \in OpenFile
    BY <2>1 DEF OpenFile
  <2> QED
    BY <2>2
<1>1. file_list' = [file_list EXCEPT ![p] = [q EXCEPT ![k] = r]]
  OBVIOUS
<1>2. /\ [q EXCEPT ![k] = r] \in Seq(OpenFile)
      /\ Len([q EXCEPT ![k] = r]) = Len(q)
  OBVIOUS
<1>3. r.fd = q[k].fd /\ r.inode = q[k].inode /\ r.isdir = q[k].isdir
  <2>1. q[k] \in OpenFile
    OBVIOUS
  <2> QED
    BY <2>1 DEF OpenFile
<1>4. /\ file_list' \in [Process -> Seq(OpenFile)]
      /\ file_list'[p] = [q EXCEPT ![k] = r]
      /\ \A s \in Process \ {p} : file_list'[s] = file_list[s]
  BY <1>1, <1>2 DEF FilesIInv, FilesTypeOK
<1>5. \A j \in 1..Len(q) : /\ [q EXCEPT ![k] = r][j].fd = q[j].fd
                           /\ [q EXCEPT ![k] = r][j].inode = q[j].inode
                           /\ [q EXCEPT ![k] = r][j].isdir = q[j].isdir
  BY <1>3
<1> QED
  BY <1>2, <1>4, <1>5 DEF SameTables

\* process_get_file() finds the file that has the descriptor.
LEMMA GetFile ==
  ASSUME FilesIInv, NEW p \in Process, NEW n, process_get_file(p, n) # 0
  PROVE  /\ process_get_file(p, n) \in 1..Len(file_list[p])
         /\ file_list[p][process_get_file(p, n)].fd = n
<1> DEFINE I == {k \in 1..Len(file_list[p]) : file_list[p][k].fd = n}
<1>1. process_get_file(p, n) = IF I = {} THEN 0 ELSE Min(I)
  BY DEF process_get_file, SelectInSeq
<1>2. PICK k \in I : TRUE
  BY <1>1
<1>3. ASSUME NEW j \in I PROVE j = k
  <2>1. file_list[p][j].fd \in Nat /\ file_list[p][k].fd \in Nat
    <3>1. file_list[p] \in Seq(OpenFile)
      BY DEF FilesIInv, FilesTypeOK
    <3>2. file_list[p][j] \in OpenFile /\ file_list[p][k] \in OpenFile
      BY <1>2, <1>3, <3>1
    <3> QED
      BY <3>2 DEF OpenFile
  <2>2. j < k => file_list[p][j].fd < file_list[p][k].fd
    BY <1>2, <1>3 DEF FilesIInv, Table
  <2>3. k < j => file_list[p][k].fd < file_list[p][j].fd
    BY <1>2, <1>3 DEF FilesIInv, Table
  <2>4. j \in Int /\ k \in Int
    BY <1>2, <1>3 DEF FilesIInv, FilesTypeOK
  <2> QED
    BY <1>2, <1>3, <2>1, <2>2, <2>3, <2>4
<1>4. I = {k}
  BY <1>2, <1>3
<1>5. k =< k
  BY <1>2 DEF FilesIInv, FilesTypeOK
<1>6. Min(I) = k
  BY <1>4, <1>5 DEF Min
<1> QED
  BY <1>1, <1>2, <1>6

-----------------------------------------------------------------------------
(* The steps. *)

\* A step that opens and closes nothing and begins no write.
LEMMA QuietFiles ==
  ASSUME DescriptorsAssumption, FilesIInv, FilesTypeOK', SameTables, \A q \in Process : Table(q)',
         UNCHANGED <<executable, open_cnt, deny_write_cnt, leaked>>,
         \A q \in Process : write_call'[q].inode # NOTHING =>
           write_call'[q].inode = write_call[q].inode /\ write_call'[q].loads = write_call[q].loads
  PROVE  FilesIInv'
<1>1. \A i \in Inodes : Counted(i)'
  BY SameOpened DEF FilesIInv, Counted, Loaded
<1>2. \A i \in File : i # NOTHING /\ i \in Inodes
  BY DEF DescriptorsAssumption, Inodes
<1>3. \A i \in File : Denied(i)'
  BY <1>2 DEF FilesIInv, Denied, Loaded
<1> QED
  BY <1>1, <1>3 DEF FilesIInv

\* Only the state of p changes.
LEMMA QuietStatus ==
  ASSUME DescriptorsAssumption, FilesIInv, NEW p \in Process,
         status[p] \notin {"new", "dead"}, NEW s \in {"running", "closing", "exiting"},
         status' = [status EXCEPT ![p] = s],
         UNCHANGED <<file_list, fd, executable, write_call, open_cnt, deny_write_cnt, length, leaked>>
  PROVE  FilesIInv'
<1>1. FilesTypeOK'
  BY DEF FilesIInv, FilesTypeOK
<1>2. SameTables
  BY DEF SameTables
<1>3. Table(p)'
  BY DEF FilesIInv, FilesTypeOK, Table
<1>4. \A q \in Process \ {p} : Table(q)'
  BY OtherTable DEF FilesIInv, FilesTypeOK
<1> QED
  BY <1>1, <1>2, <1>3, <1>4, QuietFiles

\* start_process() begins to load.
LEMMA StartFiles ==
  ASSUME DescriptorsAssumption, FilesIInv, NEW p \in Process,
         start_process(p) \/ exit(p) \/ ClosedAll(p)
  PROVE  FilesIInv'
<1>1. status[p] \notin {"new", "dead"}
  BY DEF start_process, exit, ClosedAll, Runs
<1>2. \E s \in {"running", "closing", "exiting"} : status' = [status EXCEPT ![p] = s]
  BY DEF start_process, exit, ClosedAll
<1>3. UNCHANGED <<file_list, fd, executable, write_call, open_cnt, deny_write_cnt, length, leaked>>
  BY DEF start_process, exit, ClosedAll
<1> QED
  BY <1>1, <1>2, <1>3, QuietStatus

\* load() opens the executable and denies writes to it, or fails.
LEMMA LoadFiles ==
  ASSUME DescriptorsAssumption, FilesIInv, NEW p \in Process, NEW i \in Inodes, load(p, i)
  PROVE  FilesIInv'
<1>1. /\ status[p] = "new" /\ status' = [status EXCEPT ![p] = "loading"]
      /\ executable' = [executable EXCEPT ![p] = i]
      /\ open_cnt' = [open_cnt EXCEPT ![i] = @ + 1]
      /\ UNCHANGED <<file_list, fd, length, leaked>>
  BY DEF load
<1>2. /\ deny_write_cnt' \in [Inodes -> Int]
      /\ \A j \in Inodes \ {i} : deny_write_cnt'[j] = deny_write_cnt[j]
      /\ i \in File => deny_write_cnt'[i] = deny_write_cnt[i] + 1
  <2>1. PICK before \in (IF i \in Directory THEN BOOLEAN ELSE {FALSE}) :
          deny_write_cnt' = [deny_write_cnt EXCEPT ![i] = IF before THEN @ ELSE @ + 1]
    BY DEF load
  <2>2. i \in File => ~before
    BY <2>1 DEF DescriptorsAssumption
  <2> QED
    BY <2>1, <2>2 DEF FilesIInv, FilesTypeOK
<1>3. \A q \in Process : /\ write_call'[q].inode = write_call[q].inode /\ write_call'[q].at = write_call[q].at
                         /\ write_call'[q].loads = IF write_call[q].inode = i THEN write_call[q].loads \cup {p}
                                                   ELSE write_call[q].loads
  BY DEF load, FilesIInv, FilesTypeOK
<1>4. write_call' \in [Process -> WriteCall]
  <2>1. ASSUME NEW q \in Process PROVE [write_call[q] EXCEPT !.loads = @ \cup {p}] \in WriteCall
    <3>1. write_call[q] \in WriteCall
      BY DEF FilesIInv, FilesTypeOK
    <3> QED
      BY <3>1 DEF WriteCall
  <2> QED
    BY <2>1 DEF load, FilesIInv, FilesTypeOK
<1>5. executable[p] = NOTHING /\ i # NOTHING /\ file_list[p] = <<>>
  BY <1>1 DEF FilesIInv, Table, DescriptorsAssumption, Inodes
<1>6. FilesTypeOK'
  <2>1. /\ status' \in [Process -> {"new", "loading", "running", "writing", "closing", "exiting", "dead"}]
        /\ executable' \in [Process -> Inodes \cup {NOTHING}]
        /\ open_cnt' \in [Inodes -> Int]
    BY <1>1 DEF FilesIInv, FilesTypeOK
  <2> QED
    BY <1>1, <1>2, <1>4, <2>1 DEF FilesIInv, FilesTypeOK
<1>7. SameTables
  BY <1>1 DEF SameTables
<1>8. \A q \in Process : Table(q)'
  <2>1. Table(p)'
    BY <1>1, <1>5 DEF FilesIInv, FilesTypeOK, Table
  <2>2. \A q \in Process \ {p} : Table(q)'
    BY <1>1, <1>3, OtherTable DEF FilesIInv, FilesTypeOK
  <2> QED
    BY <2>1, <2>2
<1>9. Loaded(i)' = Loaded(i) \cup {p} /\ p \notin Loaded(i)
  BY <1>1, <1>5 DEF Loaded, FilesIInv, FilesTypeOK
<1>10. Cardinality(Loaded(i)') = Cardinality(Loaded(i)) + 1
  <2>1. IsFiniteSet(Loaded(i))
    BY LoadedFinite
  <2>2. Cardinality(Loaded(i) \cup {p}) = Cardinality(Loaded(i)) + 1
    BY <1>9, <2>1, FS_AddElement
  <2> QED
    BY <1>9, <2>2
<1>11. \A j \in Inodes \ {i} : Loaded(j)' = Loaded(j)
  BY <1>1, <1>5 DEF Loaded, FilesIInv, FilesTypeOK, DescriptorsAssumption, Inodes
<1>12. \A j \in Inodes : Counted(j)'
  <2>1. \A j \in Inodes : Opened(j)' = Opened(j)
    BY <1>7, SameOpened
  <2>2. \A j \in Inodes \ {i} : Counted(j)'
    BY <1>1, <1>11, <2>1 DEF FilesIInv, FilesTypeOK, Counted
  <2>3. Cardinality(Opened(i)) \in Nat /\ Cardinality(Loaded(i)) \in Nat /\ leaked[i] \in Nat
    BY LoadedFinite, FS_CardinalityType DEF FilesIInv, FilesTypeOK, Counted
  <2>4. Counted(i)'
    BY <1>1, <1>10, <2>1, <2>3 DEF FilesIInv, FilesTypeOK, Counted
  <2> QED
    BY <2>2, <2>4
<1>13. \A j \in File : Denied(j)'
  <2> SUFFICES ASSUME NEW j \in File PROVE Denied(j)'
    OBVIOUS
  <2>1. j \in Inodes
    BY DEF Inodes
  <2>2. CASE j = i
    BY <1>2, <1>3, <1>9, <1>10, <2>2 DEF FilesIInv, Denied
  <2>3. CASE j # i
    <3>1. deny_write_cnt'[j] = deny_write_cnt[j] /\ Loaded(j)' = Loaded(j)
      BY <1>2, <1>11, <2>1, <2>3
    <3>2. Denied(j)
      BY DEF FilesIInv
    <3>3. ASSUME NEW q \in Process, write_call'[q].inode = j
          PROVE  Loaded(j) \subseteq write_call'[q].loads
      BY <1>3, <2>3, <3>2, <3>3 DEF Denied
    <3> QED
      BY <3>1, <3>2, <3>3 DEF Denied
  <2> QED
    BY <2>2, <2>3
<1> QED
  BY <1>6, <1>8, <1>12, <1>13 DEF FilesIInv

\* process_exit() begins to close what is open.
LEMMA ExitFiles ==
  ASSUME DescriptorsAssumption, FilesIInv, NEW p \in Process, process_exit(p)
  PROVE  FilesIInv'
<1> PICK i \in Inodes : i = executable[p]
  BY DEF FilesIInv, FilesTypeOK, Table, process_exit
<1>1. /\ status[p] = "exiting" /\ status' = [status EXCEPT ![p] = "dead"]
      /\ executable' = [executable EXCEPT ![p] = NOTHING]
      /\ open_cnt' = [open_cnt EXCEPT ![i] = @ - 1]
      /\ deny_write_cnt' = [deny_write_cnt EXCEPT ![i] = @ - 1]
      /\ file_list[p] = <<>>
      /\ UNCHANGED <<file_list, fd, write_call, length, leaked>>
  BY DEF process_exit
<1>2. i # NOTHING
  BY DEF DescriptorsAssumption, Inodes
<1>3. FilesTypeOK'
  BY <1>1 DEF FilesIInv, FilesTypeOK
<1>4. SameTables
  BY <1>1 DEF SameTables
<1>5. \A q \in Process : Table(q)'
  <2>1. Table(p)'
    BY <1>1 DEF FilesIInv, FilesTypeOK, Table
  <2>2. \A q \in Process \ {p} : Table(q)'
    BY <1>1, OtherTable DEF FilesIInv, FilesTypeOK
  <2> QED
    BY <2>1, <2>2
<1>6. Loaded(i)' = Loaded(i) \ {p} /\ p \in Loaded(i)
  BY <1>1, <1>2 DEF Loaded, FilesIInv, FilesTypeOK
<1>7. Cardinality(Loaded(i)') = Cardinality(Loaded(i)) - 1
  <2>1. IsFiniteSet(Loaded(i))
    BY LoadedFinite
  <2>2. Cardinality(Loaded(i) \ {p}) = Cardinality(Loaded(i)) - 1
    BY <1>6, <2>1, FS_RemoveElement
  <2> QED
    BY <1>6, <2>2
<1>8. \A j \in Inodes \ {i} : Loaded(j)' = Loaded(j)
  BY <1>1 DEF Loaded, FilesIInv, FilesTypeOK, DescriptorsAssumption, Inodes
<1>9. \A j \in Inodes : Counted(j)'
  <2>1. \A j \in Inodes : Opened(j)' = Opened(j)
    BY <1>4, SameOpened
  <2>2. \A j \in Inodes \ {i} : Counted(j)'
    BY <1>1, <1>8, <2>1 DEF FilesIInv, FilesTypeOK, Counted
  <2>3. Cardinality(Opened(i)) \in Nat /\ Cardinality(Loaded(i)) \in Nat /\ leaked[i] \in Nat
    BY LoadedFinite, FS_CardinalityType DEF FilesIInv, FilesTypeOK, Counted
  <2>4. Counted(i)'
    BY <1>1, <1>7, <2>1, <2>3 DEF FilesIInv, FilesTypeOK, Counted
  <2> QED
    BY <2>2, <2>4
<1>10. \A j \in File : Denied(j)'
  <2> SUFFICES ASSUME NEW j \in File PROVE Denied(j)'
    OBVIOUS
  <2>1. j \in Inodes
    BY DEF Inodes
  <2>2. CASE j = i
    BY <1>1, <1>6, <1>7, <2>2 DEF FilesIInv, FilesTypeOK, Denied
  <2>3. CASE j # i
    BY <1>1, <1>8, <2>1, <2>3 DEF FilesIInv, FilesTypeOK, Denied
  <2> QED
    BY <2>2, <2>3
<1> QED
  BY <1>3, <1>5, <1>9, <1>10 DEF FilesIInv
\* Of a process that runs, a call on its table changes nothing but the table.
LEMMA OpenFiles ==
  ASSUME DescriptorsAssumption, FilesIInv, NEW p \in Process, NEW i \in Inodes, open(p, i)
  PROVE  FilesIInv'
<1> PICK q \in Seq(OpenFile) : q = file_list[p]
  BY DEF FilesIInv, FilesTypeOK
<1> PICK n \in Nat : n = fd[p]
  BY DEF FilesIInv, FilesTypeOK
<1> PICK f \in OpenFile : f = [fd |-> n, isdir |-> i \in Directory, inode |-> i, pos |-> 0]
  <2>1. (i \in Directory) \in BOOLEAN
    <3>1. CASE i \in Directory
      BY <3>1
    <3>2. CASE i \notin Directory
      BY <3>2
    <3> QED
      BY <3>1, <3>2
  <2>2. \A b \in BOOLEAN : [fd |-> n, isdir |-> b, inode |-> i, pos |-> 0] \in OpenFile
    BY DEF OpenFile
  <2> QED
    BY <2>1, <2>2, Zenon
<1>1. /\ status[p] = "running"
      /\ file_list' = [file_list EXCEPT ![p] = Append(q, f)]
      /\ fd' = [fd EXCEPT ![p] = n + 1]
      /\ open_cnt' = [open_cnt EXCEPT ![i] = @ + 1]
      /\ UNCHANGED <<status, executable, write_call, deny_write_cnt, length, leaked>>
  BY DEF open, Runs
<1>2. /\ Append(q, f) \in Seq(OpenFile) /\ Len(Append(q, f)) = Len(q) + 1
      /\ Append(q, f)[Len(q) + 1] = f /\ Len(q) \in Nat
      /\ \A k \in 1..Len(q) : Append(q, f)[k] = q[k]
      /\ \A k \in 1..(Len(q) + 1) : k \in 1..Len(q) \/ k = Len(q) + 1
  OBVIOUS
<1>3. f.fd = n /\ f.inode = i /\ (f.isdir <=> i \in Directory)
  OBVIOUS
<1>4. FilesTypeOK'
  BY <1>1, <1>2 DEF FilesIInv, FilesTypeOK
<1>5. /\ file_list'[p] = Append(q, f) /\ fd'[p] = n + 1
      /\ \A r \in Process \ {p} : file_list'[r] = file_list[r] /\ fd'[r] = fd[r]
  BY <1>1 DEF FilesIInv, FilesTypeOK
<1>6. \A k \in 1..Len(q) : q[k].fd \in Nat /\ q[k].fd < n
  <2>1. \A k \in 1..Len(q) : q[k] \in OpenFile
    OBVIOUS
  <2> QED
    BY <2>1 DEF OpenFile, FilesIInv, Table
<1>7. \A r \in Process : Table(r)'
  <2>1. Table(p)'
    <3>1. /\ status'[p] \in {"new", "dead"} <=> executable'[p] = NOTHING
          /\ status'[p] \in {"new", "dead"} => file_list'[p] = <<>>
          /\ status'[p] = "writing" => write_call'[p].at \in 1..Len(file_list'[p])
      BY <1>1 DEF FilesIInv, Table
    <3>2. \A k \in 1..(Len(q) + 1) : /\ Append(q, f)[k].isdir <=> Append(q, f)[k].inode \in Directory
                                     /\ Append(q, f)[k].fd < n + 1
      BY <1>2, <1>3, <1>6 DEF FilesIInv, Table
    <3>3. ASSUME NEW j \in 1..(Len(q) + 1), NEW k \in 1..(Len(q) + 1), j < k
          PROVE  Append(q, f)[j].fd < Append(q, f)[k].fd
      <4>1. j \in 1..Len(q)
        BY <1>2, <3>3
      <4>2. CASE k \in 1..Len(q)
        BY <1>2, <3>3, <4>1, <4>2 DEF FilesIInv, Table
      <4>3. CASE k = Len(q) + 1
        BY <1>2, <1>3, <1>6, <4>1, <4>3
      <4> QED
        BY <1>2, <4>2, <4>3
    <3> QED
      BY <1>2, <1>5, <3>1, <3>2, <3>3 DEF Table
  <2>2. \A r \in Process \ {p} : Table(r)'
    BY <1>1, <1>5, OtherTable DEF FilesIInv
  <2> QED
    BY <2>1, <2>2
<1>8. ASSUME NEW j \in Inodes
      PROVE  Opened(j)' = IF j = i THEN Opened(j) \cup {<<p, n>>} ELSE Opened(j)
  <2>1. ASSUME NEW r \in Process, NEW m \in Nat
        PROVE  <<r, m>> \in Opened(j)' <=> <<r, m>> \in Opened(j) \/ (j = i /\ r = p /\ m = n)
    <3>1. <<r, m>> \in Opened(j)' <=> \E k \in 1..Len(file_list'[r]) : file_list'[r][k].fd = m /\ file_list'[r][k].inode = j
      BY DEF Opened
    <3>2. <<r, m>> \in Opened(j) <=> \E k \in 1..Len(file_list[r]) : file_list[r][k].fd = m /\ file_list[r][k].inode = j
      BY DEF Opened
    <3>3. CASE r # p
      BY <1>5, <3>1, <3>2, <3>3
    <3>4. CASE r = p
      <4>1. <<r, m>> \in Opened(j)' <=> \E k \in 1..(Len(q) + 1) : Append(q, f)[k].fd = m /\ Append(q, f)[k].inode = j
        BY <1>2, <1>5, <3>1, <3>4
      <4>2. (\E k \in 1..(Len(q) + 1) : Append(q, f)[k].fd = m /\ Append(q, f)[k].inode = j)
              <=> \/ \E k \in 1..Len(q) : q[k].fd = m /\ q[k].inode = j
                  \/ n = m /\ i = j
        <5>1. \A k \in 1..Len(q) : k \in 1..(Len(q) + 1)
          BY <1>2
        <5>2. Len(q) + 1 \in 1..(Len(q) + 1)
          BY <1>2
        <5> PICK g : g = Append(q, f)
          OBVIOUS
        <5>3. /\ \A k \in 1..Len(q) : g[k] = q[k]
              /\ g[Len(q) + 1] = f
              /\ \A k \in 1..(Len(q) + 1) : k \in 1..Len(q) \/ k = Len(q) + 1
          BY <1>2
        <5>4. ASSUME NEW k \in 1..(Len(q) + 1), g[k].fd = m, g[k].inode = j
              PROVE  (\E h \in 1..Len(q) : q[h].fd = m /\ q[h].inode = j) \/ (n = m /\ i = j)
          <6>1. CASE k \in 1..Len(q)
            BY <5>3, <5>4, <6>1
          <6>2. CASE k = Len(q) + 1
            BY <1>3, <5>3, <5>4, <6>2
          <6> QED
            BY <5>3, <6>1, <6>2
        <5>5. ASSUME NEW k \in 1..Len(q), q[k].fd = m, q[k].inode = j
              PROVE  \E h \in 1..(Len(q) + 1) : g[h].fd = m /\ g[h].inode = j
          BY <5>1, <5>3, <5>5
        <5>6. n = m /\ i = j => \E h \in 1..(Len(q) + 1) : g[h].fd = m /\ g[h].inode = j
          BY <1>3, <5>2, <5>3
        <5> QED
          BY <5>4, <5>5, <5>6
      <4> QED
        BY <3>2, <3>4, <4>1, <4>2
    <3> QED
      BY <3>3, <3>4
  <2>2. Opened(j)' \subseteq Process \X Nat /\ Opened(j) \subseteq Process \X Nat
    BY DEF Opened
  <2>3. \A r \in Process \X Nat : \E u \in Process, m \in Nat : r = <<u, m>>
    OBVIOUS
  <2>4. p \in Process /\ n \in Nat
    OBVIOUS
  <2>5. CASE j = i
    BY <2>1, <2>2, <2>3, <2>4, <2>5
  <2>6. CASE j # i
    <3>1. \A r \in Process \X Nat : r \in Opened(j)' <=> r \in Opened(j)
      BY <2>1, <2>3, <2>6
    <3> QED
      BY <2>2, <2>6, <3>1
  <2> QED
    BY <2>5, <2>6
<1>9. <<p, n>> \notin Opened(i)
  BY <1>6 DEF Opened
<1>10. \A j \in Inodes : Counted(j)'
  <2>1. \A j \in Inodes : Loaded(j)' = Loaded(j)
    BY <1>1 DEF Loaded
  <2>2. ASSUME NEW j \in Inodes, j # i PROVE Counted(j)'
    <3>1. open_cnt'[j] = open_cnt[j] /\ Opened(j)' = Opened(j)
      BY <1>1, <1>8, <2>2 DEF FilesIInv, FilesTypeOK
    <3> QED
      BY <1>1, <2>1, <3>1 DEF FilesIInv, Counted
  <2>3. Counted(i)'
    <3>1. /\ IsFiniteSet(Opened(i)')
          /\ Cardinality(Opened(i)') = Cardinality(Opened(i)) + 1
      <4>1. Opened(i)' = Opened(i) \cup {<<p, n>>}
        BY <1>8
      <4>2. IsFiniteSet(Opened(i))
        BY DEF FilesIInv, Counted
      <4>3. /\ IsFiniteSet(Opened(i) \cup {<<p, n>>})
            /\ Cardinality(Opened(i) \cup {<<p, n>>}) = Cardinality(Opened(i)) + 1
        BY <1>9, <4>2, FS_AddElement
      <4> QED
        BY <4>1, <4>3
    <3>2. Cardinality(Opened(i)) \in Nat /\ Cardinality(Loaded(i)) \in Nat /\ leaked[i] \in Nat
      BY LoadedFinite, FS_CardinalityType DEF FilesIInv, FilesTypeOK, Counted
    <3>3. open_cnt'[i] = open_cnt[i] + 1
      BY <1>1 DEF FilesIInv, FilesTypeOK
    <3> QED
      BY <1>1, <2>1, <3>1, <3>2, <3>3 DEF FilesIInv, Counted
  <2> QED
    BY <2>2, <2>3
<1>11. \A j \in File : Denied(j)'
  BY <1>1 DEF FilesIInv, Denied, Loaded
<1> QED
  BY <1>4, <1>7, <1>10, <1>11 DEF FilesIInv

\* Without a descriptor the file is counted among the leaked.
LEMMA LeakFiles ==
  ASSUME DescriptorsAssumption, FilesIInv, NEW p \in Process, NEW i \in Inodes, OpenFails(p, i)
  PROVE  FilesIInv'
<1>1. /\ open_cnt' = [open_cnt EXCEPT ![i] = @ + 1]
      /\ leaked' = [leaked EXCEPT ![i] = @ + 1]
      /\ UNCHANGED <<status, file_list, fd, executable, write_call, deny_write_cnt, length>>
  BY DEF OpenFails
<1>2. FilesTypeOK'
  BY <1>1 DEF FilesIInv, FilesTypeOK
<1>3. \A q \in Process : Table(q)'
  BY <1>1 DEF FilesIInv, Table
<1>4. \A j \in Inodes : Opened(j)' = Opened(j) /\ Loaded(j)' = Loaded(j)
  BY <1>1 DEF Opened, Loaded
<1>5. ASSUME NEW j \in Inodes PROVE Counted(j)'
  <2>1. Cardinality(Opened(j)) \in Nat /\ Cardinality(Loaded(j)) \in Nat /\ leaked[j] \in Nat
    BY LoadedFinite, FS_CardinalityType DEF FilesIInv, FilesTypeOK, Counted
  <2>2. \/ open_cnt'[j] = open_cnt[j] /\ leaked'[j] = leaked[j]
        \/ open_cnt'[j] = open_cnt[j] + 1 /\ leaked'[j] = leaked[j] + 1
    BY <1>1 DEF FilesIInv, FilesTypeOK
  <2> QED
    BY <1>4, <2>1, <2>2 DEF FilesIInv, Counted
<1>6. \A j \in File : Denied(j)'
  BY <1>1 DEF FilesIInv, Denied, Loaded
<1> QED
  BY <1>2, <1>3, <1>5, <1>6 DEF FilesIInv

\* A table without its k-th file.
LEMMA RemoveKth ==
  ASSUME NEW q \in Seq(OpenFile), NEW k \in 1..Len(q)
  PROVE  /\ RemoveAt(q, k) \in Seq(OpenFile) /\ Len(RemoveAt(q, k)) = Len(q) - 1
         /\ \A j \in 1..(Len(q) - 1) : RemoveAt(q, k)[j] = IF j < k THEN q[j] ELSE q[j + 1]
  BY CutOut DEF RemoveAt

\* The k-th file of p is closed.
LEMMA CloseKth ==
  ASSUME DescriptorsAssumption, FilesIInv, NEW p \in Process, NEW k \in 1..Len(file_list[p]),
         status[p] \notin {"new", "dead", "writing"}, Close(p, k),
         UNCHANGED <<status, fd, executable, write_call, deny_write_cnt, length, leaked>>
  PROVE  FilesIInv'
<1> PICK q \in Seq(OpenFile) : q = file_list[p]
  BY DEF FilesIInv, FilesTypeOK
<1> PICK i \in Inodes, n \in Nat : i = q[k].inode /\ n = q[k].fd
  <2>1. q[k] \in OpenFile
    OBVIOUS
  <2> QED
    BY <2>1 DEF OpenFile
<1> DEFINE rest == RemoveAt(q, k)
<1>1. /\ open_cnt' = [open_cnt EXCEPT ![i] = @ - 1]
      /\ file_list' = [file_list EXCEPT ![p] = rest]
  BY DEF Close
<1>2. /\ rest \in Seq(OpenFile) /\ Len(rest) = Len(q) - 1
      /\ \A j \in 1..(Len(q) - 1) : rest[j] = IF j < k THEN q[j] ELSE q[j + 1]
  <2>1. k \in 1..Len(q)
    OBVIOUS
  <2> QED
    BY <2>1, RemoveKth
<1> HIDE DEF rest
<1>3. /\ file_list' \in [Process -> Seq(OpenFile)]
      /\ file_list'[p] = rest
      /\ \A r \in Process \ {p} : file_list'[r] = file_list[r]
  BY <1>1, <1>2 DEF FilesIInv, FilesTypeOK
<1>4. FilesTypeOK'
  <2>1. open_cnt' \in [Inodes -> Int]
    BY <1>1 DEF FilesIInv, FilesTypeOK
  <2> QED
    BY <1>3, <2>1 DEF FilesIInv, FilesTypeOK
<1>5. /\ Len(q) \in Nat /\ k \in 1..Len(q)
      /\ \A j \in 1..(Len(q) - 1) : j \in 1..Len(q) /\ j + 1 \in 1..Len(q) /\ j \in Int
  OBVIOUS
<1>6. \A j, m \in 1..Len(q) : j < m => q[j].fd < q[m].fd
  BY DEF FilesIInv, Table
<1>7. \A j \in 1..Len(q) : q[j].fd \in Nat /\ q[j].fd < fd[p] /\ (q[j].isdir <=> q[j].inode \in Directory)
  <2>1. \A j \in 1..Len(q) : q[j] \in OpenFile
    OBVIOUS
  <2> QED
    BY <2>1 DEF FilesIInv, Table, OpenFile
<1>8. \A r \in Process : Table(r)'
  <2>1. Table(p)'
    <3>1. /\ status'[p] \in {"new", "dead"} <=> executable'[p] = NOTHING
          /\ status'[p] \in {"new", "dead"} => file_list'[p] = <<>>
          /\ status'[p] = "writing" => write_call'[p].at \in 1..Len(file_list'[p])
      BY DEF FilesIInv, Table
    <3>2. \A j \in 1..(Len(q) - 1) : (rest[j].isdir <=> rest[j].inode \in Directory) /\ rest[j].fd < fd'[p]
      BY <1>2, <1>5, <1>7
    <3>3. ASSUME NEW j \in 1..(Len(q) - 1), NEW m \in 1..(Len(q) - 1), j < m
          PROVE  rest[j].fd < rest[m].fd
      <4>1. CASE m < k
        <5>1. j < k
          BY <1>5, <3>3, <4>1
        <5>2. rest[j] = q[j] /\ rest[m] = q[m]
          BY <1>2, <4>1, <5>1
        <5> QED
          BY <1>5, <1>6, <3>3, <5>2
      <4>2. CASE j >= k
        <5>1. ~(j < k) /\ ~(m < k) /\ j + 1 < m + 1
          BY <1>5, <3>3, <4>2
        <5>2. rest[j] = q[j + 1] /\ rest[m] = q[m + 1]
          BY <1>2, <5>1
        <5> QED
          BY <1>5, <1>6, <5>1, <5>2
      <4>3. CASE j < k /\ m >= k
        <5>1. ~(m < k) /\ j < m + 1
          BY <1>5, <3>3, <4>3
        <5>2. rest[j] = q[j] /\ rest[m] = q[m + 1]
          BY <1>2, <4>3, <5>1
        <5> QED
          BY <1>5, <1>6, <5>1, <5>2
      <4> QED
        BY <1>5, <4>1, <4>2, <4>3
    <3> QED
      BY <1>2, <1>3, <3>1, <3>2, <3>3 DEF Table
  <2>2. \A r \in Process \ {p} : Table(r)'
    BY <1>3, OtherTable DEF FilesIInv
  <2> QED
    BY <2>1, <2>2
<1>9. \A j \in 1..Len(q) : q[j].fd = n => j = k
  BY <1>5, <1>6, <1>7
<1> DEFINE Had(m, j) == \E h \in 1..Len(q) : q[h].fd = m /\ q[h].inode = j
           Has(m, j) == \E h \in 1..(Len(q) - 1) : rest[h].fd = m /\ rest[h].inode = j
<1>10. \A m \in Nat, j \in Inodes : Has(m, j) <=> Had(m, j) /\ m # n
  <2> SUFFICES ASSUME NEW m \in Nat, NEW j \in Inodes
               PROVE  (\E h \in 1..(Len(q) - 1) : rest[h].fd = m /\ rest[h].inode = j)
                        <=> (\E h \in 1..Len(q) : q[h].fd = m /\ q[h].inode = j) /\ m # n
    OBVIOUS
  <2>1. ASSUME NEW h \in 1..(Len(q) - 1), rest[h].fd = m, rest[h].inode = j
        PROVE  (\E g \in 1..Len(q) : q[g].fd = m /\ q[g].inode = j) /\ m # n
    <3>1. PICK g \in 1..Len(q) : rest[h] = q[g] /\ g # k
      <4>1. CASE h < k
        BY <1>2, <1>5, <4>1
      <4>2. CASE h >= k
        BY <1>2, <1>5, <4>2
      <4> QED
        BY <1>5, <4>1, <4>2
    <3> QED
      BY <1>9, <2>1, <3>1
  <2>2. ASSUME NEW g \in 1..Len(q), q[g].fd = m, q[g].inode = j, m # n
        PROVE  \E h \in 1..(Len(q) - 1) : rest[h].fd = m /\ rest[h].inode = j
    <3>1. CASE g < k
      <4>1. g \in 1..(Len(q) - 1) /\ rest[g] = q[g]
        BY <1>2, <1>5, <3>1
      <4> QED
        BY <2>2, <4>1
    <3>2. CASE g > k
      <4>1. g - 1 \in 1..(Len(q) - 1) /\ rest[g - 1] = q[g]
        BY <1>2, <1>5, <3>2
      <4> QED
        BY <2>2, <4>1
    <3> QED
      BY <1>5, <2>2, <3>1, <3>2
  <2> QED
    BY <2>1, <2>2
<1>11. ASSUME NEW j \in Inodes
       PROVE  Opened(j)' = Opened(j) \ {<<p, n>>}
  <2>1. ASSUME NEW r \in Process, NEW m \in Nat
        PROVE  <<r, m>> \in Opened(j)' <=> <<r, m>> \in Opened(j) /\ ~(r = p /\ m = n)
    <3>1. <<r, m>> \in Opened(j)' <=> \E h \in 1..Len(file_list'[r]) : file_list'[r][h].fd = m /\ file_list'[r][h].inode = j
      BY DEF Opened
    <3>2. <<r, m>> \in Opened(j) <=> \E h \in 1..Len(file_list[r]) : file_list[r][h].fd = m /\ file_list[r][h].inode = j
      BY DEF Opened
    <3>3. CASE r # p
      BY <1>3, <3>1, <3>2, <3>3
    <3>4. CASE r = p
      <4>1. file_list'[r] = rest /\ Len(rest) = Len(q) - 1 /\ file_list[r] = q
        BY <1>2, <1>3, <3>4
      <4>2. <<r, m>> \in Opened(j)' <=> Has(m, j)
        BY <3>1, <4>1
      <4>3. <<r, m>> \in Opened(j) <=> Had(m, j)
        BY <3>2, <4>1
      <4> HIDE DEF Has, Had
      <4>4. Has(m, j) <=> Had(m, j) /\ m # n
        BY <1>10
      <4> QED
        BY <3>4, <4>2, <4>3, <4>4
    <3> QED
      BY <3>3, <3>4
  <2>2. Opened(j)' \subseteq Process \X Nat /\ Opened(j) \subseteq Process \X Nat
    BY DEF Opened
  <2>3. \A r \in Process \X Nat : \E u \in Process, m \in Nat : r = <<u, m>>
    OBVIOUS
  <2> QED
    BY <2>1, <2>2, <2>3
<1>12. \A j \in Inodes : <<p, n>> \in Opened(j) <=> j = i
  BY <1>5, <1>9 DEF Opened
<1>13. \A j \in Inodes : Counted(j)'
  <2>1. \A j \in Inodes : Loaded(j)' = Loaded(j)
    BY DEF Loaded
  <2>2. ASSUME NEW j \in Inodes, j # i PROVE Counted(j)'
    <3>1. open_cnt'[j] = open_cnt[j]
      BY <1>1, <2>2 DEF FilesIInv, FilesTypeOK
    <3>2. Opened(j)' = Opened(j)
      BY <1>11, <1>12, <2>2
    <3> QED
      BY <2>1, <3>1, <3>2 DEF FilesIInv, Counted
  <2>3. Counted(i)'
    <3>1. /\ IsFiniteSet(Opened(i)')
          /\ Cardinality(Opened(i)') = Cardinality(Opened(i)) - 1
      <4>1. Opened(i)' = Opened(i) \ {<<p, n>>} /\ <<p, n>> \in Opened(i)
        BY <1>11, <1>12
      <4>2. IsFiniteSet(Opened(i))
        BY DEF FilesIInv, Counted
      <4>3. /\ IsFiniteSet(Opened(i) \ {<<p, n>>})
            /\ Cardinality(Opened(i) \ {<<p, n>>}) = Cardinality(Opened(i)) - 1
        BY <4>1, <4>2, FS_RemoveElement
      <4> QED
        BY <4>1, <4>3
    <3>2. Cardinality(Opened(i)) \in Nat /\ Cardinality(Loaded(i)) \in Nat /\ leaked[i] \in Nat
      BY LoadedFinite, FS_CardinalityType DEF FilesIInv, FilesTypeOK, Counted
    <3>3. open_cnt'[i] = open_cnt[i] - 1
      BY <1>1 DEF FilesIInv, FilesTypeOK
    <3>4. open_cnt[i] = Cardinality(Opened(i)) + Cardinality(Loaded(i)) + leaked[i]
      BY DEF FilesIInv, Counted
    <3>5. leaked'[i] = leaked[i] /\ Cardinality(Loaded(i)') = Cardinality(Loaded(i))
      BY <2>1
    <3>6. open_cnt'[i] = Cardinality(Opened(i)') + Cardinality(Loaded(i)') + leaked'[i]
      BY <3>1, <3>2, <3>3, <3>4, <3>5
    <3> QED
      BY <3>1, <3>6 DEF Counted
  <2> QED
    BY <2>2, <2>3
<1>14. \A j \in File : Denied(j)'
  BY DEF FilesIInv, Denied, Loaded
<1> QED
  BY <1>4, <1>8, <1>13, <1>14 DEF FilesIInv

\* close() of one descriptor.
LEMMA CloseFiles ==
  ASSUME DescriptorsAssumption, FilesIInv, NEW p \in Process, NEW n, close(p, n)
  PROVE  FilesIInv'
<1>1. CASE /\ process_get_file(p, n) # 0 /\ Close(p, process_get_file(p, n))
           /\ UNCHANGED <<status, deny_write_cnt>>
  <2>1. /\ status[p] = "running" /\ UNCHANGED <<fd, executable, write_call, length, leaked>>
    BY DEF close, Runs
  <2>2. process_get_file(p, n) \in 1..Len(file_list[p])
    BY <1>1, GetFile
  <2>3. status[p] \notin {"new", "dead", "writing"}
    BY <2>1
  <2> QED
    BY <1>1, <2>1, <2>2, <2>3, CloseKth
<1>2. CASE /\ status' = [status EXCEPT ![p] = "closing"]
           /\ UNCHANGED <<file_list, open_cnt, deny_write_cnt>>
  <2>1. /\ status[p] = "running" /\ UNCHANGED <<fd, executable, write_call, length, leaked>>
    BY DEF close, Runs
  <2> QED
    BY <1>2, <2>1, QuietStatus
<1> QED
  BY <1>1, <1>2 DEF close

\* process_exit() closes the first of those left.
LEMMA CloseFirstFiles ==
  ASSUME DescriptorsAssumption, FilesIInv, NEW p \in Process, process_close_file(p)
  PROVE  FilesIInv'
<1>1. /\ status[p] \in {"closing", "exiting"} /\ Close(p, 1) /\ file_list[p] # <<>>
      /\ UNCHANGED <<status, fd, executable, write_call, deny_write_cnt, length, leaked>>
  BY DEF process_close_file
<1>2. 1 \in 1..Len(file_list[p])
  BY <1>1 DEF FilesIInv, FilesTypeOK
<1> QED
  BY <1>1, <1>2, CloseKth

\* Only the position in a file of p changes, and perhaps p's state.
LEMMA MoveFiles ==
  ASSUME DescriptorsAssumption, FilesIInv, NEW p \in Process, NEW k \in 1..Len(file_list[p]),
         NEW pos \in Nat, file_list' = [file_list EXCEPT ![p][k].pos = pos],
         status[p] \notin {"new", "dead"}, status' = [status EXCEPT ![p] = "running"],
         write_call' \in [Process -> WriteCall],
         \A q \in Process \ {p} : write_call'[q] = write_call[q],
         write_call'[p] = write_call[p] \/ write_call'[p].inode = NOTHING,
         UNCHANGED <<fd, executable, open_cnt, deny_write_cnt, length, leaked>>
  PROVE  FilesIInv'
<1>1. /\ file_list' \in [Process -> Seq(OpenFile)]
      /\ SameTables
      /\ \A q \in Process \ {p} : file_list'[q] = file_list[q]
  BY Reposition
<1>2. FilesTypeOK'
  BY <1>1 DEF FilesIInv, FilesTypeOK
<1>3. Table(p)'
  <2>1. /\ Len(file_list'[p]) = Len(file_list[p]) /\ Len(file_list[p]) \in Nat
        /\ \A j \in 1..Len(file_list[p]) :
             /\ file_list'[p][j].fd = file_list[p][j].fd
             /\ file_list'[p][j].inode = file_list[p][j].inode
             /\ file_list'[p][j].isdir = file_list[p][j].isdir
    BY <1>1 DEF SameTables, FilesIInv, FilesTypeOK
  <2>2. status'[p] = "running" /\ executable[p] # NOTHING
    BY DEF FilesIInv, FilesTypeOK, Table
  <2> QED
    BY <2>1, <2>2 DEF FilesIInv, Table
<1>4. \A q \in Process \ {p} : Table(q)'
  BY <1>1, OtherTable DEF FilesIInv, FilesTypeOK
<1>5. \A q \in Process : write_call'[q].inode # NOTHING =>
        write_call'[q].inode = write_call[q].inode /\ write_call'[q].loads = write_call[q].loads
  OBVIOUS
<1> QED
  BY <1>1, <1>2, <1>3, <1>4, <1>5, QuietFiles

\* seek() and read() move the position.
LEMMA SeekFiles ==
  ASSUME DescriptorsAssumption, FilesIInv, NEW p \in Process, NEW n, NEW k \in 0..MaxLength,
         seek(p, n, k) \/ read(p, n, k)
  PROVE  FilesIInv'
<1>1. /\ status[p] = "running" /\ process_get_file(p, n) # 0
      /\ UNCHANGED <<status, fd, executable, write_call, open_cnt, deny_write_cnt, length, leaked>>
  BY DEF seek, read, Runs, IsFile
<1> PICK h \in 1..Len(file_list[p]) : h = process_get_file(p, n)
  BY <1>1, GetFile
<1>2. \E pos \in Nat : file_list' = [file_list EXCEPT ![p][h].pos = pos]
  <2>1. CASE seek(p, n, k)
    <3>1. k \in Nat
      OBVIOUS
    <3> QED
      BY <2>1, <3>1 DEF seek, PosOf
  <2>2. CASE read(p, n, k)
    <3>1. TheFile(p, n) \in OpenFile
      BY DEF TheFile, FilesIInv, FilesTypeOK
    <3>2. TheFile(p, n).pos \in Nat /\ length[TheFile(p, n).inode] \in Nat
      BY <3>1 DEF OpenFile, FilesIInv, FilesTypeOK
    <3>3. TheFile(p, n).pos + AtLeast(0, AtMost(k, length[TheFile(p, n).inode] - TheFile(p, n).pos)) \in Nat
      BY <3>2 DEF AtLeast, AtMost
    <3>4. file_list' = PosOf(p, n, TheFile(p, n).pos
                                     + AtLeast(0, AtMost(k, length[TheFile(p, n).inode] - TheFile(p, n).pos)))
      BY <2>2 DEF read
    <3> QED
      BY <3>3, <3>4 DEF PosOf
  <2> QED
    BY <2>1, <2>2
<1>3. status' = [status EXCEPT ![p] = "running"]
  BY <1>1 DEF FilesIInv, FilesTypeOK
<1>4. write_call' \in [Process -> WriteCall]
  BY <1>1 DEF FilesIInv, FilesTypeOK
<1> QED
  BY <1>1, <1>2, <1>3, <1>4, MoveFiles

\* write() ends, and moves the position.
LEMMA WriteReturnsFiles ==
  ASSUME DescriptorsAssumption, FilesIInv, NEW p \in Process, WriteReturns(p)
  PROVE  FilesIInv'
<1>1. /\ status[p] = "writing" /\ status' = [status EXCEPT ![p] = "running"]
      /\ write_call' = [write_call EXCEPT ![p] = NoWrite]
      /\ UNCHANGED <<fd, executable, open_cnt, deny_write_cnt, length, leaked>>
  BY DEF WriteReturns
<1> PICK h \in 1..Len(file_list[p]) : h = write_call[p].at
  BY <1>1 DEF FilesIInv, Table
<1>2. \E pos \in Nat : file_list' = [file_list EXCEPT ![p][h].pos = pos]
  <2>1. file_list[p] \in Seq(OpenFile) /\ write_call[p] \in WriteCall
    BY DEF FilesIInv, FilesTypeOK
  <2>2. file_list[p][h] \in OpenFile
    BY <2>1
  <2>3. file_list[p][h].pos + write_call[p].size \in Nat
    <3>1. file_list[p][h].pos \in Nat
      BY <2>2 DEF OpenFile
    <3>2. write_call[p].size \in Nat
      BY <2>1 DEF WriteCall
    <3> QED
      BY <3>1, <3>2
  <2>4. file_list' = [file_list EXCEPT ![p][h].pos = file_list[p][h].pos + write_call[p].size]
    BY DEF WriteReturns
  <2> QED
    BY <2>3, <2>4
<1>3. NoWrite \in WriteCall /\ NoWrite.inode = NOTHING
  BY DEF NoWrite, WriteCall
<1>4. /\ write_call' \in [Process -> WriteCall]
      /\ write_call'[p].inode = NOTHING
      /\ \A q \in Process \ {p} : write_call'[q] = write_call[q]
  BY <1>1, <1>3 DEF FilesIInv, FilesTypeOK
<1> QED
  BY <1>1, <1>2, <1>4, MoveFiles

\* A write begins on a file that no process runs.
LEMMA WriteFiles ==
  ASSUME DescriptorsAssumption, FilesIInv, NEW p \in Process, NEW n, NEW k \in 0..MaxLength, write(p, n, k)
  PROVE  FilesIInv'
<1>1. /\ status[p] = "running" /\ status' = [status EXCEPT ![p] = "writing"]
      /\ process_get_file(p, n) # 0
      /\ UNCHANGED <<file_list, fd, executable, open_cnt, deny_write_cnt, leaked>>
  BY DEF write, Runs, IsFile
<1> PICK h \in 1..Len(file_list[p]) : h = process_get_file(p, n)
  BY <1>1, GetFile
<1> PICK f \in OpenFile : f = file_list[p][h]
  BY DEF FilesIInv, FilesTypeOK
<1> PICK i \in Inodes : i = f.inode
  BY DEF OpenFile
<1>2. /\ deny_write_cnt[i] = 0
      /\ length' = [length EXCEPT ![i] = AtLeast(@, f.pos + k)]
      /\ write_call' = [write_call EXCEPT ![p] = [inode |-> i, at |-> h, size |-> k, left |-> k, loads |-> {}]]
  BY DEF write, TheFile
<1>3. [inode |-> i, at |-> h, size |-> k, left |-> k, loads |-> {}] \in WriteCall
  BY DEF WriteCall, FilesIInv, FilesTypeOK
<1>4. FilesTypeOK'
  <2>1. length' \in [Inodes -> Nat]
    <3>1. f.pos \in Nat /\ k \in Nat
      BY DEF OpenFile
    <3>2. AtLeast(length[i], f.pos + k) \in Nat
      BY <3>1 DEF AtLeast, FilesIInv, FilesTypeOK
    <3> QED
      BY <1>2, <3>2 DEF FilesIInv, FilesTypeOK
  <2> QED
    BY <1>1, <1>2, <1>3, <2>1 DEF FilesIInv, FilesTypeOK
<1>5. \A q \in Process : Table(q)'
  <2>1. Table(p)'
    <3>1. status'[p] = "writing" /\ write_call'[p].at = h
      BY <1>1, <1>2 DEF FilesIInv, FilesTypeOK
    <3>2. Table(p)
      BY DEF FilesIInv
    <3> QED
      BY <1>1, <3>1, <3>2 DEF Table
  <2>2. \A q \in Process \ {p} : Table(q)'
    BY <1>1, <1>2, OtherTable DEF FilesIInv, FilesTypeOK
  <2> QED
    BY <2>1, <2>2
<1>6. \A j \in Inodes : Opened(j)' = Opened(j) /\ Loaded(j)' = Loaded(j)
  BY <1>1 DEF Opened, Loaded
<1>7. \A j \in Inodes : Counted(j)'
  BY <1>1, <1>6 DEF FilesIInv, Counted
<1>8. ASSUME NEW j \in File PROVE Denied(j)'
  <2>1. Loaded(j)' = Loaded(j) /\ deny_write_cnt'[j] = deny_write_cnt[j]
    BY <1>1 DEF Loaded
  <2>2. ASSUME NEW q \in Process, write_call'[q].inode = j PROVE Loaded(j) \subseteq write_call'[q].loads
    <3>1. CASE q = p
      <4>1. j = i
        BY <1>2, <2>2, <3>1 DEF FilesIInv, FilesTypeOK
      <4>2. Cardinality(Loaded(j)) = 0
        BY <1>2, <4>1 DEF FilesIInv, Denied
      <4>3. Loaded(j) = {}
        BY <4>2, LoadedFinite, FS_EmptySet
      <4> QED
        BY <4>3
    <3>2. CASE q # p
      BY <1>2, <2>2, <3>2 DEF FilesIInv, FilesTypeOK, Denied
    <3> QED
      BY <3>1, <3>2
  <2> QED
    BY <2>1, <2>2 DEF FilesIInv, Denied
<1> QED
  BY <1>4, <1>5, <1>7, <1>8 DEF FilesIInv

\* write() writes its next sector.
LEMMA WriteSectorFiles ==
  ASSUME DescriptorsAssumption, FilesIInv, NEW p \in Process, WriteSector(p)
  PROVE  FilesIInv'
<1>1. /\ status[p] = "writing" /\ write_call[p].left > 0
      /\ write_call' = [write_call EXCEPT ![p].left = @ - 1]
      /\ UNCHANGED <<status, file_list, fd, executable, open_cnt, deny_write_cnt, length, leaked>>
  BY DEF WriteSector
<1>2. [write_call[p] EXCEPT !.left = @ - 1] \in WriteCall
  <2>1. write_call[p] \in WriteCall
    BY DEF FilesIInv, FilesTypeOK
  <2> QED
    BY <1>1, <2>1 DEF WriteCall
<1>3. FilesTypeOK'
  BY <1>1, <1>2 DEF FilesIInv, FilesTypeOK
<1>4. \A q \in Process : /\ write_call'[q].inode = write_call[q].inode
                         /\ write_call'[q].loads = write_call[q].loads
                         /\ write_call'[q].at = write_call[q].at
  <2>1. \A q \in Process : write_call[q] \in WriteCall
    BY DEF FilesIInv, FilesTypeOK
  <2> QED
    BY <1>1, <2>1 DEF WriteCall, FilesIInv, FilesTypeOK
<1>5. SameTables
  BY <1>1 DEF SameTables
<1>6. \A q \in Process : Table(q)'
  BY <1>1, <1>4, OtherTable DEF FilesIInv
<1> QED
  BY <1>1, <1>3, <1>4, <1>5, <1>6, QuietFiles

-----------------------------------------------------------------------------
(* The theorem. *)

\* At the start nothing is open.
LEMMA FilesInit == DescriptorsAssumption /\ DescriptorsInit => FilesIInv
<1> SUFFICES ASSUME DescriptorsAssumption, DescriptorsInit PROVE FilesIInv
  OBVIOUS
<1>1. NoWrite \in WriteCall /\ NoWrite.inode = NOTHING /\ <<>> \in Seq(OpenFile) /\ MIN_FD \in Nat
  BY DEF NoWrite, WriteCall, MIN_FD
<1>2. FilesTypeOK
  BY <1>1 DEF DescriptorsInit, FilesTypeOK
<1>3. \A p \in Process : Table(p)
  BY DEF DescriptorsInit, Table
<1>4. \A i \in Inodes : Opened(i) = {} /\ Loaded(i) = {}
  <2>1. \A p \in Process : Len(file_list[p]) = 0 /\ executable[p] = NOTHING
    BY DEF DescriptorsInit
  <2>2. \A r \in Process \X Nat : r[1] \in Process
    OBVIOUS
  <2> QED
    BY <2>1, <2>2 DEF Opened, Loaded, DescriptorsAssumption, Inodes
<1>5. ASSUME NEW i \in Inodes PROVE Counted(i)
  <2>1. open_cnt[i] = 0 /\ leaked[i] = 0
    BY DEF DescriptorsInit
  <2>2. /\ IsFiniteSet(Opened(i)) /\ Cardinality(Opened(i)) = 0 /\ Cardinality(Loaded(i)) = 0
    BY <1>4, FS_EmptySet
  <2> QED
    BY <2>1, <2>2 DEF Counted
<1>6. \A i \in File : Denied(i)
  BY <1>1, <1>4, FS_EmptySet DEF Denied, DescriptorsInit, DescriptorsAssumption, Inodes
<1> QED
  BY <1>2, <1>3, <1>5, <1>6 DEF FilesIInv

\* Every step keeps the invariant.
LEMMA FilesStep == DescriptorsAssumption /\ FilesIInv /\ [DescriptorsNext]_descriptors => FilesIInv'
<1> SUFFICES ASSUME DescriptorsAssumption, FilesIInv, [DescriptorsNext]_descriptors PROVE FilesIInv'
  OBVIOUS
<1>1. CASE UNCHANGED descriptors
  <2>1. UNCHANGED <<status, file_list, fd, executable, write_call, open_cnt, deny_write_cnt, length, leaked>>
    BY <1>1 DEF descriptors
  <2>2. SameTables /\ FilesTypeOK'
    BY <2>1 DEF SameTables, FilesIInv, FilesTypeOK
  <2>3. \A q \in Process : Table(q)'
    BY <2>1 DEF FilesIInv, Table
  <2> QED
    BY <2>1, <2>2, <2>3, QuietFiles
<1>2. CASE DescriptorsNext
  <2> PICK p \in Process : OnInode(p) \/ OnDescriptor(p) \/ OnItsOwn(p)
    BY <1>2 DEF DescriptorsNext
  <2>1. CASE OnInode(p)
    BY <2>1, LoadFiles, OpenFiles, LeakFiles DEF OnInode
  <2>2. CASE OnDescriptor(p)
    BY <2>2, CloseFiles, SeekFiles, WriteFiles DEF OnDescriptor
  <2>3. CASE OnItsOwn(p)
    BY <2>3, StartFiles, ExitFiles, CloseFirstFiles, WriteSectorFiles, WriteReturnsFiles DEF OnItsOwn
  <2> QED
    BY <2>1, <2>2, <2>3
<1> QED
  BY <1>1, <1>2

\* A table has each descriptor once: its positions and its descriptors are as many.
LEMMA ReferencesCount ==
  ASSUME DescriptorsAssumption, FilesIInv, NEW i \in Inodes
  PROVE  Cardinality(References(i)) = Cardinality(Opened(i))
<1> DEFINE f == [r \in References(i) |-> <<r[1], file_list[r[1]][r[2]].fd>>]
<1>1. \A p \in Process : /\ DOMAIN file_list[p] = 1..Len(file_list[p])
                         /\ \A k \in 1..Len(file_list[p]) : file_list[p][k].fd \in Nat
  <2> TAKE p \in Process
  <2>1. file_list[p] \in Seq(OpenFile)
    BY DEF FilesIInv, FilesTypeOK
  <2>2. \A k \in 1..Len(file_list[p]) : file_list[p][k] \in OpenFile
    BY <2>1
  <2> QED
    BY <2>1, <2>2 DEF OpenFile
<1>2. \A p \in Process : p \notin Live => file_list[p] = <<>>
  BY DEF Live, FilesIInv, Table
<1>3. \A p \in Process : \A k : <<p, k>> \in References(i)
                              <=> k \in 1..Len(file_list[p]) /\ file_list[p][k].inode = i
  <2> SUFFICES ASSUME NEW p \in Process, NEW k
               PROVE  <<p, k>> \in References(i) <=> k \in 1..Len(file_list[p]) /\ file_list[p][k].inode = i
    OBVIOUS
  <2>1. <<p, k>> \in References(i) <=> p \in Live /\ k \in 1..Len(file_list[p]) /\ file_list[p][k].inode = i
    BY <1>1 DEF References, Live
  <2>2. p \notin Live => Len(file_list[p]) = 0
    BY <1>2
  <2> QED
    BY <2>1, <2>2
<1>4. \A r \in References(i) : \E p \in Process : \E k \in 1..Len(file_list[p]) : r = <<p, k>>
  BY <1>1 DEF References, Live
<1>5. f \in [References(i) -> Opened(i)]
  <2> SUFFICES ASSUME NEW r \in References(i) PROVE <<r[1], file_list[r[1]][r[2]].fd>> \in Opened(i)
    OBVIOUS
  <2> PICK p \in Process : \E k \in 1..Len(file_list[p]) : r = <<p, k>>
    BY <1>4
  <2> PICK k \in 1..Len(file_list[p]) : r = <<p, k>>
    OBVIOUS
  <2> QED
    BY <1>1, <1>3 DEF Opened
<1>6. ASSUME NEW r \in References(i), NEW s \in References(i), f[r] = f[s] PROVE r = s
  <2> PICK p \in Process : \E k \in 1..Len(file_list[p]) : r = <<p, k>>
    BY <1>4
  <2> PICK k \in 1..Len(file_list[p]) : r = <<p, k>>
    OBVIOUS
  <2> PICK q \in Process : \E j \in 1..Len(file_list[q]) : s = <<q, j>>
    BY <1>4
  <2> PICK j \in 1..Len(file_list[q]) : s = <<q, j>>
    OBVIOUS
  <2>1. p = q /\ file_list[p][k].fd = file_list[q][j].fd
    BY <1>6
  <2>2. j \in Int /\ k \in Int
    BY DEF FilesIInv, FilesTypeOK
  <2>3. ~(j < k) /\ ~(k < j)
    BY <1>1, <2>1 DEF FilesIInv, Table
  <2> QED
    BY <2>1, <2>2, <2>3
<1>7. ASSUME NEW u \in Opened(i) PROVE \E r \in References(i) : f[r] = u
  <2> PICK p \in Process, n \in Nat : u = <<p, n>>
    BY DEF Opened
  <2> PICK k \in 1..Len(file_list[p]) : file_list[p][k].fd = n /\ file_list[p][k].inode = i
    BY DEF Opened
  <2>1. <<p, k>> \in References(i)
    BY <1>3
  <2> QED
    BY <2>1
<1>8. f \in Bijection(References(i), Opened(i))
  BY <1>5, <1>6, <1>7, Fun_IsBij
<1>9. ExistsBijection(References(i), Opened(i))
  BY <1>8 DEF ExistsBijection
<1>10. IsFiniteSet(References(i))
  BY <1>8, FS_Injection DEF Bijection, FilesIInv, Counted
<1> QED
  BY <1>9, <1>10, FS_Bijection

\* Every open file is counted once in its inode, and every running program once in
\* the denials of its own, for any number of processes and of files.
THEOREM FilesCorrect == DescriptorsSpec => []FilesCounted
<1>1. DescriptorsAssumption /\ FilesIInv => FilesCounted
  <2> SUFFICES ASSUME DescriptorsAssumption, FilesIInv PROVE FilesCounted
    OBVIOUS
  <2>1. \A i \in Inodes : Runners(i) = Loaded(i)
    BY DEF Runners, Loaded, Live, FilesIInv, Table, DescriptorsAssumption, Inodes
  <2>2. OpensAccounted
    <3>1. \A i \in Inodes : open_cnt[i] = Cardinality(References(i)) + Cardinality(Runners(i)) + leaked[i]
      BY <2>1, ReferencesCount DEF FilesIInv, Counted
    <3>2. \A p \in Process : DOMAIN file_list[p] = 1..Len(file_list[p])
      BY DEF FilesIInv, FilesTypeOK
    <3>3. ASSUME NEW p \in Process, NEW j \in DOMAIN file_list[p], NEW k \in DOMAIN file_list[p], j < k
          PROVE  file_list[p][j].fd < file_list[p][k].fd /\ file_list[p][k].fd < fd[p]
      BY <3>2, <3>3 DEF FilesIInv, Table
    <3> QED
      BY <3>1, <3>3 DEF OpensAccounted
  <2>3. ProgramsKept
    BY <2>1 DEF ProgramsKept, FilesIInv, Denied, Inodes
  <2> QED
    BY <2>2, <2>3 DEF FilesCounted
<1> QED
  BY <1>1, DescriptorsAssumption, FilesInit, FilesStep, PTL DEF DescriptorsSpec
===============================================================================
