----------------------------- MODULE BufferCache -----------------------------
(***************************************************************************)
(* The buffer cache of filesys/cache.c, and inode_read_at() and            *)
(* inode_write_at() as its users: a list of at most MAX_FILESYS_CACHE_SIZE *)
(* sectors, replaced by a clock, written behind by a thread of its own and *)
(* flushed and freed at halt.                                              *)
(*                                                                         *)
(* filesys_cache_lock covers the list and is held across disk I/O; but     *)
(* whoever got an entry copies in or out of it, marks it and lets it go    *)
(* without the lock, and can be overtaken at each of these steps.  The     *)
(* lock is what Synch.tla shows it to be: one owner, any waiter next.      *)
(*                                                                         *)
(* Entries are numbered in list order, which never changes: an entry is    *)
(* added at the back and reused in place.  The content of a sector is the  *)
(* number of writes it has received.                                       *)
(***************************************************************************)
EXTENDS Integers, FiniteSets

CONSTANTS User,                    \* threads that read and write files
          WriteBack,               \* the thread of thread_func_write_back()
          Sector,
          NULL,                    \* no thread
          MAX_FILESYS_CACHE_SIZE,
          MaxWrites,               \* bound: writes to a sector
          Halting                  \* may a user halt the machine?

ASSUME CacheAssumption ==
  /\ WriteBack \notin User
  /\ NULL \notin User \cup {WriteBack}
  /\ IsFiniteSet(User)
  /\ MAX_FILESYS_CACHE_SIZE \in Nat \ {0}
  /\ MaxWrites \in Nat
  /\ Halting \in BOOLEAN

VARIABLES disk,         \* content of each sector on fs_device
          entry,        \* struct cache_entry, by position in the list
          first,        \* entries before it were freed at halt
          filesys_cache_size,
          owner,        \* holder of filesys_cache_lock
          pc,           \* where each thread is
          request,      \* the arguments of its filesys_cache_block_get()
          at,           \* the entry it looks at (for, evict, flush) or uses
          last,         \* history: writes made to each sector
          overtaken     \* history: sectors written to while they were flushed
                        \* to disk, or since the halt

vars == <<disk, entry, first, filesys_cache_size, owner, pc, request, at, last, overtaken>>

Thread == User \cup {WriteBack}
Entry == 1..MAX_FILESYS_CACHE_SIZE
Request == [sector : Sector, dirty : BOOLEAN]
NoRequest == [sector |-> NULL, dirty |-> FALSE]
NoEntry == 0

\* The entries on filesys_cache.
Cached == first..filesys_cache_size

CacheEntry == [sector : Sector \cup {NULL}, data : Nat, dirty : BOOLEAN,
               accessed : BOOLEAN, open_cnt : Int]

Init ==
  /\ disk = [s \in Sector |-> 0]
  /\ entry = [e \in Entry |-> [sector |-> NULL, data |-> 0, dirty |-> FALSE,
                               accessed |-> FALSE, open_cnt |-> 0]]
  /\ first = 1
  /\ filesys_cache_size = 0
  /\ owner = NULL
  /\ pc = [t \in Thread |-> "idle"]
  /\ request = [t \in User |-> NoRequest]
  /\ at = [t \in Thread |-> NoEntry]
  /\ last = [s \in Sector |-> 0]
  /\ overtaken = {}

Goto(t, label) == pc' = [pc EXCEPT ![t] = label]
Using == {"copy", "mark", "unpin"}
Return(t) == /\ Goto(t, "idle")
             /\ request' = [request EXCEPT ![t] = NoRequest]
             /\ at' = [at EXCEPT ![t] = NoEntry]
Halted == \E t \in User : pc[t] \in {"halt", "halt clean", "off"}

-----------------------------------------------------------------------------
(* filesys_cache_block_get() and filesys_cache_block_evict(). *)

Get(t, r) ==
  /\ pc[t] = "idle"
  /\ r.dirty => last[r.sector] + Cardinality({u \in User : request[u] = r}) < MaxWrites
  /\ request' = [request EXCEPT ![t] = r]
  /\ Goto(t, "get")
  /\ UNCHANGED <<disk, entry, first, filesys_cache_size, owner, at, last, overtaken>>

\* block_in_cache(), as the entries that match.
block_in_cache(s) == {e \in Cached : entry[e].sector = s}

\* Mutant of Hit: the entry is not pinned.
Hit_unpinned(t) ==
  /\ pc[t] = "get" /\ owner = NULL
  /\ \E e \in block_in_cache(request[t].sector) :
       /\ entry' = [entry EXCEPT ![e].accessed = TRUE,
                                 ![e].dirty = @ \/ request[t].dirty]
       /\ at' = [at EXCEPT ![t] = e]
  /\ Goto(t, "copy")
  /\ UNCHANGED <<disk, first, filesys_cache_size, owner, request, last, overtaken>>

\* The sector is cached: pin its entry, all under the lock.
Hit(t) ==
  /\ pc[t] = "get" /\ owner = NULL
  /\ \E e \in block_in_cache(request[t].sector) :
       /\ entry' = [entry EXCEPT ![e].open_cnt = @ + 1,
                                 ![e].accessed = TRUE,
                                 ![e].dirty = @ \/ request[t].dirty]
       /\ at' = [at EXCEPT ![t] = e]
  /\ Goto(t, "copy")
  /\ UNCHANGED <<disk, first, filesys_cache_size, owner, request, last, overtaken>>

\* Mutant of Miss: the lock is not held across the disk I/O of the eviction.
Miss_unlocked(t) ==
  /\ pc[t] = "get" /\ owner = NULL
  /\ block_in_cache(request[t].sector) = {}
  /\ \/ /\ filesys_cache_size < MAX_FILESYS_CACHE_SIZE
        /\ filesys_cache_size' = filesys_cache_size + 1
        /\ at' = [at EXCEPT ![t] = filesys_cache_size']
        /\ Goto(t, "load")
     \/ /\ filesys_cache_size = MAX_FILESYS_CACHE_SIZE
        /\ at' = [at EXCEPT ![t] = first]
        /\ Goto(t, "scan")
        /\ UNCHANGED filesys_cache_size
  /\ UNCHANGED <<disk, entry, first, owner, request, last, overtaken>>

\* It is not: take a new entry while there may be more, else look for a victim.
Miss(t) ==
  /\ pc[t] = "get" /\ owner = NULL
  /\ block_in_cache(request[t].sector) = {}
  /\ owner' = t
  /\ \/ /\ filesys_cache_size < MAX_FILESYS_CACHE_SIZE
        /\ filesys_cache_size' = filesys_cache_size + 1
        /\ at' = [at EXCEPT ![t] = filesys_cache_size']
        /\ Goto(t, "load")
     \/ /\ filesys_cache_size = MAX_FILESYS_CACHE_SIZE
        /\ at' = [at EXCEPT ![t] = first]
        /\ Goto(t, "scan")
        /\ UNCHANGED filesys_cache_size
  /\ UNCHANGED <<disk, entry, first, request, last, overtaken>>

Victim(e) == entry[e].open_cnt = 0 /\ ~entry[e].accessed

\* Mutant of Pass: the accessed flag is not cleared.
Pass_keep(t) ==
  /\ pc[t] = "scan" /\ at[t] \in Cached /\ ~Victim(at[t])
  /\ at' = [at EXCEPT ![t] = @ + 1]
  /\ UNCHANGED <<disk, entry, first, filesys_cache_size, owner, pc, request, last, overtaken>>

\* The clock passes a pinned entry, and gives an accessed one a second chance.
Pass(t) ==
  /\ pc[t] = "scan" /\ at[t] \in Cached /\ ~Victim(at[t])
  /\ entry' = [entry EXCEPT ![at[t]].accessed = @ /\ entry[at[t]].open_cnt > 0]
  /\ at' = [at EXCEPT ![t] = @ + 1]
  /\ UNCHANGED <<disk, first, filesys_cache_size, owner, pc, request, last, overtaken>>

\* At the end of the list: "while (loop)".
Wrap(t) ==
  /\ pc[t] = "scan" /\ at[t] \notin Cached
  /\ at' = [at EXCEPT ![t] = first]
  /\ UNCHANGED <<disk, entry, first, filesys_cache_size, owner, pc, request, last, overtaken>>

Evict(t) ==
  /\ pc[t] = "scan" /\ at[t] \in Cached /\ Victim(at[t])
  /\ disk' = IF entry[at[t]].dirty
               THEN [disk EXCEPT ![entry[at[t]].sector] = entry[at[t]].data]
               ELSE disk
  /\ Goto(t, "load")
  /\ UNCHANGED <<entry, first, filesys_cache_size, owner, request, at, last, overtaken>>

\* Rename the entry, block_read(), and release the lock.  Its first open_cnt++
\* is here too: nobody can see the entry before.
Load(t) ==
  /\ pc[t] = "load"
  /\ entry' = [entry EXCEPT ![at[t]] =
                 [sector |-> request[t].sector, data |-> disk[request[t].sector],
                  dirty |-> request[t].dirty, accessed |-> TRUE, open_cnt |-> 1]]
  /\ owner' = NULL
  /\ Goto(t, "copy")
  /\ UNCHANGED <<disk, first, filesys_cache_size, request, at, last, overtaken>>

-----------------------------------------------------------------------------
(* inode_read_at() and inode_write_at() on the entry they got: no lock. *)

BeingFlushed(e) == \E t \in Thread : pc[t] \in {"clean", "halt clean"} /\ at[t] = e

\* memcpy().  A write that comes between the block_write() of a flush and its
\* "dirty = false", or is not complete at the halt, is remembered as overtaken.
Copy(t) ==
  /\ pc[t] = "copy"
  /\ IF request[t].dirty
       THEN LET s == request[t].sector
            IN  /\ entry' = [entry EXCEPT ![at[t]].data = @ + 1]
                /\ last' = [last EXCEPT ![s] = @ + 1]
                /\ overtaken' = IF BeingFlushed(at[t]) \/ Halted
                                  THEN overtaken \cup {s} ELSE overtaken
       ELSE UNCHANGED <<entry, last, overtaken>>
  /\ Goto(t, "mark")
  /\ UNCHANGED <<disk, first, filesys_cache_size, owner, request, at>>

\* Mutant of Mark: the entry is not marked dirty after the copy.
Mark_clean(t) ==
  /\ pc[t] = "mark"
  /\ entry' = [entry EXCEPT ![at[t]].accessed = TRUE]
  /\ Goto(t, "unpin")
  /\ UNCHANGED <<disk, first, filesys_cache_size, owner, request, at, last, overtaken>>

\* c->accessed = true; c->dirty = true in inode_write_at().
Mark(t) ==
  /\ pc[t] = "mark"
  /\ entry' = [entry EXCEPT ![at[t]].accessed = TRUE,
                            ![at[t]].dirty = @ \/ request[t].dirty]
  /\ overtaken' = IF request[t].dirty /\ Halted
                    THEN overtaken \cup {request[t].sector} ELSE overtaken
  /\ Goto(t, "unpin")
  /\ UNCHANGED <<disk, first, filesys_cache_size, owner, request, at, last>>

\* c->open_cnt--: one instruction on memory, so no decrement is lost.
Unpin(t) ==
  /\ pc[t] = "unpin"
  /\ entry' = [entry EXCEPT ![at[t]].open_cnt = @ - 1]
  /\ Return(t)
  /\ UNCHANGED <<disk, first, filesys_cache_size, owner, last, overtaken>>

-----------------------------------------------------------------------------
(* filesys_cache_write_to_disk (halt): by the write-back thread, every      *)
(* WRITE_BACK_INTERVAL, with halt = false; by filesys_done() with true.      *)

BeginFlush(t, label) ==
  /\ pc[t] = "idle" /\ owner = NULL
  /\ owner' = t
  /\ at' = [at EXCEPT ![t] = first]
  /\ Goto(t, label)
  /\ UNCHANGED <<disk, entry, first, filesys_cache_size, request, last, overtaken>>

\* Leave entry at[t] for the next one, freeing it on a halt.
FlushNext(t, halt) ==
  /\ at' = [at EXCEPT ![t] = @ + 1]
  /\ first' = IF halt THEN at[t] + 1 ELSE first

FlushEntry(t, halt) ==
  /\ pc[t] = IF halt THEN "halt" ELSE "flush"
  /\ at[t] \in Cached
  /\ IF entry[at[t]].dirty
       THEN /\ disk' = [disk EXCEPT ![entry[at[t]].sector] = entry[at[t]].data]
            /\ Goto(t, IF halt THEN "halt clean" ELSE "clean")
            /\ UNCHANGED <<first, at>>
       ELSE /\ FlushNext(t, halt)
            /\ UNCHANGED <<disk, pc>>
  /\ UNCHANGED <<entry, filesys_cache_size, owner, request, last, overtaken>>

\* c->dirty = false, once block_write() has returned.
FlushClean(t, halt) ==
  /\ pc[t] = IF halt THEN "halt clean" ELSE "clean"
  /\ entry' = [entry EXCEPT ![at[t]].dirty = FALSE]
  /\ FlushNext(t, halt)
  /\ Goto(t, IF halt THEN "halt" ELSE "flush")
  /\ UNCHANGED <<disk, filesys_cache_size, owner, request, last, overtaken>>

EndFlush(t, halt) ==
  /\ pc[t] = IF halt THEN "halt" ELSE "flush"
  /\ at[t] \notin Cached
  /\ owner' = NULL
  /\ Goto(t, IF halt THEN "off" ELSE "idle")
  /\ at' = [at EXCEPT ![t] = NoEntry]
  /\ UNCHANGED <<disk, entry, first, filesys_cache_size, request, last, overtaken>>

Flush(t, halt) == FlushEntry(t, halt) \/ FlushClean(t, halt) \/ EndFlush(t, halt)

-----------------------------------------------------------------------------
GetStep(t) == Hit(t) \/ Miss(t)
EvictStep(t) == Pass(t) \/ Wrap(t) \/ Evict(t) \/ Load(t)
UseStep(t) == Copy(t) \/ Mark(t) \/ Unpin(t)

Next ==
  \/ \E t \in User, r \in Request : Get(t, r)
  \/ \E t \in User : GetStep(t) \/ EvictStep(t) \/ UseStep(t) \/ Flush(t, TRUE)
  \/ BeginFlush(WriteBack, "flush") \/ Flush(WriteBack, FALSE)
  \/ Halting /\ ~Halted /\ \E t \in User : BeginFlush(t, "halt")

\* A thread that need not wait for the lock gets the processor again and again.
Fairness == /\ \A t \in User : WF_vars(EvictStep(t)) /\ WF_vars(UseStep(t))
            /\ WF_vars(Flush(WriteBack, FALSE))

Spec == Init /\ [][Next]_vars /\ Fairness

-----------------------------------------------------------------------------
(* Properties. *)

TypeOK ==
  /\ disk \in [Sector -> Nat]
  /\ entry \in [Entry -> CacheEntry]
  /\ first \in 1..(MAX_FILESYS_CACHE_SIZE + 1)
  /\ filesys_cache_size \in 0..MAX_FILESYS_CACHE_SIZE
  /\ owner \in Thread \cup {NULL}
  /\ pc \in [Thread -> {"idle", "get", "scan", "load", "flush", "clean", "halt",
                        "halt clean", "off"} \cup Using]
  /\ request \in [User -> Request \cup {NoRequest}]
  /\ at \in [Thread -> 0..(MAX_FILESYS_CACHE_SIZE + 1)]
  /\ last \in [Sector -> Nat]
  /\ overtaken \in SUBSET Sector

\* An entry being filled has no sector of its own yet.
Filling(e) == \E t \in User : pc[t] = "load" /\ at[t] = e

\* block_in_cache() takes the first match: a sector is never in two entries,
\* where two writers would each change a copy of it.
OneEntryPerSector ==
  \A e, f \in Cached :
    entry[e].sector = entry[f].sector /\ ~Filling(e) /\ ~Filling(f) => e = f

\* filesys/README C5: an entry counts exactly the threads that use it, and as
\* long as it does it keeps the sector they asked for, whatever is evicted.
PinInv ==
  /\ \A e \in Cached : Filling(e) \/
       entry[e].open_cnt = Cardinality({t \in User : pc[t] \in Using /\ at[t] = e})
  /\ \A t \in User : pc[t] \in Using => entry[at[t]].sector = request[t].sector

\* Where the latest content of s must be: in its entry, else on the disk.
Latest(s) ==
  LET e == {x \in block_in_cache(s) : ~Filling(x)}
  IN  IF e = {} THEN disk[s] ELSE entry[CHOOSE x \in e : TRUE].data

\* Every write survives the cache: eviction, write-behind and halt lose none, and
\* every reader gets all of them, but for a write that a flush overtook.
NoLostWrite ==
  /\ TypeOK
  /\ \A s \in Sector \ overtaken :
       (\A t \in User : pc[t] = "mark" => request[t] # [sector |-> s, dirty |-> TRUE])
         => Latest(s) = last[s]

\* filesys/README C2: "Before evicting, if the entry is dirty, it is written back
\* to disk", and C3: a write-behind changes nothing of what a reader sees.
Coherent == \A s \in Sector : Latest(s) = last[s]

\* filesys/README C5: "As long as the open_cnt is above 0 for an entry, the entry
\* will not be evicted", a halt included: nobody uses an entry that was freed.
HeldEntryCached == \A t \in User : pc[t] \in Using => at[t] \in Cached

\* The clock searches with the lock held, and spins while every entry is pinned;
\* but no thread that pins one needs the lock, so the search ends.
EvictionEnds == \A t \in User : pc[t] = "scan" ~> pc[t] = "copy"
=============================================================================
