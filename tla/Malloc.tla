-------------------------------- MODULE Malloc --------------------------------
(***************************************************************************)
(* threads/malloc.c on top of threads/palloc.c: threads that take and free *)
(* blocks of each descriptor's size, and big blocks of several pages, from *)
(* one pool.                                                               *)
(*                                                                         *)
(* What a thread does to a descriptor under its lock is one step, up to a  *)
(* call of the page allocator.  palloc_get_multiple() scans and marks the  *)
(* pool's bitmap bit by bit with the pool's lock; palloc_free_multiple()   *)
(* clears it bit by bit without.                                           *)
(***************************************************************************)
EXTENDS Integers, FiniteSets, SequencesExt

CONSTANTS Client, Desc,
          blocks_per_arena,   \* of each descriptor
          PAGE_CNT,           \* of the pool
          Big,                \* bound: the page counts asked for in big blocks
          MaxHeld,            \* bound: blocks a thread holds
          NOBODY

ASSUME MallocAssumption ==
  /\ blocks_per_arena \in [Desc -> Nat \ {0}]
  /\ PAGE_CNT \in Nat \ {0} /\ Big \in SUBSET (Nat \ {0}) /\ MaxHeld \in Nat
  /\ NOBODY \notin Client \cup Desc

VARIABLES used_map,   \* of the pool: the pages in use
          pool_lock,
          desc_lock,  \* who holds each, or NOBODY
          free_list,  \* of each descriptor: blocks <<page, index>>
          arena,      \* [desc, free_cnt] in each page; desc is NOBODY in a big block
          held,       \* the blocks each client has
          mpc,        \* where each client is
          desc,       \* the descriptor it has locked, or NOBODY
          page,       \* page_idx, or i of bitmap_scan()
          cnt, done   \* page_cnt, and for how many of them the bits are dealt with

memory == <<used_map, pool_lock, desc_lock, free_list, arena, held, mpc, desc, page, cnt, done>>
heap == <<free_list, arena, held>>

Pg == 0..(PAGE_CNT - 1)
NoArena == [desc |-> NOBODY, free_cnt |-> 0]

MallocInit ==
  /\ used_map = {} /\ pool_lock = NOBODY
  /\ desc_lock = [d \in Desc |-> NOBODY]
  /\ free_list = [d \in Desc |-> <<>>]
  /\ arena = [p \in Pg |-> NoArena]
  /\ held = [t \in Client |-> {}]
  /\ mpc = [t \in Client |-> "idle"]
  /\ desc = [t \in Client |-> NOBODY]
  /\ page = [t \in Client |-> 0] /\ cnt = [t \in Client |-> 0] /\ done = [t \in Client |-> 0]

Goes(t, label) == mpc' = [mpc EXCEPT ![t] = label]

-----------------------------------------------------------------------------
(* palloc.c *)

\* palloc_get_multiple() (0, n) is called.
palloc_get_multiple(t, n) ==
  /\ Goes(t, "pool")
  /\ cnt' = [cnt EXCEPT ![t] = n]

LockPool(t) ==
  /\ mpc[t] = "pool" /\ pool_lock = NOBODY
  /\ pool_lock' = t
  /\ Goes(t, "scan")
  /\ UNCHANGED <<used_map, desc_lock, heap, desc, page, cnt, done>>

\* bitmap_scan() tests a bit of the group that begins at page[t].
Scan(t) ==
  /\ mpc[t] = "scan" /\ page[t] + cnt[t] =< PAGE_CNT /\ done[t] < cnt[t]
  /\ \/ /\ page[t] + done[t] \in used_map
        /\ page' = [page EXCEPT ![t] = @ + 1]
        /\ done' = [done EXCEPT ![t] = 0]
     \/ /\ page[t] + done[t] \notin used_map
        /\ done' = [done EXCEPT ![t] = @ + 1]
        /\ UNCHANGED page
  /\ UNCHANGED <<used_map, pool_lock, desc_lock, heap, mpc, desc, cnt>>

ScanFinds(t) ==
  /\ mpc[t] = "scan" /\ done[t] = cnt[t]
  /\ Goes(t, "mark")
  /\ done' = [done EXCEPT ![t] = 0]
  /\ UNCHANGED <<used_map, pool_lock, desc_lock, heap, desc, page, cnt>>

\* Neither malloc() nor palloc_get_multiple() has the memory.
ScanFails(t) ==
  /\ mpc[t] = "scan" /\ page[t] + cnt[t] > PAGE_CNT
  /\ pool_lock' = NOBODY
  /\ desc_lock' = [d \in Desc |-> IF d = desc[t] THEN NOBODY ELSE desc_lock[d]]
  /\ Goes(t, "idle")
  /\ desc' = [desc EXCEPT ![t] = NOBODY]
  /\ page' = [page EXCEPT ![t] = 0] /\ cnt' = [cnt EXCEPT ![t] = 0] /\ done' = [done EXCEPT ![t] = 0]
  /\ UNCHANGED <<used_map, heap>>

\* bitmap_set_multiple() marks the next page; after the last one the lock goes.
Mark(t) ==
  /\ mpc[t] = "mark"
  /\ used_map' = used_map \cup {page[t] + done[t]}
  /\ done' = [done EXCEPT ![t] = @ + 1]
  /\ IF done[t] + 1 < cnt[t]
       THEN UNCHANGED <<pool_lock, mpc>>
       ELSE pool_lock' = NOBODY /\ Goes(t, "got")
  /\ UNCHANGED <<desc_lock, heap, desc, page, cnt>>

\* palloc_free_multiple() is called: it clears the pages with memset() ...
palloc_free_multiple(t, p, n) ==
  /\ Goes(t, "reset")
  /\ page' = [page EXCEPT ![t] = p]
  /\ cnt' = [cnt EXCEPT ![t] = n]
  /\ arena' = [arena EXCEPT ![p] = NoArena]

\* ... and then the bits, which are all set, one by one.
ResetAsserts(t) == mpc[t] = "reset" /\ done[t] = 0 => page[t]..(page[t] + cnt[t] - 1) \subseteq used_map

Reset(t) ==
  /\ mpc[t] = "reset" /\ done[t] < cnt[t]
  /\ used_map' = used_map \ {page[t] + done[t]}
  /\ done' = [done EXCEPT ![t] = @ + 1]
  /\ UNCHANGED <<pool_lock, desc_lock, heap, mpc, desc, page, cnt>>

ResetEnds(t) ==
  /\ mpc[t] = "reset" /\ done[t] = cnt[t]
  /\ desc_lock' = [d \in Desc |-> IF d = desc[t] THEN NOBODY ELSE desc_lock[d]]
  /\ Goes(t, "idle")
  /\ desc' = [desc EXCEPT ![t] = NOBODY]
  /\ page' = [page EXCEPT ![t] = 0] /\ cnt' = [cnt EXCEPT ![t] = 0] /\ done' = [done EXCEPT ![t] = 0]
  /\ UNCHANGED <<used_map, pool_lock, heap>>

-----------------------------------------------------------------------------
(* malloc.c *)

CanMalloc(t) == mpc[t] = "idle" /\ Cardinality(held[t]) < MaxHeld

\* malloc() of a block of d: from the free list, ...
malloc(t, d) ==
  /\ CanMalloc(t) /\ desc_lock[d] = NOBODY /\ free_list[d] # <<>>
  /\ LET b == Head(free_list[d])
     IN  /\ free_list' = [free_list EXCEPT ![d] = Tail(@)]
         /\ arena' = [arena EXCEPT ![b[1]].free_cnt = @ - 1]
         /\ held' = [held EXCEPT ![t] = @ \cup {b}]
  /\ UNCHANGED <<used_map, pool_lock, desc_lock, mpc, desc, page, cnt, done>>

\* ... or, with none there, from a new arena for which it gets a page;
MallocArena(t, d) ==
  /\ CanMalloc(t) /\ desc_lock[d] = NOBODY /\ free_list[d] = <<>>
  /\ desc_lock' = [desc_lock EXCEPT ![d] = t]
  /\ desc' = [desc EXCEPT ![t] = d]
  /\ palloc_get_multiple(t, 1)
  /\ UNCHANGED <<used_map, pool_lock, heap, page, done>>

\* ... or, if no descriptor has blocks so big, as n pages.
MallocBig(t, n) ==
  /\ CanMalloc(t)
  /\ palloc_get_multiple(t, n)
  /\ UNCHANGED <<used_map, pool_lock, desc_lock, heap, desc, page, done>>

\* The pages are there: the rest of malloc().
Got(t) ==
  /\ mpc[t] = "got"
  /\ LET d == desc[t]
         p == page[t]
     IN  \/ /\ d \in Desc
            /\ arena' = [arena EXCEPT ![p] = [desc |-> d, free_cnt |-> blocks_per_arena[d] - 1]]
            /\ free_list' = [free_list EXCEPT ![d] =
                               @ \o [i \in 1..(blocks_per_arena[d] - 1) |-> <<p, i>>]]
            /\ desc_lock' = [desc_lock EXCEPT ![d] = NOBODY]
         \/ /\ d = NOBODY
            /\ arena' = [arena EXCEPT ![p] = [desc |-> NOBODY, free_cnt |-> cnt[t]]]
            /\ UNCHANGED <<free_list, desc_lock>>
  /\ held' = [held EXCEPT ![t] = @ \cup {<<page[t], 0>>}]
  /\ Goes(t, "idle")
  /\ desc' = [desc EXCEPT ![t] = NOBODY]
  /\ page' = [page EXCEPT ![t] = 0] /\ cnt' = [cnt EXCEPT ![t] = 0] /\ done' = [done EXCEPT ![t] = 0]
  /\ UNCHANGED <<used_map, pool_lock>>

\* Mutant of Unused: an arena of which one block is in use counts as unused.
Unused_early(a, d) == arena[a].free_cnt + 2 >= blocks_per_arena[d]

\* With one more block free, no block of the arena is in use.
Unused(a, d) == arena[a].free_cnt + 1 >= blocks_per_arena[d]

\* free() of a block: onto the free list, ...
free(t, b) ==
  LET d == arena[b[1]].desc
  IN  /\ mpc[t] = "idle" /\ b \in held[t]
      /\ d # NOBODY /\ desc_lock[d] = NOBODY /\ ~Unused(b[1], d)
      /\ held' = [held EXCEPT ![t] = @ \ {b}]
      /\ free_list' = [free_list EXCEPT ![d] = <<b>> \o @]
      /\ arena' = [arena EXCEPT ![b[1]].free_cnt = @ + 1]
      /\ UNCHANGED <<used_map, pool_lock, desc_lock, mpc, desc, page, cnt, done>>

\* A free list after list_remove() of all blocks of arena a.
WithoutArena(list, a) ==
  LET rest[k \in 0..Len(list)] ==
        IF k = 0 THEN <<>>
        ELSE IF list[k][1] = a THEN rest[k - 1] ELSE Append(rest[k - 1], list[k])
  IN  rest[Len(list)]

\* ... and all of its arena's blocks off it again when none is in use any more.
FreeArena(t, b) ==
  LET d == arena[b[1]].desc
  IN  /\ mpc[t] = "idle" /\ b \in held[t]
      /\ d # NOBODY /\ desc_lock[d] = NOBODY /\ Unused(b[1], d)
      /\ held' = [held EXCEPT ![t] = @ \ {b}]
      /\ free_list' = [free_list EXCEPT ![d] = WithoutArena(@, b[1])]
      /\ desc_lock' = [desc_lock EXCEPT ![d] = t]
      /\ desc' = [desc EXCEPT ![t] = d]
      /\ palloc_free_multiple(t, b[1], 1)
      /\ UNCHANGED <<used_map, pool_lock, done>>

\* A big block is given back at once.
FreeBig(t, b) ==
  /\ mpc[t] = "idle" /\ b \in held[t] /\ arena[b[1]].desc = NOBODY
  /\ held' = [held EXCEPT ![t] = @ \ {b}]
  /\ palloc_free_multiple(t, b[1], arena[b[1]].free_cnt)
  /\ UNCHANGED <<used_map, pool_lock, desc_lock, free_list, desc, done>>

ClientStep(t) ==
  \/ LockPool(t) \/ Scan(t) \/ ScanFinds(t) \/ ScanFails(t) \/ Mark(t) \/ Reset(t) \/ ResetEnds(t)
  \/ \E d \in Desc : malloc(t, d) \/ MallocArena(t, d)
  \/ \E n \in Big : MallocBig(t, n)
  \/ Got(t)
  \/ \E b \in held[t] : free(t, b) \/ FreeArena(t, b) \/ FreeBig(t, b)

MallocNext == \E t \in Client : ClientStep(t)

MallocSpec == MallocInit /\ [][MallocNext]_memory

-----------------------------------------------------------------------------
(* Properties. *)

Pages(p, n) == p..(p + n - 1)

\* The pages of each arena and each big block, and those a client is about to use
\* or to give back.
Size(p) == IF arena[p].desc = NOBODY THEN arena[p].free_cnt ELSE 1
Claims ==
  {[by |-> p, pages |-> Pages(p, Size(p))] : p \in {q \in Pg : arena[q] # NoArena}}
    \cup {[by |-> t, pages |-> IF mpc[t] = "reset"
                                 THEN Pages(page[t] + done[t], cnt[t] - done[t])
                                 ELSE Pages(page[t], done[t])]
            : t \in {u \in Client : mpc[u] \in {"mark", "got", "reset"}}}

\* A page belongs to one arena or big block, or to the one thread that is about to
\* take it or give it back, and is marked in use exactly then: though pages are
\* given back without the pool's lock while others scan the map.
PagesOwnedOnce ==
  /\ \A c, e \in Claims : c # e => c.pages \cap e.pages = {}
  /\ used_map = UNION {c.pages : c \in Claims}
  /\ \A t \in Client : ResetAsserts(t)

\* While nobody has a descriptor locked, each block of each of its arenas is on
\* the free list once, or in the hands of one thread; free_cnt counts those on
\* the list; and no arena is kept of which no block is in use.
BlocksAccounted ==
  \A d \in Desc : desc_lock[d] = NOBODY =>
    /\ IsInjective(free_list[d])
    /\ \A b \in ToSet(free_list[d]) : arena[b[1]].desc = d
    /\ \A p \in Pg : arena[p].desc = d =>
         LET onlist == {b \in ToSet(free_list[d]) : b[1] = p}
             holders(i) == {t \in Client : <<p, i>> \in held[t]}
         IN  /\ arena[p].free_cnt = Cardinality(onlist)
             /\ arena[p].free_cnt < blocks_per_arena[d]
             /\ \A i \in 0..(blocks_per_arena[d] - 1) :
                  Cardinality(holders(i)) = IF <<p, i>> \in onlist THEN 0 ELSE 1

\* No page and no block has two owners, and none is lost to the allocators.
MemoryOwnedOnce == PagesOwnedOnce /\ BlocksAccounted
===============================================================================
