# TLA+ models of the Pintos kernel in project4

The repository holds a Pintos kernel for x86 in two states (`src/pintos/src` is
the ancestor, `src/project4/src` the finished one) and two homeworks. This
directory models the kernel of `project4`: the scheduler, the synchronization
primitives, exec/wait/exit, the buffer cache, the file system down to the disk
driver, the allocators, the console's queues and some of the library. Paths below
are relative to `project4/src/`.

Pintos is a uniprocessor kernel whose threads are preempted by a timer. The
code that is hard to get right is not its algorithms but what happens between
two statements: which lock covers them, what a sleeping `block_read()` lets in,
who frees what a second thread still points to. So each model takes the kernel's
*control* as it is, statement by statement where another thread may come in
between, and its *data* as little as the properties can tell apart.

Contents: [the system](#the-system), [the modules](#the-modules),
[the runs](#the-runs), [fairness](#fairness), [what is proved](#what-is-proved),
[what the code does not keep](#what-the-code-does-not-keep),
[what is not modelled](#what-is-not-modelled), [plan](#plan).

## The system

| part | state it keeps | operations | talks to |
|---|---|---|---|
| scheduler, sleep queue (`threads/thread.c`, `devices/timer.c`) | thread status, run queue, sleep queue, slice counter | block, unblock, yield, exit, sleep, timer interrupt | everybody; called with interrupts off |
| semaphores, locks, conditions (`threads/synch.c`) | values, wait lists, holders, each thread's `lock_list` | down, up, acquire, try, release, wait, signal, broadcast; `release_locks()` when a thread dies | scheduler |
| processes (`userprog/process.c`, `syscall.c`) | `struct child_process`, shared by parent and child; `all_list` | exec, wait, exit | semaphores; loads programs from files |
| buffer cache (`filesys/cache.c`) | list of entries: sector, data, dirty, accessed, open_cnt | get, evict, write-behind, flush and free at halt | disk; used by inode.c |
| table of open inodes (`filesys/inode.c`) | `open_inodes`, open_cnt, removed | open, reopen, close, remove | disk, free map |
| file contents (`filesys/inode.c`) | length, read_length, index, deny_write_cnt | read, write, expand, deny and allow writes | cache, free map |
| directories and paths (`filesys/directory.c`, `filesys.c`) | entries, parent, cwd | create, open, remove, chdir | inodes, free map |
| inode index (`filesys/inode.c`) | direct, indirect and doubly indirect tables, on disk | create, expand, look up, deallocate | free map, disk |
| free map (`filesys/free-map.c`, `lib/kernel/bitmap.c`) | bitmap, and its file | allocate, release | inode.c |
| descriptors (`userprog/syscall.c`, `process.c`, `filesys/file.c`) | each process's table, positions, the executable | open, read, write, seek, close, close all | inodes |
| list of all threads (`threads/thread.c`) | `all_list` and its links | create, exit, `thread_alive()` | processes |
| allocators (`threads/palloc.c`, `malloc.c`) | page bitmap; arenas and free lists | get, free | locks |
| console queues (`devices/intq.c`, `input.c`, `serial.c`) | two ring buffers, a waiter each; the UART's interrupt enable register | getc, putc, interrupt handlers | interrupts, scheduler |
| disk driver (`devices/ide.c`) | channel: lock, expected interrupt, semaphore | read, write, interrupt handler | cache, inode.c |
| library (`lib/`) | none | list sort, search and merge, `qsort()`, `bsearch()`, 64-bit division | everybody |
| page tables, traps, boot, other devices | hardware | | |

What makes each of them correct:

* **Scheduler.** One list element serves every queue a thread can be on, so it
  is on one queue at a time; the sleep queue is ordered, because the interrupt
  handler stops at the first sleeper that is not due; every ready thread runs.
* **Primitives.** A lock has one owner although its semaphore and its holder are
  changed in separate steps; no wake-up and no signal is lost although a
  semaphore's unit may be taken by a thread that was not woken; a thread that
  dies gives back exactly the locks it holds.
* **Processes.** Wait returns the child's status whichever of the two comes
  first; exec returns the result of the load; no struct is lost, and none is
  used after it was freed.
* **Cache.** A sector is in one entry; an entry in use keeps its sector though
  the lock is not held while it is used; no write is lost to eviction,
  write-behind or halt; a search that finds everything pinned ends.
* **Inodes.** One struct for a sector, which counts its openers; what the last
  close stores is what the next open reads; a removed file's sectors go when the
  last opener does.
* **Growth.** Every byte below the length has a sector; a reader does not see a
  byte before it is written; two appenders do not undo each other.
* **Directories.** Entries form a tree of existing inodes, no inode drops out of
  it, every open is closed exactly once on every path through every call.
* **Index and free map.** A block of a file is found where it was put, whatever
  table it is in; deallocation finds by counting what expansion took; the bitmap
  in memory marks all that is owned, and its file follows; a sector that changes
  hands shows nothing of its last owner.
* **Descriptors.** Each open is counted once and closed once; a program is not
  written to while it runs.
* **All threads.** The list's links are whole while they are changed with
  interrupts on, and a walk misses no parent that lives.
* **Allocators.** No page and no block has two owners or none.
* **Console.** Bytes keep their order, none is lost, nobody sleeps on a byte that
  is there.
* **Disk.** A call reads or writes one sector as a whole, at one moment.
* **Library.** What a textbook says the function returns.

## The modules

```
Sched ------------- Synch ------ implements --> Monitor
                      |  \------ implements --> Sched!SchedSpec
                 SynchProofs
                      |
                 QueueLemmas

BufferCache, Descriptors -- CacheProofs     ProcessWait -- ProcessWaitProofs

InodeTable -- InodeTableProofs     Namespace -- NamespaceProofs

MCStorage  =  InodeIndex | SectorLife | FreeMap
                  \____________|___________/
                               |-- StorageProofs

MCServices =  AllList | Serial | Ide | Malloc | Descriptors | Library     FileGrowth
                 \________|_______|______|__________________________________/
                          |       |-- implements --> BlockDevice
                          |-- ServiceProofs -- QueueLemmas
```

The modules of the lower part take locks and semaphores as single steps: Synch
and its proofs say what these promise. `MCx` modules only define what TLC needs.
MCStorage and MCServices run several independent modules as one: a variable `part`
says which of them a behaviour is of, and the others stay as they begin.

**Sched** - one action per function of `thread.c` and `timer.c` that runs with
interrupts off: `thread_block`, `thread_unblock`, `thread_yield`, `thread_exit`,
`init_thread`, `timer_sleep`, `timer_interrupt`, `IdleLoop`. `ready_list` and
`sleep_list` are sequences; `left[t]` is `t->ticks - ticks`, so that the tick
counter itself is not state. Who blocks and wakes whom is left open: any thread
that is blocked outside the sleep queue may be unblocked.

**Synch** extends Sched with `synch.c`. A step is what runs between two points
where an interrupt can fire, so `lock_acquire()` is two steps (the semaphore
goes down; the holder is set) and `lock_release()` two; a thread that is
switched to inside `sema_down()` goes around its loop before any interrupt. The
semaphore inside a lock goes by the lock's name, the one on the stack of
`cond_wait()` by its thread's. Threads call the functions in any order the
functions' ASSERTs allow. `ThreadExit` includes the whole of `release_locks()`.

**Monitor** is what `synch.h` promises, without semaphores, wait lists or a
scheduler: owners, and threads waiting for or awakened from a condition.
`Synch!M` is the refinement mapping: the owner of a lock is the thread that has
its semaphore's unit, which is longer on both sides than `lock->holder` says; a
thread waits for a condition while it is on the condition's list, and is awake from
it from then until it has the lock again.

**BufferCache** - `cache.c` with `inode_read_at()` and `inode_write_at()` as its
users. The lock is held across disk I/O and protects the list; the users copy,
mark dirty and unpin in three separate steps without it. Entries are numbered by
list position; content is the number of writes a sector has seen. `last` (what
was written) and `overtaken` (sectors written to during a flush of them, or
after the halt) are history.

**ProcessWait** - each access to a `struct child_process` is a step; a semaphore
operation is one step. `memory[c]` says whether c's struct is allocated or who
freed it. The first use of a freed struct is recorded in `fault` and the machine
stops, for what follows is undefined. `waited` (children a wait has returned
for) and `orphan` (who called `exit()` with its parent gone already) are history.

**InodeTable** - a step for each statement that reads or writes a link of
`open_inodes` or a field of a struct in it: nothing locks the list. `inode_open()`
walks from element to element; a new struct is on the list before `sector`,
`open_cnt`, `removed` and what is on the disk are set, in this order, and until then
`open_cnt` is what `malloc()` left (Garbage). `list_insert()` and `list_remove()` are
two stores to what others can see, so that insertions that meet, and a struct that two closers take off,
leave the links they leave in the code. The directory's lock is held where the
callers hold it: not for the root, nor for a parent. `lost[i]` is history: the openers of
a struct that `open_cnt = 1` wrote over. So is `overtaken`: sectors whose struct was found
before it was counted or after its last close had begun, that got two structs, or
that were written to before they were read in. Any finite number of threads.

**FileGrowth** - one open file. `inode_write_at()` tests the length, takes the
lock, expands, copies sector by sector and publishes `read_length`; for each sector
it reads `length` twice, for `byte_to_sector()` (`Find`) and for the bytes that are left
(`Copy`), and where the file shrinks before the first and grows before the second the kernel
panics (`Panic`: "Access past end of device"). `inode_read_at()` reads `read_length` once and
then byte by byte.
`new_data_sectors` is a `size_t` and wraps at SIZE_T, which the proofs only take to
be more than any length. `isdir` is chosen at the start: of a directory the callers
hold the lock for the whole call, all but `dir_is_empty()`, which `dir_remove()` calls for a
child that nobody has locked; so a reader of a directory may come with the lock or
without. `tested`, `zero`, `shared` and `shrunk` (a call made
the file shorter) are history.

**Namespace** - calls by name. A call is a walk with one step per token and a
last step, three for `dir_remove()`; path and call are chosen as the walk goes,
so paths are of any length and any shape. Files are empty. `open_cnt` counts as
the code does; `lost[s]` is history, the opens of s whose last pointer is gone
(at most MaxLost of them are followed). `strayed` is history: somebody made a
file its directory, or opened a directory after `dir_remove()` had checked that
it was not open. What the kernel panics on is `panicked`.

**InodeIndex** - the three levels of tables: `inode_create()`, `inode_expand()`,
`byte_to_sector()` and `inode_dealloc()`, a step for each sector taken, stored,
zeroed or given back. Lengths are in sectors. Allocation may fail at any of them
(`full` records it, `fault` the first write to a sector that is not the file's,
where the model stops); `lost` are the sectors a failed `filesys_create()` leaves
marked.

**SectorLife** - what a sector holds on the disk and in the cache while it is
given, zeroed past the cache, used for bytes or for an index, released and given
again. `stale` is history: sectors that were cached when they were given.

**FreeMap** - `bitmap_scan_and_flip()` tests, then sets; `bitmap_write()` copies
byte by byte; callers share no lock. `raced` (sectors of which two callers found
the bit clear) and `torn` (bits stored from a load that was overtaken) are history.

**AllList** - the four stores of `list_insert()`, made with interrupts on, the two
of `list_remove()`, and the walk of `thread_alive()` element by element. A page is a
thread's struct and is reused as soon as it is freed. Where two insertions meet the
links are wrong for good; `broken` records it, and the model stops.

**Malloc** - `malloc()` and `free()` under each descriptor's lock, big blocks and
arenas from `palloc_get_multiple()`, which scans under the pool's lock, while
`palloc_free_multiple()` clears bits without it.

**Serial** - both queues with the lock inside `intq_getc()`, polling when the
transmit queue is full with interrupts off, and the handlers. Bytes are numbered.

**Ide** - thread, interrupt handler and controller of one channel. An interrupt may
come before the thread waits for it. **BlockDevice** is what `block.h` promises;
`Ide!Call` and `disk` are the refinement mapping: a read takes effect when the data
is in the port, a write when the controller has stored it.

**Descriptors** - tables of struct process_file, positions, `deny_write_cnt` from
`load()` to exit, `process_close_all()` file by file. `close(-1)` closes everything,
as the code has it. `halted`: an assertion failed.

**Library** - list and division algorithms as operators, each with the definition
it is compared with; TLC tries all lists up to a length and all numbers of two
words of HALF bits. It has RECURSIVE operators, so nothing is proved of it.

Abstractions shared by all: one processor; a load or store of a word is
indivisible, and so is `x++` (one instruction of the x86); statements store in the
order of the source; memory does not run out except where it is said; `block_read()` and
`block_write()` succeed (the driver panics otherwise); a walk over `all_list` is
one step but in AllList; a malloc()ed struct is not reused under
another identity. In InodeTable the sector number in a struct that is not filled in yet
is no file's: a page never used has 0 there, the free map's sector, and `free()` leaves
0xcc in every byte; and who finds a struct before `lock_init()` is not followed into its
lock.

## The runs

All but the two marked *violated* pass. State counts are distinct states.

| run | instance | properties | states |
|---|---|---|---|
| conds | 3 threads, 1 lock, 1 condition, slice 2, sleeps up to 2 | QueueInv SleepInv SignalInv WakesOnTime ReadyRuns ImplementsMonitor WaitersProceed | 43 362 |
| locks | 3 threads, 2 locks, 1 semaphore | LockInv ElemInv NoLostWakeup ImplementsSched | 153 608 |
| cache | 2 users, write-behind, halt, 3 sectors, 2 entries, 1 write each | OneEntryPerSector PinInv NoLostWrite | 267 001 |
| cache_live | 3 readers, 3 sectors, 2 entries | EvictionEnds | 58 115 |
| cache_write_behind | as cache, no halt | Coherent *violated* | |
| wait | 3 processes | ResultsDelivered StrayUses NoLeak WaitEnds | 36 758 |
| inode_table | 3 threads, root and a file, 2 structs | OpenCount ClosedIsStored ReleasedLast | 2 449 296 |
| inode_same_struct | 2 threads, 3 structs | SameStruct *violated* | |
| growth | 2 writers, 1 reader, sectors of 2 bytes, room for 2, writes of 1 or 2 | Mapped ShrinksOnlyIfStale AllocatedOnce NoZeroReadAlone | 2 909 142 |
| namespace | 2 processes, 2 names, 3 inodes | OpenCount InodesAccounted Tree | 800 824 |
| storage | MCStorage, see below | Accounted Mapped OwnContent MapKept | 1 921 661 |
| services | MCServices, see below | LinksWhole MemoryOwnedOnce ConsoleKept FilesCounted LibraryRight LiveParentFound ImplementsBlockDevice | 399 977 |

What they show, and why the bounds are enough for the cases that matter:

* **conds.** One waiter, one signaller and one that barges in; two ready threads
  behind the running one and sleeps of 1 and 2, so that sleepers are equal and
  different. `WakesOnTime`: a sleeper wakes at the tick it asked for, no earlier and
  no later. `ReadyRuns`: if the timer ticks, every ready thread gets the processor.
  `ImplementsMonitor` is the refinement; `WaitersProceed` what is live about it: a free
  lock that is waited for is taken, and a signalled thread asks for its lock again.
  A *particular* thread may wait for a lock for ever, for others may barge in each
  time, so no property says otherwise.
* **locks.** Two locks let a thread that dies hold one, both or none while others
  wait for either; three threads let one barge in between a wake-up and the woken
  thread. MaxValue = 2 lets a semaphore have more units than one.
  `ImplementsSched`: every step of the primitives is a step of Sched, so what is
  proved of Sched holds under them.
* **cache.** Three sectors for two entries make every miss but two evict; two users
  can hold both entries, and the write-behind comes in everywhere. `NoLostWrite`
  exempts exactly the sectors written to while they were being flushed; *Coherent*
  does not, and fails.
* **cache_live.** All entries pinned needs a third user to search.
* **wait.** The initial thread, a child and its child (or two children): parent and
  child end in both orders, loads fail and succeed, waits come before and after. `StrayUses`
  says how far the use of freed structs goes: which step of a child may find its struct
  freed, for each of the three that free it. Each of the eight happens in the run.
* **inode_table.** Two structs: one for each sector, or two for one. Three threads: one
  that makes a struct or closes it, one that finds it meanwhile, and one for whom the count
  is then wrong. Garbage of 0 and 9, so that a count that is not set yet may look like
  one that a close brings to 0, or not.
* **growth.** Ends up to 6 in a file with room for 4 bytes reach the limit of the index
  and go a whole sector beyond it; gaps of 1 leave bytes unwritten; two writers overlap
  in every order. Writes of 2 bytes are enough to cross from one sector to the next, and of
  more than one step. 16 is room for no length but for every difference.
* **namespace.** Three inodes give a directory in the root with a file or directory
  in it; two names give siblings. Both processes work anywhere in it at once.
* **storage.** *Index*: one direct pointer, one indirect block and a doubly indirect
  one, of two pointers each, so a file is at most 7 sectors long. One file is asked
  for lengths up to 8, in up to 9 steps, so it crosses each carry from every length
  below it; or two files compete. A full file takes all 12
  free sectors (7 of bytes, 4 of tables, 1 for the inode), and with the other file there
  they run out before it has grown as far. *Life*: three sectors, two cached.
  *Map*: two callers, two bits: each may overtake the other at either bit.
* **services.** *Threads*: 4 pages for 4 tids let a page be reused under a walk.
  *Memory*: arenas of two blocks and of one, three pages, big blocks of two, so that
  the pool is fragmented and exhausted; two clients. *Console*: two readers, one of
  them waiting for the queue's lock, and a printer; queues of 3 hold 2 bytes. *Disks*:
  three threads on one channel, one disk with one sector and one with two. *Files*: two
  processes, two files that either may run, write or both, and a directory. *Library*:
  lists up to 5 with keys that repeat; words of 3 bits reach every branch of the
  division.

CHECK_DEADLOCK is off where the model may stop: in ProcessWait when all have
exited or a fault is recorded, in InodeTable after a fault or when the bound on
structs is reached, in Namespace when all have exited or the kernel has
panicked, in MCStorage and MCServices at a fault, a panic or the end of what the
budgets (`Calls`, `MaxTid`, one job) allow. It is on in the others. Type invariants are
the first conjunct of one property of each module.

Every property of a passing run has a *mutant*: a variation of one definition
that a slip in the code could be (a dropped lock, a missing reset, an insertion
at the wrong end), with which TLC finds that property violated. It stands before
the definition it replaces and is used by nothing.

## Fairness

* `Sched`, `Synch`: strong fairness of the timer interrupt. Interrupts go off
  only for finite stretches and the interrupt controller keeps a tick that comes
  meanwhile; strong, for "interrupts on" comes and goes. The running thread is
  fair only in finishing a call it is inside of (`Continue`); nothing makes a
  thread call anything, yield or end.
* `BufferCache`, `ProcessWait`: weak fairness of each thread's next kernel step.
  It is what `Sched!ReadyRuns` gives: a thread that can go on gets the processor
  in the end. A thread that waits for a lock is fair only in so far as the lock is
  free when it runs; `EvictionEnds` does not need more, since the searcher has the
  lock, and the users it waits for need none.
* No fairness says that a program exits, a user lets go of a file or a call comes.
* All other modules have safety properties only.

## What is proved

By TLAPS, for *every* value of the constants, from the named assumption of each
module and from nothing else:

| theorem | module | says |
|---|---|---|
| SchedCorrect | SynchProofs | `SchedSpec => [](SchedTypeOK /\ QueueInv /\ SleepInv)` |
| SleepCorrect | SynchProofs | `SchedSpec => []SleepInv` |
| SleepOnTime | SynchProofs | `SchedSpec => WakesOnTime` |
| LockCorrect | SynchProofs | `Spec => []LockInv` |
| ElemCorrect | SynchProofs | `Spec => []ElemInv` |
| SynchStepsAreSched | SynchProofs | `Spec => SchedInit /\ [][SchedNext]_schedVars` |
| CacheCorrect | CacheProofs | `Spec => [](OneEntryPerSector /\ PinInv)` |
| PinCorrect | CacheProofs | `Spec => []PinInv` |
| CacheHolds | CacheProofs | `~Halting` implies `Spec => []HeldEntryCached` |
| WritesKept | CacheProofs | `Spec => []NoLostWrite` |
| WakeupCorrect | SynchProofs | `Spec => []NoLostWakeup` |
| SignalCorrect | SynchProofs | `Spec => []SignalInv` |
| MonitorCorrect | SynchProofs | `Spec => ImplementsMonitor` |
| ResultsCorrect | ProcessWaitProofs | `Spec => []ResultsDelivered` |
| StraysKnown | ProcessWaitProofs | `Spec => []StrayUses` |
| NoStructLeft | ProcessWaitProofs | `Spec => []NoLeak` |
| OpenCountCorrect | InodeTableProofs | `Spec => []OpenCount` |
| StoredWhenClosed | InodeTableProofs | `Spec => []ClosedIsStored` |
| ReleasedAfterLast | InodeTableProofs | `Spec => []ReleasedLast` |
| LifeCorrect | StorageProofs | `LifeSpec => [](LifeTypeOK /\ OwnContent)` |
| FreeMapCorrect | StorageProofs | `FreeMapSpec => []MapKept` |
| IndexAccounted | StorageProofs | `IndexSpec => []Accounted` |
| IndexMapped | StorageProofs | `IndexSpec => []Mapped` |
| NamesOpenCount | NamespaceProofs | `Spec => []OpenCount` |
| NamesAccounted | NamespaceProofs | `Spec => []InodesAccounted` |
| NamesTree | NamespaceProofs | `Spec => []Tree` |
| GrowthMapped | ServiceProofs | `Spec => []Mapped` |
| GrowthAllocatesOnce | ServiceProofs | `Spec => []AllocatedOnce` |
| GrowthHidesZeros | ServiceProofs | `Spec => []NoZeroReadAlone` |
| GrowthShrinksOnlyIfStale | ServiceProofs | `Spec => ShrinksOnlyIfStale` |
| IdeCorrect | ServiceProofs | `IdeSpec => ImplementsBlockDevice` |
| FilesCorrect | CacheProofs | `DescriptorsSpec => []FilesCounted` |
| LinksStayWhole | ServiceProofs | `AllListSpec => []LinksWhole` |
| ParentNotMissed | ServiceProofs | `AllListSpec => LiveParentFound` |
| ConsoleCorrect | ServiceProofs | `SerialSpec => []ConsoleKept` |
| MemoryCorrect | ServiceProofs | `MallocSpec => []MemoryOwnedOnce` |

**Scheduler.** `SchedIInv` is the conjunction of types, QueueInv and SleepInv; none
is inductive by itself. QueueInv (the run queue holds exactly
the ready threads, each once, one thread runs) needs the sleepers to be blocked
when `timer_interrupt()` unblocks them; SleepInv (ordered, nobody overdue, each
once) needs QueueInv to know that the thread that goes to sleep is on no queue.
One lemma shows each action to preserve it. `QueueLemmas.tla` has what they need
of sequences: appending, popping, inserting in the middle and cutting a prefix of
a sequence without duplicates. `LeastNat` and `DueWithinSplits` turn the handler's
loop into "the longest prefix that is due". SleepOnTime is an action property: only
the timer takes time from a sleeper, one tick each, and what it wakes has none left.

**Primitives.** `SynchIInv` is `SchedIInv /\ SynchTypes /\ Waiting /\ Locking`, where
*Waiting* is ElemInv with `ArgInv` (what a thread is about fits where it is) and
`IdleInv` (sleepers and unborn threads are in the middle of nothing), and *Locking*
says that a lock has one owner, who has it on its lock list but for the gap between
the semaphore's step and the holder's. They are one induction: that
`thread_unblock()` may be called for the thread it takes off a wait list is ElemInv;
that `release_locks()` of a dying thread wakes each waiter once, and wakes it with
a unit to take, is that lock lists have no lock twice and that nobody else owns
what is on them. SynchStepsAreSched is the
safety half of `ImplementsSched`: where a wake-up and a switch fall into one step of
the primitives, the scheduler's guards hold by ElemInv.

**Wake-ups.** NoLostWakeup says of each semaphore that while somebody is on its wait list,
at least as many threads have been woken and not yet gone on (`Woken`) as it has units. It
is inductive on top of `SynchIInv`: an up adds a unit and, if there is anybody to wake, a
woken thread; a woken thread that gets through takes a unit with it; one that barges in
takes a unit and nobody's place. That sets of threads have a cardinality needs Thread to
be finite.

**Conditions.** `CondInv` says of every thread where it can be in `cond_wait()`
(`InCondWait`), what it is if it is on a condition's list (`OnList`), and that the
semaphore on its stack is up exactly when it was taken off the list and has not
noticed (`OwnSemaphore`). SignalInv is not inductive without them, nor without the lock
that `cond_broadcast()` keeps between two signals.

**Monitor.** With LockInv and `CondInv` the refinement goes step by step. `lock_release()`
is a stutter and the `sema_up()` after it the release; `cond_wait()` of Monitor is the
`sema_up()` inside `cond_wait()`; a signal takes the head of the list; and whoever comes
back takes the lock with the down that gets through. All other steps (`MonitorSame`) leave
owners, lists and the awakened alone, among them the whole of the scheduler.

**Cache.** `CacheIInv` adds four things to the two properties. `LockInv`: whoever
searches, fills or flushes owns `filesys_cache_lock`. `AtInv`: the entry a thread
is at is one that was handed out, so that a new entry has no users. `FillInv`: the
thread that fills an entry has it to itself, and its sector is on no other entry;
this is what the miss found out, and it stays true until the load because the lock
is held across the eviction's disk I/O. `CacheTypes`: as much of TypeOK as this
needs. Most steps leave sectors, counts and users alone and are settled by one
lemma (`Frame`); the hit, the miss, the eviction, the load and the last step of a
user are proved one by one. `CacheHolds` says that the first of the known
deviations below needs a halt: without one nothing in use leaves the list.

**Writes.** NoLostWrite looks at one place, the entry or else the disk; what makes it
inductive says where *every* copy stands. `Safe(s)`: the entry of s has all its writes;
the disk has them too unless the entry is dirty or a writer has copied and is about to
mark it (`Pending`); and it has them whenever a flush is about to clear the flag, or
when s has no entry. `WriteInv` says this of every sector but those written to during
a flush of them and those with a write pending at the halt. The clock never takes an
entry with a write pending, for it is pinned; a miss never reads a sector with one,
for `FillInv` of CacheProofs says that its sector is on no entry. `HaltInv`: entries
leave the list at a halt only, and from the front. One lemma (`QuietStep`) settles the
steps that touch neither content nor list; the copy, the mark, the eviction, the load
and the two steps of a flush are proved one by one. The proof also shows the bounds
in TypeOK.

**Processes.** `ProcessIInv` is the types with four parts. `AliveInv`: all_list holds
who has started and not ended. `HandInv`: in exec and wait a process has a child of its
own in hand, whose struct is live, and what it reads has been written. `BareInv`: what a
process without a struct can be. `CpInv`: as long as a struct is live its parent has not
begun to end, and the struct says of the child what is true of it (`Tells`): a
semaphore goes up after what it announces, so that a down that got through, and a
look that saw the field already set, both find the result. `LateIInv` stands on it: what
a child that is late may still do to its struct. A struct that is gone was waited for, of
a child that failed to load, or its parent has died; for each of these it says where
the child is by then at least (`LateInv`); with what the child had asked before, that
leaves the places StrayUses lists. The theorems cover
executions up to the first use of a freed struct (the known deviations below), after
which nothing is defined.

**Open inodes.** `TableIInv` says nothing of the list: in the model as in the code its links may
be wrong, a walk may find a struct or miss it, and neither matters. What holds anyway is said
of structs and of threads. `Hold`: what a thread knows of the struct it has, by how far it has
come; `OneMaker`: a struct is made by one thread, which alone sets its count to 1 and so knows
whom it forgets; `Sound`: from then on the count is that of its openers but for those. Of a
sector that is not in `overtaken` the rest can be said (`Settled`): it has one struct (`One`),
which nobody had before it was counted (`Exact`), nobody has whose struct is freed (`Alive`),
one thread closes it for good with nobody else at it (`Alone`), and its length is where it
should be (`Current`). A step that gives a second thread a share in a struct that is being made
or closed puts the sector into `overtaken` and has nothing to prove; that the next close of
another one brings its count to 0 only if it is the last opener is the counting of `Sound`,
with Thread finite. A freed struct that a thread follows sets `fault`, and there the
invariant ends.

**Sectors.** `LifeIInv`: of a sector that was not cached when it was given, an index
block is never cached, and bytes are as their owner left them in the cache, and on
the disk unless the entry is dirty. OwnContent alone does not say that a clean entry
may be dropped.

**Free map.** `MapIInv`: what callers own is marked, apart from the sectors they raced for;
who is robbed shares a raced sector; and a bit on the file that differs from memory is
torn or will be written again by a caller that is not past it.

**Inode index.** `IndexIInv` speaks of the three levels of tables as one row of *leaves*, the
blocks of pointers to data: leaf t leads to the data sectors from `Base(t)` on, by a
multiplication, so the proof never divides; where the code divides (`byte_to_sector()`,
`bytes_to_indirect_sectors()`), one lemma each says which leaf that is. A leaf or an outer
block that a call has on its stack counts in the place of the one on the disk. `FileInv`
says of each file, by what is done to it: the three indexes of the inode tell how many
sectors it has and so where the next one goes, full tables included (`Counters`), and how
many are still wanted; or its `length` does; or `inode_dealloc()` has released the first
`Freed(f)` data sectors and the leaves they filled (`Shrinking`, once for each of its three
loops). In all of them the index is `Whole`: it leads to the data (`Leads`), no sector is in it
twice (`Apart`), and a pointer to nothing is 0 or garbage, never a sector of the file
(`Blank`). That last one is what the next allocation relies on, and Mapped does not say it.
`OwnInv` is who owns which sector: what is marked is reserved, lost or owned by one file,
and a file that is being deallocated owns only what `inode_dealloc()` has still to count
(`Rest`). Only when an index block could not be had is a file `Broken`, and then its call
stands still at the fault. A step changes one file and the tables it owns, so by one lemma
(`StepKeeps`) its own `FileInv` is all that has to be shown. The assumption on the constants
is that a table has room for at least one pointer, and that the model's mark for "no sector"
is none.

**Growth.** `FileIInv` is the three invariants with who has the lock (`Owning`), what a
writer was called with (`AskedFor`) and what it is about to add (`Reckoned`):
`new_data_sectors` is the difference modulo SIZE_T, whoever set the file's length after
the writer's test. The first attempt at the proof failed, for a reason: *NoZeroReadAlone*
was stated with `shared` alone, and that is not inductive, for a shorter file (a stale
test, or an index that is full) uncovers what `read_length` already shows. TLC confirmed it
with MaxEnd one sector past the capacity, where before it could not happen. `shrunk` is the
missing history, and the property now says so. Whoever reads a directory without its lock is
one more case of this: `Hidden` holds of every reader as long as no two calls overlapped
and none shortened the file; that calls do not overlap on a directory at all, for their callers
lock it, is `OneCall`. `Unmapped` is why a single writer does not panic: nobody else makes
longer what it has found too short.

**Names.** `NamespaceIInv` has two halves. The counts hold whatever anybody does (`CountInv`):
each process has four places that can hold an open inode - its directory, its file, the
directory its call is at, and what `dir_remove()` has opened - and a step opens, closes,
hands on or loses exactly what those places say (`Balanced`; `BalancedBy` lists the
fourteen ways in which a step does). The number of holders is the size of a set of places,
so Process has to be finite, and NULL neither a process nor a sector. The tree holds
while no process has strayed (`TreeInv`): entries name each inode once and ".." leads back
(`EntryInv`), the root has no entry, what is removed is a file that is still open,
every sector taken is one of these or about to be added (`AllocInv`), by one call, which
alone knows it (`PendingInv`), and what is open has its sector (`HeldInv`). None of this is
inductive without what a removal relies on between its steps (`Removing`): the lock keeps
the entry, but that the directory which is to go stays empty and is used by nobody else
rests on its open_cnt still being 1, which no lock protects. It is what `strayed`
watches, so the proof says as well which of the code's checks are not enough. The two
steps that change entries, `dir_add()` and the erasing one of `dir_remove()`, are the
long ones; all others leave the inodes alone and are settled by one lemma (`Moves`).

**Disk.** The invariant is that only the channel's holder is in a transfer, and that
thread and controller are in step: for each command one interrupt, none left
over for the next. With it, each step of Ide maps to a call, a read, a write or a
return of BlockDevice, or to a stutter.

**Descriptors.** `FilesIInv`: an inode's count is the number of pairs of a process and a
descriptor that name it (`Opened`), of processes that run it (`Loaded`) and of what is
leaked; tables are ordered by descriptor, so that a pair is one entry; a write under way
finds its entry again. FilesCounted follows because only finitely many processes have
tables of finite length.

**All threads.** The links are wrong in the middle of an insertion, so `Intact` says how far
each insertion has come (`Inserted`), that only one is under way (`OneInserts`: two set
`broken`), and that the links are those of the sequence `threads` but for what it has still
to do (`Chained`). A walk's cursor is on a live thread with all it must still find from there
on (`Ahead`); that an exit may take the thread under the cursor off the list is why
*LiveParentFound* is stated of the step that ends a walk.

**Console.** `Holds()` divides; the invariant (`InQueue`) goes round by subtraction, and one
lemma shows them equal. `Readers` ties the queue's lock and its wait list to where each
reader is: the holder is the one that waits or was woken, the wait list has those at
"lock", each once, and is not empty unless someone has the lock or is about to ask for it
again. With it a `signal()` never wakes the wrong thread and a `lock_release()` wakes the
next. A panic (known deviations below) ends it, for then a reader waits on a queue that
is not empty; the order of the bytes survives that too.

**Memory.** `MallocIInv` says what MemoryOwnedOnce says page by page and block by block,
with no regard to which descriptor is locked: `Occupies` and `Has` are whose a page is, `Working`
that a scan has seen clear bits only and that nobody else marks any until they are its own
(resetters only clear, so they need no lock), `ArenaOK` that free blocks and blocks in use are
all there are. `free_cnt` is the size of a finite set of blocks; that no block but the last one
is in use when `free()` finds the arena unused follows from counting: `blocks_per_arena - 1`
different free blocks leave room for one (`AllButOne`). What `list_remove()` of all of them
leaves (`WithoutArena`, a recursive function) is proved by the least turn that goes wrong,
from the library's well-founded `<`.

Only model-checked: everything with fairness (ReadyRuns, WaitersProceed, WaitEnds,
EvictionEnds, the fair half of ImplementsSched), and LibraryRight of Library. Liveness and
ENABLED, and what the recursive functions of Library compute for every input, are beyond
the provers. Every other property that a passing run checks is stated by a theorem.

## What the code does not keep

Two runs check a sentence of the code or its documents that the code breaks:

* **cache_write_behind** (`filesys/cache.c:116`). The write-behind clears `dirty`
  after `block_write()`, which sleeps. A writer does not hold the lock, so it can
  copy and set `dirty` in between; the entry is then clean and its data is dropped
  by the next eviction.
* **inode_same_struct** (`filesys/inode.c:214`). `open_inodes` is searched and added
  to without a lock, and a last close takes the struct off the list before it
  writes it: two openers get two structs for one sector.

More of the same kind are stated in the modules and have no run of their own. To
see one, put the property in the place of the properties of the module's cfg
(`MCCache.cfg`, `MCProcessWait.cfg`, `MCInodeTable.cfg`, `MCFileGrowth.cfg`,
`MCNamespace.cfg`, `MCStorage.cfg`, `MCServices.cfg`); TLC finds each within a
minute.

### Known deviations

| property | what happens | what is said |
|---|---|---|
| `BufferCache!HeldEntryCached` | `filesys_cache_write_to_disk(true)` at halt frees entries that others are using (`cache.c:121`) | filesys/README C5: an entry in use is not evicted |
| `ProcessWait!WaitAlwaysEnds` | a child whose executable cannot be opened never raises `exit_sema`; `run_task()` waits for ever (`process.c:158`) | process.c: process_wait() "Waits for thread TID to die" |
| `ProcessWait!NoUseAfterParentExit` | the parent frees its children between the child's `thread_alive()` and its use of `cp` (`process.c:158`) | DESIGNDOC B8: the child "does not try to access" it |
| `ProcessWait!NoUseAfterWait` | wait sees `exit` set, skips the semaphore and frees it before the child's `sema_up()` (`process.c:160`) | DESIGNDOC B5: "the child thread is already dead" |
| `ProcessWait!NoUseAfterExec` | exec frees the struct of a child that failed to load, which raises `load_sema` after setting `load` | DESIGNDOC B8: freed "once a parent process completes a wait" |
| `InodeTable!EveryOpenerCounted` | `inode_open()` lists a struct before it sets `open_cnt`: the increment of a second opener is overwritten, and the first of the two closes is taken for the last (`inode.c:233`) | inode_close(): "If this was the last reference" |
| `InodeTable!OpenedIsRead` | a second opener finds the struct on the list before `block_read()` has filled it (`inode.c:231`) | inode_open() "Reads an inode from SECTOR" |
| `InodeTable!OpenedIsLatest` | an open after a last close has unlisted and before it has written reads the old length (`inode.c:280`) | inode_close() "writes it to disk" |
| `InodeTable!NoFault` | the struct is freed between the search and `inode_reopen()` (`inode.c:220`) | "frees its memory" at the last reference only |
| `FileGrowth!NeverShrinks` | the test for growth is made without the lock and not repeated under it: the second of two writers sets a smaller length than the first, and `new_data_sectors` wraps (`inode.c:384`) | filesys/README A3: "When the lock is acquired, the extension needed is recomputed" |
| `FileGrowth!NoZeroRead` | the first of two appenders to finish publishes the other's zeros in `read_length` (`inode.c:422`) | filesys/README A4 |
| `FileGrowth!NoPanic` | the file is shortened, a writer finds no sector for its byte, another makes it longer, and the writer goes on with the sector -1 (`inode.c:394`, `inode.c:400`) | block.c:102: "a valid offset within BLOCK" |
| `FileGrowth!DeniedUnchanged` | a write that has passed the test goes on after writes were denied (`inode.c:375`) | inode_deny_write() "Disables writes to INODE" |
| `Namespace!InUseStays` | a process enters a directory between `dir_remove()`'s test of open_cnt and its end (`directory.c:218`) | filesys/README B5: "if any process is using a directory, it cannot be removed" |
| `Namespace!AllClosed` | `get_containing_dir()` returns NULL without closing its directory (`filesys.c:235`), `filesys_chdir()` replaces cwd without closing it for "." (`filesys.c:176`): such a directory can never be removed | dir_lookup(): "The caller must close *INODE" |
| the part of `Namespace!InodesAccounted` about inodes in use, without `~strayed` | chdir to a *file* succeeds (`filesys.c:189`); once it is removed, its ".." may lead to a directory that is gone, and a create in it takes the inode's lock twice and panics (`panicked`) | |
| `InodeIndex!FullIsReported` | when no sector is left, `inode_expand()` goes on with the pointer it had, and `inode_alloc()` returns true (`inode.c:526`) | inode_create(): "Returns false if memory or disk allocation fails" |
| `SectorLife!IndexIntact` | a dirty entry of a freed sector is written over the index block that its new owner has put there | filesys/README:30: the cache is "only used for data blocks on disk" |
| `SectorLife!NewReadsZeros` | a new sector is zeroed past the cache, which still holds the bytes of its last owner (`inode.c:527`) | README A4: no reading of another file's data |
| `FreeMap!GivenOnce` | two callers find the same bit clear before either flips it (`bitmap.c:318`) | "Finds the first group of CNT consecutive bits ... flips them" |
| `FreeMap!FailsOnlyIfFull` | a sector released behind the scan is not seen | free-map.c:25: false "if not enough consecutive sectors were available" |
| `AllList!ListIntact`, `NobodyAstray` | `thread_create()` inserts with interrupts on: two insertions, or one and the exit of the last thread, leave wrong links, and a walk follows a freed page | thread.c:347: "Invoke function 'func' on all threads" |
| `Serial!WaitAsserts` | a second reader that waited for the queue's lock finds the queue no longer empty, and `wait()` panics (`intq.c:91`) | the assertion |
| `Descriptors!NoWriteWhileDenied` | a write that has passed the test of `deny_write_cnt` goes on after a program was loaded from the file | file.c:116: "Prevents write operations" |
| `Descriptors!AllowAsserts` | exec of a directory takes its struct for a struct file, whose `deny_write` byte nobody has set: if it happens to be nonzero the exit allows writes that were never denied | `ASSERT (inode->deny_write_cnt > 0)` in inode_allow_write() |
| `Library!RemainderRight` | `umod64()` and `smod64()` return one word of the remainder (with words of 3 bits, 8 % 9 gives 0) | arithmetic.c:155: "returns the remainder" |

Also seen while reading, and modelled as the code has it: a file in the middle of
a path is passed over ("f/x" means "x"; filesys/README B2 says the path is
invalid), and appending to a file of MAX_FILE_SIZE whose last sector is partly
used makes it shorter (`inode.c:548`, `ShrinksOnlyIfStale` allows for it).

## What is not modelled

* **Data layout**: ELF segments and the argument stack; argument fetching
  and pointer checks in `syscall.c`, and its calls that only look (`tell()`, `filesize()`,
  `inumber()`, `isdir()`, `readdir()`) or go to the console; page directories, GDT, TSS,
  exception frames, interrupt stubs.
* **Devices**: reset, identification and time-outs of IDE, partitions (an offset),
  `serial_flush()` at power off, scan codes, VGA, RTC, PIT, speaker, shutdown.
* **Boot**: one thread, before there is any concurrency; the command-line helpers
  of `filesys/fsutil.c` run then too.
* **Library**: formatting, strings, hash tables (not used by the kernel), user stubs.
* **Priorities**: this kernel's scheduler is FIFO; `thread_set_priority()` stores a
  number nobody reads. The mlfqs functions return constants.
* **Read-ahead**: `spawn_thread_read_ahead()` is never called. It would leave
  `open_cnt` at 1 for ever (`cache.c:146`).
* **`src/pintos/src`**: the same kernel before the projects were done. What it has in
  common with project4 is modelled from there.
* **`src/HW1`**: `mm_alloc.c` does not compile, and no heap in it ever gets a second
  block, so it has no behaviour to state a property of; `thread.c` is the kernel's with
  its functions pasted in.
* **`src/HW2`**: a fragment; `struct dir_entries` is defined nowhere.
* Tests, examples, tools.

## Plan

Done: all modules; proofs of Sched, Synch and its refinement of Monitor, BufferCache,
ProcessWait, InodeTable, SectorLife, FreeMap, FileGrowth, Ide and its refinement of
BlockDevice, Descriptors, AllList, Serial, Malloc, Namespace and InodeIndex.

1. **Abstract specifications.** A file as one array of bytes that FileGrowth
   implements with one writer; a disk that BufferCache implements but for the
   overtaken sectors; a map from paths to inodes for Namespace.
2. **Composition.** BufferCache over Ide's lock, so that the cache's lock is held
   across a sleep for the channel.
