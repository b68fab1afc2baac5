------------------------------ MODULE InodeTable ------------------------------
(***************************************************************************)
(* The table of open inodes of filesys/inode.c: inode_open(),              *)
(* inode_reopen(), inode_close() and inode_remove(), called from           *)
(* directory.c and filesys.c by several threads.                           *)
(*                                                                         *)
(* open_inodes has no lock of its own.  A file is opened and removed by    *)
(* name under the lock of its directory (dir_lookup(), dir_remove()); the  *)
(* root and a parent directory are opened without any, and nothing is      *)
(* locked to close.  All of it runs with interrupts on, so a step is one   *)
(* statement that reads or writes what another thread may see: a link of   *)
(* the list, a field of a struct.  "open_cnt++" and "--open_cnt" are each  *)
(* one instruction.  A use of a freed struct is recorded in "fault" and    *)
(* the machine stops: what follows is undefined.                           *)
(***************************************************************************)
EXTENDS Integers, FiniteSets

CONSTANTS Thread, Sector,
          Root,       \* the sectors opened without a lock, never removed
          Inode,      \* bound: the structs malloc() hands out, each once
          HEAD, TAIL, \* of open_inodes
          Garbage,    \* what malloc() leaves where open_cnt will be
          MaxLength,  \* bound: times a file grows
          NULL

ASSUME InodeTableAssumption ==
  /\ IsFiniteSet(Thread)
  /\ Root \subseteq Sector
  /\ NULL \notin Thread \cup Inode \cup Sector
  /\ {HEAD, TAIL} \cap Inode = {}
  /\ Garbage \subseteq Int
  /\ MaxLength \in Nat

VARIABLES disk,        \* length in the on-disk inode of each sector
          inode,       \* struct inode
          memory,      \* "none", "live" or "freed", for each of them
          next, prev,  \* the links of open_inodes
          entry,       \* sectors a directory has an entry in use for
          locked,      \* holder of the lock of a sector's directory
          pc, intent, sector, holds,  \* what each thread is about
          at,          \* e in the walk, "before" in list_insert()
          last,        \* history: the length a file has grown to
          lost,        \* history: openers of a struct that its count left out
          overtaken,   \* history: sectors opened while their struct was half
                       \* made or about to be freed, or that got two structs
          fault

vars == <<disk, inode, memory, next, prev, entry, locked, pc, intent, sector, holds, at,
          last, lost, overtaken, fault>>
links == <<next, prev>>
threadVars == <<pc, intent, sector, holds, at>>
history == <<last, lost, overtaken>>

Element == Inode \cup {HEAD, TAIL}

\* A struct that is not on the heap, of which nothing is said.
Blank == [sector |-> NULL, open_cnt |-> 0, removed |-> FALSE, length |-> 0, read |-> FALSE]

Init ==
  /\ disk = [s \in Sector |-> 0]
  /\ inode = [i \in Inode |-> Blank]
  /\ memory = [i \in Inode |-> "none"]
  /\ next = [e \in Element |-> TAIL]
  /\ prev = [e \in Element |-> HEAD]
  /\ entry = Sector
  /\ locked = [s \in Sector |-> NULL]
  /\ pc = [t \in Thread |-> "idle"]
  /\ intent = [t \in Thread |-> "open"]
  /\ sector = [t \in Thread |-> NULL]
  /\ holds = [t \in Thread |-> NULL]
  /\ at = [t \in Thread |-> TAIL]
  /\ last = [s \in Sector |-> 0]
  /\ lost = [i \in Inode |-> 0]
  /\ overtaken = {}
  /\ fault = FALSE

Goto(t, label) == pc' = [pc EXCEPT ![t] = label]

\* The structs of sector s in memory.
Structs(s) == {i \in Inode : memory[i] = "live" /\ inode[i].sector = s}

\* An element that may be followed: the list's own, or in a struct not freed.
Intact(e) == e \in {HEAD, TAIL} \/ memory[e] = "live"

\* A struct whose open_cnt is not set yet, and those whom a struct's should count.
Fresh(i) ==
  \E t \in Thread : holds[t] = i /\ pc[t] \in {"insert", "insert back", "sector", "count"}
Openers(i) ==
  {t \in Thread : holds[t] = i /\ pc[t] \in {"removed", "read", "found", "opened", "close"}}

-----------------------------------------------------------------------------
(* Opening, by dir_lookup() or dir_remove() under the directory's lock, or by *)
(* dir_open_root() and dir_get_parent() without.                              *)

Open(t, s, why) ==
  /\ pc[t] = "idle"
  /\ s \in entry
  /\ IF s \in Root THEN why = "open" /\ UNCHANGED locked
     ELSE /\ locked[s] = NULL
          /\ locked' = [locked EXCEPT ![s] = t]
  /\ intent' = [intent EXCEPT ![t] = why]
  /\ sector' = [sector EXCEPT ![t] = s]
  /\ at' = [at EXCEPT ![t] = next[HEAD]]
  /\ Goto(t, "look")
  /\ UNCHANGED <<disk, inode, memory, links, entry, holds, history, fault>>

\* "Check whether this inode is already open", one element after another.
Look(t) ==
  /\ pc[t] = "look"
  /\ fault' = ~Intact(at[t])
  /\ \/ /\ at[t] # TAIL /\ inode[at[t]].sector = sector[t]
        /\ holds' = [holds EXCEPT ![t] = at[t]]
        /\ at' = [at EXCEPT ![t] = TAIL]
        /\ Goto(t, "reopen")
     \/ /\ at[t] # TAIL /\ inode[at[t]].sector # sector[t]
        /\ Goto(t, "list_next")
        /\ UNCHANGED <<holds, at>>
  /\ UNCHANGED <<disk, inode, memory, links, entry, locked, intent, sector, history>>

\* "e = list_next (e)"
LookOn(t) ==
  /\ pc[t] = "list_next"
  /\ fault' = ~Intact(at[t])
  /\ at' = [at EXCEPT ![t] = next[at[t]]]
  /\ Goto(t, "look")
  /\ UNCHANGED <<disk, inode, memory, links, entry, locked, intent, sector, holds, history>>

\* Mutant of inode_reopen: the new opener is not counted.
inode_reopen_uncounted(t) ==
  /\ pc[t] = "reopen"
  /\ fault' = (memory[holds[t]] # "live")
  /\ Goto(t, "found")
  /\ UNCHANGED <<disk, inode, memory, links, entry, locked, intent, sector, holds, at,
                 history>>

inode_reopen(t) ==
  /\ pc[t] = "reopen"
  /\ fault' = (memory[holds[t]] # "live")
  /\ inode' = [inode EXCEPT ![holds[t]].open_cnt = @ + 1]
  /\ overtaken' = IF Fresh(holds[t]) \/ inode[holds[t]].open_cnt = 0
                    THEN overtaken \cup {sector[t]} ELSE overtaken
  /\ Goto(t, "found")
  /\ UNCHANGED <<disk, memory, links, entry, locked, intent, sector, holds, at, last, lost>>

\* malloc(), which leaves what was there; list_push_front() up to the first
\* statement of list_insert() that others can see.
Alloc(t) ==
  /\ pc[t] = "look" /\ at[t] = TAIL
  /\ \E i \in Inode, open_cnt \in Garbage, removed \in BOOLEAN :
       /\ memory[i] = "none"
       /\ memory' = [memory EXCEPT ![i] = "live"]
       /\ inode' = [inode EXCEPT ![i].open_cnt = open_cnt, ![i].removed = removed]
       /\ holds' = [holds EXCEPT ![t] = i]
       /\ at' = [at EXCEPT ![t] = next[HEAD]]
       /\ fault' = ~Intact(next[HEAD])
       /\ prev' = [prev EXCEPT ![i] = prev[next[HEAD]]]
       /\ next' = [next EXCEPT ![i] = next[HEAD]]
  /\ Goto(t, "insert")
  /\ UNCHANGED <<disk, entry, locked, intent, sector, history>>

\* "before->prev->next = elem"
Insert(t) ==
  /\ pc[t] = "insert"
  /\ fault' = (~Intact(at[t]) \/ ~Intact(prev[at[t]]))
  /\ next' = [next EXCEPT ![prev[at[t]]] = holds[t]]
  /\ Goto(t, "insert back")
  /\ UNCHANGED <<disk, inode, memory, prev, entry, locked, intent, sector, holds, at, history>>

\* "before->prev = elem"
InsertBack(t) ==
  /\ pc[t] = "insert back"
  /\ fault' = ~Intact(at[t])
  /\ prev' = [prev EXCEPT ![at[t]] = holds[t]]
  /\ at' = [at EXCEPT ![t] = TAIL]
  /\ Goto(t, "sector")
  /\ UNCHANGED <<disk, inode, memory, next, entry, locked, intent, sector, holds, history>>

\* "inode->sector = sector": from here the struct can be found.
SetSector(t) ==
  /\ pc[t] = "sector"
  /\ inode' = [inode EXCEPT ![holds[t]].sector = sector[t]]
  /\ overtaken' = IF Structs(sector[t]) # {} THEN overtaken \cup {sector[t]} ELSE overtaken
  /\ Goto(t, "count")
  /\ UNCHANGED <<disk, memory, links, entry, locked, intent, sector, holds, at, last, lost, fault>>

\* "inode->open_cnt = 1", over the increments of those who found it before.
SetCount(t) ==
  /\ pc[t] = "count"
  /\ fault' = (memory[holds[t]] # "live")
  /\ inode' = [inode EXCEPT ![holds[t]].open_cnt = 1]
  /\ lost' = [lost EXCEPT ![holds[t]] = Cardinality(Openers(holds[t]))]
  /\ Goto(t, "removed")
  /\ UNCHANGED <<disk, memory, links, entry, locked, intent, sector, holds, at, last, overtaken>>

\* "inode->removed = false", and what is like it: deny_write_cnt, lock_init().
SetRemoved(t) ==
  /\ pc[t] = "removed"
  /\ fault' = (memory[holds[t]] # "live")
  /\ inode' = [inode EXCEPT ![holds[t]].removed = FALSE]
  /\ Goto(t, "read")
  /\ UNCHANGED <<disk, memory, links, entry, locked, intent, sector, holds, at, history>>

Read(t) ==
  /\ pc[t] = "read"
  /\ fault' = (memory[holds[t]] # "live")
  /\ inode' = [inode EXCEPT ![holds[t]].length = disk[sector[t]],
                            ![holds[t]].read = TRUE]
  /\ Goto(t, "found")
  /\ UNCHANGED <<disk, memory, links, entry, locked, intent, sector, holds, at, history>>

\* The end of dir_lookup(), or dir_remove() with inode_remove().
Found(t) ==
  /\ pc[t] = "found"
  /\ IF intent[t] = "remove"
       THEN /\ entry' = entry \ {sector[t]}
            /\ inode' = [inode EXCEPT ![holds[t]].removed = TRUE]
            /\ Goto(t, "close")
            /\ UNCHANGED locked
       ELSE /\ locked' = [locked EXCEPT ![sector[t]] = IF @ = t THEN NULL ELSE @]
            /\ Goto(t, "opened")
            /\ UNCHANGED <<entry, inode>>
  /\ fault' = (memory[holds[t]] # "live")
  /\ UNCHANGED <<disk, memory, links, intent, sector, holds, at, history>>

\* The opener extends the file: inode->length.  Of a struct that is not read in
\* yet, it extends what Read is about to overwrite.
Extend(t) ==
  /\ pc[t] = "opened"
  /\ memory[holds[t]] = "live"
  /\ last[sector[t]] < MaxLength
  /\ inode' = [inode EXCEPT ![holds[t]].length = @ + 1]
  /\ last' = [last EXCEPT ![sector[t]] = @ + 1]
  /\ overtaken' = IF inode[holds[t]].read THEN overtaken ELSE overtaken \cup {sector[t]}
  /\ UNCHANGED <<disk, memory, links, entry, locked, threadVars, lost, fault>>

-----------------------------------------------------------------------------
(* inode_close(). *)

\* What is left when inode_close() returns.
Closed(t) ==
  /\ Goto(t, "idle")
  /\ locked' = [locked EXCEPT ![sector[t]] = IF @ = t THEN NULL ELSE @]
  /\ sector' = [sector EXCEPT ![t] = NULL]
  /\ holds' = [holds EXCEPT ![t] = NULL]
  /\ intent' = [intent EXCEPT ![t] = "open"]

\* Mutant of Decrement: a removed inode is released by whoever removed it.
Decrement_removed(t) ==
  /\ pc[t] \in {"opened", "close"}
  /\ fault' = (memory[holds[t]] # "live")
  /\ inode' = [inode EXCEPT ![holds[t]].open_cnt = @ - 1]
  /\ IF inode'[holds[t]].open_cnt = 0 \/ inode[holds[t]].removed
       THEN Goto(t, "unlist") /\ UNCHANGED <<locked, intent, sector, holds>>
       ELSE Closed(t)
  /\ UNCHANGED <<disk, memory, links, entry, at, history>>

\* "if (--inode->open_cnt == 0)"
Decrement(t) ==
  /\ pc[t] \in {"opened", "close"}
  /\ fault' = (memory[holds[t]] # "live")
  /\ inode' = [inode EXCEPT ![holds[t]].open_cnt = @ - 1]
  /\ IF inode'[holds[t]].open_cnt = 0
       THEN Goto(t, "unlist") /\ UNCHANGED <<locked, intent, sector, holds>>
       ELSE Closed(t)
  /\ UNCHANGED <<disk, memory, links, entry, at, history>>

\* list_remove(), "elem->prev->next = elem->next", which another closer may have
\* done already.
Unlist(t) ==
  /\ pc[t] = "unlist"
  /\ fault' = (~Intact(holds[t]) \/ ~Intact(prev[holds[t]]))
  /\ next' = [next EXCEPT ![prev[holds[t]]] = next[holds[t]]]
  /\ Goto(t, "unlist back")
  /\ UNCHANGED <<disk, inode, memory, prev, entry, locked, intent, sector, holds, at, history>>

\* "elem->next->prev = elem->prev"
UnlistBack(t) ==
  /\ pc[t] = "unlist back"
  /\ fault' = (~Intact(holds[t]) \/ ~Intact(next[holds[t]]))
  /\ prev' = [prev EXCEPT ![next[holds[t]]] = prev[holds[t]]]
  /\ Goto(t, "store")
  /\ UNCHANGED <<disk, inode, memory, next, entry, locked, intent, sector, holds, at, history>>

\* Mutant of Store: the length is not written back.
Store_lost(t) ==
  /\ pc[t] = "store"
  /\ Goto(t, "free")
  /\ UNCHANGED <<disk, inode, memory, links, entry, locked, intent, sector, holds, at,
                 history, fault>>

\* Release the sectors of a removed inode, or write the inode to its sector.
Store(t) ==
  /\ pc[t] = "store"
  /\ fault' = (memory[holds[t]] # "live")
  /\ disk' = [s \in Sector |->
               IF s = inode[holds[t]].sector /\ ~inode[holds[t]].removed
                 THEN inode[holds[t]].length ELSE disk[s]]
  /\ Goto(t, IF inode[holds[t]].removed THEN "free removed" ELSE "free")
  /\ UNCHANGED <<inode, memory, links, entry, locked, intent, sector, holds, at, history>>

Free(t) ==
  /\ pc[t] \in {"free", "free removed"}
  /\ fault' = (memory[holds[t]] # "live")
  /\ memory' = [memory EXCEPT ![holds[t]] = "freed"]
  /\ inode' = [inode EXCEPT ![holds[t]] = Blank]
  /\ next' = [next EXCEPT ![holds[t]] = TAIL]
  /\ prev' = [prev EXCEPT ![holds[t]] = HEAD]
  /\ lost' = [lost EXCEPT ![holds[t]] = 0]
  /\ Closed(t)
  /\ UNCHANGED <<disk, entry, at, last, overtaken>>

-----------------------------------------------------------------------------
inode_open(t) ==
  \/ Look(t) \/ LookOn(t) \/ inode_reopen(t)
  \/ Alloc(t) \/ Insert(t) \/ InsertBack(t)
  \/ SetSector(t) \/ SetCount(t) \/ SetRemoved(t) \/ Read(t)
inode_close(t) == Decrement(t) \/ Unlist(t) \/ UnlistBack(t) \/ Store(t) \/ Free(t)

Next ==
  /\ ~fault
  /\ \E t \in Thread :
       \/ \E s \in Sector : Open(t, s, "open") \/ Open(t, s, "remove")
       \/ inode_open(t)
       \/ Found(t)
       \/ Extend(t)
       \/ inode_close(t)

Spec == Init /\ [][Next]_vars

-----------------------------------------------------------------------------
(* Properties. *)

Labels == {"idle", "look", "list_next", "reopen", "insert", "insert back", "sector",
           "count", "removed", "read", "found", "opened", "close", "unlist", "unlist back",
           "store", "free", "free removed"}

TypeOK ==
  /\ disk \in [Sector -> 0..MaxLength]
  /\ inode \in [Inode -> [sector : Sector \cup {NULL}, open_cnt : Int, removed : BOOLEAN,
                         length : 0..MaxLength, read : BOOLEAN]]
  /\ memory \in [Inode -> {"none", "live", "freed"}]
  /\ next \in [Element -> Inode \cup {TAIL}]
  /\ prev \in [Element -> Inode \cup {HEAD}]
  /\ entry \in SUBSET Sector
  /\ locked \in [Sector -> Thread \cup {NULL}]
  /\ pc \in [Thread -> Labels]
  /\ intent \in [Thread -> {"open", "remove"}]
  /\ sector \in [Thread -> Sector \cup {NULL}]
  /\ holds \in [Thread -> Inode \cup {NULL}]
  /\ at \in [Thread -> Inode \cup {TAIL}]
  /\ last \in [Sector -> 0..MaxLength]
  /\ lost \in [Inode -> Nat]
  /\ overtaken \in SUBSET Sector
  /\ fault \in BOOLEAN

\* A struct counts its openers, whoever opens and closes around it, but those who
\* got it before "inode->open_cnt = 1" and whom that statement forgot ("lost"); and
\* it counts all of them unless its sector is one of "overtaken".
OpenCount ==
  /\ TypeOK
  /\ fault \/ \A i \in Inode : memory[i] = "live" /\ ~Fresh(i) =>
       /\ inode[i].open_cnt = Cardinality(Openers(i)) - lost[i]
       /\ lost[i] = 0 \/ inode[i].sector \in overtaken

\* inode_close() "writes it to disk": once nobody has a file open its length is
\* on the disk, unless an open found its struct before that was counted or when it
\* was closed for good, found none while there was one, or a write came before the
\* struct was read in.
ClosedIsStored ==
  fault \/ \A s \in entry \ overtaken : Structs(s) = {} => disk[s] = last[s]

\* inode_remove(): "to be deleted when it is closed by the last caller who has
\* it open": the sectors go only when nobody is at the file any more, but for the
\* same exceptions.
ReleasedLast ==
  fault \/ \A t \in Thread : pc[t] = "free removed" /\ sector[t] \notin overtaken =>
    \A u \in Thread \ {t} : sector[u] # sector[t]

\* inode_open(), inode_reopen(): open_cnt counts who has the inode open.
EveryOpenerCounted ==
  fault \/ \A i \in Inode : memory[i] = "live" => lost[i] = 0

\* inode.c: "List of open inodes, so that opening a single inode twice returns
\* the same `struct inode'."
SameStruct ==
  fault \/ \A t, u \in Thread :
    pc[t] = "opened" /\ pc[u] = "opened" /\ sector[t] = sector[u] => holds[t] = holds[u]

\* inode_open(): "Reads an inode from SECTOR and returns a `struct inode' that
\* contains it."
OpenedIsRead ==
  fault \/ \A t \in Thread : pc[t] = "opened" => inode[holds[t]].read

\* inode_close(): "Closes INODE and writes it to disk", so that whoever opens it
\* next finds it there.
OpenedIsLatest ==
  fault \/ \A t \in Thread : pc[t] = "opened" /\ inode[holds[t]].read =>
    inode[holds[t]].length = last[sector[t]]

\* inode_close(): "If this was the last reference to INODE, frees its memory",
\* and not before: nobody gets a struct that is freed.
NoFault == ~fault
===============================================================================
