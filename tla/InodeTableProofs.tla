--------------------------- MODULE InodeTableProofs ---------------------------
(***************************************************************************)
(* What the table of open inodes does right though nothing locks it:       *)
(* OpenCount, ClosedIsStored and ReleasedLast.  The argument says nothing  *)
(* of the list: whatever a walk finds or misses, a sector that is not in   *)
(* "overtaken" has one struct, which counts its openers.                   *)
(***************************************************************************)
EXTENDS InodeTable, FiniteSetTheorems, TLAPS

Struct == [sector : Sector \cup {NULL}, open_cnt : Int, removed : BOOLEAN,
           length : 0..MaxLength, read : BOOLEAN]

\* How far a struct is made when its maker is at these places: it cannot be found
\* yet, its count is not set, its mark is not set, it is not read in.
Unfiled == {"insert", "insert back", "sector"}
Uncounted == Unfiled \cup {"count"}
Unmarked == Uncounted \cup {"removed"}
Filling == {"count", "removed", "read"}
Making == Unfiled \cup Filling

\* Where a thread looks a file up, counts as an opener, closes a struct for good,
\* and has one that says it is its file's.
Searching == {"look", "list_next", "reopen", "found"} \cup Making
Using == {"removed", "read", "found", "opened", "close"}
Closing == {"unlist", "unlist back", "store", "free", "free removed"}
Engaged == {"count"} \cup Using \cup Closing

-----------------------------------------------------------------------------
(* The inductive invariant. *)

\* What a thread knows of the struct it has.
Hold(t) ==
  /\ pc[t] = "idle" => holds[t] = NULL /\ sector[t] = NULL
  /\ pc[t] # "idle" => sector[t] \in Sector
  /\ pc[t] \in {"look", "list_next"} => holds[t] = NULL
  /\ pc[t] \in Engaged \cup Unfiled \cup {"reopen"} =>
       holds[t] \in Inode /\ memory[holds[t]] # "none"
  /\ pc[t] \in Engaged \cup {"reopen"} /\ memory[holds[t]] = "live" =>
       inode[holds[t]].sector = sector[t]
  /\ pc[t] \in Unfiled => memory[holds[t]] = "live" /\ inode[holds[t]].sector = NULL
  /\ pc[t] \in Making /\ memory[holds[t]] = "live" => ~inode[holds[t]].read

\* A struct is made by one thread.
OneMaker ==
  \A t, u \in Thread : pc[t] \in Making /\ pc[u] \in Making /\ holds[t] = holds[u] => t = u

\* A file stays in its directory while someone looks it up, whose lock it is.
Lookup(t) ==
  /\ pc[t] \in Searching =>
       sector[t] \in entry /\ (sector[t] \in Root \/ locked[sector[t]] = t)
  /\ pc[t] # "idle" /\ intent[t] = "remove" => sector[t] \notin Root

Raw(i) == \E t \in Thread : holds[t] = i /\ pc[t] \in Unmarked

\* A struct on the heap counts its openers once it counts at all, is no longer than
\* the file has been, and is removed only with its entry.
Sound(i) ==
  /\ memory[i] = "none" => inode[i] = Blank /\ lost[i] = 0
  /\ memory[i] = "live" =>
       /\ inode[i].length = 0 \/ (inode[i].sector \in Sector /\ inode[i].length =< last[inode[i].sector])
       /\ ~Fresh(i) => inode[i].open_cnt = Cardinality(Openers(i)) - lost[i]
       /\ Fresh(i) => lost[i] = 0
       /\ lost[i] = 0 \/ inode[i].sector \in Sector
       /\ inode[i].removed /\ ~Raw(i) => inode[i].sector \notin entry

\* A file that nobody overtook has one struct, which everyone at it has ...
One(s) == \A i, j \in Structs(s) : i = j

Alive(s) == \A t \in Thread : pc[t] \in Engaged /\ sector[t] = s => memory[holds[t]] = "live"

\* ... which nobody opened before it was counted ...
Exact(s) == \A i \in Structs(s) : lost[i] = 0 /\ (Fresh(i) => Openers(i) = {})

\* ... and which is closed for good by one thread alone ...
Alone(s) ==
  \A t, u \in Thread :
    pc[t] \in Closing /\ pc[u] \in Engaged /\ sector[t] = s /\ sector[u] = s => t = u

\* ... who releases the sectors only if it is removed ...
Marked(s) == \A t \in Thread : pc[t] = "free removed" /\ sector[t] = s => inode[holds[t]].removed

\* ... and its length is in the struct once that is read, on the disk before and
\* after.
Current(s) ==
  /\ \A i \in Structs(s) :
       /\ inode[i].read => inode[i].length = last[s]
       /\ ~inode[i].read => disk[s] = last[s] /\ \E t \in Thread : pc[t] \in Filling /\ holds[t] = i
  /\ Structs(s) = {} /\ s \in entry => disk[s] = last[s]
  /\ \A t \in Thread : pc[t] = "free" /\ sector[t] = s => disk[s] = last[s]

Settled(s) == One(s) /\ Alive(s) /\ Exact(s) /\ Alone(s) /\ Marked(s) /\ Current(s)

Sane ==
  /\ \A s \in Sector : disk[s] =< last[s]
  /\ \A t \in Thread : Hold(t) /\ Lookup(t)
  /\ OneMaker
  /\ \A i \in Inode : Sound(i)
  /\ Root \subseteq entry
  /\ \A s \in Sector \ overtaken : Settled(s)

TableIInv == TypeOK /\ (fault \/ Sane)

-----------------------------------------------------------------------------
(* What a step of one thread leaves alone. *)

Others(t) ==
  \A u \in Thread \ {t} : /\ pc'[u] = pc[u] /\ intent'[u] = intent[u]
                          /\ sector'[u] = sector[u] /\ holds'[u] = holds[u]

\* A struct the step does not change, and a step that changes none but one.
Untouched(j) == memory'[j] = memory[j] /\ inode'[j] = inode[j] /\ lost'[j] = lost[j]
OnlyAt(i) == \A j \in Inode \ {i} : Untouched(j)

\* What the step may do to that one, for those who have it too.
Kept(t, i) ==
  memory[i] # "none" =>
    /\ memory'[i] # "none"
    /\ memory'[i] = "live" => memory[i] = "live"
    /\ memory[i] = "live" /\ inode[i].sector = NULL => memory'[i] = "live"
    /\ memory'[i] = "live" =>
         /\ inode'[i].sector = inode[i].sector \/ (pc[t] = "sector" /\ holds[t] = i)
         /\ inode'[i].read = inode[i].read \/ (pc[t] = "read" /\ holds[t] = i)

\* The lengths of files and on the disk only grow together.
Lengths ==
  /\ \A s \in Sector : last'[s] >= last[s] /\ last'[s] \in Nat
  /\ \A s \in Sector : disk'[s] =< last'[s]

\* Locks are taken off by their holder, entries taken out under the lock.
Locking(t) ==
  /\ \A s \in Sector : locked'[s] = locked[s] \/ locked[s] \in {t, NULL}
  /\ \A s \in entry : s \in entry' \/ (locked[s] = t /\ s \notin Root)
  /\ entry' \subseteq entry

\* Who makes the struct goes on making it, or begins with one that nobody has.
Maker(t) ==
  pc'[t] \in Making =>
    \/ pc[t] \in Making /\ holds'[t] = holds[t]
    \/ \A u \in Thread \ {t} : holds[u] # holds'[t]

\* The hypotheses of the lemmas below.
Before == TypeOK /\ Sane /\ ~fault /\ InodeTableAssumption

\* What the others know of their structs stays true.
LEMMA HoldStep ==
  ASSUME Before, NEW t \in Thread, NEW i \in Inode, Others(t), OnlyAt(i), Kept(t, i)
  PROVE  \A u \in Thread \ {t} : Hold(u)'
<1>1. ASSUME NEW u \in Thread \ {t} PROVE Hold(u)'
  <2>1. Hold(u) /\ Hold(t)
    BY DEF Before, Sane
  <2>2. pc'[u] = pc[u] /\ sector'[u] = sector[u] /\ holds'[u] = holds[u]
    BY DEF Others
  <2>3. /\ pc[u] = "idle" => holds[u] = NULL /\ sector[u] = NULL
        /\ pc[u] # "idle" => sector[u] \in Sector
        /\ pc[u] \in {"look", "list_next"} => holds[u] = NULL
    BY <2>1 DEF Hold
  <2>4. CASE holds[u] # i \/ pc[u] \notin Engaged \cup Unfiled \cup {"reopen"}
    <3>1. pc[u] \in Engaged \cup Unfiled \cup {"reopen"} => Untouched(holds[u])
      BY <2>1, <2>4 DEF Hold, OnlyAt
    <3>2. pc[u] \in Making => pc[u] \in Engaged \cup Unfiled
      BY DEF Making, Filling, Engaged, Using
    <3> QED
      BY <2>1, <2>2, <3>1, <3>2 DEF Hold, Untouched
  <2>5. CASE holds[u] = i /\ pc[u] \in Engaged \cup Unfiled \cup {"reopen"}
    <3>1. memory[i] # "none"
      BY <2>1, <2>5 DEF Hold
    <3>2. /\ memory'[i] # "none"
          /\ memory'[i] = "live" => memory[i] = "live"
          /\ memory[i] = "live" /\ inode[i].sector = NULL => memory'[i] = "live"
          /\ memory'[i] = "live" =>
               /\ inode'[i].sector = inode[i].sector \/ (pc[t] = "sector" /\ holds[t] = i)
               /\ inode'[i].read = inode[i].read \/ (pc[t] = "read" /\ holds[t] = i)
      BY <3>1 DEF Kept
    <3>3. ASSUME pc[t] = "sector", holds[t] = i PROVE FALSE
      <4>1. memory[i] = "live" /\ inode[i].sector = NULL /\ pc[t] \in Making
        BY <2>1, <3>3 DEF Hold, Unfiled, Making
      <4>2. pc[u] \notin Unfiled
        BY <2>5, <3>3, <4>1 DEF Before, Sane, OneMaker, Making
      <4>3. sector[u] = NULL /\ sector[u] \in Sector
        BY <2>1, <2>5, <4>1, <4>2 DEF Hold, Engaged, Using, Closing
      <4> QED
        BY <4>3 DEF Before, InodeTableAssumption
    <3>4. pc[t] = "read" /\ holds[t] = i => pc[u] \notin Making
      BY <2>5 DEF Before, Sane, OneMaker, Making, Filling
    <3>5. pc[u] \in Engaged \cup {"reopen"} /\ memory'[i] = "live" => inode'[i].sector = sector[u]
      BY <2>1, <2>5, <3>2, <3>3 DEF Hold
    <3>6. pc[u] \in Unfiled => memory'[i] = "live" /\ inode'[i].sector = NULL
      BY <2>1, <2>5, <3>2, <3>3 DEF Hold
    <3>7. pc[u] \in Making /\ memory'[i] = "live" => ~inode'[i].read
      BY <2>1, <2>5, <3>2, <3>4 DEF Hold
    <3> QED
      BY <2>2, <2>3, <2>5, <3>2, <3>5, <3>6, <3>7 DEF Hold
  <2> QED
    BY <2>4, <2>5
<1> QED
  BY <1>1

\* Only a file's own finder takes it out of its directory, or the lock off.
LEMMA LookupStep ==
  ASSUME Before, NEW t \in Thread, Others(t), Locking(t)
  PROVE  \A u \in Thread \ {t} : Lookup(u)'
<1>1. ASSUME NEW u \in Thread \ {t} PROVE Lookup(u)'
  <2>1. Lookup(u)
    BY DEF Before, Sane
  <2>2. pc'[u] = pc[u] /\ sector'[u] = sector[u] /\ intent'[u] = intent[u]
    BY DEF Others
  <2>3. ASSUME pc[u] \in Searching
        PROVE  sector[u] \in entry' /\ (sector[u] \in Root \/ locked'[sector[u]] = u)
    <3>1. sector[u] \in entry /\ (sector[u] \in Root \/ locked[sector[u]] = u)
      BY <2>1, <2>3 DEF Lookup
    <3>2. entry \subseteq Sector /\ u # NULL /\ u # t
      BY DEF Before, TypeOK, InodeTableAssumption
    <3> QED
      BY <3>1, <3>2 DEF Locking
  <2> QED
    BY <2>1, <2>2, <2>3 DEF Lookup
<1> QED
  BY <1>1

\* Two threads never make one struct.
LEMMA OneMakerStep ==
  ASSUME Before, NEW t \in Thread, Others(t), Maker(t)
  PROVE  OneMaker'
<1>1. OneMaker
  BY DEF Before, Sane
<1>2. ASSUME NEW u \in Thread, NEW v \in Thread \ {t},
             pc'[u] \in Making, pc'[v] \in Making, holds'[u] = holds'[v]
      PROVE  u = v
  <2>1. pc[v] \in Making /\ holds[v] = holds'[u]
    BY <1>2 DEF Others
  <2>2. CASE u = t
    BY <1>1, <1>2, <2>1, <2>2 DEF Maker, OneMaker
  <2>3. CASE u # t
    BY <1>1, <1>2, <2>1, <2>3 DEF Others, OneMaker
  <2> QED
    BY <2>2, <2>3
<1> QED
  BY <1>2 DEF OneMaker

\* A struct the step does not change, nor the thread, which is not at it.
LEMMA SoundStep ==
  ASSUME Before, NEW t \in Thread, NEW j \in Inode, Others(t), Untouched(j),
         holds[t] # j, holds'[t] # j, Lengths, Locking(t)
  PROVE  Sound(j)'
<1>1. Sound(j)
  BY DEF Before, Sane
<1>2. \A u \in Thread : /\ (holds'[u] = j) <=> (holds[u] = j)
                        /\ holds[u] = j => pc'[u] = pc[u]
  BY DEF Others
<1>3. Openers(j)' = Openers(j) /\ (Fresh(j)' <=> Fresh(j)) /\ (Raw(j)' <=> Raw(j))
  BY <1>2 DEF Openers, Fresh, Raw
<1>4. ASSUME inode[j].sector \in Sector, inode[j].length =< last[inode[j].sector]
      PROVE  inode[j].length =< last'[inode[j].sector]
  <2>1. PICK s \in Sector, n \in Nat : inode[j].sector = s /\ inode[j].length = n
    BY <1>4 DEF Before, TypeOK, InodeTableAssumption
  <2>2. last[s] \in Nat /\ last'[s] \in Nat /\ last'[s] >= last[s] /\ n =< last[s]
    BY <1>4, <2>1 DEF Before, TypeOK, InodeTableAssumption, Lengths
  <2>3. n =< last'[s]
    BY <2>2
  <2> QED
    BY <2>1, <2>3
<1> QED
  BY <1>1, <1>3, <1>4 DEF Sound, Untouched, Locking

\* The thread comes to a struct, or leaves it, as an opener.
LEMMA OpenerComes ==
  ASSUME Before, NEW t \in Thread, Others(t), NEW i \in Inode,
         holds'[t] = i /\ pc'[t] \in Using, ~(holds[t] = i /\ pc[t] \in Using)
  PROVE  /\ Openers(i)' = Openers(i) \cup {t}
         /\ Cardinality(Openers(i)') = Cardinality(Openers(i)) + 1
         /\ Cardinality(Openers(i)) \in Nat
<1>1. Openers(i)' = Openers(i) \cup {t} /\ t \notin Openers(i)
  BY DEF Others, Openers, Using
<1>2. IsFiniteSet(Openers(i))
  BY FS_Subset DEF Openers, InodeTableAssumption, Before
<1>3. Cardinality(Openers(i)) \in Nat
  BY <1>2, FS_CardinalityType
<1>4. Cardinality(Openers(i) \cup {t}) = Cardinality(Openers(i)) + 1
  BY <1>1, <1>2, FS_AddElement
<1> QED
  BY <1>1, <1>3, <1>4

\* One opener fewer.
LEMMA OpenerLeaves ==
  ASSUME Before, NEW t \in Thread, Others(t), NEW i \in Inode,
         holds[t] = i /\ pc[t] \in Using, ~(holds'[t] = i /\ pc'[t] \in Using)
  PROVE  /\ Openers(i)' = Openers(i) \ {t}
         /\ Cardinality(Openers(i)') = Cardinality(Openers(i)) - 1
         /\ Cardinality(Openers(i)) \in Nat /\ Cardinality(Openers(i)') \in Nat
         /\ Cardinality(Openers(i)') = 0 => Openers(i)' = {}
<1>1. Openers(i)' = Openers(i) \ {t} /\ t \in Openers(i)
  BY DEF Others, Openers, Using
<1>2. IsFiniteSet(Openers(i))
  BY FS_Subset DEF Openers, InodeTableAssumption, Before
<1>3. Cardinality(Openers(i)) \in Nat
  BY <1>2, FS_CardinalityType
<1>4. IsFiniteSet(Openers(i) \ {t}) /\ Cardinality(Openers(i) \ {t}) = Cardinality(Openers(i)) - 1
  BY <1>1, <1>2, FS_RemoveElement
<1>5. Cardinality(Openers(i) \ {t}) = 0 => Openers(i) \ {t} = {}
  BY <1>4, FS_EmptySet
<1>6. Cardinality(Openers(i) \ {t}) \in Nat
  BY <1>4, FS_CardinalityType
<1> QED
  BY <1>1, <1>3, <1>4, <1>5, <1>6

-----------------------------------------------------------------------------
(* Files a step leaves settled. *)

\* Who has a struct that says it is of a sector is at that sector.
LEMMA HoldersOf ==
  ASSUME TypeOK, InodeTableAssumption, NEW t \in Thread, Hold(t), NEW s \in Sector,
         NEW i \in Structs(s), holds[t] = i
  PROVE  sector[t] = s /\ pc[t] \in Engaged \cup {"reopen"}
<1>1. i \in Inode /\ i # NULL /\ memory[i] = "live" /\ inode[i].sector = s /\ s # NULL
  BY DEF Structs, InodeTableAssumption
<1>2. pc[t] \in Engaged \cup {"reopen"}
  BY <1>1 DEF Hold, TypeOK, Labels, Engaged, Using, Closing, Unfiled
<1> QED
  BY <1>1, <1>2 DEF Hold, Engaged, Using, Closing

\* A step, of a thread and a struct that are elsewhere.
Away(t, i, s) ==
  /\ pc[t] \in Engaged \cup {"reopen"} => sector[t] # s
  /\ pc'[t] \in Engaged \cup {"reopen"} => sector'[t] # s
  /\ disk'[s] = disk[s] /\ last'[s] = last[s] /\ (s \in entry' => s \in entry)
  /\ i \notin Structs(s) /\ i \notin Structs(s)'

\* The file of another sector.
LEMMA OtherSector ==
  ASSUME Before, NEW t \in Thread, NEW i \in Inode, Others(t), OnlyAt(i), TypeOK', Hold(t)',
         NEW s \in Sector \ overtaken, Away(t, i, s)
  PROVE  Settled(s)'
<1>1. Settled(s) /\ \A u \in Thread : Hold(u)
  BY DEF Before, Sane
<1>2. /\ pc[t] \in Engaged \cup {"reopen"} => sector[t] # s
      /\ pc'[t] \in Engaged \cup {"reopen"} => sector'[t] # s
      /\ disk'[s] = disk[s] /\ last'[s] = last[s] /\ (s \in entry' => s \in entry)
      /\ i \notin Structs(s) /\ i \notin Structs(s)'
      /\ \A u \in Thread \ {t} : pc'[u] = pc[u] /\ sector'[u] = sector[u] /\ holds'[u] = holds[u]
  BY DEF Away, Others
<1>3. \A j \in Inode \ {i} : memory'[j] = memory[j] /\ inode'[j] = inode[j] /\ lost'[j] = lost[j]
  BY DEF OnlyAt, Untouched
<1>4. Structs(s)' = Structs(s) /\ \A j \in Structs(s) : j \in Inode \ {i}
  BY <1>2, <1>3 DEF Structs
<1>5. \A j \in Structs(s) : holds[t] # j /\ holds'[t] # j
  <2>1. \A j \in Structs(s) : holds[t] # j
    BY <1>1, <1>2, HoldersOf DEF Before
  <2>2. ASSUME NEW j \in Structs(s)', holds'[t] = j PROVE FALSE
    <3>1. j \in Inode /\ j # NULL /\ memory'[j] = "live" /\ inode'[j].sector = s /\ s # NULL
      BY <2>2 DEF Structs, Before, InodeTableAssumption
    <3>2. pc'[t] \in Engaged \cup {"reopen"}
      BY <2>2, <3>1 DEF Hold, TypeOK, Labels, Engaged, Using, Closing, Unfiled
    <3> QED
      BY <1>2, <2>2, <3>1, <3>2 DEF Hold, Engaged, Using, Closing
  <2> QED
    BY <1>4, <2>1, <2>2
<1>6. \A u \in Thread : pc'[u] \in Engaged /\ sector'[u] = s =>
        u # t /\ pc'[u] = pc[u] /\ sector[u] = s /\ holds'[u] = holds[u]
  BY <1>2
<1>7. \A j \in Structs(s), u \in Thread : /\ holds'[u] = j <=> holds[u] = j
                                          /\ holds[u] = j => pc'[u] = pc[u]
  BY <1>2, <1>5
<1>8. One(s)'
  BY <1>1, <1>4 DEF Settled, One
<1>9. \A u \in Thread : pc[u] \in Engaged /\ sector[u] = s => holds[u] \in Structs(s)
  BY <1>1 DEF Settled, Alive, Hold, Structs
<1>10. Alive(s)'
  BY <1>3, <1>4, <1>6, <1>9 DEF Alive, Structs
<1>11. Exact(s)'
  <2>1. ASSUME NEW j \in Structs(s) PROVE lost'[j] = 0 /\ (Fresh(j)' => Openers(j)' = {})
    <3>1. Openers(j)' = Openers(j) /\ (Fresh(j)' <=> Fresh(j))
      BY <1>7 DEF Openers, Fresh
    <3> QED
      BY <1>1, <1>3, <1>4, <3>1 DEF Settled, Exact
  <2> QED
    BY <1>4, <2>1 DEF Exact
<1>12. Alone(s)' /\ Marked(s)'
  <2>1. \A l \in Closing : l \in Engaged
    BY DEF Engaged
  <2>2. Alone(s)'
    BY <1>1, <1>6, <2>1 DEF Settled, Alone
  <2>3. "free removed" \in Engaged
    BY DEF Engaged, Closing
  <2>4. ASSUME NEW u \in Thread, pc'[u] = "free removed", sector'[u] = s
        PROVE  inode'[holds'[u]].removed
    <3>1. pc[u] = "free removed" /\ sector[u] = s /\ holds'[u] = holds[u]
      BY <1>6, <2>3, <2>4
    <3>2. inode[holds[u]].removed /\ holds[u] \in Inode \ {i}
      BY <1>1, <1>4, <1>9, <2>3, <3>1 DEF Settled, Marked
    <3> QED
      BY <1>3, <3>1, <3>2
  <2>5. Marked(s)'
    BY <2>4 DEF Marked
  <2> QED
    BY <2>2, <2>5
<1>13. Current(s)'
  <2>1. Current(s)
    BY <1>1 DEF Settled
  <2>2. ASSUME NEW j \in Structs(s), ~inode'[j].read
        PROVE  disk'[s] = last'[s] /\ \E u \in Thread : pc'[u] \in Filling /\ holds'[u] = j
    <3>1. disk[s] = last[s] /\ \E u \in Thread : pc[u] \in Filling /\ holds[u] = j
      BY <1>3, <1>4, <2>1, <2>2 DEF Current
    <3> QED
      BY <1>2, <1>7, <3>1
  <2>3. \A j \in Structs(s) : inode'[j].read => inode'[j].length = last'[s]
    BY <1>2, <1>3, <1>4, <2>1 DEF Current
  <2>4. \A u \in Thread : pc'[u] = "free" /\ sector'[u] = s => disk'[s] = last'[s]
    <3>1. "free" \in Engaged
      BY DEF Engaged, Closing
    <3> QED
      BY <1>2, <1>6, <2>1, <3>1 DEF Current
  <2> QED
    BY <1>2, <1>4, <2>1, <2>2, <2>3, <2>4 DEF Current
<1> QED
  BY <1>8, <1>10, <1>11, <1>12, <1>13 DEF Settled

\* A struct in memory, as far as its file goes.
SameFile(i) ==
  /\ memory'[i] = memory[i]
  /\ inode'[i].sector = inode[i].sector
  /\ inode'[i].length = inode[i].length
  /\ inode'[i].read = inode[i].read

\* A thread that only moves on with what it holds, or away.
MovesOn(t) ==
  /\ Others(t)
  /\ pc'[t] \in Engaged => pc[t] \in Engaged /\ holds'[t] = holds[t] /\ sector'[t] = sector[t]
  /\ pc'[t] \in Closing => pc[t] \in Closing
  /\ pc[t] \in Filling => pc'[t] \in Filling /\ holds'[t] = holds[t]
  /\ pc'[t] \notin {"free", "free removed"}

\* A step that changes no file leaves one settled, if it keeps to its openers and
\* does not unmark it.
LEMMA QuietSector ==
  ASSUME Before, NEW t \in Thread, NEW s \in Sector \ overtaken, MovesOn(t),
         \A i \in Inode : SameFile(i),
         disk'[s] = disk[s], last'[s] = last[s], s \in entry' => s \in entry,
         Exact(s)', Marked(s)'
  PROVE  Settled(s)'
<1>1. Settled(s) /\ \A u \in Thread : Hold(u)
  BY DEF Before, Sane
<1>2. Structs(s)' = Structs(s)
  BY DEF Structs, SameFile
<1>3. \A u \in Thread : pc'[u] \in Engaged =>
        pc[u] \in Engaged /\ sector'[u] = sector[u] /\ holds'[u] = holds[u]
  BY DEF Others, MovesOn
<1>4. \A u \in Thread : pc'[u] \in Closing => pc[u] \in Closing
  BY DEF Others, MovesOn
<1>5. One(s)'
  BY <1>1, <1>2 DEF Settled, One
<1>6. Alive(s)'
  <2>1. ASSUME NEW u \in Thread, pc'[u] \in Engaged, sector'[u] = s PROVE memory'[holds'[u]] = "live"
    <3>1. pc[u] \in Engaged /\ sector[u] = s /\ holds'[u] = holds[u]
      BY <1>3, <2>1
    <3>2. memory[holds[u]] = "live" /\ holds[u] \in Inode
      BY <1>1, <3>1 DEF Settled, Alive, Hold
    <3> QED
      BY <3>1, <3>2 DEF SameFile
  <2> QED
    BY <2>1 DEF Alive
<1>7. Alone(s)'
  <2>1. \A u \in Thread : pc'[u] \in Closing => pc'[u] \in Engaged
    BY DEF Engaged
  <2> QED
    BY <1>1, <1>3, <1>4, <2>1 DEF Settled, Alone
<1>8. Current(s)'
  <2>1. Current(s)
    BY <1>1 DEF Settled
  <2>2. ASSUME NEW i \in Structs(s)
        PROVE  /\ inode'[i].read => inode'[i].length = last'[s]
               /\ ~inode'[i].read =>
                    disk'[s] = last'[s] /\ \E u \in Thread : pc'[u] \in Filling /\ holds'[u] = i
    <3>1. SameFile(i)
      BY DEF Structs
    <3>2. ASSUME NEW u \in Thread, pc[u] \in Filling, holds[u] = i
          PROVE  pc'[u] \in Filling /\ holds'[u] = i
      BY <3>2 DEF Others, MovesOn
    <3> QED
      BY <2>1, <3>1, <3>2 DEF Current, SameFile
  <2>3. \A u \in Thread : pc'[u] = "free" /\ sector'[u] = s => disk'[s] = last'[s]
    <3>1. \A u \in Thread : pc'[u] = "free" => pc[u] = "free" /\ sector'[u] = sector[u]
      BY DEF Others, MovesOn
    <3> QED
      BY <2>1, <3>1 DEF Current
  <2> QED
    BY <1>2, <2>1, <2>2, <2>3 DEF Current
<1> QED
  BY <1>5, <1>6, <1>7, <1>8 DEF Settled

\* Nobody new at a struct that is not counted yet.
LEMMA ExactStep ==
  ASSUME Before, NEW t \in Thread, NEW s \in Sector \ overtaken, Others(t),
         Structs(s)' = Structs(s), \A i \in Structs(s) : lost'[i] = lost[i],
         pc'[t] \in Uncounted => pc[t] \in Uncounted /\ holds'[t] = holds[t],
         pc'[t] \in Using => pc[t] \in Using /\ holds'[t] = holds[t]
  PROVE  Exact(s)'
<1>1. Exact(s)
  BY DEF Before, Sane, Settled
<1>2. ASSUME NEW i \in Structs(s) PROVE lost'[i] = 0 /\ (Fresh(i)' => Openers(i)' = {})
  <2>1. Fresh(i)' => Fresh(i)
    BY DEF Others, Fresh, Uncounted, Unfiled
  <2>2. Openers(i)' \subseteq Openers(i)
    BY DEF Others, Openers, Using
  <2> QED
    BY <1>1, <2>1, <2>2 DEF Exact
<1> QED
  BY <1>2 DEF Exact

\* Nobody unmarks the struct that another releases for good.
LEMMA MarkedStep ==
  ASSUME Before, NEW t \in Thread, NEW s \in Sector \ overtaken, Others(t),
         pc'[t] # "free removed",
         \A i \in Inode : inode[i].removed => inode'[i].removed \/ (holds[t] = i /\ pc[t] \in Using)
  PROVE  Marked(s)'
<1>1. Settled(s) /\ \A u \in Thread : Hold(u)
  BY DEF Before, Sane
<1>2. ASSUME NEW u \in Thread, pc'[u] = "free removed", sector'[u] = s PROVE inode'[holds'[u]].removed
  <2>1. u # t /\ pc[u] = "free removed" /\ sector[u] = s /\ holds'[u] = holds[u]
    BY <1>2 DEF Others
  <2>2. holds[u] \in Inode /\ inode[holds[u]].removed /\ memory[holds[u]] = "live"
        /\ inode[holds[u]].sector = s
    BY <1>1, <2>1 DEF Settled, Marked, Alive, Hold, Engaged, Closing
  <2>3. ASSUME holds[t] = holds[u], pc[t] \in Using PROVE FALSE
    <3>1. sector[t] = s /\ pc[t] \in Engaged
      BY <1>1, <2>2, <2>3 DEF Hold, Engaged
    <3> QED
      BY <1>1, <2>1, <3>1 DEF Settled, Alone, Closing
  <2> QED
    BY <2>1, <2>2, <2>3
<1> QED
  BY <1>2 DEF Marked

-----------------------------------------------------------------------------
(* Steps that change no struct and no file. *)

\* A thread that has no struct yet, or stays at what it is doing with its struct.
Stays(t) ==
  \/ pc[t] \in {"idle", "look", "list_next", "reopen"} /\ pc'[t] \in {"look", "list_next", "reopen"}
  \/ /\ holds'[t] = holds[t] /\ sector'[t] = sector[t]
     /\ \/ pc[t] \in Unfiled /\ pc'[t] \in Unfiled
        \/ pc[t] \in {"found", "opened"} /\ pc'[t] \in {"found", "opened"}
        \/ pc[t] \in {"unlist", "unlist back", "store"} /\ pc'[t] \in {"unlist", "unlist back", "store"}

\* Such a step keeps what is said of the structs and the files.
LEMMA QuietStep ==
  ASSUME Before, NEW t \in Thread, Others(t), Stays(t), TypeOK', Hold(t)', Lookup(t)',
         UNCHANGED <<disk, inode, memory, entry, last, lost, overtaken>>,
         \A s \in Sector : locked'[s] = locked[s] \/ locked[s] \in {t, NULL}
  PROVE  TableIInv'
<1>1. /\ disk' = disk /\ inode' = inode /\ memory' = memory /\ entry' = entry
      /\ last' = last /\ lost' = lost /\ overtaken' = overtaken
  OBVIOUS
<1>2. \A u \in Thread : Hold(u)'
  <2>1. ASSUME NEW u \in Thread \ {t} PROVE Hold(u)'
    <3>1. Hold(u) /\ pc'[u] = pc[u] /\ sector'[u] = sector[u] /\ holds'[u] = holds[u]
      BY DEF Before, Sane, Others
    <3> QED
      BY <1>1, <3>1 DEF Hold
  <2> QED
    BY <2>1
<1>3. \A u \in Thread : Lookup(u)'
  BY <1>1, LookupStep DEF Locking
<1>4. OneMaker'
  <2>1. Maker(t)
    BY DEF Stays, Maker, Making, Filling, Unfiled
  <2> QED
    BY <2>1, OneMakerStep
<1>5. ASSUME NEW K \in {Uncounted, Unmarked, Using, Filling} PROVE
        \A i \in Inode, u \in Thread :
          (holds'[u] = i /\ pc'[u] \in K) <=> (holds[u] = i /\ pc[u] \in K)
  <2>1. pc[t] \in {"idle", "look", "list_next", "reopen"} => pc[t] \notin K /\ pc'[t] \notin K
    BY DEF Stays, Uncounted, Unmarked, Unfiled, Using, Filling
  <2>2. pc[t] \notin {"idle", "look", "list_next", "reopen"} =>
          holds'[t] = holds[t] /\ (pc'[t] \in K <=> pc[t] \in K)
    BY DEF Stays, Uncounted, Unmarked, Unfiled, Using, Filling
  <2> QED
    BY <2>1, <2>2 DEF Others
<1>6. ASSUME NEW i \in Inode PROVE Sound(i)'
  <2>1. Openers(i)' = Openers(i)
    BY <1>5 DEF Openers, Using
  <2>2. (Fresh(i)' <=> Fresh(i))
    <3>1. \A u \in Thread :
            (holds'[u] = i /\ pc'[u] \in Uncounted) <=> (holds[u] = i /\ pc[u] \in Uncounted)
      BY <1>5
    <3>2. Uncounted = {"insert", "insert back", "sector", "count"}
      BY DEF Uncounted, Unfiled
    <3> QED
      BY <3>1, <3>2 DEF Fresh
  <2>3. (Raw(i)' <=> Raw(i))
    BY <1>5 DEF Raw
  <2>4. Sound(i)
    BY DEF Before, Sane
  <2> QED
    BY <1>1, <2>1, <2>2, <2>3, <2>4 DEF Sound
<1>7. ASSUME NEW s \in Sector \ overtaken' PROVE Settled(s)'
  <2>1. s \in Sector \ overtaken /\ Structs(s)' = Structs(s)
    BY <1>1 DEF Structs
  <2>2. pc'[t] \in Uncounted => pc[t] \in Uncounted /\ holds'[t] = holds[t]
    BY DEF Stays, Uncounted, Unfiled
  <2>3. pc'[t] \in Using => pc[t] \in Using /\ holds'[t] = holds[t]
    BY DEF Stays, Using, Unfiled
  <2>4. Exact(s)'
    BY <1>1, <2>1, <2>2, <2>3, ExactStep
  <2>5. pc'[t] # "free removed"
    BY DEF Stays, Unfiled
  <2>6. Marked(s)'
    BY <1>1, <2>1, <2>5, MarkedStep
  <2>7. MovesOn(t)
    BY DEF Stays, MovesOn, Unfiled, Filling, Engaged, Using, Closing
  <2> QED
    BY <1>1, <2>1, <2>4, <2>6, <2>7, QuietSector DEF SameFile
<1>8. (\A s \in Sector : disk'[s] =< last'[s]) /\ Root \subseteq entry'
  BY <1>1 DEF Before, Sane
<1> QED
  BY <1>2, <1>3, <1>4, <1>6, <1>7, <1>8 DEF TableIInv, Sane

\* A thread starts on a file it finds in a directory it locks, or at the root.
LEMMA OpenStep ==
  ASSUME Before, NEW t \in Thread, NEW s \in Sector, NEW why \in {"open", "remove"}, Open(t, s, why)
  PROVE  TableIInv'
<1>1. TypeOK /\ Hold(t) /\ holds[t] = NULL /\ HEAD \in Element
  BY DEF Before, Sane, Hold, Open, Element
<1>2. /\ UNCHANGED <<disk, inode, memory, entry, last, lost, overtaken>>
      /\ UNCHANGED <<next, prev, holds, fault>>
  BY DEF Open, history, links
<1>3. Others(t) /\ pc'[t] = "look" /\ sector'[t] = s /\ holds'[t] = NULL /\ intent'[t] = why
  BY <1>1, <1>2 DEF Open, Goto, Others, TypeOK
<1>4. TypeOK'
  <2>1. locked' \in [Sector -> Thread \cup {NULL}]
    BY <1>1 DEF TypeOK, Open
  <2>2. /\ pc' \in [Thread -> Labels] /\ intent' \in [Thread -> {"open", "remove"}]
        /\ sector' \in [Thread -> Sector \cup {NULL}] /\ at' \in [Thread -> Inode \cup {TAIL}]
    BY <1>1 DEF TypeOK, Open, Goto, Labels
  <2> QED
    BY <1>1, <1>2, <2>1, <2>2 DEF TypeOK
<1>5. Hold(t)'
  BY <1>3 DEF Hold, Engaged, Using, Closing, Unfiled, Making, Filling
<1>6. Lookup(t)'
  BY <1>1, <1>3 DEF Lookup, Open, TypeOK
<1>7. \A r \in Sector : locked'[r] = locked[r] \/ locked[r] \in {t, NULL}
  BY <1>1 DEF Open, TypeOK
<1>8. Stays(t)
  BY <1>3 DEF Stays, Open
<1> QED
  BY <1>2, <1>3, <1>4, <1>5, <1>6, <1>7, <1>8, QuietStep

\* inode_open() searches the list: a struct that says it is the sector's is live.
LEMMA LookStep ==
  ASSUME Before, NEW t \in Thread, Look(t) \/ LookOn(t)
  PROVE  TableIInv'
<1>1. TypeOK /\ Hold(t) /\ Lookup(t)
  BY DEF Before, Sane
<1>2. pc[t] \in {"look", "list_next"} /\ sector[t] \in Sector /\ holds[t] = NULL
  BY <1>1 DEF Look, LookOn, Hold
<1>3. /\ UNCHANGED <<disk, inode, memory, entry, last, lost, overtaken>>
      /\ UNCHANGED <<next, prev, locked, intent, sector>>
      /\ fault' = ~Intact(at[t])
  BY DEF Look, LookOn, history, links
<1>4. at[t] \in Inode \cup {TAIL}
  BY <1>1 DEF TypeOK
<1>5. \/ holds' = holds /\ pc' = [pc EXCEPT ![t] = "list_next"] /\ at' = at
      \/ /\ holds' = holds /\ pc' = [pc EXCEPT ![t] = "look"]
         /\ at' = [at EXCEPT ![t] = next[at[t]]]
      \/ /\ at[t] \in Inode /\ inode[at[t]].sector = sector[t]
         /\ holds' = [holds EXCEPT ![t] = at[t]] /\ at' = [at EXCEPT ![t] = TAIL]
         /\ pc' = [pc EXCEPT ![t] = "reopen"]
  BY <1>4 DEF Look, LookOn, Goto
<1>6. /\ Others(t)
      /\ \/ holds'[t] = NULL /\ pc'[t] \in {"look", "list_next"}
         \/ /\ pc'[t] = "reopen" /\ holds'[t] \in Inode
            /\ inode[holds'[t]].sector = sector[t] /\ holds'[t] = at[t]
  BY <1>1, <1>2, <1>3, <1>5 DEF Others, TypeOK
<1>7. TypeOK'
  <2>1. next[at[t]] \in Inode \cup {TAIL}
    BY <1>1, <1>4 DEF Element, TypeOK
  <2>2. at' \in [Thread -> Inode \cup {TAIL}]
    BY <1>1, <1>5, <2>1 DEF TypeOK
  <2>3. holds' \in [Thread -> Inode \cup {NULL}]
    BY <1>1, <1>5 DEF TypeOK
  <2>4. pc' \in [Thread -> Labels]
    <3>1. {"list_next", "look", "reopen"} \subseteq Labels
      BY DEF Labels
    <3>2. pc \in [Thread -> Labels]
      BY <1>1 DEF TypeOK
    <3> QED
      BY <1>5, <3>1, <3>2
  <2>5. fault' \in BOOLEAN
    BY <1>3 DEF Intact
  <2> QED
    BY <1>1, <1>3, <2>2, <2>3, <2>4, <2>5 DEF TypeOK
<1>8. CASE fault'
  BY <1>7, <1>8 DEF TableIInv
<1>9. CASE ~fault'
  <2>1. Hold(t)'
    <3>1. holds'[t] \in Inode /\ holds'[t] = at[t] => memory[holds'[t]] = "live"
      BY <1>3, <1>9 DEF Intact, Before, InodeTableAssumption
    <3> QED
      BY <1>2, <1>3, <1>6, <3>1 DEF Hold, Engaged, Using, Closing, Unfiled, Making, Filling
  <2>2. Lookup(t)'
    BY <1>1, <1>2, <1>3, <1>6 DEF Lookup, Searching
  <2>3. Stays(t)
    BY <1>2, <1>6 DEF Stays
  <2> QED
    BY <1>3, <1>6, <1>7, <2>1, <2>2, <2>3, QuietStep
<1> QED
  BY <1>8, <1>9

\* The stores of list_insert() and list_remove(): whatever becomes of the list.
LEMMA ListStep ==
  ASSUME Before, NEW t \in Thread, Insert(t) \/ InsertBack(t) \/ Unlist(t) \/ UnlistBack(t)
  PROVE  TableIInv'
<1>1. TypeOK /\ Hold(t) /\ Lookup(t)
  BY DEF Before, Sane
<1>2. /\ UNCHANGED <<disk, inode, memory, entry, last, lost, overtaken>>
      /\ UNCHANGED <<locked, intent, sector, holds>>
      /\ at' = at \/ at' = [at EXCEPT ![t] = TAIL]
      /\ \/ pc[t] = "insert" /\ pc' = [pc EXCEPT ![t] = "insert back"]
         \/ pc[t] = "insert back" /\ pc' = [pc EXCEPT ![t] = "sector"]
         \/ pc[t] = "unlist" /\ pc' = [pc EXCEPT ![t] = "unlist back"]
         \/ pc[t] = "unlist back" /\ pc' = [pc EXCEPT ![t] = "store"]
  BY DEF Insert, InsertBack, Unlist, UnlistBack, history, Goto
<1>3. /\ Others(t)
      /\ \/ pc[t] \in Unfiled /\ pc'[t] \in Unfiled
         \/ pc[t] \in {"unlist", "unlist back"} /\ pc'[t] \in {"unlist back", "store"}
  BY <1>1, <1>2 DEF Others, TypeOK, Unfiled
<1>4. holds[t] \in Inode
  BY <1>1, <1>3 DEF Hold, Engaged, Closing
<1>5. TypeOK'
  <2>1. pc' \in [Thread -> Labels] /\ at' \in [Thread -> Inode \cup {TAIL}] /\ fault' \in BOOLEAN
    BY <1>1, <1>2 DEF TypeOK, Labels, Insert, InsertBack, Unlist, UnlistBack
  <2>2. /\ next' \in [Element -> Inode \cup {TAIL}]
        /\ prev' \in [Element -> Inode \cup {HEAD}]
    <3>1. holds[t] \in Element /\ next[holds[t]] \in Inode \cup {TAIL}
          /\ prev[holds[t]] \in Inode \cup {HEAD}
      BY <1>1, <1>4 DEF TypeOK, Element
    <3> QED
      BY <1>1, <1>4, <3>1 DEF TypeOK, Insert, InsertBack, Unlist, UnlistBack
  <2> QED
    BY <1>1, <1>2, <2>1, <2>2 DEF TypeOK
<1>6. Hold(t)'
  BY <1>1, <1>2, <1>3 DEF Hold, Engaged, Using, Closing, Unfiled, Making, Filling
<1>7. Lookup(t)'
  BY <1>1, <1>2, <1>3 DEF Lookup, Searching, Making, Unfiled, Filling
<1>8. Stays(t)
  BY <1>2, <1>3 DEF Stays
<1> QED
  BY <1>2, <1>3, <1>5, <1>6, <1>7, <1>8, QuietStep

\* dir_lookup() lets the lock go with the file open.
LEMMA FoundOpenStep ==
  ASSUME Before, NEW t \in Thread, Found(t), intent[t] # "remove"
  PROVE  TableIInv'
<1>1. TypeOK /\ Hold(t) /\ Lookup(t)
  BY DEF Before, Sane
<1>2. /\ UNCHANGED <<disk, inode, memory, entry, last, lost, overtaken>>
      /\ UNCHANGED <<next, prev, intent, sector, holds, at>>
      /\ pc[t] = "found" /\ pc' = [pc EXCEPT ![t] = "opened"] /\ fault' \in BOOLEAN
      /\ locked' = [locked EXCEPT ![sector[t]] = IF @ = t THEN NULL ELSE @]
  BY DEF Found, history, Goto, links
<1>3. Others(t) /\ pc'[t] = "opened"
  BY <1>1, <1>2 DEF Others, TypeOK
<1>4. TypeOK'
  <2>1. pc' \in [Thread -> Labels]
    BY <1>1, <1>2 DEF TypeOK, Labels
  <2>2. locked' \in [Sector -> Thread \cup {NULL}]
    BY <1>1, <1>2 DEF TypeOK
  <2> QED
    BY <1>1, <1>2, <2>1, <2>2 DEF TypeOK, Before
<1>5. Hold(t)'
  BY <1>1, <1>2, <1>3 DEF Hold, Engaged, Using, Closing, Unfiled, Making, Filling
<1>6. Lookup(t)'
  BY <1>1, <1>2, <1>3 DEF Lookup, Searching, Making, Unfiled, Filling
<1>7. \A s \in Sector : locked'[s] = locked[s] \/ locked[s] \in {t, NULL}
  BY <1>1, <1>2 DEF TypeOK
<1>8. Stays(t)
  BY <1>2, <1>3 DEF Stays
<1> QED
  BY <1>2, <1>3, <1>4, <1>5, <1>6, <1>7, <1>8, QuietStep

-----------------------------------------------------------------------------
(* Steps at one struct and one file. *)

At(t, i, f) ==
  /\ Others(t) /\ OnlyAt(i)
  /\ holds[t] \in {i, NULL} /\ holds'[t] \in {i, NULL}
  /\ sector[t] = f /\ sector'[t] \in {f, NULL}
  /\ inode[i].sector \in {f, NULL} /\ inode'[i].sector \in {f, NULL}
  /\ \A s \in Sector \ {f} : disk'[s] = disk[s] /\ last'[s] = last[s]
  /\ disk'[f] =< last'[f] /\ last'[f] >= last[f]
  /\ entry' = entry \/ (entry' = entry \ {f} /\ locked[f] = t /\ f \notin Root)
  /\ \A s \in Sector : locked'[s] = locked[s] \/ locked[s] \in {t, NULL}
  /\ overtaken \subseteq overtaken'

\* What such a step has to keep.
LEMMA StepAt ==
  ASSUME Before, NEW t \in Thread, NEW i \in Inode, NEW f \in Sector, At(t, i, f), Kept(t, i),
         Maker(t), TypeOK', Hold(t)', Lookup(t)', Sound(i)', f \in overtaken' \/ Settled(f)'
  PROVE  TableIInv'
<1>1. /\ Others(t) /\ OnlyAt(i)
      /\ holds[t] \in {i, NULL} /\ holds'[t] \in {i, NULL}
      /\ sector[t] = f /\ sector'[t] \in {f, NULL}
      /\ inode[i].sector \in {f, NULL} /\ inode'[i].sector \in {f, NULL}
      /\ \A s \in Sector \ {f} : disk'[s] = disk[s] /\ last'[s] = last[s]
      /\ disk'[f] =< last'[f] /\ last'[f] >= last[f]
      /\ entry' = entry \/ (entry' = entry \ {f} /\ locked[f] = t /\ f \notin Root)
      /\ overtaken \subseteq overtaken'
  BY DEF At
<1>2. NULL \notin Inode /\ NULL \notin Sector
  BY DEF Before, InodeTableAssumption
<1>3. Lengths
  <2>1. ASSUME NEW s \in Sector \ {f}
        PROVE  last'[s] >= last[s] /\ last'[s] \in Nat /\ disk'[s] =< last'[s]
    <3>1. last[s] \in Nat /\ disk[s] =< last[s]
      BY DEF Before, Sane, TypeOK
    <3> QED
      BY <1>1, <3>1
  <2>2. last'[f] \in Nat
    BY DEF TypeOK
  <2> QED
    BY <1>1, <2>1, <2>2 DEF Lengths
<1>4. Locking(t)
  BY <1>1 DEF At, Locking
<1>5. \A u \in Thread : Hold(u)'
  BY <1>1, HoldStep
<1>6. \A u \in Thread : Lookup(u)'
  BY <1>1, <1>4, LookupStep
<1>7. OneMaker'
  BY <1>1, OneMakerStep
<1>8. ASSUME NEW j \in Inode PROVE Sound(j)'
  <2>1. CASE j = i
    BY <2>1
  <2>2. CASE j # i
    <3>1. Untouched(j) /\ holds[t] # j /\ holds'[t] # j
      BY <1>1, <1>2, <2>2 DEF OnlyAt
    <3> QED
      BY <1>1, <1>3, <1>4, <3>1, SoundStep
  <2> QED
    BY <2>1, <2>2
<1>9. ASSUME NEW s \in Sector \ overtaken' PROVE Settled(s)'
  <2>1. CASE s = f
    BY <2>1
  <2>2. CASE s # f
    <3>1. Away(t, i, s)
      BY <1>1, <1>2, <2>2 DEF Away, Structs
    <3> QED
      BY <1>1, <3>1, OtherSector
  <2> QED
    BY <2>1, <2>2
<1>10. Root \subseteq entry' /\ \A s \in Sector : disk'[s] =< last'[s]
  BY <1>1, <1>3 DEF Before, Sane, Lengths
<1> QED
  BY <1>5, <1>6, <1>7, <1>8, <1>9, <1>10 DEF TableIInv, Sane

\* Who works on a struct works on its file's.
Here(t, i, f) ==
  /\ i \in Inode /\ f \in Sector
  /\ holds[t] = i /\ sector[t] = f /\ memory[i] # "none"
  /\ memory[i] = "live" => inode[i].sector \in {f, NULL}
  /\ memory[i] = "live" /\ pc[t] \notin Unfiled => inode[i].sector = f

\* There is such a struct.
LEMMA SomeHere ==
  ASSUME Before, NEW t \in Thread, pc[t] \in Engaged \cup Unfiled \cup {"reopen"}
  PROVE  \E i \in Inode, f \in Sector : Here(t, i, f)
<1>1. Hold(t) /\ pc[t] # "idle"
  BY DEF Before, Sane, Engaged, Using, Closing, Unfiled
<1>2. holds[t] \in Inode /\ sector[t] \in Sector /\ Here(t, holds[t], sector[t])
  BY <1>1 DEF Hold, Here
<1> QED
  BY <1>2

\* malloc() and the first links: nobody has the struct yet.
LEMMA AllocStep ==
  ASSUME Before, NEW t \in Thread, Alloc(t)
  PROVE  TableIInv'
<1>1. TypeOK /\ Hold(t) /\ Lookup(t) /\ (\A u \in Thread : Hold(u)) /\ (\A j \in Inode : Sound(j))
  BY DEF Before, Sane
<1>2. PICK i \in Inode, n \in Garbage, r \in BOOLEAN :
        /\ memory[i] = "none"
        /\ memory' = [memory EXCEPT ![i] = "live"]
        /\ inode' = [inode EXCEPT ![i].open_cnt = n, ![i].removed = r]
        /\ holds' = [holds EXCEPT ![t] = i]
        /\ at' = [at EXCEPT ![t] = next[HEAD]]
        /\ fault' = ~Intact(next[HEAD])
        /\ prev' = [prev EXCEPT ![i] = prev[next[HEAD]]]
        /\ next' = [next EXCEPT ![i] = next[HEAD]]
  BY DEF Alloc
<1>3. /\ pc[t] = "look" /\ pc' = [pc EXCEPT ![t] = "insert"]
      /\ UNCHANGED <<disk, entry, locked, intent, sector, last, lost, overtaken>>
  BY DEF Alloc, Goto, history
<1>4. PICK f \in Sector : sector[t] = f
  BY <1>1, <1>3 DEF Hold
<1>5. i # NULL /\ NULL \notin Sector /\ holds[t] = NULL /\ n \in Int
      /\ inode[i] = Blank /\ lost[i] = 0
  BY <1>1, <1>2, <1>3 DEF Hold, Sound, Before, InodeTableAssumption
<1>6. TypeOK'
  <2>1. HEAD \in Element /\ next[HEAD] \in Inode \cup {TAIL} /\ next[HEAD] \in Element
    BY <1>1 DEF TypeOK, Element
  <2>2. prev[next[HEAD]] \in Inode \cup {HEAD}
    BY <1>1, <2>1 DEF TypeOK
  <2>3. inode' \in [Inode -> Struct]
    <3>1. inode \in [Inode -> Struct] /\ n \in Int
      BY <1>1, <1>5 DEF TypeOK, Struct
    <3>2. \A v \in Struct : [v EXCEPT !.open_cnt = n] \in Struct
      BY <3>1 DEF Struct
    <3>3. \A v \in Struct : [v EXCEPT !.removed = r] \in Struct
      BY DEF Struct
    <3>4. [[inode[i] EXCEPT !.open_cnt = n] EXCEPT !.removed = r] \in Struct
      BY <3>1, <3>2, <3>3
    <3>5. inode' = [inode EXCEPT ![i] = [[inode[i] EXCEPT !.open_cnt = n] EXCEPT !.removed = r]]
      BY <1>2, <3>1
    <3> QED
      BY <3>1, <3>4, <3>5
  <2>4. memory' \in [Inode -> {"none", "live", "freed"}] /\ holds' \in [Thread -> Inode \cup {NULL}]
        /\ at' \in [Thread -> Inode \cup {TAIL}]
    BY <1>1, <1>2, <2>1 DEF TypeOK
  <2>5. pc' \in [Thread -> Labels]
    BY <1>1, <1>3 DEF TypeOK, Labels
  <2>6. next' \in [Element -> Inode \cup {TAIL}] /\ prev' \in [Element -> Inode \cup {HEAD}]
    BY <1>1, <1>2, <2>1, <2>2 DEF TypeOK
  <2>7. fault' \in BOOLEAN
    BY <1>2 DEF Intact
  <2> QED
    BY <1>1, <1>3, <2>3, <2>4, <2>5, <2>6, <2>7 DEF TypeOK, Struct
<1>7. Others(t) /\ OnlyAt(i)
  BY <1>1, <1>2, <1>3 DEF Others, OnlyAt, Untouched, TypeOK
<1>8. /\ pc'[t] = "insert" /\ holds'[t] = i /\ sector'[t] = f
      /\ memory'[i] = "live" /\ inode'[i].sector = NULL /\ inode'[i].length = 0
      /\ ~inode'[i].read /\ lost'[i] = 0
  BY <1>1, <1>2, <1>3, <1>4, <1>5 DEF TypeOK, Blank
<1>9. At(t, i, f)
  <2>1. disk[f] =< last[f] /\ last[f] \in Nat
    BY <1>1 DEF Before, Sane, TypeOK
  <2> QED
    BY <1>3, <1>4, <1>5, <1>7, <1>8, <2>1 DEF At, Blank
<1>10. Kept(t, i)
  BY <1>2 DEF Kept
<1>11. Maker(t)
  <2>1. ASSUME NEW u \in Thread \ {t}, holds[u] = i PROVE FALSE
    BY <1>1, <1>2, <1>5, <2>1 DEF Hold, TypeOK, Labels, Engaged, Using, Closing, Unfiled
  <2> QED
    BY <1>8, <2>1 DEF Maker
<1>12. Hold(t)'
  BY <1>8 DEF Hold, Engaged, Using, Closing, Unfiled
<1>13. Lookup(t)'
  BY <1>1, <1>3, <1>8 DEF Lookup, Searching, Making, Unfiled
<1>14. Sound(i)'
  <2>1. Fresh(i)' /\ Raw(i)'
    BY <1>8 DEF Fresh, Raw, Unmarked, Uncounted, Unfiled
  <2> QED
    BY <1>8, <2>1 DEF Sound
<1>15. f \in overtaken' \/ Settled(f)'
  <2>1. Away(t, i, f)
    BY <1>2, <1>3, <1>5, <1>8 DEF Away, Structs, Engaged, Using, Closing
  <2> QED
    BY <1>3, <1>6, <1>7, <1>12, <2>1, OtherSector
<1> QED
  BY <1>6, <1>9, <1>10, <1>11, <1>12, <1>13, <1>14, <1>15, StepAt

\* A thread that writes into the struct it has, which is live.
Writes(t, i, f) ==
  /\ Here(t, i, f) /\ memory[i] = "live" /\ inode'[i].sector \in {f, NULL}
  /\ Others(t)
  /\ UNCHANGED <<memory, holds, sector, entry, locked, intent>>
  /\ \A j \in Inode \ {i} : inode'[j] = inode[j] /\ lost'[j] = lost[j]
  /\ \A s \in Sector \ {f} : disk'[s] = disk[s] /\ last'[s] = last[s]
  /\ disk'[f] =< last'[f] /\ last'[f] >= last[f]
  /\ overtaken \subseteq overtaken'
  /\ inode'[i].sector = inode[i].sector \/ pc[t] = "sector"
  /\ inode'[i].read = inode[i].read \/ pc[t] = "read"
  /\ pc'[t] \in Making => pc[t] \in Making
  /\ pc'[t] \in Searching => pc[t] \in Searching

\* What is left to show of it.
LEMMA WritesStep ==
  ASSUME Before, NEW t \in Thread, NEW i \in Inode, NEW f \in Sector, Writes(t, i, f),
         pc'[t] # "idle", TypeOK', Hold(t)', Sound(i)', f \in overtaken' \/ Settled(f)'
  PROVE  TableIInv'
<1>1. /\ Here(t, i, f) /\ memory[i] = "live" /\ inode'[i].sector \in {f, NULL}
      /\ Others(t)
      /\ memory' = memory /\ holds' = holds /\ sector' = sector /\ entry' = entry
      /\ locked' = locked /\ intent' = intent
      /\ \A j \in Inode \ {i} : inode'[j] = inode[j] /\ lost'[j] = lost[j]
      /\ inode'[i].sector = inode[i].sector \/ pc[t] = "sector"
      /\ inode'[i].read = inode[i].read \/ pc[t] = "read"
      /\ pc'[t] \in Making => pc[t] \in Making
      /\ pc'[t] \in Searching => pc[t] \in Searching
  BY DEF Writes
<1>2. At(t, i, f)
  <2>1. OnlyAt(i)
    BY <1>1 DEF OnlyAt, Untouched
  <2> QED
    BY <1>1, <2>1 DEF At, Here, Writes
<1>3. Kept(t, i)
  BY <1>1 DEF Kept, Here
<1>4. Maker(t)
  BY <1>1 DEF Maker
<1>5. Lookup(t)'
  <2>1. Lookup(t) /\ pc[t] # "idle"
    BY <1>1 DEF Before, Sane, Here, Hold, InodeTableAssumption
  <2> QED
    BY <1>1, <2>1 DEF Lookup
<1> QED
  BY <1>2, <1>3, <1>4, <1>5, StepAt

\* The struct gets its sector: it is the only one, unless the sector is overtaken.
LEMMA SetSectorStep ==
  ASSUME Before, NEW t \in Thread, SetSector(t)
  PROVE  TableIInv'
<1>1. TypeOK /\ Lookup(t) /\ OneMaker /\ (\A u \in Thread : Hold(u)) /\ (\A j \in Inode : Sound(j))
  BY DEF Before, Sane
<1>2. /\ pc[t] = "sector" /\ pc' = [pc EXCEPT ![t] = "count"]
      /\ inode' = [inode EXCEPT ![holds[t]].sector = sector[t]]
      /\ overtaken' = IF Structs(sector[t]) # {} THEN overtaken \cup {sector[t]} ELSE overtaken
      /\ UNCHANGED <<disk, memory, next, prev, entry, locked, intent, sector, holds, at, last,
                     lost, fault>>
  BY DEF SetSector, Goto, links
<1>3. PICK i \in Inode, f \in Sector : Here(t, i, f)
  BY <1>2, SomeHere DEF Unfiled
<1>4. /\ holds[t] = i /\ sector[t] = f /\ memory[i] = "live" /\ inode[i].sector = NULL
      /\ ~inode[i].read /\ NULL \notin Sector
  BY <1>1, <1>2, <1>3 DEF Here, Hold, Unfiled, Making, Before, InodeTableAssumption
<1>5. /\ pc'[t] = "count" /\ inode'[i].sector = f /\ inode'[i].read = inode[i].read
      /\ inode'[i].length = inode[i].length /\ inode'[i].removed = inode[i].removed
      /\ Others(t) /\ \A j \in Inode \ {i} : inode'[j] = inode[j]
  BY <1>1, <1>2, <1>4 DEF TypeOK, Others
<1>6. TypeOK'
  <2>1. inode' \in [Inode -> Struct]
    BY <1>1, <1>2, <1>4 DEF TypeOK, Struct
  <2>2. pc' \in [Thread -> Labels]
    BY <1>1, <1>2 DEF TypeOK, Labels
  <2>3. overtaken' \in SUBSET Sector
    BY <1>1, <1>2, <1>4 DEF TypeOK
  <2> QED
    BY <1>1, <1>2, <2>1, <2>2, <2>3 DEF TypeOK, Struct
<1>7. ASSUME NEW u \in Thread \ {t}, holds[u] = i PROVE pc[u] \notin Engaged
  BY <1>1, <1>2, <1>4, <1>7 DEF Hold, Engaged, Using, Closing
<1>8. Writes(t, i, f)
  <2>1. disk[f] =< last[f] /\ last[f] \in Nat
    BY <1>1 DEF Before, Sane, TypeOK
  <2>2. pc'[t] \in Making => pc[t] \in Making
    BY <1>2 DEF Making, Unfiled
  <2> QED
    BY <1>2, <1>3, <1>4, <1>5, <2>1, <2>2 DEF Writes, Searching
<1>9. Hold(t)'
  BY <1>2, <1>4, <1>5 DEF Hold, Engaged, Using, Closing, Unfiled
<1>10. Fresh(i) /\ Fresh(i)' /\ Raw(i)'
  BY <1>2, <1>4, <1>5 DEF Fresh, Raw, Unmarked, Uncounted
<1>11. Sound(i)'
  <2>1. inode[i].length = 0 /\ lost[i] = 0
    BY <1>1, <1>4, <1>10 DEF Sound
  <2> QED
    BY <1>2, <1>4, <1>5, <1>10, <2>1 DEF Sound
<1>12. ASSUME f \notin overtaken' PROVE Settled(f)'
  <2>1. Structs(f) = {} /\ f \notin overtaken
    BY <1>2, <1>4, <1>12
  <2>2. Settled(f)
    BY <2>1 DEF Before, Sane
  <2>3. Structs(f)' = {i}
    BY <1>2, <1>4, <1>5, <2>1 DEF Structs
  <2>4. ASSUME NEW u \in Thread, pc'[u] \in Engaged, sector'[u] = f PROVE u = t
    <3>1. SUFFICES ASSUME u # t PROVE FALSE
      OBVIOUS
    <3>2. pc[u] \in Engaged /\ sector[u] = f
      BY <1>5, <2>4, <3>1 DEF Others
    <3>3. holds[u] \in Structs(f)
      BY <1>1, <2>2, <3>2 DEF Settled, Alive, Hold, Structs
    <3> QED
      BY <2>1, <3>3
  <2>5. One(f)'
    BY <2>3 DEF One
  <2>6. Alive(f)'
    BY <1>2, <1>4, <2>4 DEF Alive
  <2>7. Exact(f)'
    <3>1. lost'[i] = 0
      BY <1>1, <1>2, <1>4, <1>10 DEF Sound
    <3>2. Openers(i)' = {}
      <4>1. ASSUME NEW u \in Thread, holds'[u] = i, pc'[u] \in Using PROVE FALSE
        BY <1>2, <1>5, <1>7, <4>1 DEF Others, Engaged, Using
      <4> QED
        BY <4>1 DEF Openers, Using
    <3> QED
      BY <2>3, <3>1, <3>2 DEF Exact
  <2>8. Alone(f)' /\ Marked(f)'
    <3>1. \A u \in Thread : sector'[u] = f => pc'[u] \notin Closing
      BY <1>5, <2>4 DEF Engaged, Closing
    <3> QED
      BY <3>1 DEF Alone, Marked, Closing
  <2>9. Current(f)'
    <3>1. f \in entry
      BY <1>1, <1>2, <1>4 DEF Lookup, Searching, Making, Unfiled
    <3>2. disk'[f] = last'[f]
      BY <1>2, <2>1, <2>2, <3>1 DEF Settled, Current
    <3>3. pc'[t] \in Filling /\ holds'[t] = i
      BY <1>2, <1>4, <1>5 DEF Filling
    <3>4. ~inode'[i].read
      BY <1>4, <1>5
    <3> QED
      BY <2>3, <3>2, <3>3, <3>4 DEF Current
  <2> QED
    BY <2>5, <2>6, <2>7, <2>8, <2>9 DEF Settled
<1> QED
  BY <1>3, <1>5, <1>6, <1>8, <1>9, <1>11, <1>12, WritesStep

\* "inode->open_cnt = 1": who found the struct before stays out of the count.
LEMMA SetCountStep ==
  ASSUME Before, NEW t \in Thread, SetCount(t)
  PROVE  TableIInv'
<1>1. TypeOK /\ OneMaker /\ (\A u \in Thread : Hold(u)) /\ (\A j \in Inode : Sound(j))
  BY DEF Before, Sane
<1>2. /\ pc[t] = "count" /\ pc' = [pc EXCEPT ![t] = "removed"]
      /\ fault' = (memory[holds[t]] # "live")
      /\ inode' = [inode EXCEPT ![holds[t]].open_cnt = 1]
      /\ lost' = [lost EXCEPT ![holds[t]] = Cardinality(Openers(holds[t]))]
      /\ UNCHANGED <<disk, memory, next, prev, entry, locked, intent, sector, holds, at, last,
                     overtaken>>
  BY DEF SetCount, Goto, links
<1>3. PICK i \in Inode, f \in Sector : Here(t, i, f)
  BY <1>2, SomeHere DEF Engaged
<1>4. holds[t] = i /\ sector[t] = f /\ NULL \notin Sector
  BY <1>3 DEF Here, Before, InodeTableAssumption
<1>5. PICK n \in Nat : n = Cardinality(Openers(i))
  BY FS_Subset, FS_CardinalityType DEF Openers, InodeTableAssumption, Before
<1>6. /\ pc'[t] = "removed" /\ inode'[i] = [inode[i] EXCEPT !.open_cnt = 1] /\ lost'[i] = n
      /\ Others(t) /\ \A j \in Inode \ {i} : inode'[j] = inode[j] /\ lost'[j] = lost[j]
  BY <1>1, <1>2, <1>4, <1>5 DEF TypeOK, Others
<1>7. TypeOK'
  <2>1. inode' \in [Inode -> Struct]
    <3>1. inode \in [Inode -> Struct]
      BY <1>1 DEF TypeOK, Struct
    <3>2. \A v \in Struct : [v EXCEPT !.open_cnt = 1] \in Struct
      BY DEF Struct
    <3>3. inode' = [inode EXCEPT ![i] = [inode[i] EXCEPT !.open_cnt = 1]]
      BY <1>2, <1>4
    <3> QED
      BY <3>1, <3>2, <3>3
  <2>2. pc' \in [Thread -> Labels] /\ lost' \in [Inode -> Nat]
    BY <1>1, <1>2, <1>4, <1>5 DEF TypeOK, Labels
  <2> QED
    BY <1>1, <1>2, <2>1, <2>2 DEF TypeOK, Struct
<1>8. CASE memory[i] # "live"
  BY <1>2, <1>4, <1>7, <1>8 DEF TableIInv
<1>9. CASE memory[i] = "live"
  <2>1. /\ inode[i] \in Struct /\ inode[i].sector = f
        /\ inode'[i].sector = f /\ inode'[i].read = inode[i].read
        /\ inode'[i].length = inode[i].length /\ inode'[i].removed = inode[i].removed
        /\ inode'[i].open_cnt = 1
    BY <1>1, <1>2, <1>3, <1>6, <1>9 DEF Here, Unfiled, TypeOK, Struct
  <2>2. Writes(t, i, f)
    <3>1. disk[f] =< last[f] /\ last[f] \in Nat
      BY <1>1 DEF Before, Sane, TypeOK
    <3>2. pc'[t] \in Searching => pc[t] \in Searching
      BY <1>2 DEF Making, Searching, Filling
    <3>3. pc'[t] \in Making => pc[t] \in Making
      BY <1>2 DEF Making, Filling
    <3> QED
      BY <1>2, <1>3, <1>6, <1>9, <2>1, <3>1, <3>2, <3>3 DEF Writes
  <2>3. Hold(t)'
    <3>1. Hold(t) /\ pc[t] \in Making /\ pc[t] \in Engaged
      BY <1>1, <1>2 DEF Making, Filling, Engaged
    <3> QED
      BY <1>2, <1>4, <1>6, <1>9, <2>1, <3>1 DEF Hold, Engaged, Using, Closing, Unfiled
  <2>4. ~Fresh(i)'
    <3>1. ASSUME NEW u \in Thread, holds'[u] = i, pc'[u] \in Uncounted PROVE FALSE
      <4>1. u # t /\ pc[u] \in Making /\ holds[u] = i /\ pc[t] \in Making
        BY <1>2, <1>6, <3>1 DEF Others, Uncounted, Unfiled, Making, Filling
      <4> QED
        BY <1>1, <1>4, <4>1 DEF OneMaker
    <3> QED
      BY <3>1 DEF Fresh, Uncounted, Unfiled
  <2>5. Raw(i)'
    BY <1>2, <1>4, <1>6 DEF Raw, Unmarked
  <2>6. Cardinality(Openers(i)') = n + 1
    BY <1>2, <1>4, <1>5, <1>6, OpenerComes DEF Using
  <2>7. Sound(i)'
    <3>1. Sound(i)
      BY <1>1
    <3>2. 1 = (n + 1) - n
      OBVIOUS
    <3>3. inode'[i].open_cnt = Cardinality(Openers(i)') - lost'[i]
      BY <1>6, <2>1, <2>6, <3>2
    <3> QED
      BY <1>2, <1>9, <2>1, <2>4, <2>5, <3>1, <3>3 DEF Sound
  <2>8. ASSUME f \notin overtaken PROVE Settled(f)'
    <3>1. Settled(f) /\ i \in Structs(f) /\ Fresh(i) /\ Structs(f)' = Structs(f)
      <4>1. Structs(f)' = Structs(f)
        BY <1>2, <1>6, <2>1 DEF Structs
      <4> QED
        BY <1>2, <1>4, <1>9, <2>1, <2>8, <4>1 DEF Before, Sane, Structs, Fresh
    <3>2. n = 0
      <4>1. Openers(i) = {}
        BY <3>1 DEF Settled, Exact
      <4> QED
        BY <1>5, <4>1, FS_EmptySet
    <3>3. Exact(f)'
      BY <1>6, <2>4, <3>1, <3>2 DEF Settled, One, Exact
    <3>4. \A j \in Inode : inode[j].removed => inode'[j].removed
      BY <1>6, <2>1
    <3>5. Marked(f)'
      BY <1>6, <2>8, <3>4, MarkedStep
    <3>6. MovesOn(t)
      BY <1>2, <1>6 DEF MovesOn, Engaged, Using, Closing, Filling
    <3>7. \A j \in Inode : SameFile(j)
      BY <1>2, <1>6, <2>1 DEF SameFile
    <3> QED
      BY <1>2, <2>8, <3>3, <3>5, <3>6, <3>7, QuietSector
  <2> QED
    BY <1>2, <1>3, <1>6, <1>7, <2>2, <2>3, <2>7, <2>8, WritesStep
<1> QED
  BY <1>8, <1>9

\* An opener that stays one.
LEMMA SameOpeners ==
  ASSUME NEW t \in Thread, NEW i \in Inode, Others(t), holds'[t] = holds[t],
         pc[t] \in Using, pc'[t] \in Using
  PROVE  Openers(i)' = Openers(i) /\ (Fresh(i)' <=> Fresh(i))
<1>1. \A u \in Thread : /\ holds'[u] = holds[u]
                        /\ pc'[u] \in Using <=> pc[u] \in Using
                        /\ pc'[u] \in Uncounted <=> pc[u] \in Uncounted
  BY DEF Others, Using, Uncounted, Unfiled
<1>2. Using = {"removed", "read", "found", "opened", "close"}
      /\ Uncounted = {"insert", "insert back", "sector", "count"}
  BY DEF Using, Uncounted, Unfiled
<1> QED
  BY <1>1, <1>2 DEF Openers, Fresh

\* "inode->removed = false".
LEMMA SetRemovedStep ==
  ASSUME Before, NEW t \in Thread, SetRemoved(t)
  PROVE  TableIInv'
<1>1. TypeOK /\ OneMaker /\ (\A u \in Thread : Hold(u)) /\ (\A j \in Inode : Sound(j))
  BY DEF Before, Sane
<1>2. /\ pc[t] = "removed" /\ pc' = [pc EXCEPT ![t] = "read"]
      /\ fault' = (memory[holds[t]] # "live")
      /\ inode' = [inode EXCEPT ![holds[t]].removed = FALSE]
      /\ UNCHANGED <<disk, memory, next, prev, entry, locked, intent, sector, holds, at, last,
                     lost, overtaken>>
  BY DEF SetRemoved, Goto, links, history
<1>3. PICK i \in Inode, f \in Sector : Here(t, i, f)
  BY <1>2, SomeHere DEF Engaged, Using
<1>4. holds[t] = i /\ sector[t] = f /\ NULL \notin Sector
  BY <1>3 DEF Here, Before, InodeTableAssumption
<1>5. inode[i] \in Struct
  BY <1>1 DEF TypeOK, Struct
<1>6. /\ pc'[t] = "read" /\ inode'[i] = [inode[i] EXCEPT !.removed = FALSE]
      /\ Others(t) /\ \A j \in Inode \ {i} : inode'[j] = inode[j]
  BY <1>1, <1>2, <1>4 DEF TypeOK, Others
<1>7. TypeOK'
  <2>1. inode' \in [Inode -> Struct]
    <3>1. inode \in [Inode -> Struct]
      BY <1>1 DEF TypeOK, Struct
    <3>2. \A v \in Struct : [v EXCEPT !.removed = FALSE] \in Struct
      BY DEF Struct
    <3>3. inode' = [inode EXCEPT ![i] = [inode[i] EXCEPT !.removed = FALSE]]
      BY <1>2, <1>4
    <3> QED
      BY <3>1, <3>2, <3>3
  <2>2. pc' \in [Thread -> Labels]
    BY <1>1, <1>2 DEF TypeOK, Labels
  <2> QED
    BY <1>1, <1>2, <2>1, <2>2 DEF TypeOK, Struct
<1>8. CASE memory[i] # "live"
  BY <1>2, <1>4, <1>7, <1>8 DEF TableIInv
<1>9. CASE memory[i] = "live"
  <2>1. /\ inode[i].sector = f
        /\ inode'[i].sector = f /\ inode'[i].read = inode[i].read
        /\ inode'[i].length = inode[i].length /\ inode'[i].open_cnt = inode[i].open_cnt
        /\ ~inode'[i].removed
    BY <1>2, <1>3, <1>5, <1>6, <1>9 DEF Here, Unfiled, Struct
  <2>2. Writes(t, i, f)
    <3>1. disk[f] =< last[f] /\ last[f] \in Nat
      BY <1>1 DEF Before, Sane, TypeOK
    <3>2. pc[t] \in Making /\ pc[t] \in Searching
      BY <1>2 DEF Making, Filling, Searching
    <3>3. \A j \in Inode \ {i} : inode'[j] = inode[j] /\ lost'[j] = lost[j]
      BY <1>2, <1>6
    <3>4. inode'[i].sector \in {f, NULL} /\ inode'[i].sector = inode[i].sector
      BY <2>1
    <3>5. inode'[i].read = inode[i].read
      BY <2>1
    <3>6. Others(t)
      BY <1>6
    <3>7. /\ UNCHANGED <<memory, holds, sector, entry, locked, intent>>
          /\ disk' = disk /\ last' = last /\ overtaken' = overtaken
      BY <1>2
    <3> QED
      BY <1>3, <1>9, <3>1, <3>2, <3>3, <3>4, <3>5, <3>6, <3>7 DEF Writes
  <2>3. Hold(t)'
    <3>1. Hold(t) /\ pc[t] \in Making /\ pc[t] \in Engaged
      BY <1>1, <1>2 DEF Making, Filling, Engaged, Using
    <3> QED
      BY <1>2, <1>4, <1>6, <1>9, <2>1, <3>1 DEF Hold, Engaged, Using, Closing, Unfiled
  <2>4. Openers(i)' = Openers(i) /\ (Fresh(i)' <=> Fresh(i))
    BY <1>2, <1>6, SameOpeners DEF Using
  <2>5. Sound(i)'
    <3>1. Sound(i)
      BY <1>1
    <3> QED
      BY <1>2, <1>9, <2>1, <2>4, <3>1 DEF Sound
  <2>6. ASSUME f \notin overtaken PROVE Settled(f)'
    <3>1. Structs(f)' = Structs(f)
      BY <1>2, <1>6, <2>1 DEF Structs
    <3>2. pc[t] \in Using /\ pc'[t] \in Using /\ pc'[t] \notin Uncounted
      BY <1>2, <1>6 DEF Using, Uncounted, Unfiled
    <3>3. Exact(f)'
      BY <1>2, <1>6, <2>6, <3>1, <3>2, ExactStep
    <3>4. \A j \in Inode : inode[j].removed =>
            inode'[j].removed \/ (holds[t] = j /\ pc[t] \in Using)
      BY <1>4, <1>6, <3>2
    <3>5. Marked(f)'
      BY <1>6, <2>6, <3>4, MarkedStep
    <3>6. MovesOn(t)
      BY <1>2, <1>6 DEF MovesOn, Engaged, Using, Closing, Filling
    <3>7. \A j \in Inode : SameFile(j)
      BY <1>2, <1>6, <2>1 DEF SameFile
    <3> QED
      BY <1>2, <2>6, <3>3, <3>5, <3>6, <3>7, QuietSector
  <2> QED
    BY <1>2, <1>3, <1>6, <1>7, <2>2, <2>3, <2>5, <2>6, WritesStep
<1> QED
  BY <1>8, <1>9

\* The struct is read in: it has what the disk had, the length of the file.
LEMMA ReadStep ==
  ASSUME Before, NEW t \in Thread, Read(t)
  PROVE  TableIInv'
<1>1. TypeOK /\ OneMaker /\ (\A u \in Thread : Hold(u)) /\ (\A j \in Inode : Sound(j))
  BY DEF Before, Sane
<1>2. /\ pc[t] = "read" /\ pc' = [pc EXCEPT ![t] = "found"]
      /\ fault' = (memory[holds[t]] # "live")
      /\ inode' = [inode EXCEPT ![holds[t]].length = disk[sector[t]], ![holds[t]].read = TRUE]
      /\ UNCHANGED <<disk, memory, next, prev, entry, locked, intent, sector, holds, at, last,
                     lost, overtaken>>
  BY DEF Read, Goto, links, history
<1>3. PICK i \in Inode, f \in Sector : Here(t, i, f)
  BY <1>2, SomeHere DEF Engaged, Using
<1>4. holds[t] = i /\ sector[t] = f /\ NULL \notin Sector
  BY <1>3 DEF Here, Before, InodeTableAssumption
<1>5. inode[i] \in Struct /\ disk[f] \in 0..MaxLength /\ disk[f] =< last[f] /\ last[f] \in Nat
  BY <1>1 DEF TypeOK, Struct, Before, Sane
<1>6. inode' = [inode EXCEPT ![i] = [[inode[i] EXCEPT !.length = disk[f]] EXCEPT !.read = TRUE]]
  BY <1>1, <1>2, <1>4 DEF TypeOK
<1>7. /\ pc'[t] = "found" /\ Others(t) /\ \A j \in Inode \ {i} : inode'[j] = inode[j]
      /\ inode'[i].sector = inode[i].sector /\ inode'[i].read
      /\ inode'[i].length = disk[f] /\ inode'[i].open_cnt = inode[i].open_cnt
      /\ inode'[i].removed = inode[i].removed
  <2>1. inode'[i] = [[inode[i] EXCEPT !.length = disk[f]] EXCEPT !.read = TRUE]
    BY <1>1, <1>6 DEF TypeOK
  <2>2. pc'[t] = "found" /\ Others(t) /\ \A j \in Inode \ {i} : inode'[j] = inode[j]
    BY <1>1, <1>2, <1>6 DEF TypeOK, Others
  <2>3. inode'[i].sector = inode[i].sector /\ inode'[i].open_cnt = inode[i].open_cnt
        /\ inode'[i].length = disk[f]
    BY <1>5, <2>1 DEF Struct
  <2>4. inode'[i].read
    BY <1>5, <2>1 DEF Struct
  <2>5. inode'[i].removed = inode[i].removed
    BY <1>5, <2>1 DEF Struct
  <2> QED
    BY <2>2, <2>3, <2>4, <2>5
<1>8. TypeOK'
  <2>1. inode' \in [Inode -> Struct]
    <3>1. inode \in [Inode -> Struct]
      BY <1>1 DEF TypeOK, Struct
    <3>2. \A v \in Struct : [v EXCEPT !.length = disk[f]] \in Struct
      BY <1>5 DEF Struct
    <3>3. \A v \in Struct : [v EXCEPT !.read = TRUE] \in Struct
      BY DEF Struct
    <3> QED
      BY <1>6, <3>1, <3>2, <3>3
  <2>2. pc' \in [Thread -> Labels]
    BY <1>1, <1>2 DEF TypeOK, Labels
  <2> QED
    BY <1>1, <1>2, <2>1, <2>2 DEF TypeOK, Struct
<1>9. CASE memory[i] # "live"
  BY <1>2, <1>4, <1>8, <1>9 DEF TableIInv
<1>10. CASE memory[i] = "live"
  <2>1. inode[i].sector = f /\ inode'[i].sector = f /\ ~inode[i].read
    <3>1. Hold(t) /\ pc[t] \in Making /\ pc[t] \notin Unfiled
      BY <1>1, <1>2 DEF Making, Filling, Unfiled
    <3>2. ~inode[i].read
      BY <1>4, <1>10, <3>1 DEF Hold
    <3>3. inode[i].sector = f
      BY <1>3, <1>10, <3>1 DEF Here
    <3> QED
      BY <1>7, <3>2, <3>3
  <2>2. Writes(t, i, f)
    <3>1. pc'[t] \notin Making /\ pc[t] \in Searching
      BY <1>2, <1>7 DEF Making, Filling, Unfiled, Searching
    <3>2. \A j \in Inode \ {i} : inode'[j] = inode[j] /\ lost'[j] = lost[j]
      BY <1>2, <1>7
    <3>3. inode'[i].sector \in {f, NULL} /\ inode'[i].sector = inode[i].sector
      BY <2>1
    <3>4. Others(t)
      BY <1>7
    <3>5. /\ UNCHANGED <<memory, holds, sector, entry, locked, intent>>
          /\ disk' = disk /\ last' = last /\ overtaken' = overtaken /\ pc[t] = "read"
      BY <1>2
    <3>6. disk'[f] =< last'[f] /\ last'[f] >= last[f]
      BY <1>5, <3>5
    <3> QED
      BY <1>3, <1>10, <3>1, <3>2, <3>3, <3>4, <3>5, <3>6 DEF Writes
  <2>3. Hold(t)'
    BY <1>2, <1>4, <1>7, <1>10, <2>1 DEF Hold, Engaged, Using, Closing, Unfiled, Making, Filling
  <2>4. Openers(i)' = Openers(i) /\ (Fresh(i)' <=> Fresh(i)) /\ (Raw(i)' <=> Raw(i))
    <3>1. \A u \in Thread : pc'[u] \in Unmarked <=> pc[u] \in Unmarked
      BY <1>2, <1>7 DEF Others, Unmarked, Uncounted, Unfiled
    <3> QED
      BY <1>2, <1>7, <3>1, SameOpeners DEF Using, Raw
  <2>5. Sound(i)'
    <3>1. Sound(i)
      BY <1>1
    <3> QED
      BY <1>2, <1>5, <1>7, <1>10, <2>1, <2>4, <3>1 DEF Sound
  <2>6. ASSUME f \notin overtaken PROVE Settled(f)'
    <3>1. Structs(f)' = Structs(f) /\ i \in Structs(f) /\ Settled(f)
      BY <1>2, <1>7, <1>10, <2>1, <2>6 DEF Structs, Before, Sane
    <3>2. pc[t] \in Using /\ pc'[t] \in Using /\ pc'[t] \notin Uncounted
      BY <1>2, <1>7 DEF Using, Uncounted, Unfiled
    <3>3. Exact(f)'
      BY <1>2, <1>7, <2>6, <3>1, <3>2, ExactStep
    <3>4. Marked(f)'
      BY <1>2, <1>7, <2>6, MarkedStep
    <3>5. One(f)'
      BY <3>1 DEF Settled, One
    <3>6. \A u \in Thread : /\ pc'[u] \in Engaged <=> pc[u] \in Engaged
                            /\ pc'[u] \in Closing <=> pc[u] \in Closing
                            /\ pc'[u] = "free" <=> pc[u] = "free"
      BY <1>2, <1>7 DEF Others, Engaged, Using, Closing
    <3>7. Alive(f)' /\ Alone(f)'
      BY <1>2, <3>1, <3>6 DEF Settled, Alive, Alone
    <3>8. Current(f)'
      <4>1. \A j \in Structs(f) : j = i
        BY <3>1 DEF Settled, One
      <4>2. disk[f] = last[f]
        BY <2>1, <3>1 DEF Settled, Current
      <4>3. Structs(f)' # {}
        BY <3>1
      <4> QED
        BY <1>2, <1>7, <3>1, <4>1, <4>2, <4>3 DEF Current
    <3> QED
      BY <3>3, <3>4, <3>5, <3>7, <3>8 DEF Settled
  <2> QED
    BY <1>2, <1>3, <1>7, <1>8, <2>2, <2>3, <2>5, <2>6, WritesStep
<1> QED
  BY <1>9, <1>10

\* dir_remove() with inode_remove(): the entry goes and the struct is marked.
LEMMA FoundRemoveStep ==
  ASSUME Before, NEW t \in Thread, Found(t), intent[t] = "remove"
  PROVE  TableIInv'
<1>1. TypeOK /\ Lookup(t) /\ (\A u \in Thread : Hold(u)) /\ (\A j \in Inode : Sound(j))
  BY DEF Before, Sane
<1>2. /\ pc[t] = "found" /\ pc' = [pc EXCEPT ![t] = "close"]
      /\ fault' = (memory[holds[t]] # "live")
      /\ entry' = entry \ {sector[t]}
      /\ inode' = [inode EXCEPT ![holds[t]].removed = TRUE]
      /\ UNCHANGED <<disk, memory, next, prev, locked, intent, sector, holds, at, last,
                     lost, overtaken>>
  BY DEF Found, Goto, links, history
<1>3. PICK i \in Inode, f \in Sector : Here(t, i, f)
  BY <1>2, SomeHere DEF Engaged, Using
<1>4. holds[t] = i /\ sector[t] = f /\ NULL \notin Sector
  BY <1>3 DEF Here, Before, InodeTableAssumption
<1>5. inode[i] \in Struct
  BY <1>1 DEF TypeOK, Struct
<1>6. inode' = [inode EXCEPT ![i] = [inode[i] EXCEPT !.removed = TRUE]]
  BY <1>2, <1>4
<1>7. pc'[t] = "close" /\ Others(t) /\ \A j \in Inode \ {i} : inode'[j] = inode[j]
  BY <1>1, <1>2, <1>6 DEF TypeOK, Others
<1>8. /\ inode'[i].sector = inode[i].sector /\ inode'[i].length = inode[i].length
      /\ inode'[i].open_cnt = inode[i].open_cnt
  BY <1>1, <1>5, <1>6 DEF TypeOK, Struct
<1>9. inode'[i].read = inode[i].read /\ inode'[i].removed
  BY <1>1, <1>5, <1>6 DEF TypeOK, Struct
<1>10. TypeOK'
  <2>1. inode' \in [Inode -> Struct]
    <3>1. inode \in [Inode -> Struct]
      BY <1>1 DEF TypeOK, Struct
    <3>2. \A v \in Struct : [v EXCEPT !.removed = TRUE] \in Struct
      BY DEF Struct
    <3> QED
      BY <1>6, <3>1, <3>2
  <2>2. pc' \in [Thread -> Labels] /\ entry' \in SUBSET Sector
    BY <1>1, <1>2 DEF TypeOK, Labels
  <2> QED
    BY <1>1, <1>2, <2>1, <2>2 DEF TypeOK, Struct
<1>11. CASE memory[i] # "live"
  BY <1>2, <1>4, <1>10, <1>11 DEF TableIInv
<1>12. CASE memory[i] = "live"
  <2>1. inode[i].sector = f /\ inode'[i].sector = f
    BY <1>2, <1>3, <1>8, <1>12 DEF Here, Unfiled
  <2>2. /\ UNCHANGED <<disk, memory, locked, sector, holds, intent, last, lost, overtaken>>
        /\ entry' = entry \ {f} /\ pc[t] = "found"
    BY <1>2, <1>4
  <2>3. f \in entry /\ locked[f] = t /\ f \notin Root
    BY <1>1, <1>2, <1>4 DEF Lookup, Searching
  <2>4. OnlyAt(i)
    BY <1>7, <2>2 DEF OnlyAt, Untouched
  <2>5. At(t, i, f)
    <3>1. disk[f] =< last[f] /\ last[f] \in Nat
      BY <1>1 DEF Before, Sane, TypeOK
    <3> QED
      BY <1>4, <1>7, <2>1, <2>2, <2>3, <2>4, <3>1 DEF At
  <2>6. Kept(t, i)
    BY <1>9, <1>12, <2>1, <2>2 DEF Kept
  <2>7. Maker(t)
    BY <1>7 DEF Maker, Making, Unfiled, Filling
  <2>8. Hold(t)'
    BY <1>4, <1>7, <1>12, <2>1, <2>2 DEF Hold, Engaged, Using, Closing, Unfiled, Making, Filling
  <2>9. Lookup(t)'
    BY <1>1, <1>7, <2>2 DEF Lookup, Searching, Making, Unfiled, Filling
  <2>10. Sound(i)'
    <3>1. Openers(i)' = Openers(i) /\ (Fresh(i)' <=> Fresh(i))
      BY <1>7, <2>2, SameOpeners DEF Using
    <3>2. Sound(i) /\ f \notin entry'
      BY <1>1, <2>2
    <3> QED
      BY <1>8, <1>12, <2>1, <2>2, <3>1, <3>2 DEF Sound
  <2>11. ASSUME f \notin overtaken PROVE Settled(f)'
    <3>1. Structs(f)' = Structs(f)
      BY <1>7, <2>1, <2>2 DEF Structs
    <3>2. pc[t] \in Using /\ pc'[t] \in Using /\ pc'[t] \notin Uncounted
      BY <1>7, <2>2 DEF Using, Uncounted, Unfiled
    <3>3. Exact(f)'
      BY <1>7, <2>2, <2>11, <3>1, <3>2, ExactStep
    <3>4. \A j \in Inode : inode[j].removed => inode'[j].removed
      BY <1>7, <1>9
    <3>5. Marked(f)'
      BY <1>7, <2>11, <3>4, MarkedStep
    <3>6. MovesOn(t)
      BY <1>7, <2>2 DEF MovesOn, Engaged, Using, Closing, Filling
    <3>7. \A j \in Inode : SameFile(j)
      BY <1>7, <1>8, <1>9, <2>2 DEF SameFile
    <3> QED
      BY <2>2, <2>11, <3>3, <3>5, <3>6, <3>7, QuietSector
  <2> QED
    BY <1>10, <2>2, <2>5, <2>6, <2>7, <2>8, <2>9, <2>10, <2>11, StepAt
<1> QED
  BY <1>11, <1>12

\* The file grows, in the struct that is read in or its sector is overtaken.
LEMMA ExtendStep ==
  ASSUME Before, NEW t \in Thread, Extend(t)
  PROVE  TableIInv'
<1>1. TypeOK /\ (\A u \in Thread : Hold(u)) /\ (\A j \in Inode : Sound(j))
  BY DEF Before, Sane
<1>2. /\ pc[t] = "opened" /\ memory[holds[t]] = "live" /\ last[sector[t]] < MaxLength
      /\ inode' = [inode EXCEPT ![holds[t]].length = @ + 1]
      /\ last' = [last EXCEPT ![sector[t]] = @ + 1]
      /\ overtaken' = IF inode[holds[t]].read THEN overtaken ELSE overtaken \cup {sector[t]}
      /\ UNCHANGED <<disk, memory, next, prev, entry, locked, pc, intent, sector, holds, at,
                     lost, fault>>
  BY DEF Extend, threadVars, links
<1>3. PICK i \in Inode, f \in Sector : Here(t, i, f)
  BY <1>2, SomeHere DEF Engaged, Using
<1>4. holds[t] = i /\ sector[t] = f /\ NULL \notin Sector /\ memory[i] = "live"
  BY <1>2, <1>3 DEF Here, Before, InodeTableAssumption
<1>5. inode[i] \in Struct /\ inode[i].sector = f
  BY <1>1, <1>2, <1>3, <1>4 DEF TypeOK, Struct, Here, Unfiled
<1>6. PICK n \in Nat, m \in Nat : inode[i].length = n /\ last[f] = m /\ m < MaxLength /\ n =< m
                                  /\ MaxLength \in Nat /\ disk[f] =< m /\ disk[f] \in Nat
  <2>1. Sound(i) /\ inode[i].length \in 0..MaxLength /\ last[f] \in 0..MaxLength
        /\ MaxLength \in Nat /\ disk[f] \in 0..MaxLength
    BY <1>1, <1>5 DEF TypeOK, Struct, Before, InodeTableAssumption
  <2>2. inode[i].length = 0 \/ inode[i].length =< last[f]
    BY <1>4, <1>5, <2>1 DEF Sound
  <2>3. disk[f] =< last[f]
    BY DEF Before, Sane
  <2> QED
    BY <1>2, <1>4, <2>1, <2>2, <2>3
<1>7. /\ inode' = [inode EXCEPT ![i] = [inode[i] EXCEPT !.length = n + 1]]
      /\ last' = [last EXCEPT ![f] = m + 1]
  BY <1>1, <1>2, <1>4, <1>6 DEF TypeOK
<1>8. /\ Others(t) /\ pc'[t] = "opened" /\ \A j \in Inode \ {i} : inode'[j] = inode[j]
      /\ last'[f] = m + 1 /\ \A s \in Sector \ {f} : last'[s] = last[s]
  BY <1>1, <1>2, <1>7 DEF TypeOK, Others
<1>9. /\ inode'[i].sector = f /\ inode'[i].length = n + 1
      /\ inode'[i].open_cnt = inode[i].open_cnt
  BY <1>1, <1>5, <1>7 DEF TypeOK, Struct
<1>10. inode'[i].read = inode[i].read /\ inode'[i].removed = inode[i].removed
  BY <1>1, <1>5, <1>7 DEF TypeOK, Struct
<1>11. TypeOK'
  <2>1. inode' \in [Inode -> Struct]
    <3>1. inode \in [Inode -> Struct] /\ n + 1 \in 0..MaxLength
      BY <1>1, <1>6 DEF TypeOK, Struct
    <3>2. \A v \in Struct : [v EXCEPT !.length = n + 1] \in Struct
      BY <3>1 DEF Struct
    <3> QED
      BY <1>7, <3>1, <3>2
  <2>2. last' \in [Sector -> 0..MaxLength]
    <3>1. m + 1 \in 0..MaxLength
      BY <1>6
    <3> QED
      BY <1>1, <1>7, <3>1 DEF TypeOK
  <2>3. overtaken' \in SUBSET Sector
    BY <1>1, <1>2, <1>4 DEF TypeOK
  <2> QED
    BY <1>1, <1>2, <2>1, <2>2, <2>3 DEF TypeOK, Struct
<1>12. /\ UNCHANGED <<disk, memory, holds, sector, entry, locked, intent, pc, lost>>
       /\ pc[t] = "opened" /\ overtaken \subseteq overtaken'
  BY <1>2
<1>13. Writes(t, i, f)
  <2>1. disk'[f] =< last'[f] /\ last'[f] >= last[f]
    BY <1>6, <1>8, <1>12
  <2>2. \A j \in Inode \ {i} : inode'[j] = inode[j] /\ lost'[j] = lost[j]
    BY <1>8, <1>12
  <2> QED
    BY <1>3, <1>4, <1>5, <1>8, <1>9, <1>10, <1>12, <2>1, <2>2 DEF Writes
<1>14. Hold(t)'
  BY <1>4, <1>8, <1>9, <1>12 DEF Hold, Engaged, Using, Closing, Unfiled, Making, Filling
<1>15. pc[t] \in Using /\ pc'[t] \in Using /\ pc'[t] \notin Uncounted
  BY <1>8, <1>12 DEF Using, Uncounted, Unfiled
<1>16. Sound(i)'
  <2>1. Openers(i)' = Openers(i) /\ (Fresh(i)' <=> Fresh(i)) /\ (Raw(i)' <=> Raw(i))
    BY <1>8, <1>12, <1>15, SameOpeners DEF Raw
  <2>2. Sound(i)
    BY <1>1
  <2>3. n + 1 =< m + 1
    BY <1>6
  <2> QED
    BY <1>4, <1>5, <1>8, <1>9, <1>10, <1>12, <2>1, <2>2, <2>3 DEF Sound
<1>17. ASSUME f \notin overtaken' PROVE Settled(f)'
  <2>1. inode[i].read /\ f \notin overtaken
    BY <1>2, <1>4, <1>17
  <2>2. Settled(f) /\ i \in Structs(f) /\ Structs(f)' = Structs(f)
    BY <1>4, <1>5, <1>8, <1>9, <1>12, <2>1 DEF Before, Sane, Structs
  <2>3. Exact(f)'
    BY <1>8, <1>12, <1>15, <2>1, <2>2, ExactStep
  <2>4. \A j \in Inode : inode[j].removed => inode'[j].removed
    BY <1>8, <1>10
  <2>5. Marked(f)'
    BY <1>8, <2>1, <2>4, MarkedStep
  <2>6. One(f)' /\ Alive(f)' /\ Alone(f)'
    BY <1>12, <2>2 DEF Settled, One, Alive, Alone
  <2>7. Current(f)'
    <3>1. \A j \in Structs(f) : j = i
      BY <2>2 DEF Settled, One
    <3>2. inode'[i].length = last'[f]
      <4>1. n = m
        BY <1>6, <2>1, <2>2 DEF Settled, Current
      <4> QED
        BY <1>8, <1>9, <4>1
    <3>3. \A u \in Thread : pc[u] = "free" => sector[u] # f
      <4>1. ASSUME NEW u \in Thread, pc[u] = "free", sector[u] = f PROVE FALSE
        <5>1. pc[u] \in Closing /\ pc[t] \in Engaged
          BY <1>15, <4>1 DEF Engaged, Closing
        <5>2. u = t
          BY <1>4, <2>2, <4>1, <5>1 DEF Settled, Alone
        <5> QED
          BY <1>12, <4>1, <5>2
      <4> QED
        BY <4>1
    <3>4. inode'[i].read
      BY <1>10, <2>1
    <3> QED
      BY <1>12, <2>2, <3>1, <3>2, <3>3, <3>4 DEF Current
  <2> QED
    BY <2>3, <2>5, <2>6, <2>7 DEF Settled
<1> QED
  BY <1>3, <1>8, <1>11, <1>13, <1>14, <1>16, <1>17, WritesStep

\* inode_reopen() counts one more opener; who comes to a settled file finds it counted.
LEMMA ReopenStep ==
  ASSUME Before, NEW t \in Thread, inode_reopen(t)
  PROVE  TableIInv'
<1>1. TypeOK /\ (\A u \in Thread : Hold(u)) /\ (\A j \in Inode : Sound(j))
  BY DEF Before, Sane
<1>2. /\ pc[t] = "reopen" /\ pc' = [pc EXCEPT ![t] = "found"]
      /\ fault' = (memory[holds[t]] # "live")
      /\ inode' = [inode EXCEPT ![holds[t]].open_cnt = @ + 1]
      /\ overtaken' = IF Fresh(holds[t]) \/ inode[holds[t]].open_cnt = 0
                        THEN overtaken \cup {sector[t]} ELSE overtaken
      /\ UNCHANGED <<disk, memory, next, prev, entry, locked, intent, sector, holds, at, last,
                     lost>>
  BY DEF inode_reopen, Goto, links
<1>3. PICK i \in Inode, f \in Sector : Here(t, i, f)
  BY <1>2, SomeHere
<1>4. holds[t] = i /\ sector[t] = f /\ NULL \notin Sector
  BY <1>3 DEF Here, Before, InodeTableAssumption
<1>5. inode[i] \in Struct
  BY <1>1 DEF TypeOK, Struct
<1>6. PICK c \in Int : c = inode[i].open_cnt
  BY <1>5 DEF Struct
<1>7. inode' = [inode EXCEPT ![i] = [inode[i] EXCEPT !.open_cnt = c + 1]]
  BY <1>1, <1>2, <1>4, <1>6 DEF TypeOK
<1>8. pc'[t] = "found" /\ Others(t) /\ \A j \in Inode \ {i} : inode'[j] = inode[j]
  BY <1>1, <1>2, <1>7 DEF TypeOK, Others
<1>9. /\ inode'[i].sector = inode[i].sector /\ inode'[i].length = inode[i].length
      /\ inode'[i].open_cnt = c + 1
  BY <1>1, <1>5, <1>7 DEF TypeOK, Struct
<1>10. inode'[i].read = inode[i].read /\ inode'[i].removed = inode[i].removed
  BY <1>1, <1>5, <1>7 DEF TypeOK, Struct
<1>11. TypeOK'
  <2>1. inode' \in [Inode -> Struct]
    <3>1. inode \in [Inode -> Struct] /\ c + 1 \in Int
      BY <1>1 DEF TypeOK, Struct
    <3>2. \A v \in Struct : [v EXCEPT !.open_cnt = c + 1] \in Struct
      BY <3>1 DEF Struct
    <3> QED
      BY <1>7, <3>1, <3>2
  <2>2. pc' \in [Thread -> Labels] /\ overtaken' \in SUBSET Sector
    BY <1>1, <1>2, <1>4 DEF TypeOK, Labels
  <2> QED
    BY <1>1, <1>2, <2>1, <2>2 DEF TypeOK, Struct
<1>12. CASE memory[i] # "live"
  BY <1>2, <1>4, <1>11, <1>12 DEF TableIInv
<1>13. CASE memory[i] = "live"
  <2>1. inode[i].sector = f /\ inode'[i].sector = f
    BY <1>2, <1>3, <1>9, <1>13 DEF Here, Unfiled
  <2>2. /\ UNCHANGED <<disk, memory, holds, sector, entry, locked, intent, last, lost>>
        /\ pc[t] = "reopen" /\ overtaken \subseteq overtaken'
    BY <1>2
  <2>3. Writes(t, i, f)
    <3>1. disk[f] =< last[f] /\ last[f] \in Nat
      BY <1>1 DEF Before, Sane, TypeOK
    <3>2. pc'[t] \notin Making /\ pc[t] \in Searching
      BY <1>8, <2>2 DEF Making, Filling, Unfiled, Searching
    <3>3. \A j \in Inode \ {i} : inode'[j] = inode[j] /\ lost'[j] = lost[j]
      BY <1>8, <2>2
    <3> QED
      BY <1>3, <1>8, <1>10, <1>13, <2>1, <2>2, <3>1, <3>2, <3>3 DEF Writes
  <2>4. Hold(t)'
    BY <1>4, <1>8, <1>13, <2>1, <2>2 DEF Hold, Engaged, Using, Closing, Unfiled, Making, Filling
  <2>5. (Fresh(i)' <=> Fresh(i)) /\ (Raw(i)' <=> Raw(i))
    <3>1. \A u \in Thread : /\ holds'[u] = holds[u]
                            /\ pc'[u] \in Uncounted <=> pc[u] \in Uncounted
                            /\ pc'[u] \in Unmarked <=> pc[u] \in Unmarked
      BY <1>8, <2>2 DEF Others, Uncounted, Unmarked, Unfiled
    <3>2. Uncounted = {"insert", "insert back", "sector", "count"}
      BY DEF Uncounted, Unfiled
    <3> QED
      BY <3>1, <3>2 DEF Fresh, Raw
  <2>6. PICK n \in Nat : /\ Cardinality(Openers(i)) = n /\ Cardinality(Openers(i)') = n + 1
                         /\ Openers(i)' = Openers(i) \cup {t}
    <3>1. holds'[t] = i /\ pc'[t] \in Using /\ ~(holds[t] = i /\ pc[t] \in Using)
      BY <1>4, <1>8, <2>2 DEF Using
    <3> QED
      BY <1>8, <3>1, OpenerComes
  <2>7. Sound(i)'
    <3>1. Sound(i) /\ lost[i] \in Nat
      BY <1>1 DEF TypeOK
    <3>2. ~Fresh(i)' => c + 1 = (n + 1) - lost[i]
      <4>1. ~Fresh(i)' => c = n - lost[i]
        BY <1>6, <1>13, <2>5, <2>6, <3>1 DEF Sound
      <4> QED
        BY <3>1, <4>1
    <3> QED
      BY <1>9, <1>10, <1>13, <2>1, <2>2, <2>5, <2>6, <3>1, <3>2 DEF Sound
  <2>8. ASSUME f \notin overtaken' PROVE Settled(f)'
    <3>1. ~Fresh(i) /\ c # 0 /\ f \notin overtaken
      BY <1>2, <1>4, <1>6, <2>8
    <3>2. Settled(f) /\ i \in Structs(f) /\ Structs(f)' = Structs(f)
      BY <1>8, <1>13, <2>1, <2>2, <3>1 DEF Before, Sane, Structs
    <3>3. \A j \in Structs(f) : j = i
      BY <3>2 DEF Settled, One
    <3>4. PICK v \in Openers(i) : TRUE
      <4>1. lost[i] = 0 /\ c = n - lost[i]
        BY <1>1, <1>6, <1>13, <2>6, <3>1, <3>2 DEF Settled, Exact, Sound
      <4>2. n # 0
        BY <3>1, <4>1
      <4>3. Openers(i) # {}
        BY <2>6, <4>2, FS_EmptySet
      <4> QED
        BY <4>3
    <3>5. v \in Thread /\ pc[v] \in Using /\ sector[v] = f
      <4>1. v \in Thread /\ holds[v] = i /\ pc[v] \in Using
        BY <3>4 DEF Openers, Using
      <4> QED
        BY <1>1, <1>13, <2>1, <4>1 DEF Hold, Engaged
    <3>6. \A u \in Thread : sector[u] = f => pc[u] \notin Closing
      <4>1. \A l \in Using : l \in Engaged /\ l \notin Closing
        BY DEF Using, Engaged, Closing
      <4> QED
        BY <3>2, <3>5, <4>1 DEF Settled, Alone
    <3>7. \A u \in Thread : sector'[u] = f => pc'[u] \notin Closing
      BY <1>8, <2>2, <3>6 DEF Others, Closing
    <3>8. Alone(f)' /\ Marked(f)'
      BY <3>7 DEF Alone, Marked, Closing
    <3>9. One(f)'
      BY <3>2 DEF Settled, One
    <3>10. Alive(f)'
      BY <1>4, <1>8, <1>13, <2>2, <3>2 DEF Others, Settled, Alive
    <3>11. Exact(f)'
      BY <2>2, <2>5, <3>1, <3>2, <3>3 DEF Settled, Exact
    <3>12. Current(f)'
      <4>1. \A u \in Thread : pc[u] \in Filling => pc'[u] \in Filling /\ holds'[u] = holds[u]
        BY <1>8, <2>2 DEF Others, Filling
      <4>2. \A u \in Thread : ~(pc'[u] = "free" /\ sector'[u] = f)
        BY <3>7 DEF Closing
      <4> QED
        BY <1>9, <1>10, <2>2, <3>2, <3>3, <4>1, <4>2 DEF Settled, Current
    <3> QED
      BY <3>8, <3>9, <3>10, <3>11, <3>12 DEF Settled
  <2> QED
    BY <1>3, <1>8, <1>11, <2>3, <2>4, <2>7, <2>8, WritesStep
<1> QED
  BY <1>12, <1>13

\* "--inode->open_cnt": one opener fewer, whether he goes or closes for good.
Decreased(t, i, f, c) ==
  /\ Here(t, i, f) /\ pc[t] \in {"opened", "close"} /\ c \in Int
  /\ inode[i].open_cnt = c /\ inode'[i].open_cnt = c - 1
  /\ fault' = (memory[i] # "live")
  /\ Others(t)
  /\ UNCHANGED <<disk, memory, next, prev, entry, at, last, lost, overtaken>>
  /\ \A j \in Inode : /\ inode'[j].sector = inode[j].sector
                      /\ inode'[j].length = inode[j].length
                      /\ inode'[j].read = inode[j].read
                      /\ inode'[j].removed = inode[j].removed
  /\ \A j \in Inode \ {i} : inode'[j] = inode[j]
  /\ inode' \in [Inode -> Struct]

\* The step is like that.
LEMMA DecrementIs ==
  ASSUME Before, NEW t \in Thread, Decrement(t)
  PROVE  \E i \in Inode, f \in Sector, c \in Int :
           /\ Decreased(t, i, f, c)
           /\ c = 1 => pc' = [pc EXCEPT ![t] = "unlist"] /\ UNCHANGED <<locked, intent, sector, holds>>
           /\ c # 1 => Closed(t)
<1>1. TypeOK /\ Hold(t)
  BY DEF Before, Sane
<1>2. /\ pc[t] \in {"opened", "close"}
      /\ fault' = (memory[holds[t]] # "live")
      /\ inode' = [inode EXCEPT ![holds[t]].open_cnt = @ - 1]
      /\ UNCHANGED <<disk, memory, next, prev, entry, at, last, lost, overtaken>>
  BY DEF Decrement, links, history
<1>3. \/ /\ inode'[holds[t]].open_cnt = 0 /\ pc' = [pc EXCEPT ![t] = "unlist"]
         /\ UNCHANGED <<locked, intent, sector, holds>>
      \/ inode'[holds[t]].open_cnt # 0 /\ Closed(t)
  BY DEF Decrement, Goto
<1>4. PICK i \in Inode, f \in Sector : Here(t, i, f)
  BY <1>2, SomeHere DEF Engaged, Using
<1>5. holds[t] = i /\ sector[t] = f
  BY <1>4 DEF Here
<1>6. inode[i] \in Struct /\ inode \in [Inode -> Struct]
  BY <1>1 DEF TypeOK, Struct
<1>7. PICK c \in Int : c = inode[i].open_cnt
  BY <1>6 DEF Struct
<1>8. inode' = [inode EXCEPT ![i] = [inode[i] EXCEPT !.open_cnt = c - 1]]
  BY <1>2, <1>5, <1>6, <1>7
<1>9. c - 1 \in Int /\ (c = 1 <=> c - 1 = 0)
  OBVIOUS
<1>10. \A j \in Inode \ {i} : inode'[j] = inode[j]
  BY <1>6, <1>8
<1>11. /\ inode'[i].sector = inode[i].sector /\ inode'[i].length = inode[i].length
       /\ inode'[i].open_cnt = c - 1
  BY <1>6, <1>8 DEF Struct
<1>12. inode'[i].read = inode[i].read /\ inode'[i].removed = inode[i].removed
  BY <1>6, <1>8 DEF Struct
<1>13. inode' \in [Inode -> Struct]
  <2>1. \A v \in Struct : [v EXCEPT !.open_cnt = c - 1] \in Struct
    BY <1>9 DEF Struct
  <2> QED
    BY <1>6, <1>8, <2>1
<1>14. Others(t)
  <2>1. pc' = [pc EXCEPT ![t] = pc'[t]] /\ holds' = [holds EXCEPT ![t] = holds'[t]]
        /\ sector' = [sector EXCEPT ![t] = sector'[t]] /\ intent' = [intent EXCEPT ![t] = intent'[t]]
    BY <1>1, <1>3 DEF TypeOK, Closed, Goto
  <2> QED
    BY <1>1, <2>1 DEF TypeOK, Others
<1>15. \A j \in Inode : /\ inode'[j].sector = inode[j].sector
                        /\ inode'[j].length = inode[j].length
                        /\ inode'[j].read = inode[j].read
                        /\ inode'[j].removed = inode[j].removed
  BY <1>10, <1>11, <1>12
<1>16. Decreased(t, i, f, c)
  BY <1>2, <1>4, <1>5, <1>7, <1>10, <1>11, <1>13, <1>14, <1>15 DEF Decreased
<1> QED
  BY <1>3, <1>5, <1>9, <1>11, <1>16

\* What inode_close() leaves.
LEMMA ClosedIs ==
  ASSUME TypeOK, NEW t \in Thread, Closed(t)
  PROVE  /\ pc'[t] = "idle" /\ sector'[t] = NULL /\ holds'[t] = NULL /\ Others(t)
         /\ locked' \in [Sector -> Thread \cup {NULL}] /\ pc' \in [Thread -> Labels]
         /\ sector' \in [Thread -> Sector \cup {NULL}] /\ holds' \in [Thread -> Inode \cup {NULL}]
         /\ intent' \in [Thread -> {"open", "remove"}]
         /\ \A s \in Sector : locked'[s] = locked[s] \/ locked[s] \in {t, NULL}
         /\ Hold(t)' /\ Lookup(t)'
<1>1. /\ pc'[t] = "idle" /\ sector'[t] = NULL /\ holds'[t] = NULL /\ Others(t)
  BY DEF TypeOK, Closed, Goto, Others
<1>2. locked' \in [Sector -> Thread \cup {NULL}]
      /\ \A s \in Sector : locked'[s] = locked[s] \/ locked[s] \in {t, NULL}
  BY DEF TypeOK, Closed
<1>3. pc' \in [Thread -> Labels]
  BY DEF TypeOK, Closed, Goto, Labels
<1>4. sector' \in [Thread -> Sector \cup {NULL}] /\ holds' \in [Thread -> Inode \cup {NULL}]
      /\ intent' \in [Thread -> {"open", "remove"}]
  BY DEF TypeOK, Closed
<1>5. Hold(t)' /\ Lookup(t)'
  BY <1>1 DEF Hold, Lookup, Engaged, Using, Closing, Unfiled, Making, Filling, Searching
<1> QED
  BY <1>1, <1>2, <1>3, <1>4, <1>5

\* inode_close(): the count goes with the opener, and the last one is alone with
\* the struct of a file nobody overtook.
LEMMA DecrementStep ==
  ASSUME Before, NEW t \in Thread, Decrement(t)
  PROVE  TableIInv'
<1>1. TypeOK /\ Lookup(t) /\ (\A u \in Thread : Hold(u)) /\ (\A j \in Inode : Sound(j))
  BY DEF Before, Sane
<1>2. PICK i \in Inode, f \in Sector, c \in Int :
        /\ Decreased(t, i, f, c)
        /\ c = 1 => pc' = [pc EXCEPT ![t] = "unlist"] /\ UNCHANGED <<locked, intent, sector, holds>>
        /\ c # 1 => Closed(t)
  BY DecrementIs
<1>3. /\ Here(t, i, f) /\ pc[t] \in {"opened", "close"}
      /\ inode[i].open_cnt = c /\ inode'[i].open_cnt = c - 1
      /\ fault' = (memory[i] # "live")
      /\ Others(t)
      /\ UNCHANGED <<disk, memory, next, prev, entry, at, last, lost, overtaken>>
      /\ \A j \in Inode : /\ inode'[j].sector = inode[j].sector
                          /\ inode'[j].length = inode[j].length
                          /\ inode'[j].read = inode[j].read
                          /\ inode'[j].removed = inode[j].removed
      /\ \A j \in Inode \ {i} : inode'[j] = inode[j]
      /\ inode' \in [Inode -> Struct]
  BY <1>2 DEF Decreased
<1>4. holds[t] = i /\ sector[t] = f /\ NULL \notin Sector /\ NULL # i
  BY <1>3 DEF Here, Before, InodeTableAssumption
<1>5. /\ pc'[t] \in {"unlist", "idle"}
      /\ pc'[t] = "unlist" => c = 1 /\ sector'[t] = f /\ holds'[t] = i
      /\ pc'[t] = "idle" => sector'[t] = NULL /\ holds'[t] = NULL
      /\ \A s \in Sector : locked'[s] = locked[s] \/ locked[s] \in {t, NULL}
  BY <1>1, <1>2, <1>4, ClosedIs DEF TypeOK
<1>6. TypeOK'
  <2>1. CASE c = 1
    <3>1. pc' \in [Thread -> Labels]
      BY <1>1, <1>2, <2>1 DEF TypeOK, Labels
    <3> QED
      BY <1>1, <1>2, <1>3, <2>1, <3>1 DEF TypeOK, Struct
  <2>2. CASE c # 1
    BY <1>1, <1>2, <1>3, <2>2, ClosedIs DEF TypeOK, Struct
  <2> QED
    BY <2>1, <2>2
<1>7. CASE memory[i] # "live"
  BY <1>3, <1>6, <1>7 DEF TableIInv
<1>8. CASE memory[i] = "live"
  <2>1. inode[i].sector = f /\ inode'[i].sector = f
    BY <1>3, <1>8 DEF Here, Unfiled
  <2>2. At(t, i, f)
    <3>1. disk[f] =< last[f] /\ last[f] \in Nat
      BY <1>1 DEF Before, Sane, TypeOK
    <3>2. OnlyAt(i)
      BY <1>3 DEF OnlyAt, Untouched
    <3>3. holds'[t] \in {i, NULL} /\ sector'[t] \in {f, NULL}
      BY <1>5
    <3> QED
      BY <1>3, <1>4, <1>5, <2>1, <3>1, <3>2, <3>3 DEF At
  <2>3. Kept(t, i)
    BY <1>3, <1>4, <1>8, <2>1 DEF Kept
  <2>4. Maker(t)
    BY <1>5 DEF Maker, Making, Unfiled, Filling
  <2>5. Hold(t)' /\ Lookup(t)'
    <3>1. CASE c = 1
      <4>1. Hold(t)'
        BY <1>2, <1>3, <1>4, <1>5, <1>8, <2>1, <3>1
           DEF Hold, Engaged, Using, Closing, Unfiled, Making, Filling
      <4>2. Lookup(t)'
        BY <1>1, <1>2, <1>3, <1>5, <3>1 DEF Lookup, Searching, Making, Unfiled, Filling
      <4> QED
        BY <4>1, <4>2
    <3>2. CASE c # 1
      BY <1>1, <1>2, <3>2, ClosedIs
    <3> QED
      BY <3>1, <3>2
  <2>6. PICK n \in Nat : /\ Cardinality(Openers(i)) = n /\ Cardinality(Openers(i)') = n - 1
                         /\ Openers(i)' = Openers(i) \ {t}
                         /\ n - 1 = 0 => Openers(i)' = {}
    <3>1. holds[t] = i /\ pc[t] \in Using /\ ~(holds'[t] = i /\ pc'[t] \in Using)
      BY <1>3, <1>4, <1>5 DEF Using
    <3> QED
      BY <1>3, <3>1, OpenerLeaves
  <2>7. (Fresh(i)' <=> Fresh(i)) /\ (Raw(i)' <=> Raw(i))
    <3>1. \A u \in Thread \ {t} : pc'[u] = pc[u] /\ holds'[u] = holds[u]
      BY <1>3 DEF Others
    <3>2. pc[t] \notin Unmarked /\ pc'[t] \notin Unmarked
      BY <1>3, <1>5 DEF Unmarked, Uncounted, Unfiled
    <3>3. {"insert", "insert back", "sector", "count"} \subseteq Unmarked
      BY DEF Unmarked, Uncounted, Unfiled
    <3> QED
      BY <3>1, <3>2, <3>3 DEF Fresh, Raw
  <2>8. Sound(i)'
    <3>1. Sound(i) /\ lost[i] \in Nat
      BY <1>1 DEF TypeOK
    <3>2. ~Fresh(i)' => c - 1 = (n - 1) - lost[i]
      <4>1. ~Fresh(i)' => c = n - lost[i]
        BY <1>3, <1>8, <2>6, <2>7, <3>1 DEF Sound
      <4> QED
        BY <3>1, <4>1
    <3> QED
      BY <1>3, <1>8, <2>1, <2>6, <2>7, <3>1, <3>2 DEF Sound
  <2>9. ASSUME f \notin overtaken PROVE Settled(f)'
    <3>1. Settled(f) /\ i \in Structs(f) /\ Structs(f)' = Structs(f)
      BY <1>3, <1>8, <2>1, <2>9 DEF Before, Sane, Structs
    <3>2. Exact(f)'
      BY <1>3, <1>5, <2>9, <3>1, ExactStep DEF Using, Uncounted, Unfiled
    <3>3. Marked(f)'
      BY <1>3, <1>5, <2>9, MarkedStep
    <3>4. CASE pc'[t] = "idle"
      <4>1. MovesOn(t)
        BY <1>3, <3>4 DEF MovesOn, Engaged, Using, Closing, Filling
      <4>2. \A j \in Inode : SameFile(j)
        BY <1>3 DEF SameFile
      <4> QED
        BY <1>3, <2>9, <3>2, <3>3, <4>1, <4>2, QuietSector
    <3>5. CASE pc'[t] = "unlist"
      <4>1. c = 1 /\ holds'[t] = i /\ sector'[t] = f
        BY <1>5, <3>5
      <4>2. ~Fresh(i) /\ Openers(i)' = {}
        <5>1. t \in Openers(i)
          BY <1>3, <1>4 DEF Openers
        <5>2. ~Fresh(i) /\ lost[i] = 0
          BY <3>1, <5>1 DEF Settled, Exact
        <5>3. c = n - lost[i]
          BY <1>1, <1>3, <1>8, <2>6, <5>2 DEF Sound
        <5> QED
          BY <2>6, <4>1, <5>2, <5>3
      <4>3. ASSUME NEW u \in Thread, pc[u] \in Engaged, sector[u] = f PROVE u = t
        <5>1. SUFFICES ASSUME u # t PROVE FALSE
          OBVIOUS
        <5>2. holds[u] = i
          BY <1>1, <3>1, <4>3 DEF Settled, One, Alive, Hold, Structs
        <5>3. pc[u] \notin Using
          BY <1>3, <4>2, <5>1, <5>2 DEF Openers, Using, Others
        <5>4. pc[u] # "count"
          BY <4>2, <5>2 DEF Fresh
        <5>5. pc[u] \in Closing /\ pc[t] \in Engaged
          BY <1>3, <4>3, <5>3, <5>4 DEF Engaged, Using
        <5> QED
          BY <1>4, <3>1, <4>3, <5>1, <5>5 DEF Settled, Alone
      <4>4. ASSUME NEW u \in Thread, pc'[u] \in Engaged, sector'[u] = f PROVE u = t
        BY <1>3, <4>3, <4>4 DEF Others
      <4>5. Alone(f)'
        BY <4>4 DEF Alone, Engaged
      <4>6. Alive(f)'
        BY <1>3, <1>8, <4>1, <4>4 DEF Alive
      <4>7. One(f)'
        BY <3>1 DEF Settled, One
      <4>8. Current(f)'
        <5>1. \A u \in Thread : pc[u] \in Filling => pc'[u] \in Filling /\ holds'[u] = holds[u]
          BY <1>3 DEF Others, Filling
        <5>2. \A u \in Thread : ~(pc'[u] = "free" /\ sector'[u] = f)
          BY <3>5, <4>4 DEF Engaged, Closing
        <5>3. \A j \in Structs(f) : j \in Inode
          BY DEF Structs
        <5> QED
          BY <1>3, <3>1, <5>1, <5>2, <5>3 DEF Settled, Current
      <4> QED
        BY <3>2, <3>3, <4>5, <4>6, <4>7, <4>8 DEF Settled
    <3> QED
      BY <1>5, <3>4, <3>5
  <2> QED
    BY <1>3, <1>6, <2>2, <2>3, <2>4, <2>5, <2>8, <2>9, StepAt
<1> QED
  BY <1>7, <1>8

\* inode_close() writes the struct back, or lets the sectors of a removed one go.
LEMMA StoreStep ==
  ASSUME Before, NEW t \in Thread, Store(t)
  PROVE  TableIInv'
<1>1. TypeOK /\ Lookup(t) /\ (\A u \in Thread : Hold(u)) /\ (\A j \in Inode : Sound(j))
  BY DEF Before, Sane
<1>2. /\ pc[t] = "store" /\ fault' = (memory[holds[t]] # "live")
      /\ disk' = [s \in Sector |->
                    IF s = inode[holds[t]].sector /\ ~inode[holds[t]].removed
                      THEN inode[holds[t]].length ELSE disk[s]]
      /\ pc' = [pc EXCEPT ![t] = IF inode[holds[t]].removed THEN "free removed" ELSE "free"]
      /\ UNCHANGED <<inode, memory, next, prev, entry, locked, intent, sector, holds, at, last,
                     lost, overtaken>>
  BY DEF Store, Goto, links, history
<1>3. PICK i \in Inode, f \in Sector : Here(t, i, f)
  BY <1>2, SomeHere DEF Engaged, Closing
<1>4. holds[t] = i /\ sector[t] = f /\ NULL \notin Sector
  BY <1>3 DEF Here, Before, InodeTableAssumption
<1>5. inode[i].length \in 0..MaxLength /\ last[f] \in 0..MaxLength /\ MaxLength \in Nat
  BY <1>1 DEF TypeOK, Before, InodeTableAssumption
<1>6. TypeOK'
  <2>1. pc' \in [Thread -> Labels]
    BY <1>1, <1>2 DEF TypeOK, Labels
  <2>2. disk' \in [Sector -> 0..MaxLength]
    BY <1>1, <1>2, <1>4, <1>5 DEF TypeOK
  <2> QED
    BY <1>1, <1>2, <2>1, <2>2 DEF TypeOK
<1>7. CASE memory[i] # "live"
  BY <1>2, <1>4, <1>6, <1>7 DEF TableIInv
<1>8. CASE memory[i] = "live"
  <2>1. inode[i].sector = f
    BY <1>2, <1>3, <1>8 DEF Here, Unfiled
  <2>2. /\ pc'[t] \in {"free", "free removed"}
        /\ pc'[t] = "free" => disk'[f] = inode[i].length
        /\ pc'[t] = "free removed" => inode[i].removed /\ disk' = disk
        /\ \A s \in Sector \ {f} : disk'[s] = disk[s]
        /\ disk'[f] \in {disk[f], inode[i].length}
    BY <1>1, <1>2, <1>4, <2>1 DEF TypeOK
  <2>3. disk'[f] =< last'[f] /\ last'[f] >= last[f]
    <3>1. disk[f] =< last[f]
      BY DEF Before, Sane
    <3>2. inode[i].length =< last[f]
      BY <1>1, <1>5, <1>8, <2>1 DEF Sound
    <3>3. last' = last
      BY <1>2
    <3>4. disk'[f] = disk[f] \/ disk'[f] = inode[i].length
      BY <2>2
    <3>5. disk'[f] =< last[f] /\ last[f] >= last[f]
      BY <1>5, <3>1, <3>2, <3>4
    <3> QED
      BY <3>3, <3>5
  <2>4. /\ UNCHANGED <<inode, memory, holds, sector, entry, locked, intent, last, lost, overtaken>>
        /\ pc[t] = "store" /\ Others(t)
    BY <1>1, <1>2 DEF TypeOK, Others
  <2>5. Writes(t, i, f)
    <3>1. pc'[t] \notin Making /\ pc'[t] \notin Searching
      BY <2>2 DEF Making, Filling, Unfiled, Searching
    <3> QED
      BY <1>3, <1>8, <2>1, <2>2, <2>3, <2>4, <3>1 DEF Writes
  <2>6. Hold(t)'
    BY <1>4, <1>8, <2>1, <2>2, <2>4 DEF Hold, Engaged, Using, Closing, Unfiled, Making, Filling
  <2>7. Sound(i)'
    <3>1. \A u \in Thread \ {t} : pc'[u] = pc[u]
      BY <2>4 DEF Others
    <3>2. /\ pc[t] \notin Unmarked /\ pc'[t] \notin Unmarked
          /\ pc[t] \notin Using /\ pc'[t] \notin Using
      BY <2>2, <2>4 DEF Unmarked, Uncounted, Unfiled, Using
    <3>3. {"insert", "insert back", "sector", "count"} \subseteq Unmarked
          /\ Using = {"removed", "read", "found", "opened", "close"}
      BY DEF Unmarked, Uncounted, Unfiled, Using
    <3>4. Openers(i)' = Openers(i) /\ (Fresh(i)' <=> Fresh(i)) /\ (Raw(i)' <=> Raw(i))
      BY <2>4, <3>1, <3>2, <3>3 DEF Openers, Fresh, Raw
    <3>5. Sound(i)
      BY <1>1
    <3> QED
      BY <2>4, <3>4, <3>5 DEF Sound
  <2>8. ASSUME f \notin overtaken PROVE Settled(f)'
    <3>1. Settled(f) /\ i \in Structs(f) /\ Structs(f)' = Structs(f)
      BY <1>8, <2>1, <2>4, <2>8 DEF Before, Sane, Structs
    <3>2. \A j \in Structs(f) : j = i
      BY <3>1 DEF Settled, One
    <3>3. ASSUME NEW u \in Thread, pc[u] \in Engaged, sector[u] = f PROVE u = t
      <4>1. pc[t] \in Closing
        BY <2>4 DEF Closing
      <4> QED
        BY <1>4, <3>1, <3>3, <4>1 DEF Settled, Alone
    <3>4. ASSUME NEW u \in Thread, pc'[u] \in Engaged, sector'[u] = f PROVE u = t
      BY <2>4, <3>3, <3>4 DEF Others
    <3>5. inode[i].read /\ inode[i].length = last[f]
      <4>1. ASSUME NEW u \in Thread, pc[u] \in Filling, holds[u] = i PROVE FALSE
        <5>1. pc[u] \in Engaged /\ sector[u] = f
          BY <1>1, <1>8, <2>1, <4>1 DEF Hold, Engaged, Using, Filling
        <5>2. u = t
          BY <3>3, <5>1
        <5> QED
          BY <2>4, <4>1, <5>2 DEF Filling
      <4> QED
        BY <3>1, <4>1 DEF Settled, Current
    <3>6. One(f)'
      BY <3>1 DEF Settled, One
    <3>7. Alive(f)'
      BY <1>4, <1>8, <2>4, <3>4 DEF Alive
    <3>8. Alone(f)'
      BY <3>4 DEF Alone, Engaged
    <3>9. Exact(f)'
      BY <2>2, <2>4, <2>8, <3>1, ExactStep DEF Using, Uncounted, Unfiled
    <3>10. Marked(f)'
      <4>1. ASSUME NEW u \in Thread, pc'[u] = "free removed", sector'[u] = f
            PROVE  inode'[holds'[u]].removed
        <5>1. u = t
          BY <3>4, <4>1 DEF Engaged, Closing
        <5> QED
          BY <1>4, <2>2, <2>4, <4>1, <5>1
      <4> QED
        BY <4>1 DEF Marked
    <3>11. Current(f)'
      <4>1. ASSUME NEW u \in Thread, pc'[u] = "free", sector'[u] = f PROVE disk'[f] = last'[f]
        <5>1. u = t
          BY <3>4, <4>1 DEF Engaged, Closing
        <5> QED
          BY <2>2, <2>4, <3>5, <4>1, <5>1
      <4> QED
        BY <2>4, <3>1, <3>2, <3>5, <4>1 DEF Current
    <3> QED
      BY <3>6, <3>7, <3>8, <3>9, <3>10, <3>11 DEF Settled
  <2> QED
    BY <1>3, <1>6, <2>2, <2>4, <2>5, <2>6, <2>7, <2>8, WritesStep
<1> QED
  BY <1>7, <1>8

\* inode_close() frees the struct: its file has none now, and is on the disk.
LEMMA FreeStep ==
  ASSUME Before, NEW t \in Thread, Free(t)
  PROVE  TableIInv'
<1>1. TypeOK /\ Lookup(t) /\ (\A u \in Thread : Hold(u)) /\ (\A j \in Inode : Sound(j))
  BY DEF Before, Sane
<1>2. /\ pc[t] \in {"free", "free removed"}
      /\ fault' = (memory[holds[t]] # "live")
      /\ memory' = [memory EXCEPT ![holds[t]] = "freed"]
      /\ inode' = [inode EXCEPT ![holds[t]] = Blank]
      /\ next' = [next EXCEPT ![holds[t]] = TAIL]
      /\ prev' = [prev EXCEPT ![holds[t]] = HEAD]
      /\ lost' = [lost EXCEPT ![holds[t]] = 0]
      /\ Closed(t)
      /\ UNCHANGED <<disk, entry, at, last, overtaken>>
  BY DEF Free
<1>3. PICK i \in Inode, f \in Sector : Here(t, i, f)
  BY <1>2, SomeHere DEF Engaged, Closing
<1>4. holds[t] = i /\ sector[t] = f /\ NULL \notin Sector /\ NULL # i
  BY <1>3 DEF Here, Before, InodeTableAssumption
<1>5. /\ pc'[t] = "idle" /\ sector'[t] = NULL /\ holds'[t] = NULL /\ Others(t)
      /\ locked' \in [Sector -> Thread \cup {NULL}] /\ pc' \in [Thread -> Labels]
      /\ sector' \in [Thread -> Sector \cup {NULL}] /\ holds' \in [Thread -> Inode \cup {NULL}]
      /\ intent' \in [Thread -> {"open", "remove"}]
      /\ \A s \in Sector : locked'[s] = locked[s] \/ locked[s] \in {t, NULL}
      /\ Hold(t)' /\ Lookup(t)'
  BY <1>1, <1>2, ClosedIs
<1>6. /\ memory'[i] = "freed" /\ inode'[i] = Blank
      /\ \A j \in Inode \ {i} : Untouched(j)
  BY <1>1, <1>2, <1>4 DEF TypeOK, Untouched
<1>7. TypeOK'
  <2>1. Blank \in Struct
    BY DEF Blank, Struct, Before, InodeTableAssumption
  <2>2. inode' \in [Inode -> Struct]
    BY <1>1, <1>2, <1>4, <2>1 DEF TypeOK, Struct
  <2>3. /\ memory' \in [Inode -> {"none", "live", "freed"}] /\ lost' \in [Inode -> Nat]
        /\ next' \in [Element -> Inode \cup {TAIL}] /\ prev' \in [Element -> Inode \cup {HEAD}]
    BY <1>1, <1>2, <1>4 DEF TypeOK
  <2> QED
    BY <1>1, <1>2, <1>5, <2>2, <2>3 DEF TypeOK, Struct
<1>8. CASE memory[i] # "live"
  BY <1>2, <1>4, <1>7, <1>8 DEF TableIInv
<1>9. CASE memory[i] = "live"
  <2>1. inode[i].sector = f
    BY <1>2, <1>3, <1>9 DEF Here, Unfiled
  <2>2. At(t, i, f)
    <3>1. disk[f] =< last[f] /\ last[f] \in Nat
      BY <1>1 DEF Before, Sane, TypeOK
    <3>2. OnlyAt(i)
      BY <1>6 DEF OnlyAt
    <3>3. inode'[i].sector = NULL
      BY <1>6 DEF Blank
    <3>4. disk' = disk /\ last' = last /\ entry' = entry /\ overtaken' = overtaken
      BY <1>2
    <3>5. holds'[t] \in {i, NULL} /\ sector'[t] \in {f, NULL} /\ Others(t)
          /\ \A s \in Sector : locked'[s] = locked[s] \/ locked[s] \in {t, NULL}
      BY <1>5
    <3> QED
      BY <1>4, <2>1, <3>1, <3>2, <3>3, <3>4, <3>5 DEF At
  <2>3. Kept(t, i)
    BY <1>4, <1>6, <2>1 DEF Kept
  <2>4. Maker(t)
    BY <1>5 DEF Maker, Making, Unfiled, Filling
  <2>5. Sound(i)'
    BY <1>6 DEF Sound
  <2>6. ASSUME f \notin overtaken PROVE Settled(f)'
    <3>1. Settled(f) /\ i \in Structs(f)
      BY <1>9, <2>1, <2>6 DEF Before, Sane, Structs
    <3>2. Structs(f)' = {}
      BY <1>6, <3>1 DEF Settled, One, Structs, Untouched
    <3>3. pc[t] \in Closing
      BY <1>2 DEF Closing
    <3>4. ASSUME NEW u \in Thread, pc[u] \in Engaged, sector[u] = f PROVE u = t
      BY <1>4, <3>1, <3>3, <3>4 DEF Settled, Alone
    <3>5. ASSUME NEW u \in Thread, pc'[u] \in Engaged, sector'[u] = f PROVE FALSE
      BY <1>4, <1>5, <3>4, <3>5 DEF Others
    <3>6. One(f)' /\ Exact(f)'
      BY <3>2 DEF One, Exact
    <3>7. Alive(f)' /\ Alone(f)'
      BY <3>5 DEF Alive, Alone
    <3>8. Marked(f)'
      BY <3>5 DEF Marked, Engaged, Closing
    <3>9. f \in entry' => disk'[f] = last'[f]
      <4>1. CASE pc[t] = "free"
        BY <1>2, <1>4, <3>1, <4>1 DEF Settled, Current
      <4>2. CASE pc[t] = "free removed"
        <5>1. inode[i].removed
          BY <1>4, <3>1, <4>2 DEF Settled, Marked
        <5>2. ASSUME NEW u \in Thread, holds[u] = i, pc[u] \in Unmarked PROVE FALSE
          <6>1. pc[u] \notin Unfiled
            BY <1>1, <1>4, <2>1, <5>2 DEF Hold
          <6>2. pc[u] \in Engaged
            BY <5>2, <6>1 DEF Unmarked, Uncounted, Engaged, Using
          <6>3. sector[u] = f
            BY <1>1, <1>9, <2>1, <5>2, <6>2 DEF Hold
          <6> QED
            BY <3>4, <4>2, <5>2, <6>2, <6>3 DEF Unmarked, Uncounted, Unfiled
        <5>3. f \notin entry
          BY <1>1, <1>9, <2>1, <5>1, <5>2 DEF Sound, Raw
        <5> QED
          BY <1>2, <5>3
      <4> QED
        BY <1>2, <4>1, <4>2
    <3>10. Current(f)'
      BY <3>2, <3>5, <3>9 DEF Current, Engaged, Closing
    <3> QED
      BY <3>6, <3>7, <3>8, <3>10 DEF Settled
  <2> QED
    BY <1>2, <1>5, <1>7, <2>2, <2>3, <2>4, <2>5, <2>6, StepAt
<1> QED
  BY <1>8, <1>9

-----------------------------------------------------------------------------
(* The theorems. *)

\* The invariant holds at first: nothing is open.
LEMMA InitTableIInv == InodeTableAssumption /\ Init => TableIInv
<1> SUFFICES ASSUME InodeTableAssumption, Init PROVE TableIInv
  OBVIOUS
<1>1. TypeOK
  <2>1. inode \in [Inode -> Struct]
    <3>1. Blank \in Struct
      BY DEF Blank, Struct, InodeTableAssumption
    <3> QED
      BY <3>1 DEF Init
  <2>2. disk \in [Sector -> 0..MaxLength] /\ last \in [Sector -> 0..MaxLength]
        /\ lost \in [Inode -> Nat]
    BY DEF Init, InodeTableAssumption
  <2>3. /\ pc \in [Thread -> Labels] /\ intent \in [Thread -> {"open", "remove"}]
        /\ locked \in [Sector -> Thread \cup {NULL}] /\ at \in [Thread -> Inode \cup {TAIL}]
    BY DEF Init, Labels
  <2>4. next \in [Element -> Inode \cup {TAIL}] /\ prev \in [Element -> Inode \cup {HEAD}]
    BY DEF Init
  <2> QED
    BY <2>1, <2>2, <2>3, <2>4 DEF Init, TypeOK, Struct
<1>2. \A t \in Thread : pc[t] = "idle" /\ sector[t] = NULL /\ holds[t] = NULL
  BY DEF Init
<1>3. \A t \in Thread : Hold(t) /\ Lookup(t)
  BY <1>2 DEF Hold, Lookup, Engaged, Using, Closing, Unfiled, Making, Filling, Searching
<1>4. OneMaker
  BY <1>2 DEF OneMaker, Making, Unfiled, Filling
<1>5. \A i \in Inode : memory[i] = "none" /\ inode[i] = Blank /\ lost[i] = 0
  BY DEF Init
<1>6. \A i \in Inode : Sound(i)
  BY <1>5 DEF Sound
<1>7. ASSUME NEW s \in Sector PROVE Settled(s)
  <2>1. Structs(s) = {}
    BY <1>5 DEF Structs
  <2>2. \A t \in Thread : pc[t] \notin Engaged \cup Closing
    BY <1>2 DEF Engaged, Using, Closing
  <2>3. disk[s] = last[s]
    BY DEF Init
  <2> QED
    BY <1>2, <2>1, <2>2, <2>3 DEF Settled, One, Alive, Exact, Alone, Marked, Current
<1>8. (\A s \in Sector : disk[s] =< last[s]) /\ Root \subseteq entry
  BY DEF Init, InodeTableAssumption
<1> QED
  BY <1>1, <1>3, <1>4, <1>6, <1>7, <1>8 DEF TableIInv, Sane

\* Every step keeps it.
LEMMA NextTableIInv == InodeTableAssumption /\ TableIInv /\ [Next]_vars => TableIInv'
<1> SUFFICES ASSUME InodeTableAssumption, TableIInv, [Next]_vars PROVE TableIInv'
  OBVIOUS
<1>1. CASE UNCHANGED vars
  <2>1. TypeOK'
    BY <1>1 DEF vars, TableIInv, TypeOK
  <2>2. Sane' <=> Sane
    BY <1>1 DEF vars, Sane, Hold, Lookup, OneMaker, Sound, Fresh, Raw, Openers, Structs,
                Settled, One, Alive, Exact, Alone, Marked, Current
  <2> QED
    BY <1>1, <2>1, <2>2 DEF vars, TableIInv
<1>2. CASE Next
  <2>1. Before
    BY <1>2 DEF Next, TableIInv, Before
  <2>2. PICK t \in Thread :
          \/ \E s \in Sector : Open(t, s, "open") \/ Open(t, s, "remove")
          \/ inode_open(t) \/ Found(t) \/ Extend(t) \/ inode_close(t)
    BY <1>2 DEF Next
  <2>3. CASE \E s \in Sector : Open(t, s, "open") \/ Open(t, s, "remove")
    BY <2>1, <2>3, OpenStep
  <2>4. CASE inode_open(t)
    BY <2>1, <2>4, LookStep, ReopenStep, AllocStep, ListStep, SetSectorStep, SetCountStep,
       SetRemovedStep, ReadStep DEF inode_open
  <2>5. CASE Found(t)
    BY <2>1, <2>5, FoundOpenStep, FoundRemoveStep
  <2>6. CASE Extend(t)
    BY <2>1, <2>6, ExtendStep
  <2>7. CASE inode_close(t)
    BY <2>1, <2>7, DecrementStep, ListStep, StoreStep, FreeStep DEF inode_close
  <2> QED
    BY <2>2, <2>3, <2>4, <2>5, <2>6, <2>7
<1> QED
  BY <1>1, <1>2

\* It says more than the properties.
LEMMA TableIInvIsEnough ==
  InodeTableAssumption /\ TableIInv => OpenCount /\ ClosedIsStored /\ ReleasedLast
<1> SUFFICES ASSUME InodeTableAssumption, TableIInv PROVE OpenCount /\ ClosedIsStored /\ ReleasedLast
  OBVIOUS
<1>1. OpenCount
  <2>1. ASSUME ~fault, NEW i \in Inode, memory[i] = "live", ~Fresh(i)
        PROVE  /\ inode[i].open_cnt = Cardinality(Openers(i)) - lost[i]
               /\ lost[i] = 0 \/ inode[i].sector \in overtaken
    <3>1. Sound(i)
      BY <2>1 DEF TableIInv, Sane
    <3>2. ASSUME inode[i].sector \in Sector \ overtaken PROVE lost[i] = 0
      BY <2>1, <3>2 DEF TableIInv, Sane, Settled, Exact, Structs
    <3> QED
      BY <2>1, <3>1, <3>2 DEF Sound
  <2> QED
    BY <2>1 DEF OpenCount, TableIInv
<1>2. ClosedIsStored
  <2>1. ASSUME ~fault, NEW s \in entry \ overtaken, Structs(s) = {} PROVE disk[s] = last[s]
    BY <2>1 DEF TableIInv, TypeOK, Sane, Settled, Current
  <2> QED
    BY <2>1 DEF ClosedIsStored
<1>3. ASSUME ~fault, NEW t \in Thread, pc[t] = "free removed", sector[t] \notin overtaken,
             NEW u \in Thread \ {t}, sector[u] = sector[t]
      PROVE  FALSE
  <2>1. Hold(t) /\ Hold(u) /\ Lookup(u) /\ sector[t] \in Sector /\ pc[u] \in Labels
        /\ (\A i \in Inode : Sound(i))
    BY <1>3 DEF TableIInv, TypeOK, Sane, Hold
  <2>2. Settled(sector[t]) /\ pc[t] \in Closing /\ pc[t] \in Engaged
    BY <1>3, <2>1 DEF TableIInv, Sane, Closing, Engaged
  <2>3. \A v \in Thread : pc[v] \in Engaged /\ sector[v] = sector[t] => v = t
    BY <2>2 DEF Settled, Alone
  <2>4. PICK i \in Inode : i = holds[t] /\ memory[i] = "live" /\ inode[i].sector = sector[t]
                           /\ inode[i].removed
    BY <1>3, <2>1, <2>2 DEF Settled, Alive, Marked, Hold
  <2>5. ASSUME NEW v \in Thread, holds[v] = i, pc[v] \in Unmarked PROVE FALSE
    <3>1. Hold(v) /\ NULL \notin Sector
      BY <1>3 DEF TableIInv, Sane, InodeTableAssumption
    <3>2. pc[v] \notin Unfiled
      BY <2>1, <2>4, <2>5, <3>1 DEF Hold
    <3>3. pc[v] \in Engaged
      BY <2>5, <3>2 DEF Unmarked, Uncounted, Engaged, Using
    <3>4. sector[v] = sector[t]
      BY <2>4, <2>5, <3>1, <3>3 DEF Hold
    <3> QED
      BY <1>3, <2>3, <2>5, <3>3, <3>4 DEF Unmarked, Uncounted, Unfiled
  <2>6. sector[t] \notin entry
    BY <2>1, <2>4, <2>5 DEF Sound, Raw
  <2>7. pc[u] \notin Searching /\ pc[u] \notin Engaged
    BY <1>3, <2>1, <2>3, <2>6 DEF Lookup
  <2>8. pc[u] = "idle"
    BY <2>1, <2>7 DEF Labels, Searching, Making, Unfiled, Filling, Engaged, Using, Closing
  <2> QED
    BY <1>3, <2>1, <2>8 DEF Hold, InodeTableAssumption
<1>4. ReleasedLast
  BY <1>3 DEF ReleasedLast
<1> QED
  BY <1>1, <1>2, <1>4

\* The invariant holds of every behaviour.
LEMMA TableSafe == Spec => []TableIInv
  BY InodeTableAssumption, InitTableIInv, NextTableIInv, PTL DEF Spec

\* A struct counts its openers, whatever opens and closes around it, but those it
\* forgot by "inode->open_cnt = 1"; and at a sector that nobody overtook it forgot
\* none: for any number of threads, files and structs, whatever malloc() leaves.
THEOREM OpenCountCorrect == Spec => []OpenCount
  BY InodeTableAssumption, TableSafe, TableIInvIsEnough, PTL

\* A file that no open overtook is on the disk once nobody has it open.
THEOREM StoredWhenClosed == Spec => []ClosedIsStored
  BY InodeTableAssumption, TableSafe, TableIInvIsEnough, PTL

\* The sectors of a removed file that no open overtook go after all who were at it.
THEOREM ReleasedAfterLast == Spec => []ReleasedLast
  BY InodeTableAssumption, TableSafe, TableIInvIsEnough, PTL
===============================================================================
