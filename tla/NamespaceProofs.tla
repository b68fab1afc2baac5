---------------------------- MODULE NamespaceProofs ----------------------------
(***************************************************************************)
(* Files and directories by name, for any number of processes, names and   *)
(* sectors.  open_cnt counts who has an inode open and what was lost,      *)
(* whatever anybody does: OpenCount.  While no process strays, the         *)
(* directories are a tree and no inode's sector is lost or given back too  *)
(* early: Tree and InodesAccounted, by an invariant that says also what a  *)
(* call relies on between its steps.                                       *)
(***************************************************************************)
EXTENDS Namespace, FiniteSetTheorems, WellFoundedInduction, TLAPS

(* The inductive invariant. *)

\* What a call keeps, for every process.
CallType ==
  call \in [Process -> [dir : Sector \cup {NULL}, name : FileName \cup {NULL}, inode : Sector \cup {NULL}]]

\* What a process has of its call, and that it has a directory until it exits.
Calling(p) ==
  /\ pc[p] \in {"idle", "exited"} => call[p].dir = NULL
  /\ pc[p] \in {"walk", "add", "is empty", "erase"} => call[p].dir \in Sector
  /\ pc[p] # "exited" => cwd[p] \in Sector
  /\ pc[p] \in {"add", "is empty", "erase"} => call[p].inode \in Sector
  /\ pc[p] = "add" => call[p].name \in Name \cup {""}
  /\ pc[p] \in {"is empty", "erase"} => call[p].name \in Name

\* An entry of a directory names s.
Entry(d, n, s) == d \in allocated /\ n \in Name /\ inode[d].entry[n] = s

\* Some entry names s.
IsNamed(s) == \E d \in Sector, n \in Name : Entry(d, n, s)

\* The sector of a file that filesys_create() has not added yet.
Pending(p) == pc[p] = "add"

\* An inode that nobody names, has open or has written to yet.
Fresh(s) ==
  /\ s \in allocated \ removed /\ s # ROOT_DIR_SECTOR /\ ~IsNamed(s) /\ IsEmpty(s)
  /\ Holders(s) = {}

\* What filesys_create() is about to add is fresh, and only one call adds it.
PendingInv ==
  /\ \A p \in Process : Pending(p) => Fresh(call[p].inode)
  /\ \A p, q \in Process : Pending(p) /\ Pending(q) /\ call[p].inode = call[q].inode => p = q

\* Between two steps of dir_remove() the entry stays, by the lock, and a directory that
\* is to go is open nowhere else.
Removing(p) ==
  pc[p] \in {"is empty", "erase"} =>
    /\ locked[Dir(p)] = p /\ Entry(Dir(p), call[p].name, call[p].inode)
    /\ inode[call[p].inode].isdir =>
         open_cnt[call[p].inode] = 1 /\ (pc[p] = "erase" => IsEmpty(call[p].inode))

\* The root is nobody's entry and its own parent.
RootInv ==
  /\ ROOT_DIR_SECTOR \in allocated \ removed /\ inode[ROOT_DIR_SECTOR].isdir
  /\ inode[ROOT_DIR_SECTOR].parent = ROOT_DIR_SECTOR /\ ~IsNamed(ROOT_DIR_SECTOR)

\* What a process takes for a directory is one.
DirInv(p) ==
  /\ cwd[p] # NULL => inode[cwd[p]].isdir
  /\ Dir(p) # NULL => inode[Dir(p)].isdir

\* Only files are removed while they are open, and no entry names them.
RemovedInv ==
  \A s \in removed : s \in allocated /\ ~inode[s].isdir /\ open_cnt[s] > 0 /\ ~IsNamed(s)

\* The directories are a tree.
EntryInv ==
  \A d \in Sector, n \in Name, s \in Sector : Entry(d, n, s) =>
    /\ inode[d].isdir /\ s \in allocated \ removed /\ inode[s].parent = d
    /\ \A c \in Sector, m \in Name : Entry(c, m, s) => c = d /\ m = n

\* An open inode has its sector.
HeldInv == \A s \in Sector : Holders(s) # {} => s \in allocated

\* Every sector taken is accounted for.
AllocInv ==
  \A s \in allocated : s = ROOT_DIR_SECTOR \/ IsNamed(s) \/ s \in removed
                         \/ \E p \in Process : Pending(p) /\ call[p].inode = s

\* The tree, and what a process between two steps relies on.
TreeInv ==
  /\ RootInv /\ RemovedInv /\ EntryInv /\ HeldInv /\ AllocInv /\ PendingInv
  /\ \A p \in Process : DirInv(p) /\ Removing(p)

\* The inductive invariant.  The counts hold even after a process has strayed.
NamespaceIInv ==
  /\ TypeOK /\ CallType /\ (\A p \in Process : Calling(p)) /\ OpenCount
  /\ ~strayed => TreeInv
-----------------------------------------------------------------------------
(* Counting. *)

\* What one place counts for s, and the places that count.
One(v, s) == IF v = s THEN 1 ELSE 0
At(X, s) == {h \in DOMAIN X : X[h] = s}

\* G is F but for what it has at h.
Moved(D, F, G, h) == \A g \in D \ {h} : G[g] = F[g]
Counted(F, G, h, s) ==
  /\ Cardinality(At(F, s)) \in Nat
  /\ Cardinality(At(G, s)) = Cardinality(At(F, s)) + One(G[h], s) - One(F[h], s)

\* Changing the value at one place moves the count by that place.
LEMMA AtMoves ==
  ASSUME NEW D, IsFiniteSet(D), NEW V, NEW X \in [D -> V], NEW Z \in [D -> V],
         NEW h \in D, NEW s, Moved(D, X, Z, h)
  PROVE  Counted(X, Z, h, s)
<1>0. PICK R : R = {g \in D \ {h} : X[g] = s}
  OBVIOUS
<1>1. R \subseteq D /\ h \notin R /\ At(X, s) \subseteq D
  BY <1>0 DEF At
<1>2. IsFiniteSet(R) /\ Cardinality(R) \in Nat /\ IsFiniteSet(At(X, s)) /\ Cardinality(At(X, s)) \in Nat
  BY <1>1, FS_Subset, FS_CardinalityType
<1>3. Cardinality(R \cup {h}) = Cardinality(R) + 1
  BY <1>1, <1>2, FS_AddElement
<1>4. At(X, s) = IF X[h] = s THEN R \cup {h} ELSE R
  BY <1>0 DEF At
<1>5. At(Z, s) = IF Z[h] = s THEN R \cup {h} ELSE R
  BY <1>0 DEF At, Moved
<1> QED
  BY <1>2, <1>3, <1>4, <1>5 DEF One, Counted

\* The four places of a process.
Sum(X, p, s) == One(X[<<p, 1>>], s) + One(X[<<p, 2>>], s) + One(X[<<p, 3>>], s) + One(X[<<p, 4>>], s)

SlotValues == [Process \X (1..4) -> Sector \cup {NULL}]

\* X and Y differ at most in what p has.
Apart(p, X, Y) == \A q \in Process, k \in 1..4 : q # p => Y[<<q, k>>] = X[<<q, k>>]

\* Changing the four places of one process moves the count by those.
LEMMA SlotsMove ==
  ASSUME NEW X \in SlotValues, NEW Y \in SlotValues,
         NEW p \in Process, NEW s, Apart(p, X, Y)
  PROVE  Cardinality(At(Y, s)) + Sum(X, p, s) = Cardinality(At(X, s)) + Sum(Y, p, s)
<1>0. PICK D : D = Process \X (1..4)
  OBVIOUS
<1>21. PICK V : V = Sector \cup {NULL}
  OBVIOUS
<1>1. IsFiniteSet(D)
  <2>1. IsFiniteSet(1..4)
    <3>1. 1 \in Int /\ 4 \in Int
      OBVIOUS
    <3> QED
      BY <3>1, FS_Interval, Zenon
  <2>2. IsFiniteSet(Process)
    BY NamespaceAssumption
  <2> QED
    BY <1>0, <2>1, <2>2, FS_Product
<1>2. X \in [D -> V] /\ Y \in [D -> V]
  BY <1>0, <1>21 DEF SlotValues
<1>3. <<p, 1>> \in D /\ <<p, 2>> \in D /\ <<p, 3>> \in D /\ <<p, 4>> \in D
  BY <1>0
<1>4. Y[<<p, 1>>] \in V /\ Y[<<p, 2>>] \in V /\ Y[<<p, 3>>] \in V /\ Y[<<p, 4>>] \in V
  BY <1>2, <1>3
<1>5. PICK A : A = [X EXCEPT ![<<p, 1>>] = Y[<<p, 1>>]]
  OBVIOUS
<1>6. PICK B : B = [A EXCEPT ![<<p, 2>>] = Y[<<p, 2>>]]
  OBVIOUS
<1>7. PICK C : C = [B EXCEPT ![<<p, 3>>] = Y[<<p, 3>>]]
  OBVIOUS
<1>8. PICK E : E = [C EXCEPT ![<<p, 4>>] = Y[<<p, 4>>]]
  OBVIOUS
<1>9. A \in [D -> V] /\ B \in [D -> V] /\ C \in [D -> V] /\ E \in [D -> V]
  BY <1>2, <1>4, <1>5, <1>6, <1>7, <1>8
<1>10. \A h \in D : E[h] = Y[h]
  <2> TAKE h \in D
  <2>1. PICK q \in Process, k \in 1..4 : h = <<q, k>>
    BY <1>0
  <2>2. CASE q # p
    <3>1. h # <<p, 1>> /\ h # <<p, 2>> /\ h # <<p, 3>> /\ h # <<p, 4>>
      BY <2>1, <2>2
    <3>2. E[h] = X[h]
      BY <3>1, <1>2, <1>5, <1>6, <1>7, <1>8, <1>9
    <3> QED
      BY <3>2, <2>1, <2>2 DEF Apart
  <2>3. CASE q = p
    <3>1. k = 1 \/ k = 2 \/ k = 3 \/ k = 4
      OBVIOUS
    <3>2. <<p, 1>> # <<p, 2>> /\ <<p, 1>> # <<p, 3>> /\ <<p, 1>> # <<p, 4>>
            /\ <<p, 2>> # <<p, 3>> /\ <<p, 2>> # <<p, 4>> /\ <<p, 3>> # <<p, 4>>
      OBVIOUS
    <3>3. E[<<p, 1>>] = Y[<<p, 1>>] /\ E[<<p, 2>>] = Y[<<p, 2>>]
            /\ E[<<p, 3>>] = Y[<<p, 3>>] /\ E[<<p, 4>>] = Y[<<p, 4>>]
      BY <3>2, <1>2, <1>3, <1>5, <1>6, <1>7, <1>8, <1>9
    <3> QED
      BY <3>1, <3>3, <2>1, <2>3
  <2> QED
    BY <2>2, <2>3
<1>11. E = Y
  BY <1>2, <1>9, <1>10
<1>12. A[<<p, 2>>] = X[<<p, 2>>] /\ B[<<p, 3>>] = X[<<p, 3>>] /\ C[<<p, 4>>] = X[<<p, 4>>]
  <2>1. <<p, 1>> # <<p, 2>> /\ <<p, 1>> # <<p, 3>> /\ <<p, 1>> # <<p, 4>>
            /\ <<p, 2>> # <<p, 3>> /\ <<p, 2>> # <<p, 4>> /\ <<p, 3>> # <<p, 4>>
    OBVIOUS
  <2> QED
    BY <2>1, <1>2, <1>3, <1>5, <1>6, <1>7, <1>9
<1>13. Moved(D, X, A, <<p, 1>>) /\ A[<<p, 1>>] = Y[<<p, 1>>]
  BY <1>2, <1>3, <1>5 DEF Moved
<1>14. Moved(D, A, B, <<p, 2>>) /\ B[<<p, 2>>] = Y[<<p, 2>>]
  BY <1>9, <1>3, <1>6 DEF Moved
<1>15. Moved(D, B, C, <<p, 3>>) /\ C[<<p, 3>>] = Y[<<p, 3>>]
  BY <1>9, <1>3, <1>7 DEF Moved
<1>16. Moved(D, C, E, <<p, 4>>) /\ E[<<p, 4>>] = Y[<<p, 4>>]
  BY <1>9, <1>3, <1>8 DEF Moved
<1>17. Counted(X, A, <<p, 1>>, s)
  BY <1>1, <1>2, <1>9, <1>3, <1>13, AtMoves
<1>18. Counted(A, B, <<p, 2>>, s)
  BY <1>1, <1>9, <1>3, <1>14, AtMoves
<1>19. Counted(B, C, <<p, 3>>, s)
  BY <1>1, <1>9, <1>3, <1>15, AtMoves
<1>20. Counted(C, E, <<p, 4>>, s)
  BY <1>1, <1>9, <1>3, <1>16, AtMoves
<1> QED
  BY <1>11, <1>12, <1>13, <1>14, <1>15, <1>16, <1>17, <1>18, <1>19, <1>20 DEF Sum, One, Counted

\* Occurrences in the sequences that Count is given.
LEMMA Occur ==
  ASSUME NEW x, NEW y, NEW s
  PROVE  /\ Occurrences(<<>>, s) = 0
         /\ Occurrences(<<x>>, s) = One(x, s)
         /\ Occurrences(<<x, y>>, s) = One(x, s) + One(y, s)
<1>1. Occurrences(<<>>, s) = 0
  <2>1. {i \in DOMAIN <<>> : <<>>[i] = s} = {}
    OBVIOUS
  <2> QED
    BY <2>1, FS_EmptySet DEF Occurrences
<1>2. Occurrences(<<x>>, s) = One(x, s)
  <2>1. {i \in DOMAIN <<x>> : <<x>>[i] = s} = IF x = s THEN {1} ELSE {}
    OBVIOUS
  <2> QED
    BY <2>1, FS_EmptySet, FS_Singleton DEF Occurrences, One
<1>3. Occurrences(<<x, y>>, s) = One(x, s) + One(y, s)
  <2>1. {i \in DOMAIN <<x, y>> : <<x, y>>[i] = s}
          = (IF x = s THEN {1} ELSE {}) \cup (IF y = s THEN {2} ELSE {})
    OBVIOUS
  <2>2. Cardinality({}) = 0 /\ Cardinality({1}) = 1 /\ Cardinality({2}) = 1
    BY FS_EmptySet, FS_Singleton
  <2>3. Cardinality({1} \cup {2}) = 2
    <3>1. IsFiniteSet({1})
      BY FS_Singleton, Zenon
    <3>3. 2 \notin {1}
      OBVIOUS
    <3>2. Cardinality({1} \cup {2}) = Cardinality({1}) + 1
      BY <3>1, <3>3, FS_AddElement
    <3> QED
      BY <3>2, <2>2
  <2>4. CASE x = s /\ y = s
    BY <2>1, <2>3, <2>4 DEF Occurrences, One
  <2>5. CASE x = s /\ y # s
    BY <2>1, <2>2, <2>5 DEF Occurrences, One
  <2>6. CASE x # s /\ y = s
    BY <2>1, <2>2, <2>6 DEF Occurrences, One
  <2>7. CASE x # s /\ y # s
    BY <2>1, <2>2, <2>7 DEF Occurrences, One
  <2> QED
    BY <2>4, <2>5, <2>6, <2>7
<1> QED
  BY <1>1, <1>2, <1>3

-----------------------------------------------------------------------------
(* What the four places of a process hold, and how a step changes them. *)

\* The inode that dir_remove() has open.
Opened(p) == IF pc[p] \in {"is empty", "erase"} THEN call[p].inode ELSE NULL

\* Where each open inode is held: Holders, as a function.
Slots == [h \in Process \X (1..4) |->
            IF h[2] = 1 THEN cwd[h[1]] ELSE IF h[2] = 2 THEN fd[h[1]]
            ELSE IF h[2] = 3 THEN Dir(h[1]) ELSE Opened(h[1])]

\* How often p has s open.
Opens(p, s) == One(cwd[p], s) + One(fd[p], s) + One(Dir(p), s) + One(Opened(p), s)

SlotType ==
  /\ cwd \in [Process -> Sector \cup {NULL}] /\ fd \in [Process -> Sector \cup {NULL}]
  /\ CallType

\* Slots holds what the processes do.
SlotsRight ==
  /\ Slots \in [Process \X (1..4) -> Sector \cup {NULL}]
  /\ \A s \in Sector : Holders(s) = At(Slots, s)
  /\ \A p \in Process, s \in Sector : Sum(Slots, p, s) = Opens(p, s)
  /\ \A p \in Process : /\ Slots[<<p, 1>>] = cwd[p] /\ Slots[<<p, 2>>] = fd[p]
                        /\ Slots[<<p, 3>>] = Dir(p) /\ Slots[<<p, 4>>] = Opened(p)

\* NULL is no sector.
LEMMA NullNotSector == NULL \notin Sector /\ ROOT_DIR_SECTOR \in Sector /\ Sector \subseteq Int
<1>1. MaxSector \in Nat \ {0} /\ NULL \notin 1..MaxSector
  BY NamespaceAssumption
<1>2. Sector = 1..MaxSector
  BY DEF Sector, ROOT_DIR_SECTOR
<1>3. ROOT_DIR_SECTOR \in Sector
  BY <1>1, <1>2 DEF ROOT_DIR_SECTOR
<1>4. Sector \subseteq Int
  BY <1>1, <1>2
<1> QED
  BY <1>1, <1>2, <1>3, <1>4

\* Slots holds what the processes do, by their types.
LEMMA SlotsAre == SlotType => SlotsRight
<1> SUFFICES ASSUME SlotType PROVE SlotsRight
  OBVIOUS
<1>1. \A p \in Process : Dir(p) \in Sector \cup {NULL} /\ Opened(p) \in Sector \cup {NULL}
  BY DEF SlotType, CallType, Dir, Opened
<1>2. Slots \in [Process \X (1..4) -> Sector \cup {NULL}]
  BY <1>1 DEF Slots, SlotType
<1>3. \A p \in Process : /\ Slots[<<p, 1>>] = cwd[p] /\ Slots[<<p, 2>>] = fd[p]
                         /\ Slots[<<p, 3>>] = Dir(p) /\ Slots[<<p, 4>>] = Opened(p)
  BY DEF Slots
<1>4. ASSUME NEW s \in Sector
      PROVE  Holders(s) = At(Slots, s)
  <2>1. ASSUME NEW p \in Process, NEW k \in 1..4
        PROVE  Holds(p, s)[k] <=> Slots[<<p, k>>] = s
    <3>1. s # NULL
      BY NullNotSector
    <3>2. Opened(p) = s <=> (pc[p] \in {"is empty", "erase"} /\ call[p].inode = s)
      BY <3>1 DEF Opened
    <3>3. k = 1 \/ k = 2 \/ k = 3 \/ k = 4
      OBVIOUS
    <3>4. /\ Holds(p, s)[1] = (cwd[p] = s) /\ Holds(p, s)[2] = (fd[p] = s)
          /\ Holds(p, s)[3] = (Dir(p) = s)
          /\ Holds(p, s)[4] = (pc[p] \in {"is empty", "erase"} /\ call[p].inode = s)
      BY DEF Holds
    <3> QED
      BY <3>2, <3>3, <3>4, <1>3
  <2>2. DOMAIN Slots = Process \X (1..4)
    BY DEF Slots
  <2>3. \A h \in Process \X (1..4) : Holds(h[1], s)[h[2]] <=> Slots[h] = s
    <3> TAKE h \in Process \X (1..4)
    <3>1. h[1] \in Process /\ h[2] \in 1..4 /\ h = <<h[1], h[2]>>
      OBVIOUS
    <3> QED
      BY <3>1, <2>1
  <2> QED
    BY <2>2, <2>3 DEF Holders, At
<1>5. \A p \in Process, s \in Sector : Sum(Slots, p, s) = Opens(p, s)
  BY <1>3 DEF Sum, Opens
<1> QED
  BY <1>2, <1>3, <1>4, <1>5 DEF SlotsRight

\* A step of p leaves the other processes alone.
Others(p) ==
  \A q \in Process : q # p => /\ cwd'[q] = cwd[q] /\ fd'[q] = fd[q]
                              /\ call'[q] = call[q] /\ pc'[q] = pc[q]

\* The holders of an inode can be counted.
FinitelyHeld ==
  \A s \in Sector : IsFiniteSet(Holders(s)) /\ Cardinality(Holders(s)) \in Nat

\* They can, as there are finitely many processes.
LEMMA HoldersFinite == FinitelyHeld
<1> SUFFICES ASSUME NEW s \in Sector
             PROVE  IsFiniteSet(Holders(s)) /\ Cardinality(Holders(s)) \in Nat
  BY DEF FinitelyHeld
<1>2. Holders(s) \subseteq Process \X (1..4)
  BY DEF Holders
<1>3. IsFiniteSet(Process \X (1..4))
  <2>1. IsFiniteSet(1..4)
    <3>1. 1 \in Int /\ 4 \in Int
      OBVIOUS
    <3> QED
      BY <3>1, FS_Interval, Zenon
  <2>2. IsFiniteSet(Process)
    BY NamespaceAssumption
  <2> QED
    BY <2>1, <2>2, FS_Product
<1> QED
  BY <1>2, <1>3, FS_Subset, FS_CardinalityType

\* A step of p changes the number of holders by what p opens and closes.
LEMMA HoldersMove ==
  ASSUME NEW p \in Process, SlotType, SlotType', Others(p), NEW s \in Sector
  PROVE  Cardinality(Holders(s))' + Opens(p, s) = Cardinality(Holders(s)) + Opens(p, s)'
<1>1. SlotsRight /\ SlotsRight'
  <2>1. SlotType' => SlotsRight'
    BY SlotsAre, PTL
  <2> QED
    BY <2>1, SlotsAre
<1>2. PICK X : X = Slots
  OBVIOUS
<1>3. PICK Y : Y = Slots'
  OBVIOUS
<1>4. X \in SlotValues /\ Y \in SlotValues
  BY <1>1, <1>2, <1>3 DEF SlotsRight, SlotValues
<1>5. ASSUME NEW q \in Process, NEW k \in 1..4, q # p
      PROVE  Y[<<q, k>>] = X[<<q, k>>]
  <2>1. cwd'[q] = cwd[q] /\ fd'[q] = fd[q] /\ Dir(q)' = Dir(q) /\ Opened(q)' = Opened(q)
    BY <1>5 DEF Others, Dir, Opened
  <2>2. k = 1 \/ k = 2 \/ k = 3 \/ k = 4
    OBVIOUS
  <2>3. /\ X[<<q, 1>>] = cwd[q] /\ X[<<q, 2>>] = fd[q]
        /\ X[<<q, 3>>] = Dir(q) /\ X[<<q, 4>>] = Opened(q)
    BY <1>1, <1>2 DEF SlotsRight
  <2>4. /\ Y[<<q, 1>>] = cwd'[q] /\ Y[<<q, 2>>] = fd'[q]
        /\ Y[<<q, 3>>] = Dir(q)' /\ Y[<<q, 4>>] = Opened(q)'
    BY <1>1, <1>3 DEF SlotsRight
  <2> QED
    BY <2>1, <2>2, <2>3, <2>4
<1>6. Cardinality(At(Y, s)) + Sum(X, p, s) = Cardinality(At(X, s)) + Sum(Y, p, s)
  <2>1. Apart(p, X, Y)
    BY <1>5 DEF Apart
  <2> QED
    BY <2>1, <1>4, SlotsMove
<1>7. At(X, s) = Holders(s) /\ Sum(X, p, s) = Opens(p, s)
  BY <1>1, <1>2 DEF SlotsRight
<1>8. At(Y, s) = Holders(s)' /\ Sum(Y, p, s) = Opens(p, s)'
  BY <1>1, <1>3 DEF SlotsRight
<1> QED
  BY <1>6, <1>7, <1>8

\* What the count of an inode changes by is what its holders and its lost opens do.
Balanced(p) ==
  \A s \in Sector : open_cnt'[s] + lost[s] + Opens(p, s) = open_cnt[s] + lost'[s] + Opens(p, s)'

\* A balanced step of one process keeps OpenCount.
LEMMA BalancedKeeps ==
  ASSUME NEW p \in Process, TypeOK, OpenCount, SlotType, SlotType', Others(p), Balanced(p),
         lost' \in [Sector -> Nat], open_cnt' \in [Sector -> Int]
  PROVE  OpenCount' /\ open_cnt' \in [Sector -> Nat]
<1>1. ASSUME NEW s \in Sector
      PROVE  /\ open_cnt'[s] = Cardinality(Holders(s))' + lost'[s]
             /\ open_cnt'[s] \in Nat
  <2>1. Cardinality(Holders(s)) \in Nat
    BY HoldersFinite DEF FinitelyHeld
  <2>2. Cardinality(Holders(s))' \in Nat
    <3>1. FinitelyHeld'
      BY HoldersFinite, PTL
    <3> QED
      BY <3>1 DEF FinitelyHeld
  <2>3. PICK c : c = Cardinality(Holders(s))
    OBVIOUS
  <2>4. PICK d : d = Cardinality(Holders(s))'
    OBVIOUS
  <2>5. PICK o : o = Opens(p, s)
    OBVIOUS
  <2>6. PICK u : u = Opens(p, s)'
    OBVIOUS
  <2>7. o \in Int /\ u \in Int
    BY <2>5, <2>6 DEF Opens, One
  <2>8. d + o = c + u
    BY HoldersMove, <2>3, <2>4, <2>5, <2>6
  <2>9. open_cnt[s] = c + lost[s]
    BY <2>3 DEF OpenCount
  <2>10. open_cnt'[s] + lost[s] + o = open_cnt[s] + lost'[s] + u
    BY <2>5, <2>6 DEF Balanced
  <2>11. lost[s] \in Nat /\ lost'[s] \in Nat /\ open_cnt[s] \in Nat /\ open_cnt'[s] \in Int
    BY DEF TypeOK
  <2>12. c \in Nat /\ d \in Nat
    BY <2>1, <2>2, <2>3, <2>4
  <2> QED
    BY <2>4, <2>7, <2>8, <2>9, <2>10, <2>11, <2>12
<1> QED
  BY <1>1 DEF OpenCount

\* What Count does to the counts, for the steps there are.
Opening(a) == \A s \in Sector : open_cnt'[s] = open_cnt[s] + One(a, s)
Closing(a) == \A s \in Sector : open_cnt'[s] = open_cnt[s] - One(a, s)
Exchanging(a, b) == \A s \in Sector : open_cnt'[s] = open_cnt[s] + One(a, s) - One(b, s)
ClosingBoth(a, b) ==
  \A s \in Sector : open_cnt'[s] = open_cnt[s] - One(a, s) - One(b, s)
OpeningClosingBoth(a, b, c) ==
  \A s \in Sector : open_cnt'[s] = open_cnt[s] + One(a, s) - One(b, s) - One(c, s)

\* The types of what is counted, and of the rest but the slots.
CountType ==
  /\ allocated \in SUBSET Sector /\ removed \in SUBSET Sector
  /\ open_cnt \in [Sector -> Int]
OtherType ==
  /\ inode \in [Sector -> [isdir : BOOLEAN, parent : Sector,
                           entry : [Name -> Sector \cup {NULL}]]]
  /\ locked \in [Sector -> Process \cup {NULL}]
  /\ pc \in [Process -> {"idle", "walk", "add", "is empty", "erase", "exited"}]
  /\ lost \in [Sector -> Nat] /\ panicked \in BOOLEAN

\* Count opens and closes what its sequences name.
LEMMA CountIs ==
  ASSUME TypeOK, NEW a, NEW b, NEW c, NEW m \in SUBSET Sector, NEW u
  PROVE  /\ Count(<<a>>, <<>>, m, u) => Opening(a) /\ CountType'
         /\ Count(<<>>, <<a>>, m, u) => Closing(a) /\ CountType'
         /\ Count(<<a>>, <<b>>, m, u) => Exchanging(a, b) /\ CountType'
         /\ Count(<<>>, <<a, b>>, m, u) => ClosingBoth(a, b) /\ CountType'
         /\ Count(<<a>>, <<b, c>>, m, u) => OpeningClosingBoth(a, b, c) /\ CountType'
<1>0. \A s \in Sector : open_cnt[s] \in Nat
  BY DEF TypeOK
<1>1. \A s : One(a, s) \in Int /\ One(b, s) \in Int /\ One(c, s) \in Int
  BY DEF One
<1>2. \A s : /\ Occurrences(<<>>, s) = 0 /\ Occurrences(<<a>>, s) = One(a, s)
             /\ Occurrences(<<b>>, s) = One(b, s)
             /\ Occurrences(<<a, b>>, s) = One(a, s) + One(b, s)
             /\ Occurrences(<<b, c>>, s) = One(b, s) + One(c, s)
  BY Occur
<1>4. Count(<<a>>, <<>>, m, u) => Opening(a) /\ CountType'
  <2> SUFFICES ASSUME Count(<<a>>, <<>>, m, u)
               PROVE  Opening(a) /\ CountType'
    OBVIOUS
  <2>1. allocated' \in SUBSET Sector /\ removed' \in SUBSET Sector
    BY DEF Count, Release, TypeOK
  <2>2. open_cnt' = [s \in Sector |-> open_cnt[s] + Occurrences(<<a>>, s) - Occurrences(<<>>, s)]
    BY DEF Count
  <2>3. \A s \in Sector : open_cnt'[s] = open_cnt[s] + Occurrences(<<a>>, s) - Occurrences(<<>>, s)
    BY <2>2
  <2>4. Opening(a)
    BY <1>0, <1>1, <1>2, <2>3 DEF Opening
  <2>5. \A s \in Sector : open_cnt[s] + Occurrences(<<a>>, s) - Occurrences(<<>>, s) \in Int
    BY <1>0, <1>1, <1>2
  <2> QED
    BY <2>1, <2>2, <2>4, <2>5 DEF CountType
<1>5. Count(<<>>, <<a>>, m, u) => Closing(a) /\ CountType'
  <2> SUFFICES ASSUME Count(<<>>, <<a>>, m, u)
               PROVE  Closing(a) /\ CountType'
    OBVIOUS
  <2>1. allocated' \in SUBSET Sector /\ removed' \in SUBSET Sector
    BY DEF Count, Release, TypeOK
  <2>2. open_cnt' = [s \in Sector |-> open_cnt[s] + Occurrences(<<>>, s) - Occurrences(<<a>>, s)]
    BY DEF Count
  <2>3. \A s \in Sector : open_cnt'[s] = open_cnt[s] + Occurrences(<<>>, s) - Occurrences(<<a>>, s)
    BY <2>2
  <2>4. Closing(a)
    BY <1>0, <1>1, <1>2, <2>3 DEF Closing
  <2>5. \A s \in Sector : open_cnt[s] + Occurrences(<<>>, s) - Occurrences(<<a>>, s) \in Int
    BY <1>0, <1>1, <1>2
  <2> QED
    BY <2>1, <2>2, <2>4, <2>5 DEF CountType
<1>6. Count(<<a>>, <<b>>, m, u) => Exchanging(a, b) /\ CountType'
  <2> SUFFICES ASSUME Count(<<a>>, <<b>>, m, u)
               PROVE  Exchanging(a, b) /\ CountType'
    OBVIOUS
  <2>1. allocated' \in SUBSET Sector /\ removed' \in SUBSET Sector
    BY DEF Count, Release, TypeOK
  <2>2. open_cnt' = [s \in Sector |-> open_cnt[s] + Occurrences(<<a>>, s) - Occurrences(<<b>>, s)]
    BY DEF Count
  <2>3. \A s \in Sector : open_cnt'[s] = open_cnt[s] + Occurrences(<<a>>, s) - Occurrences(<<b>>, s)
    BY <2>2
  <2>4. Exchanging(a, b)
    BY <1>0, <1>1, <1>2, <2>3 DEF Exchanging
  <2>5. \A s \in Sector : open_cnt[s] + Occurrences(<<a>>, s) - Occurrences(<<b>>, s) \in Int
    BY <1>0, <1>1, <1>2
  <2> QED
    BY <2>1, <2>2, <2>4, <2>5 DEF CountType
<1>7. Count(<<>>, <<a, b>>, m, u) => ClosingBoth(a, b) /\ CountType'
  <2> SUFFICES ASSUME Count(<<>>, <<a, b>>, m, u)
               PROVE  ClosingBoth(a, b) /\ CountType'
    OBVIOUS
  <2>1. allocated' \in SUBSET Sector /\ removed' \in SUBSET Sector
    BY DEF Count, Release, TypeOK
  <2>2. open_cnt' = [s \in Sector |-> open_cnt[s] + Occurrences(<<>>, s) - Occurrences(<<a, b>>, s)]
    BY DEF Count
  <2>3. \A s \in Sector : open_cnt'[s] = open_cnt[s] + Occurrences(<<>>, s) - Occurrences(<<a, b>>, s)
    BY <2>2
  <2>4. ClosingBoth(a, b)
    BY <1>0, <1>1, <1>2, <2>3 DEF ClosingBoth
  <2>5. \A s \in Sector : open_cnt[s] + Occurrences(<<>>, s) - Occurrences(<<a, b>>, s) \in Int
    BY <1>0, <1>1, <1>2
  <2> QED
    BY <2>1, <2>2, <2>4, <2>5 DEF CountType
<1>8. Count(<<a>>, <<b, c>>, m, u) => OpeningClosingBoth(a, b, c) /\ CountType'
  <2> SUFFICES ASSUME Count(<<a>>, <<b, c>>, m, u)
               PROVE  OpeningClosingBoth(a, b, c) /\ CountType'
    OBVIOUS
  <2>1. allocated' \in SUBSET Sector /\ removed' \in SUBSET Sector
    BY DEF Count, Release, TypeOK
  <2>2. open_cnt' = [s \in Sector |-> open_cnt[s] + Occurrences(<<a>>, s) - Occurrences(<<b, c>>, s)]
    BY DEF Count
  <2>3. \A s \in Sector : open_cnt'[s] = open_cnt[s] + Occurrences(<<a>>, s) - Occurrences(<<b, c>>, s)
    BY <2>2
  <2>4. OpeningClosingBoth(a, b, c)
    BY <1>0, <1>1, <1>2, <2>3 DEF OpeningClosingBoth
  <2>5. \A s \in Sector : open_cnt[s] + Occurrences(<<a>>, s) - Occurrences(<<b, c>>, s) \in Int
    BY <1>0, <1>1, <1>2
  <2> QED
    BY <2>1, <2>2, <2>4, <2>5 DEF CountType
<1> QED
  BY <1>4, <1>5, <1>6, <1>7, <1>8

-----------------------------------------------------------------------------
(* What every step of a process keeps. *)

\* The types, the call, and the balance.
Keeps(p) ==
  Others(p) /\ SlotType' /\ OtherType' /\ CountType' /\ Calling(p)' /\ Balanced(p)
Known(p) == TypeOK /\ CallType /\ Calling(p)

CountsOf == \A s \in Sector : open_cnt[s] \in Nat /\ lost[s] \in Nat

\* What is known before a step, in the parts that the lemmas use.
LEMMA KnownIs ==
  ASSUME NEW p \in Process, Known(p)
  PROVE  TypeOK /\ SlotType /\ CallType /\ OtherType /\ CountType /\ CountsOf /\ Calling(p)
<1>1. TypeOK /\ CallType /\ Calling(p)
  BY DEF Known
<1>2. SlotType
  BY <1>1 DEF SlotType, TypeOK
<1>3. OtherType
  BY <1>1 DEF OtherType, TypeOK
<1>4. CountsOf
  <2>1. open_cnt \in [Sector -> Nat] /\ lost \in [Sector -> Nat]
    BY <1>1 DEF TypeOK
  <2> QED
    BY <2>1 DEF CountsOf
<1>5. CountType
  <2>1. open_cnt \in [Sector -> Nat]
    BY <1>1 DEF TypeOK
  <2>2. open_cnt \in [Sector -> Int]
    BY <2>1
  <2> QED
    BY <1>1, <2>2 DEF CountType, TypeOK
<1> QED
  BY <1>1, <1>2, <1>3, <1>4, <1>5

\* Where p's call is, from its state.
LEMMA CallOf ==
  ASSUME NEW p \in Process, Known(p)
  PROVE  /\ call[p] \in [dir : Sector \cup {NULL}, name : FileName \cup {NULL},
                         inode : Sector \cup {NULL}]
         /\ pc[p] = "idle" => Dir(p) = NULL /\ Opened(p) = NULL /\ cwd[p] \in Sector
         /\ pc[p] = "walk" => Dir(p) \in Sector /\ Opened(p) = NULL /\ cwd[p] \in Sector
         /\ pc[p] = "add" => Dir(p) \in Sector /\ Opened(p) = NULL /\ cwd[p] \in Sector
         /\ pc[p] \in {"is empty", "erase"} =>
              Dir(p) \in Sector /\ Opened(p) = call[p].inode /\ Opened(p) \in Sector
              /\ cwd[p] \in Sector
         /\ cwd[p] \in Sector \cup {NULL} /\ fd[p] \in Sector \cup {NULL}
<1>1. SlotType /\ Calling(p)
  BY KnownIs
<1> QED
  BY <1>1 DEF SlotType, CallType, Calling, Dir, Opened

\* A step that sets p's call to k, its state to v, its directory to c and its file to f.
Call == [dir : Sector \cup {NULL}, name : FileName \cup {NULL}, inode : Sector \cup {NULL}]
State == {"idle", "walk", "add", "is empty", "erase", "exited"}
CallRight(k, v, c) ==
  /\ v \in {"idle", "exited"} => k.dir = NULL
  /\ v \in {"walk", "add", "is empty", "erase"} => k.dir \in Sector
  /\ v # "exited" => c \in Sector
  /\ v \in {"add", "is empty", "erase"} => k.inode \in Sector
  /\ v = "add" => k.name \in Name \cup {""}
  /\ v \in {"is empty", "erase"} => k.name \in Name
Turn(p, k, v, c, f) ==
  /\ call' = [call EXCEPT ![p] = k] /\ pc' = [pc EXCEPT ![p] = v]
  /\ cwd' = [cwd EXCEPT ![p] = c] /\ fd' = [fd EXCEPT ![p] = f]
  /\ k \in Call /\ v \in State /\ c \in Sector \cup {NULL} /\ f \in Sector \cup {NULL}
  /\ CallRight(k, v, c)
RestType ==
  /\ inode \in [Sector -> [isdir : BOOLEAN, parent : Sector,
                           entry : [Name -> Sector \cup {NULL}]]]
  /\ locked \in [Sector -> Process \cup {NULL}]
  /\ lost \in [Sector -> Nat] /\ panicked \in BOOLEAN

\* Such a step leaves the others alone and keeps the types.
LEMMA TurnKeeps ==
  ASSUME NEW p \in Process, Known(p), NEW k, NEW v, NEW c, NEW f, Turn(p, k, v, c, f)
  PROVE  /\ Others(p) /\ SlotType' /\ Calling(p)' /\ pc' \in [Process -> State]
         /\ cwd'[p] = c /\ fd'[p] = f /\ Dir(p)' = k.dir /\ call'[p] = k /\ pc'[p] = v
         /\ Opened(p)' = IF v \in {"is empty", "erase"} THEN k.inode ELSE NULL
<1>1. SlotType /\ OtherType
  BY KnownIs
<1>2. /\ cwd' \in [Process -> Sector \cup {NULL}] /\ fd' \in [Process -> Sector \cup {NULL}]
      /\ \A q \in Process : q # p => cwd'[q] = cwd[q] /\ fd'[q] = fd[q]
      /\ cwd'[p] = c /\ fd'[p] = f
  BY <1>1 DEF SlotType, Turn
<1>3. /\ call' \in [Process -> Call]
      /\ \A q \in Process : q # p => call'[q] = call[q]
      /\ call'[p] = k
  BY <1>1 DEF SlotType, CallType, Turn, Call
<1>4. /\ pc' \in [Process -> State]
      /\ \A q \in Process : q # p => pc'[q] = pc[q]
      /\ pc'[p] = v
  BY <1>1 DEF OtherType, Turn, State
<1>5. Dir(p)' = k.dir /\ Opened(p)' = IF v \in {"is empty", "erase"} THEN k.inode ELSE NULL
  BY <1>3, <1>4 DEF Dir, Opened
<1>6. Calling(p)'
  BY <1>2, <1>3, <1>4 DEF Calling, Turn, CallRight
<1> QED
  BY <1>2, <1>3, <1>4, <1>5, <1>6 DEF Others, SlotType, CallType, Call

After(p, c, f, d, i) == cwd'[p] = c /\ fd'[p] = f /\ Dir(p)' = d /\ Opened(p)' = i

\* What p has open after it ...
LEMMA TurnAfter ==
  ASSUME NEW p \in Process, Known(p), NEW k, NEW v, NEW c, NEW f, Turn(p, k, v, c, f)
  PROVE  /\ v \notin {"is empty", "erase"} => After(p, c, f, k.dir, NULL)
         /\ v \in {"is empty", "erase"} => After(p, c, f, k.dir, k.inode)
<1>1. /\ cwd'[p] = c /\ fd'[p] = f /\ Dir(p)' = k.dir
      /\ Opened(p)' = IF v \in {"is empty", "erase"} THEN k.inode ELSE NULL
  BY TurnKeeps
<1> QED
  BY <1>1 DEF After

\* ... and when that is not inside dir_remove().
LEMMA TurnPlain ==
  ASSUME NEW p \in Process, Known(p), NEW k, NEW v, NEW c, NEW f, NEW d, Turn(p, k, v, c, f),
         v # "is empty", v # "erase", d = k.dir
  PROVE  After(p, c, f, d, NULL)
BY TurnAfter

\* A balanced step of that kind keeps everything.
LEMMA KeepsBy ==
  ASSUME NEW p \in Process, Known(p), NEW k, NEW v, NEW c, NEW f, Turn(p, k, v, c, f),
         RestType', CountType', Balanced(p)
  PROVE  Keeps(p)
<1>1. Others(p) /\ SlotType' /\ Calling(p)' /\ pc' \in [Process -> State]
  BY TurnKeeps
<1> QED
  BY <1>1 DEF Keeps, OtherType, RestType, State

\* No call has nothing open.
LEMMA NoCallIs == NoCall \in Call /\ NoCall.dir = NULL /\ NoCall.inode = NULL
BY DEF NoCall, Call

\* What p has open before and after a step.
Before(p, c, f, d, i) == cwd[p] = c /\ fd[p] = f /\ Dir(p) = d /\ Opened(p) = i
Losing(a) == \A s \in Sector : lost'[s] = lost[s] + One(a, s)


\* Each way in which a step opens, closes, hands on or loses inodes is balanced.
LEMMA BalancedBy ==
  ASSUME NEW p \in Process, CountsOf, NEW c, NEW f, NEW d, NEW i, NEW a
  PROVE
    /\ /\ Before(p, c, f, NULL, NULL) /\ After(p, c, f, a, NULL)
       /\ Opening(a) /\ lost' = lost
       => Balanced(p)
    /\ /\ Before(p, c, f, d, NULL) /\ After(p, c, f, a, NULL)
       /\ Exchanging(a, d) /\ lost' = lost
       => Balanced(p)
    /\ /\ Before(p, c, f, d, NULL) /\ After(p, c, f, d, NULL)
       /\ Exchanging(a, a) /\ lost' = lost
       => Balanced(p)
    /\ /\ Before(p, c, f, d, NULL) /\ After(p, c, f, NULL, NULL)
       /\ open_cnt' = open_cnt /\ Losing(d)
       => Balanced(p)
    /\ /\ Before(p, c, NULL, d, NULL) /\ After(p, c, d, NULL, NULL)
       /\ open_cnt' = open_cnt /\ lost' = lost
       => Balanced(p)
    /\ /\ Before(p, c, NULL, d, NULL) /\ After(p, c, a, NULL, NULL)
       /\ Exchanging(a, d) /\ lost' = lost
       => Balanced(p)
    /\ /\ Before(p, c, f, d, NULL) /\ After(p, d, f, NULL, NULL)
       /\ open_cnt' = open_cnt /\ Losing(c)
       => Balanced(p)
    /\ /\ Before(p, c, f, d, NULL) /\ After(p, c, f, NULL, NULL)
       /\ Closing(d) /\ lost' = lost
       => Balanced(p)
    /\ /\ Before(p, c, f, d, NULL) /\ After(p, a, f, NULL, NULL)
       /\ OpeningClosingBoth(a, d, c) /\ lost' = lost
       => Balanced(p)
    /\ /\ Before(p, c, f, d, i) /\ After(p, c, f, d, i)
       /\ open_cnt' = open_cnt /\ lost' = lost
       => Balanced(p)
    /\ /\ Before(p, c, f, d, NULL) /\ After(p, c, f, d, a)
       /\ Opening(a) /\ lost' = lost
       => Balanced(p)
    /\ /\ Before(p, c, f, d, i) /\ After(p, c, f, NULL, NULL)
       /\ ClosingBoth(i, d) /\ lost' = lost
       => Balanced(p)
    /\ /\ Before(p, c, f, NULL, NULL) /\ After(p, c, NULL, NULL, NULL)
       /\ Closing(f) /\ lost' = lost
       => Balanced(p)
    /\ /\ Before(p, c, f, NULL, NULL) /\ After(p, NULL, NULL, NULL, NULL)
       /\ ClosingBoth(f, c) /\ lost' = lost
       => Balanced(p)
<1>0. \A s \in Sector : /\ open_cnt[s] \in Int /\ lost[s] \in Int /\ One(NULL, s) = 0
                         /\ One(c, s) \in Int /\ One(f, s) \in Int /\ One(d, s) \in Int
                         /\ One(i, s) \in Int /\ One(a, s) \in Int
  BY NullNotSector DEF CountsOf, One
<1>1. /\ Before(p, c, f, NULL, NULL) /\ After(p, c, f, a, NULL)
      /\ Opening(a) /\ lost' = lost
      => Balanced(p)
  BY <1>0 DEF Balanced, Opens, Before, After, Opening
<1>2. /\ Before(p, c, f, d, NULL) /\ After(p, c, f, a, NULL)
      /\ Exchanging(a, d) /\ lost' = lost
      => Balanced(p)
  BY <1>0 DEF Balanced, Opens, Before, After, Exchanging
<1>3. /\ Before(p, c, f, d, NULL) /\ After(p, c, f, d, NULL)
      /\ Exchanging(a, a) /\ lost' = lost
      => Balanced(p)
  BY <1>0 DEF Balanced, Opens, Before, After, Exchanging
<1>4. /\ Before(p, c, f, d, NULL) /\ After(p, c, f, NULL, NULL)
      /\ open_cnt' = open_cnt /\ Losing(d)
      => Balanced(p)
  BY <1>0 DEF Balanced, Opens, Before, After, Losing
<1>5. /\ Before(p, c, NULL, d, NULL) /\ After(p, c, d, NULL, NULL)
      /\ open_cnt' = open_cnt /\ lost' = lost
      => Balanced(p)
  BY <1>0 DEF Balanced, Opens, Before, After
<1>6. /\ Before(p, c, NULL, d, NULL) /\ After(p, c, a, NULL, NULL)
      /\ Exchanging(a, d) /\ lost' = lost
      => Balanced(p)
  BY <1>0 DEF Balanced, Opens, Before, After, Exchanging
<1>7. /\ Before(p, c, f, d, NULL) /\ After(p, d, f, NULL, NULL)
      /\ open_cnt' = open_cnt /\ Losing(c)
      => Balanced(p)
  BY <1>0 DEF Balanced, Opens, Before, After, Losing
<1>8. /\ Before(p, c, f, d, NULL) /\ After(p, c, f, NULL, NULL)
      /\ Closing(d) /\ lost' = lost
      => Balanced(p)
  BY <1>0 DEF Balanced, Opens, Before, After, Closing
<1>9. /\ Before(p, c, f, d, NULL) /\ After(p, a, f, NULL, NULL)
      /\ OpeningClosingBoth(a, d, c) /\ lost' = lost
      => Balanced(p)
  BY <1>0 DEF Balanced, Opens, Before, After, OpeningClosingBoth
<1>10. /\ Before(p, c, f, d, i) /\ After(p, c, f, d, i)
      /\ open_cnt' = open_cnt /\ lost' = lost
      => Balanced(p)
  BY <1>0 DEF Balanced, Opens, Before, After
<1>11. /\ Before(p, c, f, d, NULL) /\ After(p, c, f, d, a)
      /\ Opening(a) /\ lost' = lost
      => Balanced(p)
  BY <1>0 DEF Balanced, Opens, Before, After, Opening
<1>12. /\ Before(p, c, f, d, i) /\ After(p, c, f, NULL, NULL)
      /\ ClosingBoth(i, d) /\ lost' = lost
      => Balanced(p)
  BY <1>0 DEF Balanced, Opens, Before, After, ClosingBoth
<1>13. /\ Before(p, c, f, NULL, NULL) /\ After(p, c, NULL, NULL, NULL)
      /\ Closing(f) /\ lost' = lost
      => Balanced(p)
  BY <1>0 DEF Balanced, Opens, Before, After, Closing
<1>14. /\ Before(p, c, f, NULL, NULL) /\ After(p, NULL, NULL, NULL, NULL)
      /\ ClosingBoth(f, c) /\ lost' = lost
      => Balanced(p)
  BY <1>0 DEF Balanced, Opens, Before, After, ClosingBoth
<1> QED
  BY <1>1, <1>2, <1>3, <1>4, <1>5, <1>6, <1>7, <1>8, <1>9, <1>10, <1>11, <1>12, <1>13, <1>14

\* A variable that stays is one set to what it was.
LEMMA SameIs ==
  ASSUME NEW p \in Process, Known(p)
  PROVE  /\ cwd' = cwd => cwd' = [cwd EXCEPT ![p] = cwd[p]]
         /\ fd' = fd => fd' = [fd EXCEPT ![p] = fd[p]]
         /\ call' = call => call' = [call EXCEPT ![p] = call[p]]
         /\ pc' = pc => pc' = [pc EXCEPT ![p] = pc[p]]
<1>1. SlotType /\ OtherType
  BY KnownIs
<1> QED
  BY <1>1 DEF SlotType, CallType, OtherType

\* The types of what stays.
LEMMA RestSame ==
  ASSUME NEW p \in Process, Known(p)
  PROVE  /\ UNCHANGED <<inode, locked, lost, panicked>> => RestType'
         /\ UNCHANGED References => open_cnt' = open_cnt /\ CountType'
<1>1. OtherType /\ CountType
  BY KnownIs
<1> QED
  BY <1>1 DEF OtherType, RestType, CountType, References

\* A walk begins at the root or at the directory of the process.
LEMMA BeginKeeps ==
  ASSUME NEW p \in Process, Known(p), Begin(p)
  PROVE  Keeps(p)
<1>1. PICK a \in {ROOT_DIR_SECTOR, cwd[p]} :
        call' = [call EXCEPT ![p].dir = a] /\ Count(<<a>>, <<>>, {}, {})
  BY DEF Begin
<1>2. pc[p] = "idle" /\ pc' = [pc EXCEPT ![p] = "walk"]
      /\ UNCHANGED <<inode, locked, cwd, fd, lost, panicked>>
  BY DEF Begin
<1>3. PICK c, f, k : c = cwd[p] /\ f = fd[p] /\ k = [call[p] EXCEPT !.dir = a]
  OBVIOUS
<1>4. Before(p, c, f, NULL, NULL) /\ a \in Sector /\ c \in Sector /\ f \in Sector \cup {NULL}
      /\ call[p] \in Call
  BY <1>2, <1>3, CallOf, NullNotSector DEF Before, Call
<1>5. Turn(p, k, "walk", c, f)
  <2>1. cwd' = [cwd EXCEPT ![p] = c] /\ fd' = [fd EXCEPT ![p] = f]
    BY <1>2, <1>3, SameIs
  <2>2. k \in Call /\ k.dir = a /\ call' = [call EXCEPT ![p] = k]
    BY <1>1, <1>3, <1>4 DEF Call
  <2> QED
    BY <1>2, <1>4, <2>1, <2>2 DEF Turn, CallRight, State
<1>6. After(p, c, f, a, NULL)
  <2>1. k.dir = a
    BY <1>3, <1>4 DEF Call
  <2> QED
    BY <2>1, <1>5, TurnPlain
<1>7. Opening(a) /\ CountType' /\ TypeOK /\ CountsOf
  BY <1>1, CountIs, KnownIs
<1>8. Balanced(p)
  BY <1>2, <1>4, <1>6, <1>7, BalancedBy
<1>9. RestType'
  BY <1>2, RestSame
<1> QED
  BY <1>5, <1>7, <1>8, <1>9, KeepsBy

\* A walk goes on to an inode, or passes it over.
LEMMA EnterKeeps ==
  ASSUME NEW p \in Process, Known(p), pc[p] = "walk", NEW a \in Sector, Enter(p, a),
         UNCHANGED <<inode, locked, cwd, fd, panicked>>
  PROVE  Keeps(p)
<1>2. pc' = pc /\ lost' = lost /\ call' = [call EXCEPT ![p].dir = IF inode[a].isdir THEN a ELSE @]
  BY DEF Enter
<1>3. PICK c, f, d, k : c = cwd[p] /\ f = fd[p] /\ d = Dir(p)
                    /\ k = [call[p] EXCEPT !.dir = IF inode[a].isdir THEN a ELSE d]
  OBVIOUS
<1>4. Before(p, c, f, d, NULL) /\ d \in Sector /\ c \in Sector /\ f \in Sector \cup {NULL}
      /\ call[p] \in Call
  BY <1>3, CallOf, NullNotSector DEF Before, Call
<1>5. Turn(p, k, "walk", c, f)
  <2>1. cwd' = [cwd EXCEPT ![p] = c] /\ fd' = [fd EXCEPT ![p] = f] /\ pc' = [pc EXCEPT ![p] = "walk"]
    BY <1>2, <1>3, SameIs
  <2>2. k \in Call /\ k.dir \in Sector /\ call' = [call EXCEPT ![p] = k]
    BY <1>2, <1>3, <1>4 DEF Call, Dir
  <2> QED
    BY <1>2, <1>4, <2>1, <2>2 DEF Turn, CallRight, State
<1>6. After(p, c, f, IF inode[a].isdir THEN a ELSE d, NULL)
  <2>1. k.dir = IF inode[a].isdir THEN a ELSE d
    BY <1>3, <1>4 DEF Call
  <2> QED
    BY <2>1, <1>5, TurnAfter
<1>7. TypeOK /\ CountsOf
  BY KnownIs
<1>9. RestType'
  BY <1>2, RestSame
<1>10. CASE inode[a].isdir
  <2>1. Count(<<a>>, <<d>>, {}, {})
    BY <1>10, <1>3 DEF Enter
  <2>2. Exchanging(a, d) /\ CountType'
    BY <2>1, <1>7, CountIs
  <2>3. After(p, c, f, a, NULL)
    BY <1>6, <1>10
  <2>4. Balanced(p)
    BY <1>2, <1>4, <1>7, <2>2, <2>3, BalancedBy
  <2> QED
    BY <1>5, <1>9, <2>2, <2>4, KeepsBy
<1>11. CASE ~inode[a].isdir
  <2>1. Count(<<a>>, <<a>>, {}, {})
    BY <1>11, <1>3 DEF Enter
  <2>2. Exchanging(a, a) /\ CountType'
    BY <2>1, <1>7, CountIs
  <2>3. After(p, c, f, d, NULL)
    BY <1>6, <1>11
  <2>4. Balanced(p)
    BY <1>2, <1>4, <1>7, <2>2, <2>3, BalancedBy
  <2> QED
    BY <1>5, <1>9, <2>2, <2>4, KeepsBy
<1> QED
  BY <1>10, <1>11

\* A lost pointer loses one open.
LEMMA LosingIs ==
  ASSUME NEW p \in Process, Known(p), NEW a \in Sector, Lose(a)
  PROVE  Losing(a) /\ lost' \in [Sector -> Nat]
<1>1. OtherType
  BY KnownIs
<1> QED
  <2>1. lost' = [lost EXCEPT ![a] = @ + 1]
    BY DEF Lose
  <2>2. lost \in [Sector -> Nat]
    BY <1>1 DEF OtherType
  <2>3. \A s \in Sector : lost'[s] = IF s = a THEN lost[s] + 1 ELSE lost[s]
    BY <2>1, <2>2
  <2>4. \A s \in Sector : lost[s] \in Nat
    BY <2>2
  <2>5. \A s \in Sector : lost'[s] = lost[s] + One(a, s) /\ lost'[s] \in Nat
    BY <2>3, <2>4 DEF One
  <2> QED
    BY <2>1, <2>2, <2>5 DEF Losing

\* p's call returns, with directory c and file f.
LEMMA ReturnIs ==
  ASSUME NEW p \in Process, Known(p), Return(p), NEW c \in Sector,
         NEW f \in Sector \cup {NULL},
         cwd' = [cwd EXCEPT ![p] = c], fd' = [fd EXCEPT ![p] = f]
  PROVE  Turn(p, NoCall, "idle", c, f) /\ After(p, c, f, NULL, NULL)
<1>1. Turn(p, NoCall, "idle", c, f)
  BY NoCallIs DEF Turn, Return, CallRight, State
<1> QED
  BY <1>1, TurnAfter, NoCallIs

\* A walk that fails loses its directory.
LEMMA NotFoundKeeps ==
  ASSUME NEW p \in Process, Known(p), pc[p] = "walk", NotFound(p),
         UNCHANGED <<inode, locked, cwd, fd, panicked>>
  PROVE  Keeps(p)
<1>3. PICK c, f, d : c = cwd[p] /\ f = fd[p] /\ d = Dir(p)
  OBVIOUS
<1>4. Before(p, c, f, d, NULL) /\ d \in Sector /\ c \in Sector /\ f \in Sector \cup {NULL}
  BY <1>3, CallOf DEF Before
<1>5. Turn(p, NoCall, "idle", c, f) /\ After(p, c, f, NULL, NULL)
  BY <1>3, <1>4, SameIs, ReturnIs DEF NotFound
<1>6. Losing(d) /\ lost' \in [Sector -> Nat]
  BY <1>3, <1>4, LosingIs DEF NotFound
<1>7. TypeOK /\ CountsOf /\ open_cnt' = open_cnt /\ CountType' /\ OtherType
  BY KnownIs, RestSame DEF NotFound
<1>8. Balanced(p)
  BY <1>4, <1>5, <1>6, <1>7, BalancedBy
<1>9. RestType'
  BY <1>6, <1>7 DEF OtherType, RestType
<1> QED
  BY <1>5, <1>7, <1>8, <1>9, KeepsBy

\* What a search of a directory finds.
LEMMA LookupType ==
  ASSUME NEW p \in Process, Known(p), NEW d \in Sector, NEW n
  PROVE  lookup(d, n) \in Sector \cup {NULL} /\ inode[d].parent \in Sector
         /\ (lookup(d, n) # NULL => n \in Name)
<1>1. PICK N : N = inode[d]
  OBVIOUS
<1>2. N \in [isdir : BOOLEAN, parent : Sector, entry : [Name -> Sector \cup {NULL}]]
  BY <1>1, KnownIs DEF OtherType
<1>3. n \in Name => N.entry[n] \in Sector \cup {NULL}
  BY <1>2
<1>4. lookup(d, n) = IF n \in Name THEN N.entry[n] ELSE NULL
  BY <1>1 DEF lookup
<1>5. N.parent \in Sector
  BY <1>2
<1> QED
  BY <1>1, <1>3, <1>4, <1>5

\* Any token of a walk.
LEMMA WalkKeeps ==
  ASSUME NEW p \in Process, Known(p), NEW n \in Token, Walk(p, n)
  PROVE  Keeps(p)
<1>1. pc[p] = "walk" /\ UNCHANGED <<inode, locked, cwd, fd, panicked>>
  BY DEF Walk
<1>2. Dir(p) \in Sector
  BY <1>1, CallOf
<1>3. PICK d : d = Dir(p)
  OBVIOUS
<1>4. lookup(d, n) \in Sector \cup {NULL} /\ inode[d].parent \in Sector
  BY <1>2, <1>3, LookupType
<1>5. \/ Enter(p, inode[d].parent)
      \/ lookup(d, n) # NULL /\ Enter(p, lookup(d, n))
      \/ NotFound(p)
  BY <1>3 DEF Walk
<1> QED
  BY <1>1, <1>4, <1>5, EnterKeeps, NotFoundKeeps

\* What a name can stand for.
LEMMA TargetType ==
  ASSUME NEW p \in Process, Known(p), pc[p] = "walk", NEW n
  PROVE  Target(p, n) \in Sector \cup {NULL}
<1>1. Dir(p) \in Sector
  BY CallOf
<1>2. PICK d : d = Dir(p)
  OBVIOUS
<1>3. lookup(d, n) \in Sector \cup {NULL} /\ inode[d].parent \in Sector
  BY <1>1, <1>2, LookupType
<1> QED
  BY <1>2, <1>3 DEF Target

\* filesys_open() hands on the open it makes.
LEMMA OpenKeeps ==
  ASSUME NEW p \in Process, Known(p), NEW n \in FileName, Open(p, n)
  PROVE  Keeps(p)
<1>2. pc[p] = "walk" /\ fd[p] = NULL /\ Return(p) /\ UNCHANGED <<inode, locked, cwd, lost, panicked>>
  BY DEF Open, AtEnd
<1>3. PICK c, d, t : c = cwd[p] /\ d = Dir(p) /\ t = Target(p, n)
  OBVIOUS
<1>4. Before(p, c, NULL, d, NULL) /\ d \in Sector /\ c \in Sector /\ t \in Sector \cup {NULL}
  BY <1>2, <1>3, CallOf, TargetType DEF Before
<1>5. cwd' = [cwd EXCEPT ![p] = c]
  BY <1>2, <1>3, SameIs
<1>7. TypeOK /\ CountsOf
  BY KnownIs
<1>9. RestType'
  BY <1>2, RestSame
<1>10. CASE fd' = [fd EXCEPT ![p] = d] /\ UNCHANGED References
  <2>1. Turn(p, NoCall, "idle", c, d) /\ After(p, c, d, NULL, NULL)
    BY <1>2, <1>4, <1>5, <1>10, ReturnIs
  <2>2. open_cnt' = open_cnt /\ CountType'
    BY <1>10, RestSame
  <2>3. Balanced(p)
    BY <1>2, <1>4, <1>7, <2>1, <2>2, BalancedBy
  <2> QED
    BY <1>9, <2>1, <2>2, <2>3, KeepsBy
<1>11. CASE fd' = [fd EXCEPT ![p] = t] /\ Count(<<t>>, <<d>>, {}, {})
  <2>1. Turn(p, NoCall, "idle", c, t) /\ After(p, c, t, NULL, NULL)
    BY <1>2, <1>4, <1>5, <1>11, ReturnIs
  <2>2. Exchanging(t, d) /\ CountType'
    BY <1>7, <1>11, CountIs
  <2>3. Balanced(p)
    BY <1>2, <1>4, <1>7, <2>1, <2>2, BalancedBy
  <2> QED
    BY <1>9, <2>1, <2>2, <2>3, KeepsBy
<1> QED
  BY <1>3, <1>10, <1>11 DEF Open

\* filesys_chdir() closes or loses the old directory.
LEMMA ChdirKeeps ==
  ASSUME NEW p \in Process, Known(p), NEW n \in FileName, Chdir(p, n)
  PROVE  Keeps(p)
<1>2. pc[p] = "walk" /\ Return(p) /\ UNCHANGED <<inode, locked, fd, panicked>>
  BY DEF Chdir, AtEnd
<1>3. PICK c, f, d, t : c = cwd[p] /\ f = fd[p] /\ d = Dir(p) /\ t = Target(p, n)
  OBVIOUS
<1>4. Before(p, c, f, d, NULL) /\ d \in Sector /\ c \in Sector /\ t \in Sector \cup {NULL}
      /\ f \in Sector \cup {NULL}
  BY <1>2, <1>3, CallOf, TargetType DEF Before
<1>5. fd' = [fd EXCEPT ![p] = f]
  BY <1>2, <1>3, SameIs
<1>7. TypeOK /\ CountsOf /\ OtherType
  BY KnownIs
<1>10. CASE cwd' = [cwd EXCEPT ![p] = d] /\ Lose(c) /\ UNCHANGED References
  <2>1. Turn(p, NoCall, "idle", d, f) /\ After(p, d, f, NULL, NULL)
    BY <1>2, <1>4, <1>5, <1>10, ReturnIs
  <2>2. open_cnt' = open_cnt /\ CountType'
    BY <1>10, RestSame
  <2>3. Losing(c) /\ lost' \in [Sector -> Nat]
    BY <1>4, <1>10, LosingIs
  <2>4. Balanced(p)
    BY <1>4, <1>7, <2>1, <2>2, <2>3, BalancedBy
  <2>5. RestType'
    BY <1>2, <1>7, <2>3 DEF OtherType, RestType
  <2> QED
    BY <2>5, <2>1, <2>2, <2>4, KeepsBy
<1>11. CASE t = NULL /\ UNCHANGED <<cwd, lost>> /\ Count(<<>>, <<d>>, {}, {})
  <2>1. cwd' = [cwd EXCEPT ![p] = c]
    BY <1>3, <1>11, SameIs
  <2>2. Turn(p, NoCall, "idle", c, f) /\ After(p, c, f, NULL, NULL)
    BY <1>2, <1>4, <1>5, <2>1, ReturnIs
  <2>3. Closing(d) /\ CountType'
    BY <1>7, <1>11, CountIs
  <2>4. Balanced(p)
    BY <1>4, <1>7, <1>11, <2>2, <2>3, BalancedBy
  <2>5. RestType'
    BY <1>2, <1>11, RestSame
  <2> QED
    BY <2>5, <2>2, <2>3, <2>4, KeepsBy
<1>12. CASE t # NULL /\ cwd' = [cwd EXCEPT ![p] = t] /\ UNCHANGED lost /\ Count(<<t>>, <<d, c>>, {}, {})
  <2>1. Turn(p, NoCall, "idle", t, f) /\ After(p, t, f, NULL, NULL)
    BY <1>2, <1>4, <1>5, <1>12, ReturnIs
  <2>3. OpeningClosingBoth(t, d, c) /\ CountType'
    BY <1>7, <1>12, CountIs
  <2>4. Balanced(p)
    BY <1>4, <1>7, <1>12, <2>1, <2>3, BalancedBy
  <2>5. RestType'
    BY <1>2, <1>12, RestSame
  <2> QED
    BY <2>5, <2>1, <2>3, <2>4, KeepsBy
<1> QED
  BY <1>3, <1>10, <1>11, <1>12 DEF Chdir

\* A step that only closes the directory of p's call, and returns.
LEMMA ClosesKeeps ==
  ASSUME NEW p \in Process, Known(p), pc[p] \in {"walk", "add"}, Return(p), NEW u,
         Count(<<>>, <<Dir(p)>>, {}, u), UNCHANGED <<cwd, fd, lost>>, RestType'
  PROVE  Keeps(p)
<1>3. PICK c, f, d : c = cwd[p] /\ f = fd[p] /\ d = Dir(p)
  OBVIOUS
<1>4. Before(p, c, f, d, NULL) /\ d \in Sector /\ c \in Sector /\ f \in Sector \cup {NULL}
  BY <1>3, CallOf DEF Before
<1>5. Turn(p, NoCall, "idle", c, f) /\ After(p, c, f, NULL, NULL)
  BY <1>3, <1>4, SameIs, ReturnIs
<1>7. TypeOK /\ CountsOf
  BY KnownIs
<1>8. Closing(d) /\ CountType'
  <2>1. Count(<<>>, <<d>>, {}, u) /\ {} \in SUBSET Sector
    BY <1>3
  <2> QED
    BY <1>7, <2>1, CountIs
<1>9. Balanced(p)
  BY <1>4, <1>5, <1>7, <1>8, BalancedBy
<1> QED
  BY <1>5, <1>8, <1>9, KeepsBy

\* The free map has a first free sector, when it has one.
LEMMA FreeSector ==
  ASSUME Sector \ allocated # {}
  PROVE  \E x \in Sector \ allocated : \A y \in Sector \ allocated : x =< y
<1>1. PICK S : S = Sector \ allocated
  OBVIOUS
<1>2. S \subseteq Nat /\ S # {}
  <2>1. MaxSector \in Nat /\ Sector = 1..MaxSector
    BY NamespaceAssumption DEF Sector, ROOT_DIR_SECTOR
  <2> QED
    BY <1>1, <2>1
<1>3. \E x \in S : \A y \in S : <<y, x>> \notin OpToRel(<, Nat)
  BY <1>2, NatLessThanWellFounded, WFMin, Zenon
<1>4. PICK x \in S : \A y \in S : <<y, x>> \notin OpToRel(<, Nat)
  BY <1>3
<1>5. \A y \in S : x =< y
  <2> TAKE y \in S
  <2>1. x \in Nat /\ y \in Nat
    BY <1>2
  <2>2. ~(y < x)
    BY <1>4, <2>1 DEF OpToRel
  <2> QED
    BY <2>1, <2>2
<1> QED
  BY <1>1, <1>5

\* filesys_create() takes a free sector s.
Takes(p, n, isdir, s) ==
  /\ s \in Sector \ allocated /\ n \notin {".", ".."}
  /\ allocated' = allocated \cup {s} /\ inode' = [inode EXCEPT ![s] = NewInode(isdir)]
  /\ call' = [call EXCEPT ![p].name = n, ![p].inode = s] /\ pc' = [pc EXCEPT ![p] = "add"]
  /\ UNCHANGED <<open_cnt, removed>>

\* filesys_create() fails, or takes that sector.
LEMMA CreateIs ==
  ASSUME NEW p \in Process, NEW n \in FileName, NEW isdir \in BOOLEAN, Create(p, n, isdir)
  PROVE  \/ Count(<<>>, <<Dir(p)>>, {}, {}) /\ Return(p) /\ UNCHANGED inode
         \/ \E s : Takes(p, n, isdir, s)
<1>1. CASE n \in {".", ".."} \/ Sector \ allocated = {}
  BY <1>1 DEF Create
<1>2. CASE ~(n \in {".", ".."} \/ Sector \ allocated = {})
  <2>1. PICK s : s = CHOOSE x \in Sector \ allocated : \A y \in Sector \ allocated : x =< y
    OBVIOUS
  <2>2. s \in Sector \ allocated
    BY <1>2, <2>1, FreeSector
  <2>3. Takes(p, n, isdir, s)
    BY <1>2, <2>1, <2>2 DEF Create, Takes
  <2> QED
    BY <2>3
<1> QED
  BY <1>1, <1>2

\* filesys_create() up to dir_add().
LEMMA CreateKeeps ==
  ASSUME NEW p \in Process, Known(p), NEW n \in FileName, NEW isdir \in BOOLEAN, Create(p, n, isdir)
  PROVE  Keeps(p)
<1>2. pc[p] = "walk" /\ UNCHANGED <<locked, cwd, fd, lost, panicked>>
  BY DEF Create, AtEnd
<1>7. TypeOK /\ CountsOf /\ OtherType /\ CountType
  BY KnownIs
<1>10. CASE Count(<<>>, <<Dir(p)>>, {}, {}) /\ Return(p) /\ UNCHANGED inode
  <2>1. RestType'
    BY <1>2, <1>10, RestSame
  <2> QED
    BY <1>2, <1>10, <2>1, ClosesKeeps
<1>11. ASSUME NEW s, Takes(p, n, isdir, s)
       PROVE  Keeps(p)
  <2>3. PICK c, f, d, k : c = cwd[p] /\ f = fd[p] /\ d = Dir(p)
                          /\ k = [call[p] EXCEPT !.name = n, !.inode = s]
    OBVIOUS
  <2>4. Before(p, c, f, d, NULL) /\ d \in Sector /\ c \in Sector /\ f \in Sector \cup {NULL}
        /\ call[p] \in Call
    BY <1>2, <2>3, CallOf DEF Before, Call
  <2>5. s \in Sector /\ n \in Name \cup {""}
    BY <1>11 DEF Takes, FileName, Token
  <2>6. k \in Call /\ k.dir = d /\ k.inode = s /\ k.name = n /\ call' = [call EXCEPT ![p] = k]
    BY <1>11, <2>3, <2>4, <2>5 DEF Call, Takes, Dir
  <2>7. Turn(p, k, "add", c, f)
    <3>1. cwd' = [cwd EXCEPT ![p] = c] /\ fd' = [fd EXCEPT ![p] = f]
      BY <1>2, <2>3, SameIs
    <3>2. pc' = [pc EXCEPT ![p] = "add"]
      BY <1>11 DEF Takes
    <3> QED
      BY <2>4, <2>5, <2>6, <3>1, <3>2 DEF Turn, CallRight, State
  <2>8. After(p, c, f, d, NULL)
    BY <2>6, <2>7, TurnPlain
  <2>9. open_cnt' = open_cnt /\ CountType'
    BY <1>7, <1>11, <2>5 DEF Takes, CountType
  <2>10. RestType'
    <3>1. NewInode(isdir) \in [isdir : BOOLEAN, parent : Sector, entry : [Name -> Sector \cup {NULL}]]
      BY NullNotSector DEF NewInode
    <3> QED
      BY <1>2, <1>7, <1>11, <3>1 DEF Takes, OtherType, RestType
  <2>11. Balanced(p)
    BY <1>2, <1>7, <2>4, <2>8, <2>9, BalancedBy
  <2> QED
    BY <2>7, <2>9, <2>10, <2>11, KeepsBy
<1> QED
  BY <1>10, <1>11, CreateIs

\* The directory's entry n is to be x, and x's parent the directory.
LEMMA EntryType ==
  ASSUME NEW p \in Process, Known(p), NEW d \in Sector, NEW n \in Name, NEW x \in Sector
  PROVE  /\ inode' = [inode EXCEPT ![d].entry[n] = x, ![x].parent = d] =>
              inode' \in [Sector -> [isdir : BOOLEAN, parent : Sector,
                                     entry : [Name -> Sector \cup {NULL}]]]
         /\ inode' = [inode EXCEPT ![d].entry[n] = NULL] =>
              inode' \in [Sector -> [isdir : BOOLEAN, parent : Sector,
                                     entry : [Name -> Sector \cup {NULL}]]]
<1>0. PICK E : E = [Name -> Sector \cup {NULL}]
  OBVIOUS
<1>1. PICK R : R = [isdir : BOOLEAN, parent : Sector, entry : E]
  OBVIOUS
<1>2. inode \in [Sector -> R]
  BY <1>0, <1>1, KnownIs DEF OtherType
<1>3. inode[d] \in R
  BY <1>2
<1>4. \A v \in Sector \cup {NULL} : [inode[d] EXCEPT !.entry[n] = v] \in R
  <2> TAKE v \in Sector \cup {NULL}
  <2>1. inode[d].entry \in E
    BY <1>1, <1>3
  <2>2. [inode[d].entry EXCEPT ![n] = v] \in E
    BY <1>0, <2>1
  <2> QED
    BY <1>1, <1>3, <2>2
<1>5. \A F \in [Sector -> R], v \in Sector \cup {NULL} :
        F[d] = inode[d] => [F EXCEPT ![d].entry[n] = v] \in [Sector -> R]
  BY <1>4
<1>6. \A F \in [Sector -> R] : [F EXCEPT ![x].parent = d] \in [Sector -> R]
  <2> TAKE F \in [Sector -> R]
  <2>1. [F[x] EXCEPT !.parent = d] \in R
    BY <1>1
  <2> QED
    BY <2>1
<1>7. PICK G : G = [inode EXCEPT ![d].entry[n] = x]
  OBVIOUS
<1>8. G \in [Sector -> R] /\ [G EXCEPT ![x].parent = d] \in [Sector -> R]
  BY <1>2, <1>5, <1>6, <1>7
<1>9. [inode EXCEPT ![d].entry[n] = NULL] \in [Sector -> R]
  BY <1>2, <1>5
<1> QED
  BY <1>0, <1>1, <1>7, <1>8, <1>9

\* dir_add()
LEMMA AddKeeps ==
  ASSUME NEW p \in Process, Known(p), dir_add(p)
  PROVE  Keeps(p)
<1>2. pc[p] = "add" /\ UNCHANGED <<locked, cwd, fd, lost>>
  BY DEF dir_add
<1>7. TypeOK /\ CountsOf /\ OtherType /\ Calling(p)
  BY KnownIs
<1>3. PICK c, f, d, n, x : c = cwd[p] /\ f = fd[p] /\ d = Dir(p)
                           /\ n = call[p].name /\ x = call[p].inode
  OBVIOUS
<1>4. Before(p, c, f, d, NULL) /\ d \in Sector /\ c \in Sector /\ f \in Sector \cup {NULL}
      /\ call[p] \in Call
  BY <1>2, <1>3, CallOf DEF Before, Call
<1>5. x \in Sector /\ n \in Name \cup {""}
  BY <1>2, <1>3, <1>7 DEF Calling
<1>10. CASE /\ n = "" \/ lookup(d, n) # NULL
            /\ Count(<<>>, <<d>>, {}, {x}) /\ Return(p) /\ UNCHANGED <<inode, panicked>>
  <2>1. RestType'
    BY <1>2, <1>10, RestSame
  <2> QED
    BY <1>2, <1>3, <1>10, <2>1, ClosesKeeps
<1>11. CASE /\ n # "" /\ inode' = [inode EXCEPT ![d].entry[n] = x, ![x].parent = d]
            /\ Count(<<>>, <<d>>, {}, {}) /\ Return(p) /\ UNCHANGED panicked
  <2>1. n \in Name
    BY <1>5, <1>11
  <2>2. RestType'
    BY <1>2, <1>4, <1>5, <1>7, <1>11, <2>1, EntryType DEF OtherType, RestType
  <2> QED
    BY <1>2, <1>3, <1>11, <2>2, ClosesKeeps
<1>12. CASE panicked' = TRUE /\ UNCHANGED <<inode, References, pc, call>>
  <2>0. PICK k : k = call[p]
    OBVIOUS
  <2>1. cwd' = [cwd EXCEPT ![p] = c] /\ fd' = [fd EXCEPT ![p] = f]
        /\ call' = [call EXCEPT ![p] = k] /\ pc' = [pc EXCEPT ![p] = "add"]
    BY <1>2, <1>3, <1>12, <2>0, SameIs
  <2>2. k \in Call /\ k.dir = d /\ k.inode = x /\ k.name = n
    BY <1>3, <1>4, <2>0 DEF Dir
  <2>3. Turn(p, k, "add", c, f)
    BY <1>4, <1>5, <2>1, <2>2 DEF Turn, CallRight, State
  <2>4. After(p, c, f, d, NULL)
    BY <2>2, <2>3, TurnPlain
  <2>5. open_cnt' = open_cnt /\ CountType'
    BY <1>12, RestSame
  <2>6. Balanced(p)
    BY <1>2, <1>4, <1>7, <2>4, <2>5, BalancedBy
  <2>7. RestType'
    BY <1>2, <1>7, <1>12 DEF OtherType, RestType
  <2> QED
    BY <2>3, <2>5, <2>6, <2>7, KeepsBy
<1> QED
  BY <1>3, <1>10, <1>11, <1>12 DEF dir_add

\* The type of a lock that is taken or given back.
LEMMA LockedType ==
  ASSUME NEW p \in Process, Known(p), NEW d
  PROVE  /\ locked' = [locked EXCEPT ![d] = p] => locked' \in [Sector -> Process \cup {NULL}]
         /\ locked' = [locked EXCEPT ![d] = NULL] => locked' \in [Sector -> Process \cup {NULL}]
<1>1. OtherType
  BY KnownIs
<1> QED
  BY <1>1 DEF OtherType

\* What dir_remove() does when it finds what it may remove.
Finds(p, n, d, s) ==
  /\ s # NULL /\ (inode[s].isdir => ~(open_cnt[s] > 0))
  /\ Count(<<s>>, <<>>, {}, {}) /\ locked' = [locked EXCEPT ![d] = p]
  /\ call' = [call EXCEPT ![p].name = n, ![p].inode = s]
  /\ pc' = [pc EXCEPT ![p] = IF inode[s].isdir THEN "is empty" ELSE "erase"]

\* dir_remove() up to its tests.
LEMMA RemoveFindsKeeps ==
  ASSUME NEW p \in Process, Known(p), NEW n \in FileName, RemoveFinds(p, n)
  PROVE  Keeps(p)
<1>2. pc[p] = "walk" /\ UNCHANGED <<inode, cwd, fd, lost, panicked>>
  BY DEF RemoveFinds, AtEnd
<1>7. TypeOK /\ CountsOf /\ OtherType
  BY KnownIs
<1>3. PICK c, f, d, s : c = cwd[p] /\ f = fd[p] /\ d = Dir(p) /\ s = lookup(d, n)
  OBVIOUS
<1>4. Before(p, c, f, d, NULL) /\ d \in Sector /\ c \in Sector /\ f \in Sector \cup {NULL}
      /\ call[p] \in Call
  BY <1>2, <1>3, CallOf DEF Before, Call
<1>5. s \in Sector \cup {NULL} /\ (s # NULL => n \in Name)
  BY <1>3, <1>4, LookupType
<1>10. CASE Count(<<>>, <<d>>, {}, {}) /\ Return(p) /\ UNCHANGED locked
  <2>1. RestType'
    BY <1>2, <1>10, RestSame
  <2> QED
    BY <1>2, <1>3, <1>10, <2>1, ClosesKeeps
<1>11. CASE Finds(p, n, d, s)
  <2>1. s \in Sector /\ n \in Name
    BY <1>5, <1>11 DEF Finds
  <2>2. PICK k, v : k = [call[p] EXCEPT !.name = n, !.inode = s]
                    /\ v = IF inode[s].isdir THEN "is empty" ELSE "erase"
    OBVIOUS
  <2>3. k \in Call /\ k.dir = d /\ k.inode = s /\ k.name = n /\ call' = [call EXCEPT ![p] = k]
        /\ pc' = [pc EXCEPT ![p] = v]
    <3>1. n \in FileName \cup {NULL}
      OBVIOUS
    <3>2. k \in Call /\ k.dir = d /\ k.inode = s /\ k.name = n
      BY <1>3, <1>4, <2>1, <2>2, <3>1 DEF Call, Dir
    <3> QED
      BY <1>11, <2>2, <3>2 DEF Finds
  <2>4. v \in {"is empty", "erase"}
    BY <2>2
  <2>5. Turn(p, k, v, c, f)
    <3>1. cwd' = [cwd EXCEPT ![p] = c] /\ fd' = [fd EXCEPT ![p] = f]
      BY <1>2, <1>3, SameIs
    <3>2. v \in State /\ CallRight(k, v, c)
      BY <1>4, <2>1, <2>3, <2>4 DEF CallRight, State
    <3> QED
      BY <1>4, <2>3, <3>1, <3>2 DEF Turn
  <2>6. After(p, c, f, d, s)
    <3>1. After(p, c, f, k.dir, k.inode)
      BY <2>4, <2>5, TurnAfter
    <3> QED
      BY <3>1, <2>3
  <2>7. Opening(s) /\ CountType'
    BY <1>7, <1>11, CountIs DEF Finds
  <2>8. Balanced(p)
    BY <1>2, <1>4, <1>7, <2>6, <2>7, BalancedBy
  <2>9. RestType'
    BY <1>2, <1>7, <1>11, LockedType DEF Finds, OtherType, RestType
  <2> QED
    BY <2>5, <2>7, <2>8, <2>9, KeepsBy
<1> QED
  BY <1>3, <1>10, <1>11 DEF RemoveFinds, Finds

\* dir_remove() ends: what it had open is closed, and "marked" is removed.
LEMMA RemoveEnds ==
  ASSUME NEW p \in Process, Known(p), pc[p] \in {"is empty", "erase"}, Return(p),
         NEW m \in SUBSET Sector, Count(<<>>, <<call[p].inode, Dir(p)>>, m, {}),
         locked' = [locked EXCEPT ![Dir(p)] = NULL], UNCHANGED <<cwd, fd, lost, panicked>>,
         OtherType => inode' \in [Sector -> [isdir : BOOLEAN, parent : Sector,
                                             entry : [Name -> Sector \cup {NULL}]]]
  PROVE  Keeps(p)
<1>7. TypeOK /\ CountsOf /\ OtherType
  BY KnownIs
<1>3. PICK c, f, d, x : c = cwd[p] /\ f = fd[p] /\ d = Dir(p) /\ x = call[p].inode
  OBVIOUS
<1>4. Before(p, c, f, d, x) /\ d \in Sector /\ c \in Sector /\ f \in Sector \cup {NULL}
  BY <1>3, CallOf DEF Before
<1>5. Turn(p, NoCall, "idle", c, f) /\ After(p, c, f, NULL, NULL)
  BY <1>3, <1>4, SameIs, ReturnIs
<1>6. ClosingBoth(x, d) /\ CountType'
  <2>1. Count(<<>>, <<x, d>>, m, {})
    BY <1>3
  <2> QED
    BY <1>7, <2>1, CountIs
<1>8. Balanced(p)
  BY <1>4, <1>5, <1>6, <1>7, BalancedBy
<1>9. RestType'
  BY <1>7, LockedType DEF OtherType, RestType
<1> QED
  BY <1>5, <1>6, <1>8, <1>9, KeepsBy

\* dir_remove() looks for entries in the directory it is to remove.
LEMMA IsEmptyKeeps ==
  ASSUME NEW p \in Process, Known(p), dir_is_empty(p)
  PROVE  Keeps(p)
<1>2. pc[p] = "is empty" /\ UNCHANGED <<inode, cwd, fd, lost, panicked>>
  BY DEF dir_is_empty
<1>7. TypeOK /\ CountsOf /\ OtherType /\ Calling(p)
  BY KnownIs
<1>10. CASE /\ pc' = [pc EXCEPT ![p] = "erase"] /\ UNCHANGED <<References, locked, call>>
  <2>1. PICK c, f, d, x, k : c = cwd[p] /\ f = fd[p] /\ d = Dir(p) /\ x = call[p].inode
                             /\ k = call[p]
    OBVIOUS
  <2>2. Before(p, c, f, d, x) /\ d \in Sector /\ c \in Sector /\ f \in Sector \cup {NULL}
        /\ x \in Sector /\ k \in Call
    BY <1>2, <2>1, CallOf DEF Before, Call
  <2>3. cwd' = [cwd EXCEPT ![p] = c] /\ fd' = [fd EXCEPT ![p] = f] /\ call' = [call EXCEPT ![p] = k]
    BY <1>2, <1>10, <2>1, SameIs
  <2>4. k.dir = d /\ k.inode = x /\ k.name \in Name
    BY <1>2, <1>7, <2>1 DEF Dir, Calling
  <2>5. Turn(p, k, "erase", c, f)
    BY <1>10, <2>2, <2>3, <2>4 DEF Turn, CallRight, State
  <2>6. After(p, c, f, d, x)
    <3>1. "erase" \in {"is empty", "erase"}
      OBVIOUS
    <3>2. After(p, c, f, k.dir, k.inode)
      BY <3>1, <2>5, TurnAfter
    <3> QED
      BY <3>2, <2>4
  <2>7. open_cnt' = open_cnt /\ CountType'
    BY <1>10, RestSame
  <2>8. Balanced(p)
    BY <1>2, <1>7, <2>2, <2>6, <2>7, BalancedBy
  <2>9. RestType'
    BY <1>2, <1>10, RestSame
  <2> QED
    BY <2>5, <2>7, <2>8, <2>9, KeepsBy
<1>11. CASE /\ Count(<<>>, <<call[p].inode, Dir(p)>>, {}, {})
            /\ locked' = [locked EXCEPT ![Dir(p)] = NULL] /\ Return(p)
  <2>1. OtherType => inode' \in [Sector -> [isdir : BOOLEAN, parent : Sector,
                                            entry : [Name -> Sector \cup {NULL}]]]
    BY <1>2 DEF OtherType
  <2>2. {} \in SUBSET Sector /\ pc[p] \in {"is empty", "erase"}
    BY <1>2
  <2> QED
    BY <1>2, <1>11, <2>1, <2>2, RemoveEnds
<1> QED
  BY <1>10, <1>11 DEF dir_is_empty

\* dir_remove() erases the entry.
LEMMA EraseKeeps ==
  ASSUME NEW p \in Process, Known(p), Erase(p)
  PROVE  Keeps(p)
<1>1. pc[p] = "erase" /\ Return(p) /\ UNCHANGED <<cwd, fd, lost, panicked>>
      /\ Count(<<>>, <<call[p].inode, Dir(p)>>, {call[p].inode}, {})
      /\ locked' = [locked EXCEPT ![Dir(p)] = NULL]
  BY DEF Erase
<1>2. pc[p] \in {"is empty", "erase"}
  BY <1>1
<1>3. Calling(p)
  BY KnownIs
<1>4. PICK d, n, x : d = Dir(p) /\ n = call[p].name /\ x = call[p].inode
  OBVIOUS
<1>5. d \in Sector /\ n \in Name /\ x \in Sector
  BY <1>2, <1>3, <1>4 DEF Calling, Dir
<1>6. inode' \in [Sector -> [isdir : BOOLEAN, parent : Sector,
                             entry : [Name -> Sector \cup {NULL}]]]
  <2>1. inode' = [inode EXCEPT ![d].entry[n] = NULL]
    BY <1>4 DEF Erase
  <2> QED
    BY <1>5, <2>1, EntryType
<1>7. {call[p].inode} \in SUBSET Sector
  BY <1>4, <1>5
<1> QED
  BY <1>1, <1>2, <1>6, <1>7, RemoveEnds

\* close()
LEMMA CloseKeeps ==
  ASSUME NEW p \in Process, Known(p), Close(p)
  PROVE  Keeps(p)
<1>2. pc[p] = "idle" /\ fd' = [fd EXCEPT ![p] = NULL] /\ Count(<<>>, <<fd[p]>>, {}, {})
      /\ UNCHANGED <<inode, locked, cwd, pc, call, lost, panicked>>
  BY DEF Close
<1>3. PICK c, f, k : c = cwd[p] /\ f = fd[p] /\ k = call[p]
  OBVIOUS
<1>4. Before(p, c, f, NULL, NULL) /\ c \in Sector /\ f \in Sector \cup {NULL} /\ k \in Call
      /\ k.dir = NULL
  BY <1>2, <1>3, CallOf DEF Before, Call, Dir
<1>5. Turn(p, k, "idle", c, NULL)
  <2>1. cwd' = [cwd EXCEPT ![p] = c] /\ pc' = [pc EXCEPT ![p] = "idle"]
        /\ call' = [call EXCEPT ![p] = k]
    BY <1>2, <1>3, SameIs
  <2> QED
    BY <1>2, <1>4, <2>1 DEF Turn, CallRight, State
<1>6. After(p, c, NULL, NULL, NULL)
  BY <1>4, <1>5, TurnPlain
<1>7. TypeOK /\ CountsOf
  BY KnownIs
<1>8. Closing(f) /\ CountType'
  <2>1. Count(<<>>, <<f>>, {}, {})
    BY <1>2, <1>3
  <2> QED
    BY <1>7, <2>1, CountIs
<1>9. Balanced(p)
  BY <1>2, <1>4, <1>6, <1>7, <1>8, BalancedBy
<1>10. RestType'
  BY <1>2, RestSame
<1> QED
  BY <1>5, <1>8, <1>9, <1>10, KeepsBy

\* process_exit() closes what is open.
LEMMA ExitKeeps ==
  ASSUME NEW p \in Process, Known(p), Exit(p)
  PROVE  Keeps(p)
<1>2. pc[p] = "idle" /\ pc' = [pc EXCEPT ![p] = "exited"] /\ fd' = [fd EXCEPT ![p] = NULL]
      /\ cwd' = [cwd EXCEPT ![p] = NULL] /\ Count(<<>>, <<fd[p], cwd[p]>>, {}, {})
      /\ UNCHANGED <<inode, locked, call, lost, panicked>>
  BY DEF Exit
<1>3. PICK c, f, k : c = cwd[p] /\ f = fd[p] /\ k = call[p]
  OBVIOUS
<1>4. Before(p, c, f, NULL, NULL) /\ c \in Sector /\ f \in Sector \cup {NULL} /\ k \in Call
      /\ k.dir = NULL
  BY <1>2, <1>3, CallOf DEF Before, Call, Dir
<1>5. Turn(p, k, "exited", NULL, NULL)
  <2>1. call' = [call EXCEPT ![p] = k]
    BY <1>2, <1>3, SameIs
  <2> QED
    BY <1>2, <1>4, <2>1 DEF Turn, CallRight, State
<1>6. After(p, NULL, NULL, NULL, NULL)
  BY <1>4, <1>5, TurnPlain
<1>7. TypeOK /\ CountsOf
  BY KnownIs
<1>8. ClosingBoth(f, c) /\ CountType'
  <2>1. Count(<<>>, <<f, c>>, {}, {})
    BY <1>2, <1>3
  <2> QED
    BY <1>7, <2>1, CountIs
<1>9. Balanced(p)
  BY <1>2, <1>4, <1>6, <1>7, <1>8, BalancedBy
<1>10. RestType'
  BY <1>2, RestSame
<1> QED
  BY <1>5, <1>8, <1>9, <1>10, KeepsBy

\* Every step of a process keeps the counts.
LEMMA StepKeeps ==
  ASSUME NEW p \in Process, Known(p), Step(p)
  PROVE  Keeps(p)
<1>1. CASE Begin(p)
  BY <1>1, BeginKeeps
<1>2. CASE \E token \in Token : Walk(p, token)
  BY <1>2, WalkKeeps
<1>3. CASE \E name \in FileName : \/ Open(p, name) \/ Chdir(p, name) \/ RemoveFinds(p, name)
                                  \/ \E isdir \in BOOLEAN : Create(p, name, isdir)
  BY <1>3, OpenKeeps, ChdirKeeps, RemoveFindsKeeps, CreateKeeps
<1>4. CASE dir_add(p)
  BY <1>4, AddKeeps
<1>5. CASE dir_is_empty(p)
  BY <1>5, IsEmptyKeeps
<1>6. CASE Erase(p)
  BY <1>6, EraseKeeps
<1>7. CASE Close(p)
  BY <1>7, CloseKeeps
<1>8. CASE Exit(p)
  BY <1>8, ExitKeeps
<1> QED
  BY <1>1, <1>2, <1>3, <1>4, <1>5, <1>6, <1>7, <1>8 DEF Step

\* The invariant of the counts.
CountInv == TypeOK /\ CallType /\ (\A p \in Process : Calling(p)) /\ OpenCount

\* A step of a process keeps it ...
LEMMA CountStep ==
  ASSUME CountInv, NEW p \in Process, Step(p), strayed' \in BOOLEAN
  PROVE  CountInv'
<1>1. Known(p) /\ Keeps(p)
  <2>1. Known(p)
    BY DEF CountInv, Known
  <2> QED
    BY <2>1, StepKeeps
<1>2. TypeOK /\ OpenCount /\ SlotType
  BY <1>1, KnownIs DEF CountInv
<1>3. OpenCount' /\ open_cnt' \in [Sector -> Nat]
  BY <1>1, <1>2, BalancedKeeps DEF Keeps, OtherType, CountType
<1>4. TypeOK'
  <2>1. \A q \in Process : call'[q].dir \in Sector \cup {NULL} /\ call'[q].inode \in Sector \cup {NULL}
                           /\ call'[q].name \in FileName \cup {NULL}
    BY <1>1 DEF Keeps, SlotType, CallType
  <2>2. cwd' \in [Process -> Sector \cup {NULL}] /\ fd' \in [Process -> Sector \cup {NULL}]
    BY <1>1 DEF Keeps, SlotType
  <2> QED
    BY <1>1, <1>3, <2>1, <2>2 DEF TypeOK, Keeps, OtherType, CountType
<1>5. \A q \in Process : Calling(q)'
  <2> TAKE q \in Process
  <2>1. CASE q = p
    BY <1>1, <2>1 DEF Keeps
  <2>2. CASE q # p
    BY <1>1, <2>2 DEF Keeps, Others, Calling, CountInv
  <2> QED
    BY <2>1, <2>2
<1> QED
  BY <1>1, <1>3, <1>4, <1>5 DEF CountInv, Keeps, SlotType

\* ... it holds in the initial states ...
LEMMA CountInit ==
  ASSUME Init
  PROVE  CountInv
<1>1. /\ cwd = [p \in Process |-> ROOT_DIR_SECTOR] /\ fd = [p \in Process |-> NULL]
      /\ pc = [p \in Process |-> "idle"] /\ call = [p \in Process |-> NoCall]
  BY DEF Init
<1>2. ROOT_DIR_SECTOR \in Sector /\ NULL \notin Sector
  BY NullNotSector
<1>3. IsFiniteSet(Process) /\ Cardinality(Process) \in Nat
  BY NamespaceAssumption, FS_CardinalityType
<1>4. TypeOK
  <2>1. inode \in [Sector -> [isdir : BOOLEAN, parent : Sector,
                              entry : [Name -> Sector \cup {NULL}]]]
    BY <1>2 DEF Init, NewInode
  <2>2. /\ open_cnt \in [Sector -> Nat] /\ lost \in [Sector -> Nat]
        /\ locked \in [Sector -> Process \cup {NULL}]
        /\ allocated \in SUBSET Sector /\ removed \in SUBSET Sector
        /\ strayed \in BOOLEAN /\ panicked \in BOOLEAN
    BY <1>2, <1>3 DEF Init
  <2>3. /\ cwd \in [Process -> Sector \cup {NULL}] /\ fd \in [Process -> Sector \cup {NULL}]
        /\ pc \in [Process -> {"idle", "walk", "add", "is empty", "erase", "exited"}]
    BY <1>1, <1>2
  <2>4. \A p \in Process :
          /\ call[p].dir \in Sector \cup {NULL} /\ call[p].inode \in Sector \cup {NULL}
          /\ call[p].name \in FileName \cup {NULL}
    BY <1>1 DEF NoCall
  <2> QED
    BY <2>1, <2>2, <2>3, <2>4 DEF TypeOK
<1>5. CallType
  BY <1>1 DEF CallType, NoCall
<1>6. \A p \in Process : Calling(p)
  BY <1>1, <1>2 DEF Calling, NoCall
<1>7. ASSUME NEW p \in Process, NEW k \in 1..4, NEW s \in Sector
      PROVE  Holds(p, s)[k] <=> k = 1 /\ s = ROOT_DIR_SECTOR
  <2>1. /\ Holds(p, s)[1] = (cwd[p] = s) /\ Holds(p, s)[2] = (fd[p] = s)
        /\ Holds(p, s)[3] = (Dir(p) = s)
        /\ Holds(p, s)[4] = (pc[p] \in {"is empty", "erase"} /\ call[p].inode = s)
    BY DEF Holds
  <2>2. cwd[p] = ROOT_DIR_SECTOR /\ fd[p] = NULL /\ Dir(p) = NULL /\ pc[p] = "idle"
    BY <1>1 DEF Dir, NoCall
  <2>3. k = 1 \/ k = 2 \/ k = 3 \/ k = 4
    OBVIOUS
  <2> QED
    BY <1>2, <2>1, <2>2, <2>3
<1>8. ASSUME NEW s \in Sector
      PROVE  open_cnt[s] = Cardinality(Holders(s)) + lost[s]
  <2>0. lost[s] = 0
    BY DEF Init
  <2>1. CASE s = ROOT_DIR_SECTOR
    <3>1. Holders(s) = Process \X {1}
      BY <1>7, <2>1 DEF Holders
    <3>2. IsFiniteSet({1}) /\ Cardinality({1}) = 1
      BY FS_Singleton, Zenon
    <3>3. Cardinality(Process \X {1}) = Cardinality(Process) * Cardinality({1})
      BY <1>3, <3>2, FS_Product
    <3>4. open_cnt[s] = Cardinality(Process)
      BY <2>1 DEF Init
    <3> QED
      BY <1>3, <2>0, <3>1, <3>2, <3>3, <3>4
  <2>2. CASE s # ROOT_DIR_SECTOR
    <3>1. Holders(s) = {}
      BY <1>7, <2>2 DEF Holders
    <3>2. open_cnt[s] = 0
      BY <2>2 DEF Init
    <3> QED
      BY <2>0, <3>1, <3>2, FS_EmptySet
  <2> QED
    BY <2>1, <2>2
<1> QED
  BY <1>4, <1>5, <1>6, <1>8 DEF CountInv, OpenCount

\* ... and every step keeps it.
LEMMA CountNext ==
  ASSUME CountInv, [Next]_vars
  PROVE  CountInv'
<1>1. CASE Next
  <2>1. PICK p \in Process : Step(p)
    BY <1>1 DEF Next
  <2>2. strayed' \in BOOLEAN
    BY <1>1 DEF Next
  <2> QED
    BY <2>1, <2>2, CountStep
<1>2. CASE UNCHANGED vars
  BY <1>2 DEF vars, CountInv, TypeOK, CallType, Calling, OpenCount, Holders, Holds, Dir
<1> QED
  BY <1>1, <1>2

\* inode.c: open_cnt is the "Number of openers": for any number of processes and
\* names, on every path through every call, each open of an inode by dir_open_root(),
\* dir_reopen(), inode_open() or filesys_open() is closed once, but for those that
\* get_containing_dir() and filesys_chdir() drop.
THEOREM NamesOpenCount == Spec => []OpenCount
<1>1. Init => CountInv
  BY CountInit
<1>2. CountInv /\ [Next]_vars => CountInv'
  BY CountNext
<1>3. CountInv => OpenCount
  BY DEF CountInv
<1> QED
  BY <1>1, <1>2, <1>3, PTL DEF Spec

-----------------------------------------------------------------------------
(* The tree. *)

\* p has s open.
Has(p, s) == cwd[p] = s \/ fd[p] = s \/ Dir(p) = s \/ Opened(p) = s

\* Who holds an inode has it open.
HoldersRight ==
  /\ \A s \in Sector : Holders(s) # {} <=> \E p \in Process : Has(p, s)
  /\ \A s \in Sector, p \in Process : Dir(p) = s => <<p, 3>> \in Holders(s)
  /\ \A s \in Sector, p \in Process : Opened(p) = s => <<p, 4>> \in Holders(s)

\* Who holds an inode has it open, by the types.
LEMMA HoldersAre == SlotType => HoldersRight
<1> SUFFICES ASSUME SlotType PROVE HoldersRight
  OBVIOUS
<1>1. SlotsRight
  BY SlotsAre
<1>2. \A s \in Sector, h \in Process \X (1..4) : h \in Holders(s) <=> Slots[h] = s
  BY <1>1 DEF SlotsRight, At
<1>3. ASSUME NEW s \in Sector, NEW p \in Process
      PROVE  /\ cwd[p] = s <=> <<p, 1>> \in Holders(s)
             /\ fd[p] = s <=> <<p, 2>> \in Holders(s)
             /\ Dir(p) = s <=> <<p, 3>> \in Holders(s)
             /\ Opened(p) = s <=> <<p, 4>> \in Holders(s)
  <2>1. <<p, 1>> \in Process \X (1..4) /\ <<p, 2>> \in Process \X (1..4)
        /\ <<p, 3>> \in Process \X (1..4) /\ <<p, 4>> \in Process \X (1..4)
    OBVIOUS
  <2>2. /\ Slots[<<p, 1>>] = cwd[p] /\ Slots[<<p, 2>>] = fd[p]
        /\ Slots[<<p, 3>>] = Dir(p) /\ Slots[<<p, 4>>] = Opened(p)
    BY <1>1 DEF SlotsRight
  <2> QED
    BY <1>2, <2>1, <2>2
<1>4. ASSUME NEW s \in Sector, NEW h \in Holders(s)
      PROVE  \E p \in Process : Has(p, s)
  <2>1. PICK p \in Process, k \in 1..4 : h = <<p, k>>
    BY <1>4 DEF Holders
  <2>2. k = 1 \/ k = 2 \/ k = 3 \/ k = 4
    OBVIOUS
  <2> QED
    BY <1>3, <2>1, <2>2 DEF Has
<1>5. ASSUME NEW s \in Sector, NEW p \in Process, Has(p, s)
      PROVE  Holders(s) # {}
  BY <1>3, <1>5 DEF Has
<1> QED
  BY <1>3, <1>4, <1>5 DEF HoldersRight

\* An inode that is open is counted.
HeldCounted == \A s \in Sector, p \in Process : Has(p, s) => open_cnt[s] > 0

\* An inode that is open is counted, by OpenCount.
LEMMA HeldCount == CountInv => HeldCounted
<1> SUFFICES ASSUME CountInv, NEW s \in Sector, NEW p \in Process, Has(p, s)
             PROVE  open_cnt[s] > 0
  BY DEF HeldCounted
<1>1. SlotType
  BY DEF CountInv, TypeOK, SlotType
<1>2. Holders(s) # {}
  BY <1>1, HoldersAre DEF HoldersRight
<1>3. IsFiniteSet(Holders(s)) /\ Cardinality(Holders(s)) \in Nat
  BY HoldersFinite DEF FinitelyHeld
<1>4. Cardinality(Holders(s)) # 0
  BY <1>2, <1>3, FS_EmptySet
<1>5. open_cnt[s] = Cardinality(Holders(s)) + lost[s] /\ lost[s] \in Nat
  BY DEF CountInv, OpenCount, TypeOK
<1> QED
  BY <1>3, <1>4, <1>5

\* One that is a call's directory and what dir_remove() has opened counts two.
LEMMA OpenTwice ==
  ASSUME CountInv, NEW s \in Sector, NEW p \in Process, NEW q \in Process,
         Dir(p) = s, Opened(q) = s
  PROVE  open_cnt[s] >= 2
<1>1. SlotType
  BY DEF CountInv, TypeOK, SlotType
<1>2. <<p, 3>> \in Holders(s) /\ <<q, 4>> \in Holders(s)
  BY <1>1, HoldersAre DEF HoldersRight
<1>3. IsFiniteSet(Holders(s)) /\ Cardinality(Holders(s)) \in Nat
  BY HoldersFinite DEF FinitelyHeld
<1>4. PICK h, g : h = <<p, 3>> /\ g = <<q, 4>>
  OBVIOUS
<1>5. h # g
  BY <1>4
<1>6. IsFiniteSet({h}) /\ Cardinality({h}) = 1
  BY FS_Singleton, Zenon
<1>7. IsFiniteSet({h} \cup {g}) /\ Cardinality({h} \cup {g}) = 2
  <2>1. g \notin {h}
    BY <1>5
  <2>2. IsFiniteSet({h} \cup {g}) /\ Cardinality({h} \cup {g}) = Cardinality({h}) + 1
    BY <1>6, <2>1, FS_AddElement
  <2> QED
    BY <1>6, <2>2
<1>8. {h} \cup {g} \subseteq Holders(s)
  BY <1>2, <1>4
<1>9. Cardinality({h} \cup {g}) =< Cardinality(Holders(s))
  BY <1>3, <1>8, FS_Subset
<1>10. open_cnt[s] = Cardinality(Holders(s)) + lost[s] /\ lost[s] \in Nat
  BY DEF CountInv, OpenCount, TypeOK
<1>11. PICK a, b, c, l : /\ a = Cardinality({h} \cup {g}) /\ b = Cardinality(Holders(s))
                         /\ c = open_cnt[s] /\ l = lost[s]
  OBVIOUS
<1>12. a = 2 /\ a =< b /\ c = b + l /\ b \in Nat /\ l \in Nat
  BY <1>3, <1>7, <1>9, <1>10, <1>11
<1>13. c >= 2
  BY <1>12
<1> QED
  BY <1>11, <1>13

\* An inode that exists and nobody is about to add.
GoodSector(s) == s \in allocated /\ \A q \in Process : Pending(q) => call[q].inode # s

\* An open inode exists, and nobody is about to add it.
LEMMA HeldGood ==
  ASSUME CountInv, TreeInv, NEW p \in Process, NEW s \in Sector, Has(p, s)
  PROVE  GoodSector(s)
<1>1. SlotType
  BY DEF CountInv, TypeOK, SlotType
<1>2. Holders(s) # {}
  BY <1>1, HoldersAre DEF HoldersRight
<1> QED
  BY <1>2 DEF TreeInv, HeldInv, GoodSector, PendingInv, Fresh

\* The root is such an inode.
LEMMA RootGood ==
  ASSUME TreeInv
  PROVE  GoodSector(ROOT_DIR_SECTOR)
BY DEF TreeInv, RootInv, GoodSector, PendingInv, Fresh

\* What an entry names is, and the directory is.
LEMMA EntryGood ==
  ASSUME TreeInv, NEW d \in Sector, NEW n, NEW s \in Sector, Entry(d, n, s)
  PROVE  GoodSector(s) /\ GoodSector(d) /\ inode[d].isdir
<1>1. n \in Name /\ IsNamed(s) /\ inode[d].entry[n] = s /\ d \in allocated
  BY DEF Entry, IsNamed
<1>2. s \in allocated /\ inode[d].isdir
  BY <1>1 DEF TreeInv, EntryInv
<1>3. s # NULL
  BY NullNotSector
<1>4. ~IsEmpty(d)
  BY <1>1, <1>3 DEF IsEmpty
<1> QED
  BY <1>1, <1>2, <1>4 DEF TreeInv, GoodSector, PendingInv, Fresh

\* A search finds an entry.
LEMMA LookupEntry ==
  ASSUME CountInv, TreeInv, NEW p \in Process, NEW d \in Sector, Has(p, d), NEW n, NEW s \in Sector,
         lookup(d, n) = s
  PROVE  Entry(d, n, s)
<1>1. d \in allocated
  BY HeldGood DEF GoodSector
<1>2. s # NULL
  BY NullNotSector
<1> QED
  BY <1>1, <1>2 DEF Entry, lookup

\* ".." leads to a directory that exists.
LEMMA ParentGood ==
  ASSUME CountInv, TreeInv, NEW p \in Process, NEW d \in Sector, Has(p, d), inode[d].isdir
  PROVE  LET s == inode[d].parent IN s \in Sector /\ GoodSector(s) /\ inode[s].isdir
<1>0. PICK s : s = inode[d].parent
  OBVIOUS
<1>1. s \in Sector
  BY <1>0 DEF CountInv, TypeOK
<1>2. GoodSector(d)
  BY HeldGood
<1>3. d \notin removed
  BY DEF TreeInv, RemovedInv
<1>4. CASE d = ROOT_DIR_SECTOR
  BY <1>0, <1>1, <1>4, RootGood DEF TreeInv, RootInv
<1>5. CASE IsNamed(d)
  <2>1. PICK c \in Sector, n \in Name : Entry(c, n, d)
    BY <1>5 DEF IsNamed
  <2>2. s = c
    BY <1>0, <2>1 DEF TreeInv, EntryInv
  <2> QED
    BY <1>0, <1>1, <2>1, <2>2, EntryGood
<1>6. d = ROOT_DIR_SECTOR \/ IsNamed(d)
  BY <1>2, <1>3 DEF TreeInv, AllocInv, GoodSector
<1> QED
  BY <1>4, <1>5, <1>6

\* A step of p, while the directories are a tree.
Steps(p) == CountInv /\ CountInv' /\ TreeInv /\ Others(p) /\ ~Strays

\* What is known of such a step, in the parts that the lemmas use.
LEMMA StepsIs ==
  ASSUME NEW p \in Process, Steps(p)
  PROVE  CountInv /\ TreeInv /\ SlotType' /\ HoldersRight' /\ HeldCounted'
         /\ (\A s \in Sector : open_cnt[s] \in Nat /\ open_cnt'[s] \in Nat)
<1>1. CountInv /\ CountInv' /\ TreeInv
  BY DEF Steps
<1>2. SlotType'
  BY <1>1 DEF CountInv, TypeOK, SlotType
<1>3. HoldersRight'
  <2>1. SlotType' => HoldersRight'
    BY HoldersAre, PTL
  <2> QED
    BY <1>2, <2>1
<1>4. HeldCounted'
  <2>1. CountInv' => HeldCounted'
    BY HeldCount, PTL
  <2> QED
    BY <1>1, <2>1
<1>5. \A s \in Sector : open_cnt[s] \in Nat /\ open_cnt'[s] \in Nat
  BY <1>1 DEF CountInv, TypeOK
<1> QED
  BY <1>1, <1>2, <1>3, <1>4, <1>5

\* What p has open after the step is an inode that exists and is not about to be added.
OpensGood(p) == \A s \in Sector : Has(p, s)' => GoodSector(s)

\* What is open after a step has its sector, whatever the step gives back.
LEMMA HeldStep ==
  ASSUME NEW p \in Process, Steps(p), OpensGood(p), NEW m, NEW u, Release(<<>>, m, u),
         u = {} \/ (Pending(p) /\ u = {call[p].inode}), NEW s \in Sector, Holders(s)' # {}
  PROVE  GoodSector(s) /\ s \in allocated'
<1>1. PICK q \in Process : Has(q, s)'
  BY StepsIs DEF HoldersRight
<1>2. GoodSector(s)
  <2>1. CASE q = p
    BY <1>1, <2>1 DEF OpensGood
  <2>2. CASE q # p
    <3>1. Has(q, s)
      BY <1>1, <2>2 DEF Steps, Others, Has, Dir, Opened
    <3> QED
      BY <3>1, StepsIs, HeldGood
  <2> QED
    BY <2>1, <2>2
<1>3. open_cnt'[s] > 0
  BY <1>1, StepsIs DEF HeldCounted
<1>4. s \notin u
  BY <1>2 DEF GoodSector
<1>5. open_cnt'[s] # 0
  BY <1>3, StepsIs
<1> QED
  BY <1>2, <1>4, <1>5 DEF Release, GoodSector

\* Another process between two steps of dir_remove() is where it was.
KeepsRemoving(q, d, n, x) ==
  /\ d = Dir(q) /\ n = call[q].name /\ x = call[q].inode
  /\ pc[q] \in {"is empty", "erase"} =>
       /\ locked'[d] = q /\ Entry(d, n, x)' /\ (inode'[x].isdir <=> inode[x].isdir)
       /\ inode[x].isdir /\ pc[q] = "erase" => IsEmpty(x)'

\* Another process that is inside dir_remove() can rely on what it found: as no
\* directory strayed, nobody has opened what it is about to remove.
LEMMA OthersRemoving ==
  ASSUME NEW p \in Process, Steps(p), NEW q \in Process, q # p,
         NEW d, NEW n, NEW x, KeepsRemoving(q, d, n, x)
  PROVE  Removing(q)'
<1>1. /\ pc'[q] = pc[q] /\ call'[q].name = n /\ call'[q].inode = x /\ Dir(q)' = d
  BY DEF Steps, Others, Dir, KeepsRemoving
<1>2. SUFFICES ASSUME pc[q] \in {"is empty", "erase"}
               PROVE  /\ locked'[d] = q /\ Entry(d, n, x)'
                      /\ inode'[x].isdir => open_cnt'[x] = 1 /\ (pc[q] = "erase" => IsEmpty(x)')
  <2>1. Removing(q)' <=>
          (pc[q] \in {"is empty", "erase"} =>
             /\ locked'[d] = q /\ Entry(d, n, x)'
             /\ inode'[x].isdir => open_cnt'[x] = 1 /\ (pc[q] = "erase" => IsEmpty(x)'))
    BY <1>1 DEF Removing
  <2> QED
    BY <2>1
<1>3. locked'[d] = q /\ Entry(d, n, x)' /\ (inode'[x].isdir <=> inode[x].isdir)
  BY <1>2 DEF KeepsRemoving
<1>4. inode[x].isdir => (pc[q] = "erase" => IsEmpty(x)')
  BY <1>2 DEF KeepsRemoving
<1>5. ASSUME inode[x].isdir PROVE open_cnt'[x] = 1
  <2>1. open_cnt[x] = 1
    BY <1>2, <1>5, StepsIs DEF TreeInv, Removing, KeepsRemoving
  <2>2. ~(open_cnt'[x] > open_cnt[x])
    BY <1>2, <1>5 DEF Steps, Strays, KeepsRemoving
  <2>3. x \in Sector
    BY <1>2, StepsIs DEF CountInv, Calling, KeepsRemoving
  <2>4. Has(q, x)'
    BY <1>1, <1>2 DEF Has, Opened
  <2>5. open_cnt'[x] > 0
    BY <2>3, <2>4, StepsIs DEF HeldCounted
  <2>6. open_cnt'[x] \in Nat
    BY <2>3, StepsIs
  <2>7. PICK y : y = open_cnt'[x]
    OBVIOUS
  <2>8. y \in Nat
    BY <2>6, <2>7
  <2>10. ~(y > 1)
    BY <2>1, <2>2, <2>7
  <2>11. y > 0
    BY <2>5, <2>7
  <2>9. y = 1
    BY <2>8, <2>10, <2>11
  <2> QED
    BY <2>7, <2>9
<1> QED
  BY <1>3, <1>4, <1>5

\* A step that changes no inode, but may give back the sector p was about to add.
Moving(p, u) ==
  /\ inode' = inode /\ Release(<<>>, {}, u)
  /\ u = IF Pending(p) THEN {call[p].inode} ELSE {}
  /\ pc'[p] # "add"

\* The locks of the others inside dir_remove() stay.
LocksKept(p) ==
  \A q \in Process : q # p /\ pc[q] \in {"is empty", "erase"} => locked'[Dir(q)] = locked[Dir(q)]

\* What the others take for directories stays so.
LEMMA OthersDir ==
  ASSUME NEW p \in Process, Steps(p), NEW q \in Process, q # p,
         \A s \in Sector : s \in allocated /\ inode[s].isdir => inode'[s].isdir
  PROVE  DirInv(q)'
<1>1. cwd'[q] = cwd[q] /\ Dir(q)' = Dir(q)
  BY DEF Steps, Others, Dir
<1>2. PICK c, d : c = cwd[q] /\ d = Dir(q)
  OBVIOUS
<1>3. c \in Sector \cup {NULL} /\ d \in Sector \cup {NULL}
  BY <1>2, StepsIs DEF CountInv, TypeOK, CallType, Dir
<1>4. (c # NULL => inode[c].isdir) /\ (d # NULL => inode[d].isdir)
  BY <1>2, StepsIs DEF TreeInv, DirInv
<1>5. \A s \in Sector : s = c \/ s = d => s \in allocated
  BY <1>2, StepsIs, HeldGood DEF Has, GoodSector
<1>6. (c # NULL => inode'[c].isdir) /\ (d # NULL => inode'[d].isdir)
  BY <1>3, <1>4, <1>5
<1> QED
  BY <1>1, <1>2, <1>6 DEF DirInv

\* The same inode under another name.
LEMMA FreshCall ==
  ASSUME NEW q \in Process, NEW s, s = call'[q].inode, Fresh(s)'
  PROVE  Fresh(call[q].inode)'
<1>1. IsNamed(call[q].inode)' <=> IsNamed(s)'
  BY DEF IsNamed, Entry
<1>2. IsEmpty(call[q].inode)' <=> IsEmpty(s)'
  BY DEF IsEmpty
<1>3. Holders(call[q].inode)' = Holders(s)'
  BY DEF Holders, Holds
<1> QED
  BY <1>1, <1>2, <1>3 DEF Fresh

\* A step that changes no inode keeps the tree.
LEMMA Moves ==
  ASSUME NEW p \in Process, Steps(p), NEW u, Moving(p, u), LocksKept(p), OpensGood(p),
         DirInv(p)', Removing(p)'
  PROVE  TreeInv'
<1>0. /\ CountInv /\ TreeInv /\ (\A s \in Sector : open_cnt[s] \in Nat /\ open_cnt'[s] \in Nat)
  BY StepsIs
<1>1. /\ inode' = inode /\ allocated' = allocated \ (u \cup {s \in removed : open_cnt'[s] = 0})
      /\ removed' = {s \in removed : open_cnt'[s] > 0}
  BY DEF Moving, Release
<1>2. \A s \in u : Pending(p) /\ s = call[p].inode /\ Fresh(s) /\ s \in Sector
  BY <1>0 DEF Moving, TreeInv, PendingInv, Pending, CountInv, Calling
<1>3. allocated \subseteq Sector /\ removed \subseteq Sector
  BY <1>0 DEF CountInv, TypeOK
\* Who stays.
<1>4. \A s \in allocated : s \in u \/ s \in removed \/ s \in allocated'
  BY <1>1
<1>5. \A s \in removed' : s \in removed
  BY <1>1
<1>6. \A d \in Sector, n \in Name, s \in Sector : Entry(d, n, s)' <=> Entry(d, n, s)
  <2> TAKE d \in Sector, n \in Name, s \in Sector
  <2>1. Entry(d, n, s)' => Entry(d, n, s)
    BY <1>1 DEF Entry
  <2>2. ASSUME Entry(d, n, s) PROVE Entry(d, n, s)'
    <3>1. inode[d].isdir /\ ~IsEmpty(d) /\ d \in allocated
      BY <1>0, <2>2, NullNotSector DEF TreeInv, EntryInv, IsEmpty, Entry
    <3>2. d \notin removed /\ d \notin u
      BY <1>0, <1>2, <3>1 DEF TreeInv, RemovedInv, Fresh
    <3>3. d \in allocated'
      BY <1>4, <3>1, <3>2
    <3> QED
      BY <1>1, <2>2, <3>3 DEF Entry
  <2> QED
    BY <2>1, <2>2
<1>7. \A s \in Sector : IsNamed(s)' <=> IsNamed(s)
  BY <1>6 DEF IsNamed
<1>8. \A s \in Sector : IsEmpty(s)' <=> IsEmpty(s)
  BY <1>1 DEF IsEmpty
<1>9. \A s \in Sector : Holders(s)' # {} => GoodSector(s) /\ s \in allocated'
  <2>1. u = {} \/ (Pending(p) /\ u = {call[p].inode})
    BY DEF Moving
  <2> QED
    BY <2>1, HeldStep DEF Moving
<1>10. \A q \in Process : Pending(q)' <=> Pending(q) /\ q # p
  BY DEF Steps, Others, Pending, Moving
<1>11. \A q \in Process : Pending(q) /\ q # p => call'[q].inode = call[q].inode
                                               /\ call[q].inode \in Sector \ u
  <2> TAKE q \in Process
  <2>1. SUFFICES ASSUME Pending(q), q # p
                 PROVE  call'[q].inode = call[q].inode /\ call[q].inode \in Sector \ u
    OBVIOUS
  <2>2. call'[q] = call[q] /\ call[q].inode \in Sector
    BY <1>0, <2>1 DEF Steps, Others, CountInv, Calling, Pending
  <2>3. call[q].inode \notin u
    BY <1>0, <1>2, <2>1 DEF TreeInv, PendingInv
  <2> QED
    BY <2>2, <2>3
<1>12. RootInv'
  <2>1. ROOT_DIR_SECTOR \in Sector
    BY NullNotSector
  <2>2. ROOT_DIR_SECTOR \in allocated \ removed /\ ROOT_DIR_SECTOR \notin u
    BY <1>0, <1>2 DEF TreeInv, RootInv, Fresh
  <2>3. ROOT_DIR_SECTOR \in allocated' \ removed'
    BY <2>2, <1>4, <1>5
  <2>4. ROOT_DIR_SECTOR' = ROOT_DIR_SECTOR
    BY DEF ROOT_DIR_SECTOR
  <2> QED
    BY <1>0, <1>1, <1>7, <2>1, <2>3, <2>4 DEF TreeInv, RootInv
<1>13. RemovedInv'
  <2> SUFFICES ASSUME NEW s \in removed'
               PROVE  s \in allocated' /\ ~inode'[s].isdir /\ open_cnt'[s] > 0 /\ ~IsNamed(s)'
    BY DEF RemovedInv
  <2>1. s \in removed /\ open_cnt'[s] > 0 /\ s \in Sector
    BY <1>1, <1>3
  <2>2. s \in allocated /\ ~inode[s].isdir /\ ~IsNamed(s)
    BY <1>0, <2>1 DEF TreeInv, RemovedInv
  <2>3. s \notin u /\ open_cnt'[s] # 0
    BY <1>0, <1>2, <2>1 DEF Fresh
  <2> QED
    BY <1>1, <1>7, <2>1, <2>2, <2>3
<1>14. EntryInv'
  <2> SUFFICES ASSUME NEW d \in Sector, NEW n \in Name, NEW s \in Sector, Entry(d, n, s)'
               PROVE  /\ inode'[d].isdir /\ s \in allocated' \ removed' /\ inode'[s].parent = d
                      /\ \A c \in Sector, m \in Name : Entry(c, m, s)' => c = d /\ m = n
    BY DEF EntryInv
  <2>1. Entry(d, n, s)
    BY <1>6
  <2>2. /\ inode[d].isdir /\ s \in allocated \ removed /\ inode[s].parent = d
        /\ \A c \in Sector, m \in Name : Entry(c, m, s) => c = d /\ m = n
    BY <1>0, <2>1 DEF TreeInv, EntryInv
  <2>3. s \notin u
    BY <1>2, <2>1 DEF Fresh, IsNamed
  <2> QED
    BY <1>1, <1>4, <1>5, <1>6, <2>2, <2>3
<1>15. HeldInv'
  BY <1>9 DEF HeldInv
<1>16. AllocInv'
  <2> SUFFICES ASSUME NEW s \in allocated', s # ROOT_DIR_SECTOR, ~IsNamed(s)', s \notin removed'
               PROVE  \E q \in Process : Pending(q)' /\ call'[q].inode = s
    BY DEF AllocInv, ROOT_DIR_SECTOR
  <2>1. s \in allocated /\ s \in Sector /\ s \notin u /\ ~(s \in removed /\ open_cnt'[s] = 0)
    BY <1>1, <1>3
  <2>2. s \notin removed
    BY <1>0, <1>1, <2>1
  <2>3. PICK q \in Process : Pending(q) /\ call[q].inode = s
    BY <1>0, <1>7, <2>1, <2>2 DEF TreeInv, AllocInv
  <2>4. q # p
    BY <2>1, <2>3 DEF Moving
  <2> QED
    BY <1>10, <1>11, <2>3, <2>4
<1>17. PendingInv'
  <2>1. ASSUME NEW q \in Process, Pending(q)'
        PROVE  Fresh(call[q].inode)' /\ call'[q].inode = call[q].inode
    <3>1. PICK s : s = call[q].inode
      OBVIOUS
    <3>2. Pending(q) /\ q # p /\ s \in Sector \ u /\ call'[q].inode = s
      BY <1>10, <1>11, <2>1, <3>1
    <3>3. Fresh(s)
      BY <1>0, <3>1, <3>2 DEF TreeInv, PendingInv
    <3>4. s \in allocated' \ removed'
      BY <1>4, <1>5, <3>2, <3>3 DEF Fresh
    <3>5. Holders(s)' = {}
      BY <1>9, <3>1, <3>2 DEF GoodSector
    <3>6. Fresh(s)'
      BY <1>7, <1>8, <3>2, <3>3, <3>4, <3>5 DEF Fresh, ROOT_DIR_SECTOR
    <3>7. Fresh(call[q].inode)'
      BY <3>2, <3>6, FreshCall
    <3> QED
      BY <3>1, <3>2, <3>7
  <2> QED
    BY <1>0, <1>10, <2>1 DEF TreeInv, PendingInv
<1>18. \A q \in Process : DirInv(q)' /\ Removing(q)'
  <2> TAKE q \in Process
  <2>1. CASE q = p
    BY <2>1
  <2>2. CASE q # p
    <3>1. DirInv(q)'
      BY <1>1, <2>2, OthersDir
    <3>2. PICK d, n, x : d = Dir(q) /\ n = call[q].name /\ x = call[q].inode
      OBVIOUS
    <3>3. KeepsRemoving(q, d, n, x)
      <4>1. SUFFICES ASSUME pc[q] \in {"is empty", "erase"}
                     PROVE  /\ locked'[d] = q /\ Entry(d, n, x)'
                            /\ inode[x].isdir /\ pc[q] = "erase" => IsEmpty(x)'
        BY <1>1, <3>2 DEF KeepsRemoving
      <4>2. d \in Sector /\ n \in Name /\ x \in Sector
        BY <1>0, <3>2, <4>1 DEF CountInv, Calling, Dir
      <4>3. locked[d] = q /\ Entry(d, n, x) /\ (inode[x].isdir /\ pc[q] = "erase" => IsEmpty(x))
        BY <1>0, <3>2, <4>1 DEF TreeInv, Removing
      <4>4. locked'[d] = locked[d]
        BY <2>2, <3>2, <4>1 DEF LocksKept
      <4> QED
        BY <1>6, <1>8, <4>2, <4>3, <4>4
    <3>4. Removing(q)'
      BY <2>2, <3>3, OthersRemoving
    <3> QED
      BY <3>1, <3>4
  <2> QED
    BY <2>1, <2>2
<1> QED
  BY <1>12, <1>13, <1>14, <1>15, <1>16, <1>17, <1>18 DEF TreeInv

\* What a step is known to start from.
LEMMA StepsKnow ==
  ASSUME NEW p \in Process, Steps(p)
  PROVE  Known(p) /\ DirInv(p) /\ Removing(p) /\ CountInv /\ TreeInv
BY DEF Steps, CountInv, Known, TreeInv

\* Steps that remove nothing.
LEMMA ReleaseIs ==
  ASSUME TreeInv, NEW u
  PROVE  /\ \A o, k : Count(o, k, {}, u) => Release(<<>>, {}, u)
         /\ UNCHANGED References => Release(<<>>, {}, {})
<1>1. \A o, k : Count(o, k, {}, u) => Release(<<>>, {}, u)
  BY DEF Count, Release
<1>2. ASSUME UNCHANGED References PROVE Release(<<>>, {}, {})
  <2>1. open_cnt' = open_cnt /\ removed' = removed /\ allocated' = allocated
    BY <1>2 DEF References
  <2>2. \A s \in removed : open_cnt[s] > 0
    BY DEF TreeInv, RemovedInv
  <2>3. \A s \in removed : ~(open_cnt[s] = 0)
    BY <2>2
  <2> QED
    BY <2>1, <2>2, <2>3 DEF Release
<1> QED
  BY <1>1, <1>2

\* What a process may open: nothing, what it has open, or an inode that is good.
May(p, v) == v \in Sector => Has(p, v) \/ GoodSector(v)

\* A step after which p has four such inodes open.
LEMMA OpensGoodBy ==
  ASSUME NEW p \in Process, Steps(p), NEW c, NEW f, NEW d, NEW i, After(p, c, f, d, i),
         May(p, c), May(p, f), May(p, d), May(p, i)
  PROVE  OpensGood(p)
<1> SUFFICES ASSUME NEW s \in Sector, Has(p, s)' PROVE GoodSector(s)
  BY DEF OpensGood
<1>1. s = c \/ s = f \/ s = d \/ s = i
  BY DEF Has, After
<1>2. Has(p, s) \/ GoodSector(s)
  BY <1>1 DEF May
<1> QED
  BY <1>2, StepsKnow, HeldGood

\* What p has open it may have open.
LEMMA MayIs ==
  ASSUME NEW p \in Process
  PROVE  May(p, NULL) /\ May(p, cwd[p]) /\ May(p, fd[p]) /\ May(p, Dir(p))
BY NullNotSector DEF May, Has

\* A step that changes no inode, and leaves p outside dir_add() and dir_remove().
LEMMA PlainMoves ==
  ASSUME NEW p \in Process, Steps(p), NEW c, NEW f, NEW d, After(p, c, f, d, NULL),
         May(p, c), May(p, f), May(p, d), d \in Sector => inode[d].isdir, d \in Sector \cup {NULL},
         NEW u, Release(<<>>, {}, u), u = IF Pending(p) THEN {call[p].inode} ELSE {},
         inode' = inode, LocksKept(p), pc'[p] \notin {"add", "is empty", "erase"}
  PROVE  TreeInv'
<1>1. OpensGood(p)
  BY OpensGoodBy, MayIs
<1>2. DirInv(p)'
  <2>1. Dir(p)' = d
    BY DEF After
  <2>2. cwd'[p] # NULL => inode[cwd'[p]].isdir
    BY DEF Steps, Strays
  <2> QED
    BY <2>1, <2>2 DEF DirInv
<1>3. Removing(p)'
  BY DEF Removing
<1>4. Moving(p, u)
  BY DEF Moving
<1> QED
  BY <1>1, <1>2, <1>3, <1>4, Moves

\* Locks that stay are kept.
LEMMA SameLocks == ASSUME NEW p, locked' = locked PROVE LocksKept(p)
BY DEF LocksKept

\* A walk, and the name at its end, lead to what may be opened.
LEMMA TargetGood ==
  ASSUME NEW p \in Process, Steps(p), pc[p] = "walk", NEW n
  PROVE  May(p, Target(p, n)) /\ May(p, inode[Dir(p)].parent) /\ May(p, lookup(Dir(p), n))
<1>1. PICK d : d = Dir(p)
  OBVIOUS
<1>2. d \in Sector /\ inode[d].isdir /\ Has(p, d)
  BY <1>1, StepsKnow, CallOf, NullNotSector DEF DirInv, Has
<1>3. GoodSector(inode[d].parent)
  BY <1>2, ParentGood, StepsKnow
<1>4. ASSUME NEW s \in Sector, lookup(d, n) = s
      PROVE  GoodSector(s)
  BY <1>2, <1>4, LookupEntry, EntryGood, StepsKnow
<1> QED
  BY <1>1, <1>3, <1>4 DEF May, Target

\* A walk begins.
LEMMA BeginTree ==
  ASSUME NEW p \in Process, Steps(p), Begin(p)
  PROVE  TreeInv'
<1>1. PICK a \in {ROOT_DIR_SECTOR, cwd[p]} :
        call' = [call EXCEPT ![p].dir = a] /\ Count(<<a>>, <<>>, {}, {})
  BY DEF Begin
<1>2. pc[p] = "idle" /\ pc' = [pc EXCEPT ![p] = "walk"]
      /\ UNCHANGED <<inode, locked, cwd, fd, lost, panicked>>
  BY DEF Begin
<1>3. Known(p) /\ DirInv(p) /\ TreeInv /\ SlotType /\ OtherType
  BY StepsKnow, KnownIs
<1>4. PICK c, f : c = cwd[p] /\ f = fd[p]
  OBVIOUS
<1>5. Dir(p)' = a /\ pc'[p] = "walk" /\ Opened(p)' = NULL
  BY <1>1, <1>2, <1>3 DEF SlotType, CallType, OtherType, Dir, Opened
<1>6. After(p, c, f, a, NULL)
  BY <1>2, <1>4, <1>5 DEF After
<1>7. May(p, c) /\ May(p, f) /\ May(p, a)
  BY <1>1, <1>3, <1>4, MayIs, RootGood DEF May
<1>8. a \in Sector /\ inode[a].isdir
  <2>1. cwd[p] \in Sector
    BY <1>2, <1>3, CallOf
  <2> QED
    BY <1>1, <1>3, <2>1, NullNotSector DEF DirInv, TreeInv, RootInv
<1>9. Release(<<>>, {}, {}) /\ LocksKept(p)
  BY <1>1, <1>2, <1>3, ReleaseIs, SameLocks
<1>10. ~Pending(p)
  BY <1>2 DEF Pending
<1> QED
  BY <1>2, <1>5, <1>6, <1>7, <1>8, <1>9, <1>10, PlainMoves

\* A step of a walk to an inode it may open.
LEMMA EnterTree ==
  ASSUME NEW p \in Process, Steps(p), pc[p] = "walk", NEW a \in Sector, May(p, a), Enter(p, a),
         UNCHANGED <<inode, locked, cwd, fd, panicked>>
  PROVE  TreeInv'
<1>1. Known(p) /\ DirInv(p) /\ TreeInv /\ SlotType /\ OtherType /\ Dir(p) \in Sector
  BY StepsKnow, KnownIs, CallOf
<1>2. PICK c, f, d : c = cwd[p] /\ f = fd[p] /\ d = IF inode[a].isdir THEN a ELSE Dir(p)
  OBVIOUS
<1>3. Dir(p)' = d /\ pc'[p] = "walk" /\ Opened(p)' = NULL
  BY <1>1, <1>2 DEF Enter, SlotType, CallType, OtherType, Dir, Opened
<1>4. After(p, c, f, d, NULL)
  BY <1>2, <1>3 DEF After
<1>5. May(p, c) /\ May(p, f) /\ May(p, d)
  BY <1>2, MayIs
<1>6. d \in Sector /\ inode[d].isdir
  BY <1>1, <1>2, NullNotSector DEF DirInv
<1>7. Release(<<>>, {}, {}) /\ LocksKept(p)
  BY <1>1, ReleaseIs, SameLocks DEF Enter
<1>8. ~Pending(p)
  BY DEF Pending
<1> QED
  BY <1>3, <1>4, <1>5, <1>6, <1>7, <1>8, PlainMoves

\* A call that has returned has nothing open.
LEMMA ReturnAfter ==
  ASSUME NEW p \in Process, Known(p), Return(p)
  PROVE  Dir(p)' = NULL /\ Opened(p)' = NULL /\ pc'[p] = "idle"
<1>1. SlotType /\ OtherType
  BY KnownIs
<1>2. call'[p] = NoCall /\ pc'[p] = "idle"
  BY <1>1 DEF Return, SlotType, CallType, OtherType
<1> QED
  BY <1>2 DEF Dir, Opened, NoCall

\* A call returns; its process has directory c and file f then.
LEMMA ReturnTree ==
  ASSUME NEW p \in Process, Steps(p), Return(p), NEW c, NEW f, cwd'[p] = c, fd'[p] = f,
         May(p, c), May(p, f), inode' = inode, LocksKept(p), NEW u, Release(<<>>, {}, u),
         u = IF Pending(p) THEN {call[p].inode} ELSE {}
  PROVE  TreeInv'
<1>1. Dir(p)' = NULL /\ Opened(p)' = NULL /\ pc'[p] = "idle"
  BY ReturnAfter, StepsKnow
<1>2. After(p, c, f, NULL, NULL)
  BY <1>1 DEF After
<1>3. May(p, NULL) /\ NULL \notin Sector
  BY MayIs, NullNotSector
<1> QED
  BY <1>1, <1>2, <1>3, PlainMoves

\* A walk goes on.
LEMMA WalkTree ==
  ASSUME NEW p \in Process, Steps(p), NEW n \in Token, Walk(p, n)
  PROVE  TreeInv'
<1>1. pc[p] = "walk" /\ UNCHANGED <<inode, locked, cwd, fd, panicked>>
  BY DEF Walk
<1>2. Known(p) /\ TreeInv /\ Dir(p) \in Sector
  BY <1>1, StepsKnow, CallOf
<1>3. PICK d : d = Dir(p)
  OBVIOUS
<1>4. lookup(d, n) \in Sector \cup {NULL} /\ inode[d].parent \in Sector
  BY <1>2, <1>3, LookupType
<1>5. May(p, inode[d].parent) /\ May(p, lookup(d, n))
  BY <1>1, <1>3, TargetGood
<1>6. CASE NotFound(p)
  <2>1. Return(p) /\ Release(<<>>, {}, {}) /\ ~Pending(p)
    BY <1>1, <1>2, <1>6, ReleaseIs DEF NotFound, Pending
  <2> QED
    BY <1>1, <2>1, SameLocks, MayIs, ReturnTree
<1>7. CASE Enter(p, inode[d].parent)
  BY <1>1, <1>4, <1>5, <1>7, EnterTree
<1>8. CASE lookup(d, n) # NULL /\ Enter(p, lookup(d, n))
  BY <1>1, <1>4, <1>5, <1>8, EnterTree
<1> QED
  BY <1>3, <1>6, <1>7, <1>8 DEF Walk

\* filesys_open()
LEMMA OpenTree ==
  ASSUME NEW p \in Process, Steps(p), NEW n \in FileName, Open(p, n)
  PROVE  TreeInv'
<1>1. pc[p] = "walk" /\ Return(p) /\ UNCHANGED <<inode, locked, cwd, lost, panicked>>
  BY DEF Open, AtEnd
<1>2. Known(p) /\ TreeInv /\ SlotType
  BY StepsKnow, KnownIs
<1>3. PICK c, d, t : c = cwd[p] /\ d = Dir(p) /\ t = Target(p, n)
  OBVIOUS
<1>4. May(p, c) /\ May(p, d) /\ May(p, t) /\ ~Pending(p)
  BY <1>1, <1>3, MayIs, TargetGood DEF Pending
<1>5. CASE fd' = [fd EXCEPT ![p] = d] /\ UNCHANGED References
  <2>1. fd'[p] = d /\ cwd'[p] = c /\ Release(<<>>, {}, {})
    BY <1>1, <1>2, <1>3, <1>5, ReleaseIs DEF SlotType
  <2> QED
    BY <1>1, <1>4, <2>1, SameLocks, ReturnTree
<1>6. CASE fd' = [fd EXCEPT ![p] = t] /\ Count(<<t>>, <<d>>, {}, {})
  <2>1. fd'[p] = t /\ cwd'[p] = c /\ Release(<<>>, {}, {})
    BY <1>1, <1>2, <1>3, <1>6, ReleaseIs DEF SlotType
  <2> QED
    BY <1>1, <1>4, <2>1, SameLocks, ReturnTree
<1> QED
  BY <1>3, <1>5, <1>6 DEF Open

\* filesys_chdir() to a directory; to a file, it would stray.
LEMMA ChdirTree ==
  ASSUME NEW p \in Process, Steps(p), NEW n \in FileName, Chdir(p, n)
  PROVE  TreeInv'
<1>1. pc[p] = "walk" /\ Return(p) /\ UNCHANGED <<inode, locked, fd, panicked>>
  BY DEF Chdir, AtEnd
<1>2. Known(p) /\ TreeInv /\ SlotType
  BY StepsKnow, KnownIs
<1>3. PICK c, f, d, t : c = cwd[p] /\ f = fd[p] /\ d = Dir(p) /\ t = Target(p, n)
  OBVIOUS
<1>4. May(p, c) /\ May(p, f) /\ May(p, d) /\ May(p, t) /\ ~Pending(p)
  BY <1>1, <1>3, MayIs, TargetGood DEF Pending
<1>5. CASE cwd' = [cwd EXCEPT ![p] = d] /\ UNCHANGED References
  <2>1. cwd'[p] = d /\ fd'[p] = f /\ Release(<<>>, {}, {})
    BY <1>1, <1>2, <1>3, <1>5, ReleaseIs DEF SlotType
  <2> QED
    BY <1>1, <1>4, <2>1, SameLocks, ReturnTree
<1>6. CASE UNCHANGED cwd /\ Count(<<>>, <<d>>, {}, {})
  <2>1. cwd'[p] = c /\ fd'[p] = f /\ Release(<<>>, {}, {})
    BY <1>1, <1>2, <1>3, <1>6, ReleaseIs
  <2> QED
    BY <1>1, <1>4, <2>1, SameLocks, ReturnTree
<1>7. CASE cwd' = [cwd EXCEPT ![p] = t] /\ Count(<<t>>, <<d, c>>, {}, {})
  <2>1. cwd'[p] = t /\ fd'[p] = f /\ Release(<<>>, {}, {})
    BY <1>1, <1>2, <1>3, <1>7, ReleaseIs DEF SlotType
  <2> QED
    BY <1>1, <1>4, <2>1, SameLocks, ReturnTree
<1> QED
  BY <1>3, <1>5, <1>6, <1>7 DEF Chdir

\* A call that fails closes the directory it is at.
LEMMA FailsTree ==
  ASSUME NEW p \in Process, Steps(p), Return(p), NEW u, Count(<<>>, <<Dir(p)>>, {}, u),
         u = IF Pending(p) THEN {call[p].inode} ELSE {}, UNCHANGED <<inode, cwd, fd, locked>>
  PROVE  TreeInv'
<1>1. TreeInv
  BY StepsKnow
<1>2. Release(<<>>, {}, u)
  BY <1>1, ReleaseIs
<1> QED
  BY <1>2, SameLocks, MayIs, ReturnTree

\* close() gives a removed file's sector back.
LEMMA CloseTree ==
  ASSUME NEW p \in Process, Steps(p), Close(p)
  PROVE  TreeInv'
<1>1. pc[p] = "idle" /\ fd' = [fd EXCEPT ![p] = NULL] /\ Count(<<>>, <<fd[p]>>, {}, {})
      /\ UNCHANGED <<inode, locked, cwd, pc, call, lost, panicked>>
  BY DEF Close
<1>2. Known(p) /\ TreeInv /\ SlotType /\ Dir(p) = NULL /\ Opened(p) = NULL
  BY <1>1, StepsKnow, KnownIs, CallOf
<1>3. PICK c : c = cwd[p]
  OBVIOUS
<1>4. After(p, c, NULL, NULL, NULL) /\ pc'[p] = "idle"
  BY <1>1, <1>2, <1>3 DEF After, SlotType, Dir, Opened
<1>5. Release(<<>>, {}, {}) /\ LocksKept(p) /\ ~Pending(p)
  BY <1>1, <1>2, ReleaseIs, SameLocks DEF Pending
<1>6. May(p, c) /\ May(p, NULL) /\ NULL \notin Sector
  BY <1>3, MayIs, NullNotSector
<1> QED
  BY <1>1, <1>4, <1>5, <1>6, PlainMoves

\* process_exit()
LEMMA ExitTree ==
  ASSUME NEW p \in Process, Steps(p), Exit(p)
  PROVE  TreeInv'
<1>1. pc[p] = "idle" /\ pc' = [pc EXCEPT ![p] = "exited"] /\ fd' = [fd EXCEPT ![p] = NULL]
      /\ cwd' = [cwd EXCEPT ![p] = NULL] /\ Count(<<>>, <<fd[p], cwd[p]>>, {}, {})
      /\ UNCHANGED <<inode, locked, call, lost, panicked>>
  BY DEF Exit
<1>2. Known(p) /\ TreeInv /\ SlotType /\ OtherType /\ Dir(p) = NULL /\ Opened(p) = NULL
  BY <1>1, StepsKnow, KnownIs, CallOf
<1>3. pc'[p] = "exited"
  BY <1>1, <1>2 DEF OtherType
<1>4. After(p, NULL, NULL, NULL, NULL)
  BY <1>1, <1>2, <1>3 DEF After, SlotType, Dir, Opened
<1>5. Release(<<>>, {}, {}) /\ LocksKept(p) /\ ~Pending(p)
  BY <1>1, <1>2, ReleaseIs, SameLocks DEF Pending
<1>6. May(p, NULL) /\ NULL \notin Sector
  BY MayIs, NullNotSector
<1> QED
  BY <1>1, <1>3, <1>4, <1>5, <1>6, PlainMoves

\* Taking a lock that is free, or giving back its own, p leaves the other locks.
LEMMA LocksOf ==
  ASSUME NEW p \in Process, Steps(p), NEW d, d = Dir(p), d \in Sector,
         locked[d] = NULL \/ locked[d] = p, NEW v, locked' = [locked EXCEPT ![d] = v]
  PROVE  LocksKept(p)
<1> SUFFICES ASSUME NEW q \in Process, q # p, pc[q] \in {"is empty", "erase"}
             PROVE  locked'[Dir(q)] = locked[Dir(q)]
  BY DEF LocksKept
<1>1. PICK e : e = Dir(q)
  OBVIOUS
<1>2. Removing(q) /\ Known(q)
  BY StepsKnow DEF TreeInv, CountInv, Known
<1>3. locked[e] = q /\ e \in Sector
  BY <1>1, <1>2 DEF Removing, Known, Calling, Dir
<1>4. q # NULL
  BY NamespaceAssumption
<1>5. e # d
  BY <1>3, <1>4
<1>6. locked \in [Sector -> Process \cup {NULL}]
  BY <1>2, KnownIs DEF OtherType
<1> QED
  BY <1>1, <1>3, <1>5, <1>6

\* dir_remove() finds what it may remove: an empty or a full directory, or a file.
LEMMA RemoveFindsTree ==
  ASSUME NEW p \in Process, Steps(p), NEW n \in FileName, RemoveFinds(p, n)
  PROVE  TreeInv'
<1>1. pc[p] = "walk" /\ UNCHANGED <<inode, cwd, fd, lost, panicked>> /\ Unlocked(Dir(p))
  BY DEF RemoveFinds, AtEnd
<1>2. Known(p) /\ DirInv(p) /\ TreeInv /\ CountInv /\ SlotType /\ OtherType /\ TypeOK
  BY StepsKnow, KnownIs
<1>3. PICK c, f, d, s : c = cwd[p] /\ f = fd[p] /\ d = Dir(p) /\ s = lookup(d, n)
  OBVIOUS
<1>4. d \in Sector /\ inode[d].isdir /\ Has(p, d) /\ ~Pending(p) /\ locked[d] = NULL
  BY <1>1, <1>2, <1>3, CallOf, NullNotSector DEF DirInv, Has, Pending, Unlocked
<1>5. s \in Sector \cup {NULL} /\ (s # NULL => n \in Name)
  BY <1>2, <1>3, <1>4, LookupType
<1>10. CASE Count(<<>>, <<d>>, {}, {}) /\ Return(p) /\ UNCHANGED locked
  BY <1>1, <1>3, <1>4, <1>10, FailsTree
<1>11. CASE Finds(p, n, d, s)
  <2>1. s \in Sector /\ n \in Name
    BY <1>5, <1>11 DEF Finds
  <2>2. /\ pc'[p] = IF inode[s].isdir THEN "is empty" ELSE "erase"
        /\ Dir(p)' = d /\ call'[p].name = n /\ call'[p].inode = s
    BY <1>2, <1>3, <1>11, <2>1 DEF Finds, OtherType, SlotType, CallType, Dir
  <2>3. Opened(p)' = s
    BY <2>2 DEF Opened
  <2>4. After(p, c, f, d, s)
    BY <1>1, <1>3, <2>2, <2>3 DEF After
  <2>5. May(p, c) /\ May(p, f) /\ May(p, d) /\ May(p, s)
    BY <1>1, <1>3, MayIs, TargetGood
  <2>6. OpensGood(p)
    BY <2>4, <2>5, OpensGoodBy
  <2>7. DirInv(p)'
    <3>1. cwd'[p] # NULL => inode[cwd'[p]].isdir
      BY DEF Steps, Strays
    <3> QED
      BY <1>1, <1>4, <2>2, <3>1 DEF DirInv
  <2>8. LocksKept(p)
    BY <1>3, <1>4, <1>11, LocksOf DEF Finds
  <2>9. Moving(p, {})
    <3>1. Release(<<>>, {}, {})
      BY <1>2, <1>11, ReleaseIs DEF Finds
    <3>2. pc'[p] # "add"
      BY <2>2
    <3> QED
      BY <1>1, <1>4, <3>1, <3>2 DEF Moving
  <2>10. Removing(p)'
    <3>1. locked'[d] = p
      BY <1>2, <1>4, <1>11 DEF Finds, OtherType
    <3>2. Entry(d, n, s)'
      <4>1. Entry(d, n, s)
        BY <1>2, <1>3, <1>4, <2>1, LookupEntry
      <4>2. d \notin removed /\ d \in allocated
        BY <1>2, <1>4, <4>1 DEF TreeInv, RemovedInv, Entry
      <4>3. d \in allocated'
        BY <2>9, <4>2 DEF Moving, Release
      <4> QED
        BY <1>1, <4>1, <4>3 DEF Entry
    <3>3. ASSUME inode[s].isdir PROVE open_cnt'[s] = 1 /\ pc'[p] # "erase"
      <4>1. Opening(s)
        BY <1>2, <1>11, CountIs DEF Finds
      <4>2. open_cnt[s] \in Nat /\ ~(open_cnt[s] > 0)
        BY <1>2, <1>11, <2>1, <3>3 DEF Finds, TypeOK
      <4>3. open_cnt'[s] = open_cnt[s] + 1
        BY <2>1, <4>1 DEF Opening, One
      <4>4. PICK a, b : a = open_cnt[s] /\ b = open_cnt'[s]
        OBVIOUS
      <4>5. a \in Nat /\ ~(a > 0) /\ b = a + 1
        BY <4>2, <4>3, <4>4
      <4>6. b = 1
        BY <4>5
      <4> QED
        BY <2>2, <3>3, <4>4, <4>6
    <3> QED
      BY <1>1, <2>2, <3>1, <3>2, <3>3 DEF Removing, Entry
  <2> QED
    BY <2>6, <2>7, <2>8, <2>9, <2>10, Moves
<1> QED
  BY <1>3, <1>10, <1>11 DEF RemoveFinds, Finds

\* dir_remove() finds the directory empty, under the lock of its parent only.
LEMMA IsEmptyTree ==
  ASSUME NEW p \in Process, Steps(p), dir_is_empty(p)
  PROVE  TreeInv'
<1>1. pc[p] = "is empty" /\ UNCHANGED <<inode, cwd, fd, lost, panicked>>
  BY DEF dir_is_empty
<1>2. Known(p) /\ DirInv(p) /\ Removing(p) /\ TreeInv /\ CountInv /\ SlotType /\ OtherType
  BY StepsKnow, KnownIs
<1>3. PICK c, f, d, n, x : c = cwd[p] /\ f = fd[p] /\ d = Dir(p) /\ n = call[p].name /\ x = call[p].inode
  OBVIOUS
<1>4. d \in Sector /\ inode[d].isdir /\ Opened(p) = x /\ x \in Sector /\ ~Pending(p)
      /\ locked[d] = p /\ Entry(d, n, x)
  BY <1>1, <1>2, <1>3, CallOf, NullNotSector DEF DirInv, Pending, Removing
<1>5. CASE IsEmpty(x) /\ pc' = [pc EXCEPT ![p] = "erase"] /\ UNCHANGED <<References, locked, call>>
  <2>1. pc'[p] = "erase" /\ call'[p] = call[p]
    BY <1>2, <1>5 DEF OtherType
  <2>2. After(p, c, f, d, x)
    BY <1>1, <1>3, <1>4, <2>1 DEF After, Dir, Opened
  <2>3. May(p, c) /\ May(p, f) /\ May(p, d) /\ May(p, x)
    BY <1>3, <1>4, MayIs DEF May, Has
  <2>4. OpensGood(p)
    BY <2>2, <2>3, OpensGoodBy
  <2>5. DirInv(p)'
    BY <1>1, <1>2, <2>1 DEF DirInv, Dir
  <2>6. Removing(p)'
    <3>1. open_cnt' = open_cnt /\ allocated' = allocated
      BY <1>5 DEF References
    <3>2. inode[x].isdir => open_cnt[x] = 1
      BY <1>1, <1>2, <1>3 DEF Removing
    <3>3. /\ Dir(p)' = d /\ call'[p].name = n /\ call'[p].inode = x
          /\ IsEmpty(x)' /\ Entry(d, n, x)'
      BY <1>1, <1>3, <1>4, <1>5, <2>1, <3>1 DEF Dir, IsEmpty, Entry
    <3> QED
      BY <1>1, <1>4, <1>5, <3>1, <3>2, <3>3 DEF Removing, Entry, IsEmpty
  <2>7. Moving(p, {})
    BY <1>1, <1>2, <1>4, <1>5, <2>1, ReleaseIs DEF Moving
  <2> QED
    BY <1>5, <2>4, <2>5, <2>6, <2>7, SameLocks, Moves
<1>6. CASE /\ Count(<<>>, <<x, d>>, {}, {}) /\ locked' = [locked EXCEPT ![d] = NULL] /\ Return(p)
  <2>1. Release(<<>>, {}, {}) /\ LocksKept(p)
    BY <1>2, <1>3, <1>4, <1>6, ReleaseIs, LocksOf
  <2> QED
    BY <1>1, <1>4, <1>6, <2>1, MayIs, ReturnTree
<1> QED
  BY <1>3, <1>5, <1>6 DEF dir_is_empty

\* filesys_create() takes a sector: it was nobody's, as everybody's is allocated.
LEMMA TakesTree ==
  ASSUME NEW p \in Process, Steps(p), pc[p] = "walk", NEW n \in FileName, NEW isdir \in BOOLEAN,
         NEW s, Takes(p, n, isdir, s), UNCHANGED <<locked, cwd, fd>>
  PROVE  TreeInv'
<1>0. /\ CountInv /\ TreeInv /\ Known(p) /\ DirInv(p) /\ SlotType /\ OtherType /\ SlotType'
  BY StepsKnow, StepsIs, KnownIs
<1>1. /\ s \in Sector \ allocated /\ allocated' = allocated \cup {s}
      /\ inode' = [inode EXCEPT ![s] = NewInode(isdir)] /\ open_cnt' = open_cnt
      /\ removed' = removed /\ locked' = locked /\ cwd' = cwd /\ fd' = fd
  BY DEF Takes
<1>2. /\ inode'[s] = NewInode(isdir) /\ \A t \in Sector : t # s => inode'[t] = inode[t]
  BY <1>0, <1>1 DEF OtherType
<1>3. IsEmpty(s)' /\ \A m \in Name : inode'[s].entry[m] = NULL
  BY <1>2 DEF IsEmpty, NewInode
<1>4. pc'[p] = "add" /\ call'[p].inode = s /\ Dir(p)' = Dir(p) /\ Opened(p) = NULL /\ Opened(p)' = NULL
  BY <1>0 DEF Takes, OtherType, SlotType, CallType, Dir, Opened
<1>5. \A d \in Sector, m \in Name, t \in Sector : Entry(d, m, t)' <=> Entry(d, m, t)
  <2> TAKE d \in Sector, m \in Name, t \in Sector
  <2>1. CASE d = s
    BY <1>1, <1>3, <2>1, NullNotSector DEF Entry
  <2>2. CASE d # s
    BY <1>1, <1>2, <2>2 DEF Entry
  <2> QED
    BY <2>1, <2>2
<1>6. \A t \in Sector : IsNamed(t)' <=> IsNamed(t)
  BY <1>5 DEF IsNamed
<1>7. ~IsNamed(s)
  BY <1>0, <1>1 DEF TreeInv, EntryInv, IsNamed
<1>8. \A t \in Sector : Holders(t)' # {} => Holders(t) # {}
  <2> SUFFICES ASSUME NEW t \in Sector, Holders(t)' # {}
               PROVE  Holders(t) # {}
    OBVIOUS
  <2>1. PICK q \in Process : Has(q, t)'
    BY StepsIs DEF HoldersRight
  <2>2. CASE q = p
    BY <1>0, <1>1, <1>4, <2>1, <2>2, HoldersAre DEF HoldersRight, Has
  <2>3. CASE q # p
    <3>1. Has(q, t)
      BY <2>1, <2>3 DEF Steps, Others, Has, Dir, Opened
    <3> QED
      BY <1>0, <3>1, HoldersAre DEF HoldersRight
  <2> QED
    BY <2>2, <2>3
<1>9. \A t \in Sector : Holders(t)' # {} => t \in allocated
  BY <1>0, <1>8 DEF TreeInv, HeldInv
<1>10. \A t \in allocated : t \in Sector /\ t # s
  BY <1>0, <1>1 DEF CountInv, TypeOK
<1>11. RootInv'
  <2>1. ROOT_DIR_SECTOR \in Sector /\ ROOT_DIR_SECTOR' = ROOT_DIR_SECTOR
    BY NullNotSector DEF ROOT_DIR_SECTOR
  <2> QED
    BY <1>0, <1>1, <1>2, <1>6, <1>10, <2>1 DEF TreeInv, RootInv
<1>12. RemovedInv'
  BY <1>0, <1>1, <1>2, <1>6, <1>10 DEF TreeInv, RemovedInv
<1>13. EntryInv'
  <2> SUFFICES ASSUME NEW d \in Sector, NEW m \in Name, NEW t \in Sector, Entry(d, m, t)'
               PROVE  /\ inode'[d].isdir /\ t \in allocated' \ removed' /\ inode'[t].parent = d
                      /\ \A c \in Sector, k \in Name : Entry(c, k, t)' => c = d /\ k = m
    BY DEF EntryInv
  <2>1. Entry(d, m, t)
    BY <1>5
  <2>2. /\ inode[d].isdir /\ t \in allocated \ removed /\ inode[t].parent = d
        /\ \A c \in Sector, k \in Name : Entry(c, k, t) => c = d /\ k = m
    BY <1>0, <2>1 DEF TreeInv, EntryInv
  <2>3. d # s /\ t # s
    BY <1>1, <2>1, <2>2 DEF Entry
  <2> QED
    BY <1>1, <1>2, <1>5, <2>2, <2>3
<1>14. HeldInv'
  BY <1>1, <1>9 DEF HeldInv
<1>15. \A q \in Process : Pending(q)' <=> Pending(q) \/ q = p
  BY <1>4 DEF Steps, Others, Pending
<1>16. \A q \in Process : Pending(q) => q # p /\ call'[q].inode = call[q].inode
                                       /\ call[q].inode \in allocated
  BY <1>0 DEF Steps, Others, Pending, TreeInv, PendingInv, Fresh
<1>17. AllocInv'
  <2> SUFFICES ASSUME NEW t \in allocated', t # ROOT_DIR_SECTOR, ~IsNamed(t)', t \notin removed'
               PROVE  \E q \in Process : Pending(q)' /\ call'[q].inode = t
    BY DEF AllocInv, ROOT_DIR_SECTOR
  <2>1. CASE t = s
    BY <1>4, <1>15, <2>1
  <2>2. CASE t # s
    <3>1. t \in allocated /\ t \in Sector /\ t \notin removed /\ ~IsNamed(t)
      BY <1>1, <1>6, <1>10, <2>2
    <3>2. PICK q \in Process : Pending(q) /\ call[q].inode = t
      BY <1>0, <3>1 DEF TreeInv, AllocInv
    <3> QED
      BY <1>15, <1>16, <3>2
  <2> QED
    BY <2>1, <2>2
<1>18. PendingInv'
  <2>1. ASSUME NEW q \in Process, Pending(q)'
        PROVE  Fresh(call[q].inode)'
    <3>1. CASE q = p
      <4>1. s \notin removed /\ s # ROOT_DIR_SECTOR
        BY <1>0, <1>1 DEF TreeInv, RootInv, RemovedInv
      <4>2. Holders(s)' = {}
        BY <1>1, <1>9
      <4>3. Fresh(s)'
        BY <1>1, <1>3, <1>6, <1>7, <4>1, <4>2 DEF Fresh, ROOT_DIR_SECTOR
      <4> QED
        BY <1>4, <3>1, <4>3, FreshCall
    <3>2. CASE q # p
      <4>1. PICK t : t = call[q].inode
        OBVIOUS
      <4>2. Pending(q) /\ call'[q].inode = t /\ t \in allocated
        BY <1>15, <1>16, <2>1, <3>2, <4>1
      <4>3. Fresh(t)
        BY <1>0, <4>1, <4>2 DEF TreeInv, PendingInv
      <4>4. IsEmpty(t)'
        BY <1>2, <1>10, <4>2, <4>3 DEF Fresh, IsEmpty
      <4>5. Holders(t)' = {}
        BY <1>8, <1>10, <4>2, <4>3 DEF Fresh
      <4>6. Fresh(t)'
        BY <1>1, <1>6, <1>10, <4>2, <4>3, <4>4, <4>5 DEF Fresh, ROOT_DIR_SECTOR
      <4> QED
        BY <4>2, <4>6, FreshCall
    <3> QED
      BY <3>1, <3>2
  <2>2. ASSUME NEW q \in Process, NEW r \in Process, Pending(q)', Pending(r)',
               call'[q].inode = call'[r].inode
        PROVE  q = r
    <3>1. \A y \in Process : Pending(y) => call'[y].inode # s
      BY <1>1, <1>16
    <3>2. CASE q = p \/ r = p
      BY <1>4, <1>15, <2>2, <3>1, <3>2
    <3>3. CASE q # p /\ r # p
      BY <1>0, <1>15, <1>16, <2>2, <3>3 DEF TreeInv, PendingInv
    <3> QED
      BY <3>2, <3>3
  <2> QED
    BY <2>1, <2>2 DEF PendingInv
<1>19. \A q \in Process : DirInv(q)' /\ Removing(q)'
  <2>0. \A t \in Sector : t \in allocated /\ inode[t].isdir => inode'[t].isdir
    BY <1>2, <1>10
  <2> TAKE q \in Process
  <2>1. CASE q = p
    <3>1. Removing(q)'
      BY <1>4, <2>1 DEF Removing
    <3>2. PICK c, d : c = cwd[p] /\ d = Dir(p)
      OBVIOUS
    <3>3. c \in Sector /\ d \in Sector /\ Has(p, c) /\ Has(p, d)
      BY <1>0, <3>2, CallOf DEF Has
    <3>4. c \in allocated /\ d \in allocated
      BY <1>0, <3>3, HeldGood DEF GoodSector
    <3>5. inode[c].isdir /\ inode[d].isdir
      BY <1>0, <3>2, <3>3, NullNotSector DEF DirInv
    <3>6. inode'[c].isdir /\ inode'[d].isdir
      BY <2>0, <3>3, <3>4, <3>5
    <3> QED
      BY <1>1, <1>4, <2>1, <3>1, <3>2, <3>6 DEF DirInv
  <2>2. CASE q # p
    <3>1. DirInv(q)'
      BY <2>0, <2>2, OthersDir
    <3>2. PICK d, m, x : d = Dir(q) /\ m = call[q].name /\ x = call[q].inode
      OBVIOUS
    <3>3. KeepsRemoving(q, d, m, x)
      <4>1. SUFFICES ASSUME pc[q] \in {"is empty", "erase"}
                     PROVE  /\ locked'[d] = q /\ Entry(d, m, x)' /\ (inode'[x].isdir <=> inode[x].isdir)
                            /\ inode[x].isdir /\ pc[q] = "erase" => IsEmpty(x)'
        BY <3>2 DEF KeepsRemoving
      <4>2. d \in Sector /\ m \in Name /\ x \in Sector
        BY <1>0, <3>2, <4>1 DEF CountInv, Calling, Dir
      <4>3. locked[d] = q /\ Entry(d, m, x) /\ (inode[x].isdir /\ pc[q] = "erase" => IsEmpty(x))
        BY <1>0, <3>2, <4>1 DEF TreeInv, Removing
      <4>4. x \in allocated
        BY <1>0, <4>2, <4>3, EntryGood DEF GoodSector
      <4>5. inode'[x] = inode[x]
        BY <1>2, <1>10, <4>4
      <4>6. IsEmpty(x)' <=> IsEmpty(x)
        BY <4>5 DEF IsEmpty
      <4> QED
        BY <1>1, <1>5, <4>2, <4>3, <4>5, <4>6
    <3>4. Removing(q)'
      BY <2>2, <3>3, OthersRemoving
    <3> QED
      BY <3>1, <3>4
  <2> QED
    BY <2>1, <2>2
<1> QED
  BY <1>11, <1>12, <1>13, <1>14, <1>17, <1>18, <1>19 DEF TreeInv

\* filesys_create() up to dir_add().
LEMMA CreateTree ==
  ASSUME NEW p \in Process, Steps(p), NEW n \in FileName, NEW isdir \in BOOLEAN, Create(p, n, isdir)
  PROVE  TreeInv'
<1>1. pc[p] = "walk" /\ UNCHANGED <<locked, cwd, fd, lost, panicked>>
  BY DEF Create, AtEnd
<1>2. CASE Count(<<>>, <<Dir(p)>>, {}, {}) /\ Return(p) /\ UNCHANGED inode
  <2>1. ~Pending(p)
    BY <1>1 DEF Pending
  <2> QED
    BY <1>1, <1>2, <2>1, FailsTree
<1>3. ASSUME NEW s, Takes(p, n, isdir, s)
      PROVE  TreeInv'
  BY <1>1, <1>3, TakesTree
<1> QED
  BY <1>2, <1>3, CreateIs

\* The inodes after an entry of d is set to v.
EntrySet(d, n, v) ==
  /\ \A t \in Sector : inode'[t].isdir <=> inode[t].isdir
  /\ \A t \in Sector, m \in Name :
       inode'[t].entry[m] = IF t = d /\ m = n THEN v ELSE inode[t].entry[m]

\* What dir_add() and dir_remove() write.
PutsEntry(d, n, x) == inode' = [inode EXCEPT ![d].entry[n] = x, ![x].parent = d]
ClearsEntry(d, n) == inode' = [inode EXCEPT ![d].entry[n] = NULL]

\* The entries and parents after dir_add() ...
LEMMA EntryAdded ==
  ASSUME OtherType, NEW d \in Sector, NEW n \in Name, NEW x \in Sector, d # x,
         PutsEntry(d, n, x)
  PROVE  /\ EntrySet(d, n, x) /\ inode'[x].parent = d
         /\ \A t \in Sector : t # x => inode'[t].parent = inode[t].parent
<1>0. PICK F : F = inode'
  OBVIOUS
<1>1. inode \in [Sector -> [isdir : BOOLEAN, parent : Sector,
                            entry : [Name -> Sector \cup {NULL}]]]
  BY DEF OtherType
<1>2. \A t \in Sector : inode[t].entry \in [Name -> Sector \cup {NULL}]
                        /\ inode[t] = [isdir |-> inode[t].isdir, parent |-> inode[t].parent,
                                       entry |-> inode[t].entry]
  BY <1>1
<1>3. F[d] = [inode[d] EXCEPT !.entry[n] = x] /\ F[x] = [inode[x] EXCEPT !.parent = d]
      /\ \A t \in Sector : t # d /\ t # x => F[t] = inode[t]
  BY <1>0, <1>1 DEF PutsEntry
<1>4. /\ F[d].entry = [inode[d].entry EXCEPT ![n] = x]
      /\ F[d].parent = inode[d].parent /\ (F[d].isdir <=> inode[d].isdir)
      /\ F[x].entry = inode[x].entry /\ F[x].parent = d /\ (F[x].isdir <=> inode[x].isdir)
  BY <1>2, <1>3
<1>5. \A m \in Name : F[d].entry[m] = IF m = n THEN x ELSE inode[d].entry[m]
  BY <1>2, <1>4
<1>6. \A t \in Sector : (F[t].isdir <=> inode[t].isdir) /\ (t # x => F[t].parent = inode[t].parent)
  BY <1>3, <1>4
<1>7. \A t \in Sector, m \in Name :
        F[t].entry[m] = IF t = d /\ m = n THEN x ELSE inode[t].entry[m]
  <2> TAKE t \in Sector, m \in Name
  <2>1. CASE t = d
    BY <1>5, <2>1
  <2>2. CASE t # d
    BY <1>3, <1>4, <2>2
  <2> QED
    BY <2>1, <2>2
<1>8. F[x].parent = d
  BY <1>4
<1>9. EntrySet(d, n, x)
  BY <1>0, <1>6, <1>7 DEF EntrySet
<1> QED
  BY <1>0, <1>6, <1>8, <1>9

\* ... and after dir_remove().
LEMMA EntryErased ==
  ASSUME OtherType, NEW d \in Sector, NEW n \in Name, ClearsEntry(d, n)
  PROVE  /\ EntrySet(d, n, NULL)
         /\ \A t \in Sector : inode'[t].parent = inode[t].parent
<1>0. PICK F : F = inode'
  OBVIOUS
<1>1. inode \in [Sector -> [isdir : BOOLEAN, parent : Sector,
                            entry : [Name -> Sector \cup {NULL}]]]
  BY DEF OtherType
<1>2. \A t \in Sector : inode[t].entry \in [Name -> Sector \cup {NULL}]
                        /\ inode[t] = [isdir |-> inode[t].isdir, parent |-> inode[t].parent,
                                       entry |-> inode[t].entry]
  BY <1>1
<1>3. F[d] = [inode[d] EXCEPT !.entry[n] = NULL]
      /\ \A t \in Sector : t # d => F[t] = inode[t]
  BY <1>0, <1>1 DEF ClearsEntry
<1>4. /\ F[d].entry = [inode[d].entry EXCEPT ![n] = NULL]
      /\ F[d].parent = inode[d].parent /\ (F[d].isdir <=> inode[d].isdir)
  BY <1>2, <1>3
<1>5. \A m \in Name : F[d].entry[m] = IF m = n THEN NULL ELSE inode[d].entry[m]
  BY <1>2, <1>4
<1>6. \A t \in Sector : (F[t].isdir <=> inode[t].isdir) /\ F[t].parent = inode[t].parent
  BY <1>3, <1>4
<1>7. \A t \in Sector, m \in Name :
        F[t].entry[m] = IF t = d /\ m = n THEN NULL ELSE inode[t].entry[m]
  <2> TAKE t \in Sector, m \in Name
  <2>1. CASE t = d
    BY <1>5, <2>1
  <2>2. CASE t # d
    BY <1>3, <2>2
  <2> QED
    BY <2>1, <2>2
<1>8. EntrySet(d, n, NULL)
  BY <1>0, <1>6, <1>7 DEF EntrySet
<1> QED
  BY <1>0, <1>6, <1>8

\* dir_add() adds x to d.
Adds(p, d, n, x) ==
  /\ d = Dir(p) /\ n = call[p].name /\ x = call[p].inode /\ lookup(d, n) = NULL
  /\ inode' = [inode EXCEPT ![d].entry[n] = x, ![x].parent = d]
  /\ Count(<<>>, <<d>>, {}, {}) /\ Return(p) /\ UNCHANGED <<locked, cwd, fd>>

\* dir_add() hangs a fresh inode into the tree, in one place.
LEMMA AddsTree ==
  ASSUME NEW p \in Process, Steps(p), Pending(p), NEW d, NEW n \in Name, NEW x, Adds(p, d, n, x)
  PROVE  TreeInv'
<1>21. /\ d = Dir(p) /\ n = call[p].name /\ x = call[p].inode /\ lookup(d, n) = NULL
       /\ Count(<<>>, <<d>>, {}, {}) /\ Return(p) /\ locked' = locked /\ cwd' = cwd /\ fd' = fd
  BY DEF Adds
<1>0. /\ CountInv /\ TreeInv /\ Known(p) /\ DirInv(p) /\ SlotType /\ OtherType
  BY StepsKnow, KnownIs
<1>1. /\ d \in Sector /\ x \in Sector /\ Has(p, d) /\ inode[d].isdir /\ Fresh(x)
  BY <1>0, <1>21, CallOf, NullNotSector DEF Pending, Has, DirInv, TreeInv, PendingInv, Known, Calling
<1>2. d # x /\ d \in allocated \ removed /\ GoodSector(d)
  <2>1. GoodSector(d)
    BY <1>0, <1>1, HeldGood
  <2>2. d \notin removed
    BY <1>0, <1>1 DEF TreeInv, RemovedInv
  <2> QED
    BY <1>21, <2>1, <2>2 DEF GoodSector
<1>3. /\ EntrySet(d, n, x) /\ inode'[x].parent = d
      /\ \A t \in Sector : t # x => inode'[t].parent = inode[t].parent
  <2>1. PutsEntry(d, n, x)
    BY DEF Adds, PutsEntry
  <2> QED
    BY <1>0, <1>1, <1>2, <2>1, EntryAdded
<1>4. /\ allocated' = allocated \ {s \in removed : open_cnt'[s] = 0}
      /\ removed' = {s \in removed : open_cnt'[s] > 0}
  BY <1>21 DEF Count, Release
<1>5. /\ \A t \in allocated : t \notin removed => t \in allocated'
      /\ \A t \in allocated' : t \in allocated /\ ~(t \in removed /\ open_cnt'[t] = 0)
      /\ \A t \in removed' : t \in removed
  BY <1>4
<1>6. allocated \subseteq Sector /\ removed \subseteq Sector
  BY <1>0 DEF CountInv, TypeOK
<1>7. x \in allocated \ removed /\ x # ROOT_DIR_SECTOR /\ ~IsNamed(x) /\ IsEmpty(x)
  BY <1>1 DEF Fresh
<1>8. \A c \in Sector, m \in Name, t \in Sector :
        Entry(c, m, t)' <=> Entry(c, m, t) \/ (c = d /\ m = n /\ t = x)
  <2> TAKE c \in Sector, m \in Name, t \in Sector
  <2>1. CASE c = d /\ m = n
    <3>1. ~Entry(c, m, t)
      BY <1>21, <2>1, NullNotSector DEF Entry, lookup
    <3>2. Entry(c, m, t)' <=> t = x
      BY <1>2, <1>3, <1>5, <2>1 DEF Entry, EntrySet
    <3> QED
      BY <2>1, <3>1, <3>2
  <2>2. CASE ~(c = d /\ m = n)
    <3>1. inode'[c].entry[m] = inode[c].entry[m]
      BY <1>3, <2>2 DEF EntrySet
    <3>2. Entry(c, m, t) => c \notin removed
      BY <1>0 DEF TreeInv, EntryInv, RemovedInv
    <3>3. Entry(c, m, t)' <=> Entry(c, m, t)
      BY <1>5, <3>1, <3>2 DEF Entry
    <3> QED
      BY <2>2, <3>3
  <2> QED
    BY <2>1, <2>2
<1>9. \A t \in Sector : IsNamed(t)' <=> IsNamed(t) \/ t = x
  BY <1>1, <1>8 DEF IsNamed
<1>10. \A t \in Sector : t # d => (IsEmpty(t)' <=> IsEmpty(t))
  BY <1>3 DEF EntrySet, IsEmpty
<1>11. \A s \in Sector : Holders(s)' # {} => GoodSector(s) /\ s \in allocated'
  <2>1. Dir(p)' = NULL /\ Opened(p)' = NULL
    BY <1>0, <1>21, ReturnAfter
  <2>2. PICK c, f : c = cwd[p] /\ f = fd[p]
    OBVIOUS
  <2>3. After(p, c, f, NULL, NULL)
    BY <1>21, <2>1, <2>2 DEF After
  <2>4. OpensGood(p)
    BY <2>2, <2>3, MayIs, OpensGoodBy
  <2>5. Release(<<>>, {}, {})
    BY <1>0, <1>21, ReleaseIs
  <2> QED
    BY <2>4, <2>5, HeldStep
<1>12. \A q \in Process : Pending(q)' <=> Pending(q) /\ q # p
  <2>1. pc'[p] = "idle"
    BY <1>0, <1>21, ReturnAfter
  <2> QED
    BY <2>1 DEF Steps, Others, Pending
<1>13. \A q \in Process : Pending(q) /\ q # p => call'[q].inode = call[q].inode
                                               /\ call[q].inode \in Sector \ {x, d}
  <2> SUFFICES ASSUME NEW q \in Process, Pending(q), q # p
               PROVE  call'[q].inode = call[q].inode /\ call[q].inode \in Sector \ {x, d}
    OBVIOUS
  <2>1. call'[q] = call[q] /\ call[q].inode \in Sector
    BY <1>0 DEF Steps, Others, CountInv, Calling, Pending
  <2>2. call[q].inode # x
    BY <1>0, <1>21 DEF TreeInv, PendingInv
  <2>3. call[q].inode # d
    BY <1>2 DEF GoodSector
  <2> QED
    BY <2>1, <2>2, <2>3
<1>14. RootInv'
  <2>1. ROOT_DIR_SECTOR \in Sector /\ ROOT_DIR_SECTOR' = ROOT_DIR_SECTOR
    BY NullNotSector DEF ROOT_DIR_SECTOR
  <2> QED
    BY <1>0, <1>3, <1>5, <1>7, <1>9, <2>1 DEF TreeInv, RootInv, EntrySet
<1>15. RemovedInv'
  <2> SUFFICES ASSUME NEW s \in removed'
               PROVE  s \in allocated' /\ ~inode'[s].isdir /\ open_cnt'[s] > 0 /\ ~IsNamed(s)'
    BY DEF RemovedInv
  <2>1. s \in removed /\ open_cnt'[s] > 0 /\ s \in Sector /\ s # x
    BY <1>4, <1>6, <1>7
  <2>2. s \in allocated /\ ~inode[s].isdir /\ ~IsNamed(s)
    BY <1>0, <2>1 DEF TreeInv, RemovedInv
  <2>3. open_cnt'[s] # 0
    BY <2>1, StepsIs
  <2> QED
    BY <1>3, <1>4, <1>9, <2>1, <2>2, <2>3 DEF EntrySet
<1>16. EntryInv'
  <2> SUFFICES ASSUME NEW c \in Sector, NEW m \in Name, NEW s \in Sector, Entry(c, m, s)'
               PROVE  /\ inode'[c].isdir /\ s \in allocated' \ removed' /\ inode'[s].parent = c
                      /\ \A b \in Sector, k \in Name : Entry(b, k, s)' => b = c /\ k = m
    BY DEF EntryInv
  <2>1. CASE Entry(c, m, s)
    <3>1. /\ inode[c].isdir /\ s \in allocated \ removed /\ inode[s].parent = c
          /\ \A b \in Sector, k \in Name : Entry(b, k, s) => b = c /\ k = m
      BY <1>0, <2>1 DEF TreeInv, EntryInv
    <3>2. s # x
      BY <1>7, <2>1 DEF IsNamed
    <3> QED
      BY <1>3, <1>5, <1>8, <3>1, <3>2 DEF EntrySet
  <2>2. CASE c = d /\ m = n /\ s = x
    <3>1. \A b \in Sector, k \in Name : Entry(b, k, s)' => b = c /\ k = m
      BY <1>7, <1>8, <2>2 DEF IsNamed
    <3> QED
      BY <1>1, <1>3, <1>5, <1>7, <2>2, <3>1 DEF EntrySet
  <2> QED
    BY <1>8, <2>1, <2>2
<1>17. HeldInv'
  BY <1>11 DEF HeldInv
<1>18. AllocInv'
  <2> SUFFICES ASSUME NEW s \in allocated', s # ROOT_DIR_SECTOR, ~IsNamed(s)', s \notin removed'
               PROVE  \E q \in Process : Pending(q)' /\ call'[q].inode = s
    BY DEF AllocInv, ROOT_DIR_SECTOR
  <2>1. s \in allocated /\ s \in Sector
    BY <1>5, <1>6
  <2>2. s \notin removed
    <3>1. SUFFICES ASSUME s \in removed PROVE FALSE
      OBVIOUS
    <3>2. open_cnt'[s] # 0 /\ open_cnt'[s] \in Nat
      BY <1>5, <2>1, <3>1, StepsIs
    <3>3. open_cnt'[s] > 0
      BY <3>2
    <3> QED
      BY <1>4, <3>1, <3>3
  <2>3. ~IsNamed(s) /\ s # x
    BY <1>9, <2>1
  <2>4. PICK q \in Process : Pending(q) /\ call[q].inode = s
    BY <1>0, <2>1, <2>2, <2>3 DEF TreeInv, AllocInv
  <2>5. q # p
    BY <1>21, <2>3, <2>4
  <2> QED
    BY <1>12, <1>13, <2>4, <2>5
<1>19. PendingInv'
  <2>1. ASSUME NEW q \in Process, Pending(q)'
        PROVE  Fresh(call[q].inode)'
    <3>1. PICK s : s = call[q].inode
      OBVIOUS
    <3>2. Pending(q) /\ s \in Sector \ {x, d} /\ call'[q].inode = s
      BY <1>12, <1>13, <2>1, <3>1
    <3>3. Fresh(s)
      BY <1>0, <3>1, <3>2 DEF TreeInv, PendingInv
    <3>4. s \in allocated' \ removed'
      BY <1>5, <3>3 DEF Fresh
    <3>5. Holders(s)' = {}
      BY <1>11, <3>1, <3>2 DEF GoodSector
    <3>6. Fresh(s)'
      BY <1>9, <1>10, <3>2, <3>3, <3>4, <3>5 DEF Fresh, ROOT_DIR_SECTOR
    <3> QED
      BY <3>2, <3>6, FreshCall
  <2> QED
    BY <1>0, <1>12, <1>13, <2>1 DEF TreeInv, PendingInv
<1>20. \A q \in Process : DirInv(q)' /\ Removing(q)'
  <2> TAKE q \in Process
  <2>1. CASE q = p
    <3>1. pc'[p] = "idle" /\ Dir(p)' = NULL
      BY <1>0, <1>21, ReturnAfter
    <3>2. cwd[p] \in Sector \cup {NULL}
      BY <1>0, CallOf
    <3>3. cwd'[p] # NULL => inode'[cwd'[p]].isdir
      BY <1>0, <1>3, <1>21, <3>2 DEF DirInv, EntrySet
    <3> QED
      BY <2>1, <3>1, <3>3 DEF DirInv, Removing
  <2>2. CASE q # p
    <3>1. DirInv(q)'
      BY <1>3, <2>2, OthersDir DEF EntrySet
    <3>2. PICK e, m, y : e = Dir(q) /\ m = call[q].name /\ y = call[q].inode
      OBVIOUS
    <3>3. KeepsRemoving(q, e, m, y)
      <4>1. SUFFICES ASSUME pc[q] \in {"is empty", "erase"}
                     PROVE  /\ locked'[e] = q /\ Entry(e, m, y)' /\ (inode'[y].isdir <=> inode[y].isdir)
                            /\ inode[y].isdir /\ pc[q] = "erase" => IsEmpty(y)'
        BY <3>2 DEF KeepsRemoving
      <4>2. e \in Sector /\ m \in Name /\ y \in Sector
        BY <1>0, <3>2, <4>1 DEF CountInv, Calling, Dir
      <4>3. locked[e] = q /\ Entry(e, m, y) /\ (inode[y].isdir /\ pc[q] = "erase" => IsEmpty(y))
            /\ (inode[y].isdir => open_cnt[y] = 1)
        BY <1>0, <3>2, <4>1 DEF TreeInv, Removing
      <4>4. inode[y].isdir => y # d
        <5> SUFFICES ASSUME inode[y].isdir, y = d PROVE FALSE
          OBVIOUS
        <5>1. Opened(q) = d
          BY <3>2, <4>1 DEF Opened
        <5>2. open_cnt[d] >= 2
          BY <1>0, <1>1, <1>21, <5>1, OpenTwice
        <5>3. open_cnt[d] = 1
          BY <4>3
        <5> QED
          BY <5>2, <5>3
      <4> QED
        BY <1>3, <1>8, <1>10, <1>21, <4>2, <4>3, <4>4 DEF EntrySet
    <3>4. Removing(q)'
      BY <2>2, <3>3, OthersRemoving
    <3> QED
      BY <3>1, <3>4
  <2> QED
    BY <2>1, <2>2
<1> QED
  BY <1>14, <1>15, <1>16, <1>17, <1>18, <1>19, <1>20 DEF TreeInv

\* dir_add(), whether or not the name is taken.
LEMMA AddTree ==
  ASSUME NEW p \in Process, Steps(p), dir_add(p)
  PROVE  TreeInv'
<1>1. Pending(p) /\ UNCHANGED <<locked, cwd, fd>>
  BY DEF dir_add, Pending
<1>2. Known(p) /\ DirInv(p) /\ Calling(p)
  BY StepsKnow, KnownIs
<1>3. PICK d, n, x : d = Dir(p) /\ n = call[p].name /\ x = call[p].inode
  OBVIOUS
<1>4. inode[d].isdir /\ n \in Name \cup {""}
  BY <1>1, <1>2, <1>3, CallOf, NullNotSector DEF Pending, DirInv, Calling
<1>5. CASE Count(<<>>, <<d>>, {}, {x}) /\ Return(p) /\ UNCHANGED inode
  BY <1>1, <1>3, <1>5, FailsTree
<1>6. CASE /\ n # "" /\ lookup(d, n) = NULL
           /\ inode' = [inode EXCEPT ![d].entry[n] = x, ![x].parent = d]
           /\ Count(<<>>, <<d>>, {}, {}) /\ Return(p)
  <2>1. n \in Name /\ Adds(p, d, n, x)
    BY <1>1, <1>3, <1>4, <1>6 DEF Adds
  <2> QED
    BY <1>1, <2>1, AddsTree
<1> QED
  BY <1>3, <1>4, <1>5, <1>6 DEF dir_add

\* dir_remove() takes an inode without entries out of the tree.
LEMMA EraseTree ==
  ASSUME NEW p \in Process, Steps(p), Erase(p)
  PROVE  TreeInv'
<1>0. /\ CountInv /\ TreeInv /\ Known(p) /\ DirInv(p) /\ Removing(p) /\ SlotType /\ OtherType
      /\ TypeOK
  BY StepsKnow, KnownIs
<1>1. pc[p] = "erase" /\ Return(p) /\ cwd' = cwd /\ fd' = fd
      /\ Count(<<>>, <<call[p].inode, Dir(p)>>, {call[p].inode}, {})
      /\ locked' = [locked EXCEPT ![Dir(p)] = NULL]
  BY DEF Erase
<1>21. PICK d, n, x : d = Dir(p) /\ n = call[p].name /\ x = call[p].inode
  OBVIOUS
<1>2. /\ d \in Sector /\ n \in Name /\ x \in Sector /\ Opened(p) = x
      /\ inode[d].isdir /\ locked[d] = p /\ Entry(d, n, x)
      /\ inode[x].isdir => open_cnt[x] = 1 /\ IsEmpty(x)
  <2>1. d \in Sector /\ n \in Name /\ x \in Sector /\ Opened(p) = x
    BY <1>0, <1>1, <1>21 DEF Known, Calling, Dir, Opened
  <2> QED
    BY <1>0, <1>1, <1>21, <2>1, NullNotSector DEF DirInv, Removing
<1>3. d # x
  <2> SUFFICES ASSUME d = x PROVE FALSE
    OBVIOUS
  <2>1. open_cnt[d] >= 2
    BY <1>0, <1>2, <1>21, OpenTwice
  <2>2. open_cnt[d] = 1
    BY <1>2
  <2> QED
    BY <2>1, <2>2
<1>4. /\ EntrySet(d, n, NULL) /\ \A t \in Sector : inode'[t].parent = inode[t].parent
  <2>1. ClearsEntry(d, n)
    BY <1>21 DEF Erase, ClearsEntry
  <2> QED
    BY <1>0, <1>2, <2>1, EntryErased
<1>5. /\ allocated' = allocated \ {s \in removed \cup {x} : open_cnt'[s] = 0}
      /\ removed' = {s \in removed \cup {x} : open_cnt'[s] > 0}
  BY <1>1, <1>21 DEF Count, Release
<1>6. allocated \subseteq Sector /\ removed \subseteq Sector
  BY <1>0 DEF TypeOK
<1>7. /\ x \in allocated \ removed /\ x # ROOT_DIR_SECTOR /\ inode[x].parent = d
      /\ \A c \in Sector, m \in Name : Entry(c, m, x) => c = d /\ m = n
  BY <1>0, <1>2 DEF TreeInv, EntryInv, RootInv, IsNamed
<1>8. inode[x].isdir => open_cnt'[x] = 0
  <2> SUFFICES ASSUME inode[x].isdir PROVE open_cnt'[x] = 0
    OBVIOUS
  <2>1. ClosingBoth(x, d)
    <3>1. Count(<<>>, <<x, d>>, {x}, {}) /\ {x} \in SUBSET Sector
      BY <1>1, <1>2, <1>21
    <3> QED
      BY <1>0, <3>1, CountIs
  <2>2. open_cnt'[x] = open_cnt[x] - One(x, x) - One(d, x)
    BY <1>2, <2>1 DEF ClosingBoth
  <2> QED
    BY <1>2, <1>3, <2>2 DEF One
\* Who stays.
<1>9. \A s \in allocated : s # x /\ s \notin removed => s \in allocated' \ removed'
  BY <1>5
<1>10. \A s \in removed' : s \in Sector /\ ~inode[s].isdir /\ s \in allocated'
  <2> TAKE s \in removed'
  <2>1. s \in removed \cup {x} /\ s \in Sector /\ open_cnt'[s] > 0
    BY <1>2, <1>5, <1>6
  <2>2. open_cnt'[s] # 0 /\ s \in allocated
    BY <1>0, <1>7, <2>1, StepsIs DEF TreeInv, RemovedInv
  <2>3. ~inode[s].isdir
    BY <1>0, <1>8, <2>1, <2>2 DEF TreeInv, RemovedInv
  <2> QED
    BY <1>5, <2>1, <2>2, <2>3
<1>11. \A c \in Sector, m \in Name, t \in Sector :
         Entry(c, m, t)' <=> Entry(c, m, t) /\ ~(c = d /\ m = n)
  <2> TAKE c \in Sector, m \in Name, t \in Sector
  <2>1. CASE c = d /\ m = n
    <3>1. inode'[c].entry[m] = NULL
      BY <1>4, <2>1 DEF EntrySet
    <3> QED
      BY <2>1, <3>1, NullNotSector DEF Entry
  <2>2. CASE ~(c = d /\ m = n)
    <3>1. inode'[c].entry[m] = inode[c].entry[m]
      BY <1>4, <2>2 DEF EntrySet
    <3>2. Entry(c, m, t) => c \notin removed /\ c # x
      <4> SUFFICES ASSUME Entry(c, m, t) PROVE c \notin removed /\ c # x
        OBVIOUS
      <4>1. inode[c].isdir /\ ~IsEmpty(c)
        BY <1>0, NullNotSector DEF TreeInv, EntryInv, Entry, IsEmpty
      <4> QED
        BY <1>0, <1>2, <4>1 DEF TreeInv, RemovedInv
    <3>3. c \in allocated' => c \in allocated
      BY <1>5
    <3>4. Entry(c, m, t)' <=> Entry(c, m, t)
      BY <1>9, <3>1, <3>2, <3>3 DEF Entry
    <3> QED
      BY <2>2, <3>4
  <2> QED
    BY <2>1, <2>2
<1>12. \A t \in Sector : IsNamed(t)' <=> IsNamed(t) /\ t # x
  <2> TAKE t \in Sector
  <2>1. CASE t = x
    BY <1>7, <1>11, <2>1 DEF IsNamed
  <2>2. CASE t # x
    <3>1. ~Entry(d, n, t)
      BY <1>2, <2>2 DEF Entry
    <3> QED
      BY <1>11, <2>2, <3>1 DEF IsNamed
  <2> QED
    BY <2>1, <2>2
<1>13. \A t \in Sector : IsEmpty(t) => IsEmpty(t)'
  BY <1>4 DEF EntrySet, IsEmpty
<1>14. \A s \in Sector : Holders(s)' # {} => GoodSector(s) /\ s \in allocated'
  <2>1. Dir(p)' = NULL /\ Opened(p)' = NULL
    BY <1>0, <1>1, ReturnAfter
  <2>2. PICK c, f : c = cwd[p] /\ f = fd[p]
    OBVIOUS
  <2>3. After(p, c, f, NULL, NULL)
    BY <1>1, <2>1, <2>2 DEF After
  <2>4. OpensGood(p)
    BY <2>2, <2>3, MayIs, OpensGoodBy
  <2>5. Release(<<>>, {x}, {})
    BY <1>5 DEF Release
  <2> QED
    BY <2>4, <2>5, HeldStep
<1>15. \A q \in Process : Pending(q)' <=> Pending(q)
  <2>1. pc'[p] = "idle"
    BY <1>0, <1>1, ReturnAfter
  <2> QED
    BY <1>1, <2>1 DEF Steps, Others, Pending
<1>16. \A q \in Process : Pending(q) => /\ q # p /\ call'[q].inode = call[q].inode
                                        /\ call[q].inode \in Sector \ {x}
  <2> SUFFICES ASSUME NEW q \in Process, Pending(q)
               PROVE  q # p /\ call'[q].inode = call[q].inode /\ call[q].inode \in Sector \ {x}
    OBVIOUS
  <2>1. q # p
    BY <1>1 DEF Pending
  <2>2. call'[q] = call[q] /\ call[q].inode \in Sector
    BY <1>0, <2>1 DEF Steps, Others, CountInv, Calling, Pending
  <2>3. call[q].inode # x
    BY <1>0, <1>2, EntryGood DEF GoodSector
  <2> QED
    BY <2>1, <2>2, <2>3
<1>17. RootInv'
  <2>1. ROOT_DIR_SECTOR \in Sector /\ ROOT_DIR_SECTOR' = ROOT_DIR_SECTOR
    BY NullNotSector DEF ROOT_DIR_SECTOR
  <2>2. /\ ROOT_DIR_SECTOR \in allocated \ removed /\ inode[ROOT_DIR_SECTOR].isdir
        /\ inode[ROOT_DIR_SECTOR].parent = ROOT_DIR_SECTOR /\ ~IsNamed(ROOT_DIR_SECTOR)
    BY <1>0 DEF TreeInv, RootInv
  <2>3. ROOT_DIR_SECTOR \in allocated' \ removed'
    BY <1>7, <1>9, <2>2
  <2> QED
    BY <1>4, <1>12, <2>1, <2>2, <2>3 DEF RootInv, EntrySet
<1>18. RemovedInv'
  <2> SUFFICES ASSUME NEW s \in removed'
               PROVE  s \in allocated' /\ ~inode'[s].isdir /\ open_cnt'[s] > 0 /\ ~IsNamed(s)'
    BY DEF RemovedInv
  <2>1. s \in Sector /\ ~inode[s].isdir /\ s \in allocated'
    BY <1>10
  <2>2. open_cnt'[s] > 0 /\ s \in removed \cup {x}
    BY <1>5
  <2>3. ~IsNamed(s)'
    BY <1>0, <1>12, <2>1, <2>2 DEF TreeInv, RemovedInv
  <2> QED
    BY <1>4, <2>1, <2>2, <2>3 DEF EntrySet
<1>19. EntryInv'
  <2> SUFFICES ASSUME NEW c \in Sector, NEW m \in Name, NEW s \in Sector, Entry(c, m, s)'
               PROVE  /\ inode'[c].isdir /\ s \in allocated' \ removed' /\ inode'[s].parent = c
                      /\ \A b \in Sector, k \in Name : Entry(b, k, s)' => b = c /\ k = m
    BY DEF EntryInv
  <2>1. Entry(c, m, s) /\ ~(c = d /\ m = n)
    BY <1>11
  <2>2. /\ inode[c].isdir /\ s \in allocated \ removed /\ inode[s].parent = c
        /\ \A b \in Sector, k \in Name : Entry(b, k, s) => b = c /\ k = m
    BY <1>0, <2>1 DEF TreeInv, EntryInv
  <2>3. s # x
    BY <1>7, <2>1
  <2> QED
    BY <1>4, <1>9, <1>11, <2>2, <2>3 DEF EntrySet
<1>20. HeldInv'
  BY <1>14 DEF HeldInv
<1>22. AllocInv'
  <2> SUFFICES ASSUME NEW s \in allocated', s # ROOT_DIR_SECTOR, ~IsNamed(s)', s \notin removed'
               PROVE  \E q \in Process : Pending(q)' /\ call'[q].inode = s
    BY DEF AllocInv, ROOT_DIR_SECTOR
  <2>1. s \in allocated /\ s \in Sector /\ ~(s \in removed \cup {x} /\ open_cnt'[s] = 0)
    BY <1>5, <1>6
  <2>2. s \notin removed \cup {x}
    <3>1. SUFFICES ASSUME s \in removed \cup {x} PROVE FALSE
      OBVIOUS
    <3>2. open_cnt'[s] # 0 /\ open_cnt'[s] \in Nat
      BY <2>1, <3>1, StepsIs
    <3>3. open_cnt'[s] > 0
      BY <3>2
    <3> QED
      BY <1>5, <3>1, <3>3
  <2>3. ~IsNamed(s)
    BY <1>12, <2>1, <2>2
  <2>4. PICK q \in Process : Pending(q) /\ call[q].inode = s
    BY <1>0, <2>1, <2>2, <2>3 DEF TreeInv, AllocInv
  <2> QED
    BY <1>15, <1>16, <2>4
<1>23. PendingInv'
  <2>1. ASSUME NEW q \in Process, Pending(q)'
        PROVE  Fresh(call[q].inode)'
    <3>1. PICK s : s = call[q].inode
      OBVIOUS
    <3>2. Pending(q) /\ s \in Sector \ {x} /\ call'[q].inode = s
      BY <1>15, <1>16, <2>1, <3>1
    <3>3. Fresh(s)
      BY <1>0, <3>1, <3>2 DEF TreeInv, PendingInv
    <3>4. s \in allocated' \ removed'
      BY <1>9, <3>2, <3>3 DEF Fresh
    <3>5. Holders(s)' = {}
      BY <1>14, <3>1, <3>2 DEF GoodSector
    <3>6. Fresh(s)'
      BY <1>12, <1>13, <3>2, <3>3, <3>4, <3>5 DEF Fresh, ROOT_DIR_SECTOR
    <3> QED
      BY <3>2, <3>6, FreshCall
  <2> QED
    BY <1>0, <1>15, <1>16, <2>1 DEF TreeInv, PendingInv
<1>24. LocksKept(p)
  BY <1>1, <1>2, <1>21, LocksOf
<1>25. \A q \in Process : DirInv(q)' /\ Removing(q)'
  <2> TAKE q \in Process
  <2>1. CASE q = p
    <3>1. pc'[p] = "idle" /\ Dir(p)' = NULL
      BY <1>0, <1>1, ReturnAfter
    <3>2. cwd[p] \in Sector \cup {NULL}
      BY <1>0, CallOf
    <3>3. cwd'[p] # NULL => inode'[cwd'[p]].isdir
      BY <1>0, <1>1, <1>4, <3>2 DEF DirInv, EntrySet
    <3> QED
      BY <2>1, <3>1, <3>3 DEF DirInv, Removing
  <2>2. CASE q # p
    <3>1. DirInv(q)'
      BY <1>4, <2>2, OthersDir DEF EntrySet
    <3>2. PICK e, m, y : e = Dir(q) /\ m = call[q].name /\ y = call[q].inode
      OBVIOUS
    <3>3. KeepsRemoving(q, e, m, y)
      <4>1. SUFFICES ASSUME pc[q] \in {"is empty", "erase"}
                     PROVE  /\ locked'[e] = q /\ Entry(e, m, y)' /\ (inode'[y].isdir <=> inode[y].isdir)
                            /\ inode[y].isdir /\ pc[q] = "erase" => IsEmpty(y)'
        BY <3>2 DEF KeepsRemoving
      <4>2. e \in Sector /\ m \in Name /\ y \in Sector
        BY <1>0, <3>2, <4>1 DEF CountInv, Calling, Dir
      <4>3. locked[e] = q /\ Entry(e, m, y) /\ (inode[y].isdir /\ pc[q] = "erase" => IsEmpty(y))
        BY <1>0, <3>2, <4>1 DEF TreeInv, Removing
      <4>4. e # d
        BY <1>2, <2>2, <4>3
      <4>5. locked'[e] = q
        BY <1>24, <2>2, <3>2, <4>1, <4>3 DEF LocksKept
      <4> QED
        BY <1>4, <1>11, <1>13, <4>2, <4>3, <4>4, <4>5 DEF EntrySet
    <3>4. Removing(q)'
      BY <2>2, <3>3, OthersRemoving
    <3> QED
      BY <3>1, <3>4
  <2> QED
    BY <2>1, <2>2
<1> QED
  BY <1>17, <1>18, <1>19, <1>20, <1>22, <1>23, <1>25 DEF TreeInv

\* Every step of a process keeps the tree.
LEMMA StepTree ==
  ASSUME NEW p \in Process, Steps(p), Step(p)
  PROVE  TreeInv'
<1>1. CASE Begin(p)
  BY <1>1, BeginTree
<1>2. CASE \E token \in Token : Walk(p, token)
  BY <1>2, WalkTree
<1>3. CASE \E name \in FileName : \/ Open(p, name) \/ Chdir(p, name) \/ RemoveFinds(p, name)
                                  \/ \E isdir \in BOOLEAN : Create(p, name, isdir)
  BY <1>3, OpenTree, ChdirTree, RemoveFindsTree, CreateTree
<1>4. CASE dir_add(p)
  BY <1>4, AddTree
<1>5. CASE dir_is_empty(p)
  BY <1>5, IsEmptyTree
<1>6. CASE Erase(p)
  BY <1>6, EraseTree
<1>7. CASE Close(p)
  BY <1>7, CloseTree
<1>8. CASE Exit(p)
  BY <1>8, ExitTree
<1> QED
  BY <1>1, <1>2, <1>3, <1>4, <1>5, <1>6, <1>7, <1>8 DEF Step

\* The root alone is a tree.
LEMMA TreeInit ==
  ASSUME Init
  PROVE  TreeInv
<1>1. /\ allocated = {ROOT_DIR_SECTOR} /\ removed = {}
      /\ cwd = [p \in Process |-> ROOT_DIR_SECTOR] /\ fd = [p \in Process |-> NULL]
      /\ pc = [p \in Process |-> "idle"] /\ call = [p \in Process |-> NoCall]
  BY DEF Init
<1>2. ROOT_DIR_SECTOR \in Sector /\ NULL \notin Sector /\ SlotType
  BY NullNotSector, CountInit DEF CountInv, TypeOK, SlotType
<1>3. \A s \in Sector : /\ inode[s].parent = ROOT_DIR_SECTOR
                        /\ inode[s].isdir <=> s = ROOT_DIR_SECTOR
                        /\ \A n \in Name : inode[s].entry[n] = NULL
  BY DEF Init, NewInode
<1>4. \A d \in Sector, n \in Name, s \in Sector : ~Entry(d, n, s)
  BY <1>2, <1>3 DEF Entry
<1>5. \A s \in Sector : Holders(s) # {} => s = ROOT_DIR_SECTOR
  BY <1>1, <1>2, HoldersAre DEF HoldersRight, Has, Dir, Opened, NoCall
<1>6. RootInv
  BY <1>1, <1>2, <1>3, <1>4 DEF RootInv, IsNamed
<1>7. RemovedInv /\ EntryInv /\ HeldInv /\ AllocInv
  BY <1>1, <1>4, <1>5 DEF RemovedInv, EntryInv, HeldInv, AllocInv
<1>8. PendingInv
  BY <1>1 DEF PendingInv, Pending
<1>9. \A p \in Process : DirInv(p) /\ Removing(p)
  BY <1>1, <1>2, <1>3 DEF DirInv, Removing, Dir, NoCall
<1> QED
  BY <1>6, <1>7, <1>8, <1>9 DEF TreeInv

\* The invariant holds in the initial states.
LEMMA NamespaceInit ==
  ASSUME Init
  PROVE  NamespaceIInv
BY CountInit, TreeInit DEF CountInv, NamespaceIInv

\* Every step keeps the invariant: while no process strays, the tree; after that, the
\* counts.
LEMMA NamespaceNext ==
  ASSUME NamespaceIInv, [Next]_vars
  PROVE  NamespaceIInv'
<1>1. CountInv /\ (~strayed => TreeInv)
  BY DEF NamespaceIInv, CountInv
<1>2. CountInv'
  BY <1>1, CountNext
<1>3. CASE Next
  <2>1. ASSUME ~strayed' PROVE TreeInv'
    <3>1. PICK p \in Process : Step(p)
      BY <1>3 DEF Next
    <3>2. ~strayed /\ ~Strays
      BY <1>3, <2>1 DEF Next
    <3>3. Others(p)
      <4>1. Known(p)
        BY <1>1 DEF CountInv, Known
      <4>2. Keeps(p)
        BY <3>1, <4>1, StepKeeps
      <4> QED
        BY <4>2 DEF Keeps
    <3>4. Steps(p)
      BY <1>1, <1>2, <3>2, <3>3 DEF Steps
    <3> QED
      BY <3>1, <3>4, StepTree
  <2> QED
    BY <1>2, <2>1 DEF NamespaceIInv, CountInv
<1>4. CASE UNCHANGED vars
  <2>1. ASSUME TreeInv PROVE TreeInv'
    <3>1. /\ inode' = inode /\ allocated' = allocated /\ open_cnt' = open_cnt /\ removed' = removed
          /\ locked' = locked /\ cwd' = cwd /\ fd' = fd /\ pc' = pc /\ call' = call
      BY <1>4 DEF vars
    <3>2. RootInv' /\ RemovedInv' /\ EntryInv'
      BY <2>1, <3>1 DEF TreeInv, RootInv, RemovedInv, EntryInv, IsNamed, Entry, ROOT_DIR_SECTOR, Sector
    <3>3. HeldInv'
      BY <2>1, <3>1 DEF TreeInv, HeldInv, Holders, Holds, Dir
    <3>4. AllocInv'
      BY <2>1, <3>1 DEF TreeInv, AllocInv, Pending, IsNamed, Entry
    <3>5. PendingInv'
      <4>1. \A q \in Process : Pending(q)' <=> Pending(q)
        BY <3>1 DEF Pending
      <4>2. ASSUME NEW s, Fresh(s) PROVE Fresh(s)'
        <5>1. Holders(s)' = Holders(s)
          BY <3>1 DEF Holders, Holds, Dir
        <5>2. (IsNamed(s)' <=> IsNamed(s)) /\ (IsEmpty(s)' <=> IsEmpty(s))
          BY <3>1 DEF IsNamed, Entry, IsEmpty
        <5> QED
          BY <3>1, <4>2, <5>1, <5>2 DEF Fresh, ROOT_DIR_SECTOR
      <4>3. ASSUME NEW q \in Process, Pending(q)' PROVE Fresh(call[q].inode)'
        <5>1. PICK s : s = call[q].inode
          OBVIOUS
        <5>2. Fresh(s) /\ s = call'[q].inode
          BY <2>1, <3>1, <4>1, <4>3, <5>1 DEF TreeInv, PendingInv
        <5>3. Fresh(s)'
          BY <4>2, <5>2
        <5> QED
          BY <5>2, <5>3, FreshCall
      <4> QED
        BY <2>1, <3>1, <4>1, <4>3 DEF TreeInv, PendingInv
    <3>6. \A p \in Process : DirInv(p)'
      BY <2>1, <3>1 DEF TreeInv, DirInv, Dir
    <3>7. \A p \in Process : Removing(p)'
      BY <2>1, <3>1 DEF TreeInv, Removing, Entry, IsEmpty, Dir
    <3> QED
      BY <3>2, <3>3, <3>4, <3>5, <3>6, <3>7 DEF TreeInv
  <2>2. strayed' = strayed
    BY <1>4 DEF vars
  <2> QED
    BY <1>1, <1>2, <2>1, <2>2 DEF NamespaceIInv, CountInv
<1> QED
  BY <1>3, <1>4

\* The invariant says what InodesAccounted says ...
LEMMA IInvAccounted ==
  ASSUME NamespaceIInv
  PROVE  InodesAccounted
<1>1. TypeOK
  BY DEF NamespaceIInv
<1>2. HeldAllocated
  BY DEF NamespaceIInv, TreeInv, HeldInv, HeldAllocated
<1>3. ASSUME ~strayed, NEW s \in allocated \ {ROOT_DIR_SECTOR}, Named(s) = {}, 
             ~(s \in removed /\ open_cnt[s] > 0)
      PROVE  \E p \in Process : pc[p] = "add" /\ call[p].inode = s
  <2>1. TreeInv /\ s \in Sector
    BY <1>1, <1>3 DEF NamespaceIInv, TypeOK
  <2>2. ~IsNamed(s)
    <3> SUFFICES ASSUME IsNamed(s) PROVE FALSE
      OBVIOUS
    <3>1. PICK d \in Sector, n \in Name : Entry(d, n, s)
      BY DEF IsNamed
    <3>2. <<d, n>> \in Named(s)
      BY <3>1 DEF Entry, Named
    <3> QED
      BY <1>3, <3>2
  <2>3. s \notin removed
    BY <1>3, <2>1 DEF TreeInv, RemovedInv
  <2> QED
    BY <1>3, <2>1, <2>2, <2>3 DEF TreeInv, AllocInv, Pending
<1> QED
  BY <1>1, <1>2, <1>3 DEF InodesAccounted, Accounted

\* ... and what Tree says.
LEMMA IInvTree ==
  ASSUME NamespaceIInv
  PROVE  Tree
<1> SUFFICES ASSUME ~strayed, NEW d \in allocated, NEW n \in Name, NEW s,
                    s = inode[d].entry[n], s # NULL
             PROVE  /\ inode[d].isdir /\ s \in allocated \ removed
                    /\ Named(s) = {<<d, n>>} /\ inode[s].parent = d
  BY DEF Tree
<1>1. TypeOK /\ TreeInv
  BY DEF NamespaceIInv
<1>2. d \in Sector /\ s \in Sector /\ allocated \subseteq Sector
  <2>1. d \in Sector /\ allocated \subseteq Sector
    BY <1>1 DEF TypeOK
  <2>2. inode[d].entry \in [Name -> Sector \cup {NULL}]
    BY <1>1, <2>1 DEF TypeOK
  <2> QED
    BY <2>1, <2>2
<1>3. Entry(d, n, s)
  BY DEF Entry
<1>4. /\ inode[d].isdir /\ s \in allocated \ removed /\ inode[s].parent = d
      /\ \A c \in Sector, m \in Name : Entry(c, m, s) => c = d /\ m = n
  BY <1>1, <1>2, <1>3 DEF TreeInv, EntryInv
<1>5. Named(s) = {<<d, n>>}
  <2>1. <<d, n>> \in Named(s)
    BY <1>3 DEF Entry, Named
  <2>2. ASSUME NEW e \in Named(s) PROVE e = <<d, n>>
    <3>1. PICK c \in allocated, m \in Name : e = <<c, m>> /\ inode[c].entry[m] = s
      BY <2>2 DEF Named
    <3>2. Entry(c, m, s) /\ c \in Sector
      BY <1>2, <3>1 DEF Entry
    <3> QED
      BY <1>4, <3>1, <3>2
  <2> QED
    BY <2>1, <2>2
<1> QED
  BY <1>4, <1>5

\* filesys/README B4: calls that race on names neither lose an inode's sector nor
\* give it back while somebody has it open or can reach it, for any number of
\* processes, names and sectors, while no process has strayed.
THEOREM NamesAccounted == Spec => []InodesAccounted
<1>1. Init => NamespaceIInv
  BY NamespaceInit
<1>2. NamespaceIInv /\ [Next]_vars => NamespaceIInv'
  BY NamespaceNext
<1>3. NamespaceIInv => InodesAccounted
  BY IInvAccounted
<1> QED
  BY <1>1, <1>2, <1>3, PTL DEF Spec

\* While no process has strayed the directories are a tree, whatever is created, removed
\* and walked at the same time: no inode has two entries, an entry names an inode that exists and was not
\* removed, and dir_parent_inode() leads back.
THEOREM NamesTree == Spec => []Tree
<1>1. Init => NamespaceIInv
  BY NamespaceInit
<1>2. NamespaceIInv /\ [Next]_vars => NamespaceIInv'
  BY NamespaceNext
<1>3. NamespaceIInv => Tree
  BY IInvTree
<1> QED
  BY <1>1, <1>2, <1>3, PTL DEF Spec
===============================================================================
