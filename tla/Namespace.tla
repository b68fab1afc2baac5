------------------------------- MODULE Namespace -------------------------------
(***************************************************************************)
(* Files and directories by name: filesys_create(), filesys_open(),        *)
(* filesys_remove(), filesys_chdir() and get_containing_dir() of           *)
(* filesys/filesys.c on dir_lookup(), dir_add() and dir_remove() of        *)
(* filesys/directory.c, called by several processes.                       *)
(*                                                                         *)
(* The lock of a directory's inode covers each search and change of its    *)
(* entries; nothing covers a whole path, or the inode an entry names.      *)
(* A call is a walk, one step for each token, and a last step, three for   *)
(* dir_remove(); its path and kind are chosen token by token on the way.   *)
(* The dir_close() that ends a call is part of its last step, for a        *)
(* directory that is open longer only makes others refuse.                 *)
(* There is one struct per open inode here (InodeTable.tla shows when) and *)
(* memory does not run out.  Files are empty: read as a directory, one has *)
(* no entry.                                                               *)
(***************************************************************************)
EXTENDS Integers, FiniteSets, SequencesExt

CONSTANTS Process, Name,
          MaxSector,  \* bound: inodes on the disk, at sectors ROOT_DIR_SECTOR on
          MaxLost,    \* bound: no more opens are lost once an inode has so many
          NULL

ASSUME NamespaceAssumption ==
  /\ IsFiniteSet(Process)
  /\ MaxSector \in Nat \ {0} /\ MaxLost \in Nat
  /\ Name \cap {"", ".", "..", NULL} = {} /\ NULL \notin Process \cup (1..MaxSector)

VARIABLES inode,      \* what the inode at each sector says, on disk or in memory
          allocated,  \* inode sectors marked in the free map
          open_cnt, removed,     \* of struct inode; 0 where there is none
          locked,     \* holder of each inode's lock, over more than a step
          cwd, fd,    \* inodes a process has open: its directory, one file
          pc, call,   \* the call a process is in
          lost,       \* history: opens of each inode nobody can close any more
          strayed,    \* history: a file was made somebody's directory, or a directory
                      \* was opened after dir_remove() had seen that it was not
          panicked    \* the kernel has panicked, and stands still

vars == <<inode, allocated, open_cnt, removed, locked, cwd, fd, pc, call, lost, strayed,
          panicked>>

ROOT_DIR_SECTOR == 1
Sector == ROOT_DIR_SECTOR..MaxSector
Token == Name \cup {".", ".."}
FileName == Token \cup {""}   \* the last token, by get_filename()

NewInode(isdir) ==
  [isdir |-> isdir, parent |-> ROOT_DIR_SECTOR, entry |-> [n \in Name |-> NULL]]
NoCall == [dir |-> NULL, name |-> NULL, inode |-> NULL]

Init ==
  /\ inode = [s \in Sector |-> NewInode(s = ROOT_DIR_SECTOR)]
  /\ allocated = {ROOT_DIR_SECTOR}
  /\ open_cnt = [s \in Sector |-> IF s = ROOT_DIR_SECTOR THEN Cardinality(Process) ELSE 0]
  /\ removed = {}
  /\ locked = [s \in Sector |-> NULL]
  /\ cwd = [p \in Process |-> ROOT_DIR_SECTOR]
  /\ fd = [p \in Process |-> NULL]
  /\ pc = [p \in Process |-> "idle"]
  /\ call = [p \in Process |-> NoCall]
  /\ lost = [s \in Sector |-> 0]
  /\ strayed = FALSE
  /\ panicked = FALSE

-----------------------------------------------------------------------------
Occurrences(seq, s) == Cardinality({i \in DOMAIN seq : seq[i] = s})

\* Mutant of Release: a removed inode is freed by any close.
Release_early(close, marked, unused) ==
  /\ allocated' = allocated \ (unused \cup {s \in removed \cup marked : s \in Range(close)})
  /\ removed' = {s \in removed \cup marked : open_cnt'[s] > 0}

\* inode_close(): the last one frees the inode, if it was removed; "unused" are
\* sectors given back that never were an inode in a directory.
Release(close, marked, unused) ==
  /\ allocated' = allocated \ (unused \cup {s \in removed \cup marked : open_cnt'[s] = 0})
  /\ removed' = {s \in removed \cup marked : open_cnt'[s] > 0}

\* A step that opens and closes inodes, and that removes those in "marked".
Count(open, close, marked, unused) ==
  /\ open_cnt' = [s \in Sector |-> open_cnt[s] + Occurrences(open, s) - Occurrences(close, s)]
  /\ Release(close, marked, unused)
References == <<open_cnt, removed, allocated>>

Return(p) == /\ pc' = [pc EXCEPT ![p] = "idle"]
             /\ call' = [call EXCEPT ![p] = NoCall]

Dir(p) == call[p].dir

\* lookup(), under the lock of the directory's inode.
Unlocked(d) == locked[d] = NULL
lookup(d, n) == IF n \in Name THEN inode[d].entry[n] ELSE NULL

-----------------------------------------------------------------------------
(* get_containing_dir(). *)

\* dir_open_root() or dir_reopen (cwd).
Begin(p) ==
  /\ pc[p] = "idle"
  /\ \E start \in {ROOT_DIR_SECTOR, cwd[p]} :
       /\ call' = [call EXCEPT ![p].dir = start]
       /\ Count(<<start>>, <<>>, {}, {})
  /\ pc' = [pc EXCEPT ![p] = "walk"]
  /\ UNCHANGED <<inode, locked, cwd, fd, lost, panicked>>

\* The inode of a token but the last: a directory becomes the one to go on from;
\* a file is closed again and passed over.
Enter(p, s) ==
  /\ call' = [call EXCEPT ![p].dir = IF inode[s].isdir THEN s ELSE @]
  /\ Count(<<s>>, <<IF inode[s].isdir THEN Dir(p) ELSE s>>, {}, {})
  /\ UNCHANGED <<pc, lost>>

\* The last pointer to a struct dir is gone.
Lose(s) == (\A t \in Sector : lost[t] < MaxLost) /\ lost' = [lost EXCEPT ![s] = @ + 1]

\* A token but the last that names nothing: the directory is not closed.
NotFound(p) ==
  /\ Lose(Dir(p))
  /\ Return(p)
  /\ UNCHANGED References

\* Any token but the last; "." is passed over.
Walk(p, token) ==
  /\ pc[p] = "walk"
  /\ \/ token = ".." /\ Enter(p, inode[Dir(p)].parent)
     \/ /\ token \in Name /\ Unlocked(Dir(p))
        /\ IF lookup(Dir(p), token) # NULL THEN Enter(p, lookup(Dir(p), token))
                                           ELSE NotFound(p)
  /\ UNCHANGED <<inode, locked, cwd, fd, panicked>>

\* get_filename(): "" only of a path without tokens.
AtEnd(p, name) ==
  /\ pc[p] = "walk"
  /\ name = "" => Dir(p) \in {ROOT_DIR_SECTOR, cwd[p]}

-----------------------------------------------------------------------------
(* filesys_open() and filesys_chdir(). *)

\* The name stands for the directory the walk ended in.
Itself(p, name) == name = "." \/ (name = "" /\ Dir(p) = ROOT_DIR_SECTOR)

\* What else it stands for, if anything.
Target(p, name) == IF name = ".." THEN inode[Dir(p)].parent ELSE lookup(Dir(p), name)
CanSearch(p, name) == name = ".." \/ Unlocked(Dir(p))

\* Mutant of Open: the struct dir that is returned is closed.
Open_closed(p, name) ==
  /\ AtEnd(p, name) /\ fd[p] = NULL
  /\ \/ /\ Itself(p, name)
        /\ fd' = [fd EXCEPT ![p] = Dir(p)]
        /\ Count(<<>>, <<Dir(p)>>, {}, {})
     \/ /\ ~Itself(p, name) /\ CanSearch(p, name)
        /\ fd' = [fd EXCEPT ![p] = Target(p, name)]
        /\ Count(<<Target(p, name)>>, <<Dir(p)>>, {}, {})
  /\ Return(p)
  /\ UNCHANGED <<inode, locked, cwd, lost, panicked>>

Open(p, name) ==
  /\ AtEnd(p, name) /\ fd[p] = NULL
  /\ \/ /\ Itself(p, name)
        /\ fd' = [fd EXCEPT ![p] = Dir(p)]
        /\ UNCHANGED References
     \/ /\ ~Itself(p, name) /\ CanSearch(p, name)
        /\ fd' = [fd EXCEPT ![p] = Target(p, name)]
        /\ Count(<<Target(p, name)>>, <<Dir(p)>>, {}, {})
  /\ Return(p)
  /\ UNCHANGED <<inode, locked, cwd, lost, panicked>>

\* A name that stands for the directory itself replaces cwd and leaves the old
\* one open; a file's name is as good as a directory's.
Chdir(p, name) ==
  /\ AtEnd(p, name)
  /\ \/ /\ Itself(p, name)
        /\ cwd' = [cwd EXCEPT ![p] = Dir(p)]
        /\ Lose(cwd[p])
        /\ UNCHANGED References
     \/ /\ ~Itself(p, name) /\ CanSearch(p, name)
        /\ IF Target(p, name) = NULL
             THEN UNCHANGED cwd /\ Count(<<>>, <<Dir(p)>>, {}, {})
             ELSE /\ cwd' = [cwd EXCEPT ![p] = Target(p, name)]
                  /\ Count(<<Target(p, name)>>, <<Dir(p), cwd[p]>>, {}, {})
        /\ UNCHANGED lost
  /\ Return(p)
  /\ UNCHANGED <<inode, locked, fd, panicked>>

-----------------------------------------------------------------------------
(* filesys_create(). *)

\* free_map_allocate() takes the first free sector; inode_create().
Create(p, name, isdir) ==
  /\ AtEnd(p, name)
  /\ LET free == Sector \ allocated
         s    == CHOOSE x \in free : \A y \in free : x =< y
     IN  IF name \in {".", ".."} \/ free = {}
           THEN /\ Count(<<>>, <<Dir(p)>>, {}, {})
                /\ Return(p)
                /\ UNCHANGED inode
           ELSE /\ allocated' = allocated \cup {s}
                /\ inode' = [inode EXCEPT ![s] = NewInode(isdir)]
                /\ call' = [call EXCEPT ![p].name = name, ![p].inode = s]
                /\ pc' = [pc EXCEPT ![p] = "add"]
                /\ UNCHANGED <<open_cnt, removed>>
  /\ UNCHANGED <<locked, cwd, fd, lost, panicked>>

\* dir_add(), and filesys_create() gives the sector back if it fails.  If the
\* "directory" is a file, inode_write_at() takes the inode's lock a second time.
dir_add(p) ==
  /\ pc[p] = "add" /\ Unlocked(Dir(p))
  /\ IF call[p].name = "" \/ lookup(Dir(p), call[p].name) # NULL
       THEN /\ Count(<<>>, <<Dir(p)>>, {}, {call[p].inode})
            /\ Return(p)
            /\ UNCHANGED <<inode, panicked>>
       ELSE IF inode[Dir(p)].isdir
       THEN /\ inode' = [inode EXCEPT ![Dir(p)].entry[call[p].name] = call[p].inode,
                                      ![call[p].inode].parent = Dir(p)]
            /\ Count(<<>>, <<Dir(p)>>, {}, {})
            /\ Return(p)
            /\ UNCHANGED panicked
       ELSE /\ panicked' = TRUE
            /\ UNCHANGED <<inode, References, pc, call>>
  /\ UNCHANGED <<locked, cwd, fd, lost>>

-----------------------------------------------------------------------------
(* filesys_remove(): dir_remove(), with the directory locked throughout. *)

IsEmpty(s) == \A n \in Name : inode[s].entry[n] = NULL

\* The search, and the test of open_cnt for a directory.
RemoveFinds(p, name) ==
  /\ AtEnd(p, name) /\ Unlocked(Dir(p))
  /\ LET s == lookup(Dir(p), name)
     IN  IF s = NULL \/ (inode[s].isdir /\ open_cnt[s] > 0)
           THEN /\ Count(<<>>, <<Dir(p)>>, {}, {})
                /\ Return(p)
                /\ UNCHANGED locked
           ELSE /\ Count(<<s>>, <<>>, {}, {})
                /\ locked' = [locked EXCEPT ![Dir(p)] = p]
                /\ call' = [call EXCEPT ![p].name = name, ![p].inode = s]
                /\ pc' = [pc EXCEPT ![p] = IF inode[s].isdir THEN "is empty" ELSE "erase"]
  /\ UNCHANGED <<inode, cwd, fd, lost, panicked>>

dir_is_empty(p) ==
  /\ pc[p] = "is empty"
  /\ IF IsEmpty(call[p].inode)
       THEN /\ pc' = [pc EXCEPT ![p] = "erase"]
            /\ UNCHANGED <<References, locked, call>>
       ELSE /\ Count(<<>>, <<call[p].inode, Dir(p)>>, {}, {})
            /\ locked' = [locked EXCEPT ![Dir(p)] = NULL]
            /\ Return(p)
  /\ UNCHANGED <<inode, cwd, fd, lost, panicked>>

\* Mutant of Erase: the entry stays in use.
Erase_kept(p) ==
  /\ pc[p] = "erase"
  /\ Count(<<>>, <<call[p].inode, Dir(p)>>, {call[p].inode}, {})
  /\ locked' = [locked EXCEPT ![Dir(p)] = NULL]
  /\ Return(p)
  /\ UNCHANGED <<inode, cwd, fd, lost, panicked>>

Erase(p) ==
  /\ pc[p] = "erase"
  /\ inode' = [inode EXCEPT ![Dir(p)].entry[call[p].name] = NULL]
  /\ Count(<<>>, <<call[p].inode, Dir(p)>>, {call[p].inode}, {})
  /\ locked' = [locked EXCEPT ![Dir(p)] = NULL]
  /\ Return(p)
  /\ UNCHANGED <<cwd, fd, lost, panicked>>

-----------------------------------------------------------------------------
\* close(), and what process_exit() closes.
Close(p) ==
  /\ pc[p] = "idle" /\ fd[p] # NULL
  /\ fd' = [fd EXCEPT ![p] = NULL]
  /\ Count(<<>>, <<fd[p]>>, {}, {})
  /\ UNCHANGED <<inode, locked, cwd, pc, call, lost, panicked>>

Exit(p) ==
  /\ pc[p] = "idle"
  /\ pc' = [pc EXCEPT ![p] = "exited"]
  /\ fd' = [fd EXCEPT ![p] = NULL]
  /\ cwd' = [cwd EXCEPT ![p] = NULL]
  /\ Count(<<>>, <<fd[p], cwd[p]>>, {}, {})
  /\ UNCHANGED <<inode, locked, call, lost, panicked>>

Step(p) ==
  \/ Begin(p)
  \/ \E token \in Token : Walk(p, token)
  \/ \E name \in FileName : \/ Open(p, name) \/ Chdir(p, name) \/ RemoveFinds(p, name)
                            \/ \E isdir \in BOOLEAN : Create(p, name, isdir)
  \/ dir_add(p)
  \/ dir_is_empty(p) \/ Erase(p)
  \/ Close(p) \/ Exit(p)

Strays ==
  \E p \in Process :
    \/ cwd'[p] # NULL /\ ~inode[cwd'[p]].isdir
    \/ /\ pc[p] \in {"is empty", "erase"} /\ inode[call[p].inode].isdir
       /\ open_cnt'[call[p].inode] > open_cnt[call[p].inode]

Next ==
  /\ ~panicked
  /\ \E p \in Process : Step(p)
  /\ strayed' = (strayed \/ Strays)

Spec == Init /\ [][Next]_vars

-----------------------------------------------------------------------------
(* Properties. *)

TypeOK ==
  /\ inode \in [Sector -> [isdir : BOOLEAN, parent : Sector,
                           entry : [Name -> Sector \cup {NULL}]]]
  /\ allocated \in SUBSET Sector
  /\ open_cnt \in [Sector -> Nat]
  /\ removed \in SUBSET Sector
  /\ locked \in [Sector -> Process \cup {NULL}]
  /\ cwd \in [Process -> Sector \cup {NULL}] /\ fd \in [Process -> Sector \cup {NULL}]
  /\ pc \in [Process -> {"idle", "walk", "add", "is empty", "erase", "exited"}]
  /\ \A p \in Process :
       /\ call[p].dir \in Sector \cup {NULL} /\ call[p].inode \in Sector \cup {NULL}
       /\ call[p].name \in FileName \cup {NULL}
  /\ lost \in [Sector -> Nat]
  /\ strayed \in BOOLEAN /\ panicked \in BOOLEAN

\* The opens of s that somebody will close.
Holds(p, s) == <<cwd[p] = s, fd[p] = s, Dir(p) = s,
                 pc[p] \in {"is empty", "erase"} /\ call[p].inode = s>>
Holders(s) == {h \in Process \X (1..4) : Holds(h[1], s)[h[2]]}

\* inode.c: open_cnt is the "Number of openers": every open of an inode is
\* closed exactly once, on every path through every call, but for those counted
\* in "lost".
OpenCount == \A s \in Sector : open_cnt[s] = Cardinality(Holders(s)) + lost[s]

\* Nobody has an inode open, or gets one by a name or by "..", whose sector was
\* given back.
HeldAllocated ==
  ~strayed => \A s \in Sector : Holders(s) # {} => s \in allocated

\* The directories are a tree: an entry names an inode that exists and was not
\* removed, no inode has two, and ".." leads back.
Named(s) == {e \in allocated \X Name : inode[e[1]].entry[e[2]] = s}
Tree ==
  ~strayed => \A d \in allocated, n \in Name :
    LET s == inode[d].entry[n]
    IN  s # NULL => /\ inode[d].isdir
                    /\ s \in allocated \ removed
                    /\ Named(s) = {<<d, n>>}
                    /\ inode[s].parent = d

\* filesys/README B4: two calls that race on a name do not both succeed, the
\* sector of the one that fails is not lost, and no directory goes with entries in
\* it: an inode is in the tree, or removed and still open, or about to be added.
Accounted ==
  ~strayed => \A s \in allocated \ {ROOT_DIR_SECTOR} :
    \/ Named(s) # {}
    \/ s \in removed /\ open_cnt[s] > 0
    \/ \E p \in Process : pc[p] = "add" /\ call[p].inode = s

\* No inode's sector is given back too early, and none is lost.
InodesAccounted == TypeOK /\ HeldAllocated /\ Accounted

\* filesys/README B5: "if any process is using a directory, it cannot be removed".
InUseStays == \A p \in Process : cwd[p] # NULL /\ inode[cwd[p]].isdir => cwd[p] \notin removed

\* directory.c, dir_lookup(): "The caller must close *INODE".
AllClosed == \A s \in Sector : lost[s] = 0
=============================================================================
