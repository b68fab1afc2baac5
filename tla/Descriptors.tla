----------------------------- MODULE Descriptors -----------------------------
(***************************************************************************)
(* Open files as processes have them: the descriptor tables of             *)
(* userprog/process.c with the system calls of userprog/syscall.c on them, *)
(* the struct file of filesys/file.c, and the counts of openers and of     *)
(* denials that all of them keep in an inode.  A process's executable is   *)
(* open, with writes denied, from load() to process_exit().                *)
(*                                                                         *)
(* A table belongs to one thread.  What is shared are the inodes, and what *)
(* takes time are the writes (deny_write_cnt is tested once, then sector   *)
(* by sector the data goes to the cache) and closing all at exit, which    *)
(* may wait for the disk at each file.                                     *)
(***************************************************************************)
EXTENDS Integers, FiniteSets, SequencesExt

CONSTANTS Process,
          File, Directory,   \* inodes
          MaxFd, MaxLength,  \* bounds: the last descriptor each process is given; sectors;
          MaxLeaks,          \* failures of process_add_file()
          NOTHING

ASSUME DescriptorsAssumption ==
  /\ IsFiniteSet(Process)
  /\ File \cap Directory = {} /\ NOTHING \notin File \cup Directory
  /\ MaxFd \in [Process -> Nat] /\ MaxLength \in Nat /\ MaxLeaks \in Nat

VARIABLES status,      \* of a process: new, loading, running, writing, closing, exiting, dead
          file_list,   \* its table: struct process_file, with the position of its file
          fd,          \* the next descriptor
          executable,
          write_call,  \* the write() under way; history: the processes that have loaded
                       \* its file since it began
          open_cnt, deny_write_cnt, length, \* struct inode
          leaked,      \* history: opens whose struct file nobody has
          halted       \* an assertion failed

descriptors == <<status, file_list, fd, executable, write_call, open_cnt, deny_write_cnt, length,
                 leaked, halted>>

Inodes == File \cup Directory
MIN_FD == 2
CLOSE_ALL == -1
NoWrite == [inode |-> NOTHING, at |-> 0, size |-> 0, left |-> 0, loads |-> {}]

DescriptorsInit ==
  /\ status = [p \in Process |-> "new"]
  /\ file_list = [p \in Process |-> <<>>]
  /\ fd = [p \in Process |-> MIN_FD]
  /\ executable = [p \in Process |-> NOTHING]
  /\ write_call = [p \in Process |-> NoWrite]
  /\ open_cnt = [i \in Inodes |-> 0]
  /\ deny_write_cnt = [i \in Inodes |-> 0]
  /\ length \in [Inodes -> {1}]
  /\ leaked = [i \in Inodes |-> 0]
  /\ halted = FALSE

Runs(p) == status[p] = "running"

-----------------------------------------------------------------------------
(* load() and process_exit(). *)

\* load() opens the program and denies writes.  If it is a directory, deny_write of
\* the struct file it takes it for is a byte that nobody has set.
load(p, i) ==
  /\ status[p] = "new"
  /\ \E before \in (IF i \in Directory THEN BOOLEAN ELSE {FALSE}) :
       deny_write_cnt' = [deny_write_cnt EXCEPT ![i] = IF before THEN @ ELSE @ + 1]
  /\ open_cnt' = [open_cnt EXCEPT ![i] = @ + 1]
  /\ executable' = [executable EXCEPT ![p] = i]
  /\ status' = [status EXCEPT ![p] = "loading"]
  /\ write_call' = [q \in Process |-> IF write_call[q].inode = i
                                       THEN [write_call[q] EXCEPT !.loads = @ \cup {p}]
                                       ELSE write_call[q]]
  /\ UNCHANGED <<file_list, fd, length, leaked, halted>>

\* Its header and segments are read: a directory is no program.
start_process(p) ==
  /\ status[p] = "loading"
  /\ \/ status' = [status EXCEPT ![p] = "exiting"]
     \/ executable[p] \in File /\ status' = [status EXCEPT ![p] = "running"]
  /\ UNCHANGED <<file_list, fd, executable, write_call, open_cnt, deny_write_cnt, length, leaked, halted>>

exit(p) ==
  /\ Runs(p)
  /\ status' = [status EXCEPT ![p] = "exiting"]
  /\ UNCHANGED <<file_list, fd, executable, write_call, open_cnt, deny_write_cnt, length, leaked, halted>>

\* process_exit() closes the executable last; file_allow_write() asserts that
\* writes are denied.
process_exit(p) ==
  /\ status[p] = "exiting" /\ file_list[p] = <<>>
  /\ LET i == executable[p]
     IN  /\ halted' = (deny_write_cnt[i] = 0)
         /\ deny_write_cnt' = [deny_write_cnt EXCEPT ![i] = @ - 1]
         /\ open_cnt' = [open_cnt EXCEPT ![i] = @ - 1]
  /\ executable' = [executable EXCEPT ![p] = NOTHING]
  /\ status' = [status EXCEPT ![p] = "dead"]
  /\ UNCHANGED <<file_list, fd, write_call, length, leaked>>

-----------------------------------------------------------------------------
(* System calls on descriptors. *)

\* process_add_file() and process_add_dir()
open(p, i) ==
  /\ Runs(p) /\ fd[p] <= MaxFd[p]
  /\ file_list' = [file_list EXCEPT ![p] = Append(@, [fd |-> fd[p], isdir |-> i \in Directory, inode |-> i, pos |-> 0])]
  /\ fd' = [fd EXCEPT ![p] = @ + 1]
  /\ open_cnt' = [open_cnt EXCEPT ![i] = @ + 1]
  /\ UNCHANGED <<status, executable, write_call, deny_write_cnt, length, leaked, halted>>

\* Without memory for the struct process_file the file stays open for ever.
OpenFails(p, i) ==
  /\ Runs(p) /\ \A j \in Inodes : leaked[j] < MaxLeaks
  /\ open_cnt' = [open_cnt EXCEPT ![i] = @ + 1]
  /\ leaked' = [leaked EXCEPT ![i] = @ + 1]
  /\ UNCHANGED <<status, file_list, fd, executable, write_call, deny_write_cnt, length, halted>>

\* process_get_file(): the first of the table with that descriptor, if any.
process_get_file(p, n) == SelectInSeq(file_list[p], LAMBDA f : f.fd = n)

\* file_close() and dir_close() of the k-th of p's table, and its removal.
Close(p, k) ==
  /\ open_cnt' = [open_cnt EXCEPT ![file_list[p][k].inode] = @ - 1]
  /\ file_list' = [file_list EXCEPT ![p] = RemoveAt(@, k)]

\* close() of one, or, with the value CLOSE_ALL, of each in turn.
close(p, n) ==
  /\ Runs(p)
  /\ \/ /\ n # CLOSE_ALL /\ process_get_file(p, n) # 0
        /\ Close(p, process_get_file(p, n))
        /\ UNCHANGED <<status, deny_write_cnt>>
     \/ /\ n = CLOSE_ALL
        /\ status' = [status EXCEPT ![p] = "closing"]
        /\ UNCHANGED <<file_list, open_cnt, deny_write_cnt>>
  /\ UNCHANGED <<fd, executable, write_call, length, leaked, halted>>

\* Mutant of process_close_file: it always allows writes again.
process_close_file_allows(p) ==
  /\ status[p] \in {"closing", "exiting"} /\ file_list[p] # <<>>
  /\ Close(p, 1)
  /\ LET i == file_list[p][1].inode
     IN  deny_write_cnt' = [deny_write_cnt EXCEPT ![i] = IF @ > 0 THEN @ - 1 ELSE 0]
  /\ UNCHANGED <<status, fd, executable, write_call, length, leaked, halted>>

\* process_close_file(CLOSE_ALL), one file at a time.
process_close_file(p) ==
  /\ status[p] \in {"closing", "exiting"} /\ file_list[p] # <<>>
  /\ Close(p, 1)
  /\ UNCHANGED <<status, fd, executable, write_call, deny_write_cnt, length, leaked, halted>>
ClosedAll(p) ==
  /\ status[p] = "closing" /\ file_list[p] = <<>>
  /\ status' = [status EXCEPT ![p] = "running"]
  /\ UNCHANGED <<file_list, fd, executable, write_call, open_cnt, deny_write_cnt, length, leaked, halted>>

\* A file, and not a directory, has descriptor n.
IsFile(p, n) == process_get_file(p, n) # 0 /\ ~file_list[p][process_get_file(p, n)].isdir
TheFile(p, n) == file_list[p][process_get_file(p, n)]
PosOf(p, n, pos) == [file_list EXCEPT ![p][process_get_file(p, n)].pos = pos]

AtMost(a, b) == IF a < b THEN a ELSE b
AtLeast(a, b) == IF a > b THEN a ELSE b

\* seek() goes anywhere, past the end too.
seek(p, n, pos) ==
  /\ Runs(p) /\ IsFile(p, n)
  /\ file_list' = PosOf(p, n, pos)
  /\ UNCHANGED <<status, fd, executable, write_call, open_cnt, deny_write_cnt, length, leaked, halted>>

\* read() advances by what there is.
read(p, n, bytes) ==
  /\ Runs(p) /\ IsFile(p, n)
  /\ LET f == TheFile(p, n)
     IN  file_list' = PosOf(p, n, f.pos + AtLeast(0, AtMost(bytes, length[f.inode] - f.pos)))
  /\ UNCHANGED <<status, fd, executable, write_call, open_cnt, deny_write_cnt, length, leaked, halted>>

\* write() is refused, with 0, while writes are denied; else the file grows if it
\* must ...
write(p, n, bytes) ==
  /\ Runs(p) /\ IsFile(p, n)
  /\ LET f == TheFile(p, n)
     IN  /\ deny_write_cnt[f.inode] = 0
         /\ f.pos + bytes <= MaxLength
         /\ length' = [length EXCEPT ![f.inode] = AtLeast(@, f.pos + bytes)]
  /\ write_call' = [write_call EXCEPT ![p] = [inode |-> TheFile(p, n).inode, at |-> process_get_file(p, n),
                                               size |-> bytes, left |-> bytes, loads |-> {}]]
  /\ status' = [status EXCEPT ![p] = "writing"]
  /\ UNCHANGED <<file_list, fd, executable, open_cnt, deny_write_cnt, leaked, halted>>

\* ... and sector by sector it is written; the position follows at the end.
WriteSector(p) ==
  /\ status[p] = "writing" /\ write_call[p].left > 0
  /\ write_call' = [write_call EXCEPT ![p].left = @ - 1]
  /\ UNCHANGED <<status, file_list, fd, executable, open_cnt, deny_write_cnt, length, leaked, halted>>
WriteReturns(p) ==
  /\ status[p] = "writing" /\ write_call[p].left = 0
  /\ file_list' = [file_list EXCEPT ![p][write_call[p].at].pos = @ + write_call[p].size]
  /\ write_call' = [write_call EXCEPT ![p] = NoWrite]
  /\ status' = [status EXCEPT ![p] = "running"]
  /\ UNCHANGED <<fd, executable, open_cnt, deny_write_cnt, length, leaked, halted>>

OnInode(p) == \E i \in Inodes : load(p, i) \/ open(p, i) \/ OpenFails(p, i)
OnDescriptor(p) ==
  \/ \E n \in {CLOSE_ALL} \cup (MIN_FD..MaxFd[p]) : close(p, n)
  \/ \E n \in MIN_FD..MaxFd[p], k \in 0..MaxLength : seek(p, n, k) \/ read(p, n, k) \/ write(p, n, k)
OnItsOwn(p) ==
  start_process(p) \/ exit(p) \/ process_exit(p) \/ process_close_file(p) \/ ClosedAll(p)
  \/ WriteSector(p) \/ WriteReturns(p)

DescriptorsNext == ~halted /\ \E p \in Process : OnInode(p) \/ OnDescriptor(p) \/ OnItsOwn(p)

DescriptorsSpec == DescriptorsInit /\ [][DescriptorsNext]_descriptors

-----------------------------------------------------------------------------
(* Properties. *)

Live == {p \in Process : status[p] \notin {"new", "dead"}}
References(i) == UNION {{<<p, k>> : k \in {j \in DOMAIN file_list[p] : file_list[p][j].inode = i}} : p \in Live}
Runners(i) == {p \in Live : executable[p] = i}

\* The opens of an inode are those of live processes: a process that is dead has
\* closed each of its descriptors and its executable once, whatever it closed by
\* itself before, and a descriptor is given to one file only.
OpensAccounted ==
  ~halted =>
    /\ \A i \in Inodes : open_cnt[i] = Cardinality(References(i)) + Cardinality(Runners(i)) + leaked[i]
    /\ \A p \in Process : \A j, k \in DOMAIN file_list[p] :
         j < k => file_list[p][j].fd < file_list[p][k].fd /\ file_list[p][k].fd < fd[p]

\* No write to a program begins while a process has it loaded, though others open
\* and close the same file: what still changes it began before the load.
ProgramsKept ==
  ~halted => \A i \in File :
    /\ deny_write_cnt[i] = Cardinality(Runners(i))
    /\ \A p \in Process : write_call[p].inode = i => Runners(i) \subseteq write_call[p].loads

\* Every open file is counted once in its inode, and every running program once in
\* the deny_write_cnt of its own.
FilesCounted == OpensAccounted /\ ProgramsKept

\* file.c:116: "Prevents write operations on FILE's underlying inode until
\* file_allow_write() is called or FILE is closed."  A write that had begun goes on.
NoWriteWhileDenied == \A p \in Process : write_call[p].left > 0 => deny_write_cnt[write_call[p].inode] = 0

\* The assertion of inode_allow_write().
AllowAsserts == ~halted
===============================================================================
