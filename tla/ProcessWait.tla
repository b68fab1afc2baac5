----------------------------- MODULE ProcessWait -----------------------------
(***************************************************************************)
(* exec, wait and exit: process_execute(), start_process(), process_wait() *)
(* and process_exit() of userprog/process.c, exec(), exit() and the        *)
(* child_process list of userprog/syscall.c.                               *)
(*                                                                         *)
(* Parent and child meet in one malloc()ed struct child_process per child: *)
(* it is on the parent's list, only the parent frees it, and the child     *)
(* writes through its pointer t->cp after asking thread_alive(parent).     *)
(* Threads are preempted between any two of these accesses; a semaphore    *)
(* operation is one step (Synch.tla).  What follows a use of a freed       *)
(* struct is undefined: it is recorded in "fault" and the machine stops.   *)
(***************************************************************************)
EXTENDS Integers

CONSTANTS Process,    \* every process; a tid is never reused
          InitialThread,
          Code,       \* exit codes
          NULL

ASSUME ProcessAssumption == InitialThread \in Process /\ NULL \notin Process \cup Code

VARIABLES pc,         \* where each process is
          parent,     \* t->parent
          all_list,   \* the processes thread_alive() finds
          executable, \* t->executable # NULL
          code,       \* history: what exit() was called with
          target,     \* the child in the exec or wait a process is in
          cp,         \* the struct child_process of each process
          memory,     \* and whether it is allocated: "none" before, "live", or
                      \* the function that freed it
          fault,      \* who used a freed struct, where, and who had freed it
          waited,     \* history: the children that a wait has returned for
          orphan      \* history: who called exit() with the parent gone already

vars == <<pc, parent, all_list, executable, code, target, cp, memory, fault, waited, orphan>>
history == <<waited, orphan>>

child_process == [load : {"NOT_LOADED", "LOAD_SUCCESS", "LOAD_FAIL"}, exit : BOOLEAN,
                  status : Code \cup {NULL}, load_sema : 0..1, exit_sema : 0..1]
NewChild == [load |-> "NOT_LOADED", exit |-> FALSE, status |-> NULL,
             load_sema |-> 0, exit_sema |-> 0]

Init ==
  /\ pc = [p \in Process |-> IF p = InitialThread THEN "run" ELSE "unborn"]
  /\ parent = [p \in Process |-> NULL]
  /\ all_list = {InitialThread}
  /\ executable = [p \in Process |-> FALSE]
  /\ code = [p \in Process |-> NULL]
  /\ target = [p \in Process |-> NULL]
  /\ cp = [p \in Process |-> NewChild]
  /\ memory = [p \in Process |-> "none"]
  /\ fault = NULL
  /\ waited = {} /\ orphan = {}

Goto(p, label) == pc' = [pc EXCEPT ![p] = label]

thread_alive(p) == p \in all_list
Children(p) == {c \in Process : parent[c] = p /\ memory[c] = "live"}

\* c writes the fields of "new" to its struct child_process.
WriteCp(c, new) ==
  IF memory[c] = "live"
    THEN cp' = [cp EXCEPT ![c] = new] /\ UNCHANGED fault
    ELSE fault' = [child |-> c, user |-> pc[c], freed_by |-> memory[c]] /\ UNCHANGED cp

Free(set, by) == memory' = [c \in Process |-> IF c \in set THEN by ELSE memory[c]]

-----------------------------------------------------------------------------
(* The parent. *)

\* process_execute(): exec() goes on to look at the child, run_task() of the
\* initial thread to wait for it.
process_execute(p, c) ==
  /\ pc[p] = "run" /\ pc[c] = "unborn"
  /\ pc' = [pc EXCEPT ![c] = "load",
                      ![p] = IF p = InitialThread THEN "wait" ELSE "exec"]
  /\ parent' = [parent EXCEPT ![c] = p]
  /\ all_list' = all_list \cup {c}
  /\ memory' = [memory EXCEPT ![c] = "live"]
  /\ target' = [target EXCEPT ![p] = c]
  /\ UNCHANGED <<executable, code, cp, fault, history>>

ExecLooks(p) ==
  /\ pc[p] = "exec"
  /\ Goto(p, IF cp[target[p]].load = "NOT_LOADED" THEN "exec down" ELSE "exec read")
  /\ UNCHANGED <<parent, all_list, executable, code, target, cp, memory, fault, history>>

ExecDown(p) ==
  /\ pc[p] = "exec down" /\ cp[target[p]].load_sema > 0
  /\ cp' = [cp EXCEPT ![target[p]].load_sema = @ - 1]
  /\ Goto(p, "exec read")
  /\ UNCHANGED <<parent, all_list, executable, code, target, memory, fault, history>>

ExecReturns(p) ==
  /\ pc[p] = "exec read"
  /\ Free(IF cp[target[p]].load = "LOAD_FAIL" THEN {target[p]} ELSE {}, "exec")
  /\ target' = [target EXCEPT ![p] = NULL]
  /\ Goto(p, "run")
  /\ UNCHANGED <<parent, all_list, executable, code, cp, fault, history>>

\* wait(c) for a child; for any other pid it returns ERROR at once.
Wait(p, c) ==
  /\ pc[p] = "run" /\ c \in Children(p)
  /\ target' = [target EXCEPT ![p] = c]
  /\ Goto(p, "wait")
  /\ UNCHANGED <<parent, all_list, executable, code, cp, memory, fault, history>>

WaitLooks(p) ==
  /\ pc[p] = "wait"
  /\ Goto(p, IF cp[target[p]].exit THEN "wait read" ELSE "wait down")
  /\ UNCHANGED <<parent, all_list, executable, code, target, cp, memory, fault, history>>

WaitDown(p) ==
  /\ pc[p] = "wait down" /\ cp[target[p]].exit_sema > 0
  /\ cp' = [cp EXCEPT ![target[p]].exit_sema = @ - 1]
  /\ Goto(p, "wait read")
  /\ UNCHANGED <<parent, all_list, executable, code, target, memory, fault, history>>

WaitReturns(p) ==
  /\ pc[p] = "wait read"
  /\ Free({target[p]}, "process_wait")
  /\ target' = [target EXCEPT ![p] = NULL]
  /\ Goto(p, "run")
  /\ UNCHANGED <<parent, all_list, executable, code, cp, fault, orphan>>
  /\ waited' = waited \cup {target[p]}

-----------------------------------------------------------------------------
(* The child. *)

\* load(): fails before or after it has opened the executable, or succeeds.
Load(c) ==
  /\ pc[c] = "load"
  /\ \/ Goto(c, "set success") /\ executable' = [executable EXCEPT ![c] = TRUE]
     \/ Goto(c, "set fail") /\ \E b \in BOOLEAN : executable' = [executable EXCEPT ![c] = b]
  /\ UNCHANGED <<parent, all_list, code, target, cp, memory, fault, history>>

SetLoad(c) ==
  \/ /\ pc[c] = "set success"
     /\ WriteCp(c, [cp[c] EXCEPT !.load = "LOAD_SUCCESS"])
     /\ Goto(c, "up success")
     /\ UNCHANGED <<parent, all_list, executable, code, target, memory, history>>
  \/ /\ pc[c] = "set fail"
     /\ WriteCp(c, [cp[c] EXCEPT !.load = "LOAD_FAIL"])
     /\ Goto(c, "up fail")
     /\ UNCHANGED <<parent, all_list, executable, code, target, memory, history>>

\* sema_up (&load_sema), then run the program or thread_exit().
LoadUp(c) ==
  /\ pc[c] \in {"up success", "up fail"}
  /\ WriteCp(c, [cp[c] EXCEPT !.load_sema = @ + 1])
  /\ Goto(c, IF pc[c] = "up success" THEN "run" ELSE "process_exit")
  /\ UNCHANGED <<parent, all_list, executable, code, target, memory, history>>

\* exit (status), also called by kill(): is there a parent to tell?
Exit(c, status) ==
  /\ pc[c] = "run"
  /\ code' = [code EXCEPT ![c] = status]
  /\ Goto(c, IF thread_alive(parent[c]) THEN "set status" ELSE "process_exit")
  /\ orphan' = IF thread_alive(parent[c]) THEN orphan ELSE orphan \cup {c}
  /\ UNCHANGED <<parent, all_list, executable, target, cp, memory, fault, waited>>

\* Mutant of SetStatus: the status is not handed over.
SetStatus_lost(c) ==
  /\ pc[c] = "set status"
  /\ Goto(c, "process_exit")
  /\ UNCHANGED <<parent, all_list, executable, code, target, cp, memory, fault, history>>

SetStatus(c) ==
  /\ pc[c] = "set status"
  /\ WriteCp(c, [cp[c] EXCEPT !.status = code[c]])
  /\ Goto(c, "process_exit")
  /\ UNCHANGED <<parent, all_list, executable, code, target, memory, history>>

\* Mutant of FreeChildren: remove_child_processes() is not called.
FreeChildren_none(p) ==
  /\ pc[p] = "process_exit"
  /\ Goto(p, "is parent alive")
  /\ UNCHANGED <<parent, all_list, executable, code, target, cp, memory, fault, history>>

\* process_exit() up to remove_child_processes().
FreeChildren(p) ==
  /\ pc[p] = "process_exit"
  /\ Free(Children(p), "remove_child_processes")
  /\ Goto(p, "is parent alive")
  /\ UNCHANGED <<parent, all_list, executable, code, target, cp, fault, history>>

\* Mutant of TestParent: thread_alive() is not asked.
TestParent_blind(c) ==
  /\ pc[c] = "is parent alive"
  /\ Goto(c, IF executable[c] THEN "set exit" ELSE "dying")
  /\ UNCHANGED <<parent, all_list, executable, code, target, cp, memory, fault, history>>

TestParent(c) ==
  /\ pc[c] = "is parent alive"
  /\ Goto(c, IF thread_alive(parent[c]) /\ executable[c] THEN "set exit" ELSE "dying")
  /\ UNCHANGED <<parent, all_list, executable, code, target, cp, memory, fault, history>>

SetExit(c) ==
  /\ pc[c] = "set exit"
  /\ WriteCp(c, [cp[c] EXCEPT !.exit = TRUE])
  /\ Goto(c, "up exit")
  /\ UNCHANGED <<parent, all_list, executable, code, target, memory, history>>

\* Mutant of ExitUp: exit_sema is not raised.
ExitUp_silent(c) ==
  /\ pc[c] = "up exit"
  /\ Goto(c, "dying")
  /\ UNCHANGED <<parent, all_list, executable, code, target, cp, memory, fault, history>>

ExitUp(c) ==
  /\ pc[c] = "up exit"
  /\ WriteCp(c, [cp[c] EXCEPT !.exit_sema = @ + 1])
  /\ Goto(c, "dying")
  /\ UNCHANGED <<parent, all_list, executable, code, target, memory, history>>

\* The rest of thread_exit().
Die(c) ==
  /\ pc[c] = "dying"
  /\ all_list' = all_list \ {c}
  /\ Goto(c, "dead")
  /\ UNCHANGED <<parent, executable, code, target, cp, memory, fault, history>>

-----------------------------------------------------------------------------
\* What a process does in the kernel, as opposed to what its program asks for.
KernelStep(p) ==
  \/ ExecLooks(p) \/ ExecDown(p) \/ ExecReturns(p)
  \/ WaitLooks(p) \/ WaitDown(p) \/ WaitReturns(p)
  \/ Load(p) \/ SetLoad(p) \/ LoadUp(p)
  \/ SetStatus(p) \/ FreeChildren(p) \/ TestParent(p) \/ SetExit(p) \/ ExitUp(p) \/ Die(p)

Request(p) ==
  \/ \E c \in Process : process_execute(p, c) \/ Wait(p, c)
  \/ \E status \in Code : Exit(p, status)

Next == fault = NULL /\ \E p \in Process : KernelStep(p) \/ Request(p)

\* The scheduler is fair to a thread that can run (Sched!ReadyRuns); a program
\* need not ever exit.
Spec == Init /\ [][Next]_vars /\ \A p \in Process : WF_vars(fault = NULL /\ KernelStep(p))

-----------------------------------------------------------------------------
(* Properties. *)

Labels == {"unborn", "load", "set success", "set fail", "up success", "up fail", "run",
           "exec", "exec down", "exec read", "wait", "wait down", "wait read",
           "set status", "process_exit", "is parent alive", "set exit", "up exit",
           "dying", "dead"}
Ending == {"is parent alive", "set exit", "up exit", "dying", "dead"}
Owners == {"exec", "process_wait", "remove_child_processes"}

TypeOK ==
  /\ pc \in [Process -> Labels]
  /\ parent \in [Process -> Process \cup {NULL}]
  /\ all_list \in SUBSET Process
  /\ executable \in [Process -> BOOLEAN]
  /\ code \in [Process -> Code \cup {NULL}]
  /\ target \in [Process -> Process \cup {NULL}]
  /\ cp \in [Process -> child_process]
  /\ memory \in [Process -> {"none", "live"} \cup Owners]
  /\ fault = NULL \/ fault \in [child : Process, user : Labels, freed_by : Owners]
  /\ waited \subseteq Process /\ orphan \subseteq Process

\* DESIGNDOC B7: exec cannot return before the new executable has completed
\* loading; it may skip load_sema, but not miss the result.
LoadReported ==
  \A p \in Process : pc[p] = "exec read" => cp[target[p]].load # "NOT_LOADED"

\* DESIGNDOC B5: wait returns what the child passed to exit(), whichever of the
\* two comes first, and only once the child has closed its executable.
StatusDelivered ==
  \A p \in Process : pc[p] = "wait read" =>
    /\ cp[target[p]].status = code[target[p]]
    /\ pc[target[p]] \in {"up exit", "dying", "dead"}

\* Neither exec() nor wait() returns a result that is not there yet.
ResultsDelivered == TypeOK /\ LoadReported /\ StatusDelivered

\* Where a child may be when it finds that its struct has been freed.
Strays(by) ==
  CASE by = "process_wait" -> {"up exit"}
    [] by = "exec" -> {"up fail", "set exit", "up exit"}
    [] by = "remove_child_processes" -> {"up success", "set status", "set exit", "up exit"}

\* How far the sharing of a struct goes wrong (NoUseAfterWait, ... below): the
\* parent itself never looks at one that it has freed; after a wait only the child's
\* last step does, sema_up(&exit_sema); after a failed exec only the last steps of a
\* child that failed; after the parent's exit only sema_up(&load_sema), and a child
\* that had asked thread_alive() before: none that calls exit() once the parent is dead
\* (DESIGNDOC B8).
StrayUses ==
  /\ \A p \in Process : pc[p] \in {"exec", "exec down", "exec read", "wait", "wait down",
                                   "wait read"} => memory[target[p]] = "live"
  /\ fault # NULL => fault.user \in Strays(fault.freed_by) /\ fault.child \notin orphan

\* DESIGNDOC B8: no child_process is left when its parent is gone, none that has been
\* waited for, and none of a child that failed to load but for the exec that is to
\* report it.
NoLeak ==
  \A c \in Process : memory[c] = "live" =>
    /\ pc[parent[c]] \notin Ending
    /\ c \notin waited
    /\ cp[c].load = "LOAD_FAIL" => target[parent[c]] = c

WaitsFor(p, c) == pc[p] = "wait down" /\ target[p] = c

\* A wait for a child that was loaded ends when the child does.
WaitEnds ==
  \A p, c \in Process :
    WaitsFor(p, c) /\ pc[c] \in Ending /\ executable[c] ~> ~WaitsFor(p, c) \/ fault # NULL

\* process.c, process_wait(): "Waits for thread TID to die and returns its exit
\* status", whatever it dies of.
WaitAlwaysEnds ==
  \A p, c \in Process : WaitsFor(p, c) /\ pc[c] = "dead" ~> ~WaitsFor(p, c) \/ fault # NULL

\* DESIGNDOC B8: "C detects that its parent thread is not alive (by using the
\* function thread_alive) and therefore does not try to access its child_process
\* struct in the parent".
NoUseAfterParentExit == fault = NULL \/ fault.freed_by # "remove_child_processes"

\* DESIGNDOC B5: the parent "removes the child from its child list (since the
\* child thread is already dead, this removes all traces of the child)".
NoUseAfterWait == fault = NULL \/ fault.freed_by # "process_wait"

\* DESIGNDOC B8: "these structs are freed once a parent process completes a wait
\* for its child process", and so not while the child may still use its own.
NoUseAfterExec == fault = NULL \/ fault.freed_by # "exec"
=============================================================================
