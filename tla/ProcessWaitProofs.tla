-------------------------- MODULE ProcessWaitProofs --------------------------
(***************************************************************************)
(* What parent and child find in their child_process, for any processes    *)
(* and exit codes, in whatever order they get there: ResultsDelivered,     *)
(* StrayUses and NoLeak.                                                   *)
(***************************************************************************)
EXTENDS ProcessWait, TLAPS

Starting == {"load", "set success", "set fail", "up success", "up fail"}
Busy == {"exec", "exec down", "exec read", "wait", "wait down", "wait read"}
Gone == {"up exit", "dying", "dead"}

\* thread_alive() finds whoever has started and not ended.
AliveInv == \A p \in Process : p \in all_list <=> pc[p] \notin {"unborn", "dead"}

\* In exec and wait a process has a child of its own in hand, whose struct it has
\* not freed; what it reads has been written.
HandInv(p) ==
  /\ pc[p] \in Busy => /\ target[p] \in Process
                       /\ memory[target[p]] = "live" /\ parent[target[p]] = p
  /\ pc[p] = "exec read" => cp[target[p]].load # "NOT_LOADED"
  /\ pc[p] = "wait read" => pc[target[p]] \in Gone

\* A process that is not born has no struct yet; one that is and never had is the
\* initial thread, which has no parent to tell anything.
BareInv(c) ==
  IF pc[c] = "unborn"
    THEN memory[c] = "none" /\ cp[c] = NewChild /\ code[c] = NULL
    ELSE memory[c] = "none" =>
           /\ parent[c] = NULL
           /\ pc[c] \in {"run", "process_exit", "is parent alive", "dying", "dead"} \cup Busy

\* What a struct says of a child that has come to a label and ends with a code: a
\* semaphore that is up was raised after what it announces.
Tells(struct, label, status) ==
  /\ struct.load = "NOT_LOADED" <=> label \in {"load", "set success", "set fail"}
  /\ label \in Starting => struct.load_sema = 0
  /\ label \in Starting \cup Busy \cup {"run"} => status = NULL /\ struct.status = NULL
  /\ label \in {"process_exit"} \cup Ending => struct.status = status
  /\ struct.exit => label \in Gone
  /\ struct.exit_sema # 0 => label \in {"dying", "dead"}

\* As long as the struct is there, so is the parent.
CpInv(c) ==
  memory[c] = "live" =>
    /\ parent[c] \in Process \ {c} /\ pc[parent[c]] \notin Ending \cup {"unborn"}
    /\ pc[c] # "unborn"
    /\ Tells(cp[c], pc[c], code[c])

\* The properties say nothing of a parent that lives while its child writes, nor
\* of what a child has written before anybody reads it.
ProcessIInv ==
  /\ TypeOK /\ AliveInv
  /\ \A p \in Process : HandInv(p) /\ BareInv(p) /\ CpInv(p)

-----------------------------------------------------------------------------
(* Steps that make nothing and free nothing. *)

\* A semaphore goes down.
Downed(struct) == {[struct EXCEPT !.load_sema = 0], [struct EXCEPT !.exit_sema = 0]}

\* A down of one of the semaphores leaves what the record tells.
LEMMA DownTells ==
  ASSUME NEW s \in child_process, NEW t \in Downed(s), NEW label, NEW status
  PROVE  /\ t \in child_process /\ t.load = s.load
         /\ Tells(s, label, status) => Tells(t, label, status)
<1>1. CASE t = [s EXCEPT !.load_sema = 0]
  <2>1. t \in child_process
    BY <1>1 DEF child_process
  <2>2. /\ t.load = s.load /\ t.exit = s.exit /\ t.status = s.status
        /\ t.exit_sema = s.exit_sema /\ t.load_sema = 0
    BY <1>1 DEF child_process
  <2> QED
    BY <2>1, <2>2 DEF Tells
<1>2. CASE t = [s EXCEPT !.exit_sema = 0]
  <2>1. t \in child_process
    BY <1>2 DEF child_process
  <2>2. /\ t.load = s.load /\ t.exit = s.exit /\ t.status = s.status
        /\ t.load_sema = s.load_sema /\ t.exit_sema = 0
    BY <1>2 DEF child_process
  <2> QED
    BY <2>1, <2>2 DEF Tells
<1> QED
  BY <1>1, <1>2 DEF Downed

\* What a step of p to a label leaves as the others rely on.
Forward(p, label) ==
  /\ UNCHANGED <<parent, memory>>
  /\ pc' = [pc EXCEPT ![p] = label]
  /\ pc[p] # "unborn" /\ label \in Labels \ {"unborn"}
  /\ label \in Ending => pc[p] \in Ending
  /\ pc[p] \in Gone => label \in Gone
  /\ \A q \in Process \ {p} : target'[q] = target[q] /\ code'[q] = code[q]
  /\ \A q \in Process \ {p} : cp'[q] = cp[q] \/ (memory[q] = "live" /\ cp'[q] \in Downed(cp[q]))
  /\ cp[p].load # "NOT_LOADED" => cp'[p].load # "NOT_LOADED"

\* A step forward of one process leaves the others theirs.
LEMMA ForwardKeeps ==
  ASSUME ProcessIInv, NEW p \in Process, NEW label, Forward(p, label), NEW q \in Process \ {p}
  PROVE  HandInv(q)' /\ BareInv(q)' /\ CpInv(q)'
<1>1. HandInv(q) /\ BareInv(q) /\ CpInv(q) /\ TypeOK
  BY DEF ProcessIInv
<1>2. /\ pc'[q] = pc[q] /\ target'[q] = target[q] /\ code'[q] = code[q]
      /\ parent'[q] = parent[q] /\ memory'[q] = memory[q]
      /\ cp'[q] = cp[q] \/ (memory[q] = "live" /\ cp'[q] \in Downed(cp[q]))
  BY <1>1 DEF Forward, TypeOK
<1>3. pc' = [pc EXCEPT ![p] = label] /\ pc \in [Process -> Labels]
  BY <1>1 DEF Forward, TypeOK
<1>4. ASSUME NEW r \in Process
      PROVE  /\ cp[r].load # "NOT_LOADED" => cp'[r].load # "NOT_LOADED"
             /\ pc[r] \in Gone => pc'[r] \in Gone
             /\ pc[r] \notin Ending \cup {"unborn"} => pc'[r] \notin Ending \cup {"unborn"}
  <2>1. CASE r = p
    BY <1>3, <2>1 DEF Forward
  <2>2. CASE r # p
    <3>1. cp[r] \in child_process
      BY <1>1 DEF TypeOK
    <3>2. cp'[r] = cp[r] \/ cp'[r] \in Downed(cp[r])
      BY <2>2 DEF Forward
    <3>3. cp'[r].load = cp[r].load
      BY <3>1, <3>2, DownTells
    <3> QED
      BY <1>3, <2>2, <3>3
  <2> QED
    BY <2>1, <2>2
<1>5. HandInv(q)'
  <2>1. CASE pc[q] \notin Busy
    BY <1>2, <2>1 DEF HandInv, Busy
  <2>2. CASE pc[q] \in Busy
    <3>1. /\ target[q] \in Process /\ memory[target[q]] = "live" /\ parent[target[q]] = q
          /\ memory'[target[q]] = memory[target[q]] /\ parent'[target[q]] = parent[target[q]]
      BY <1>1, <2>2 DEF HandInv, Forward
    <3> QED
      BY <1>1, <1>2, <1>4, <3>1 DEF HandInv
  <2> QED
    BY <2>1, <2>2
<1>6. BareInv(q)'
  BY <1>1, <1>2 DEF BareInv
<1>7. CpInv(q)'
  <2>1. SUFFICES ASSUME memory[q] = "live"
                 PROVE  CpInv(q)'
    BY <1>2 DEF CpInv
  <2>2. parent[q] \in Process \ {q} /\ pc'[parent[q]] \notin Ending \cup {"unborn"}
    BY <1>1, <1>4, <2>1 DEF CpInv
  <2>3. Tells(cp'[q], pc[q], code[q])
    <3>1. cp[q] \in child_process
      BY <1>1 DEF TypeOK
    <3> QED
      BY <1>1, <1>2, <2>1, <3>1, DownTells DEF CpInv
  <2> QED
    BY <1>1, <1>2, <2>1, <2>2, <2>3 DEF CpInv
<1> QED
  BY <1>5, <1>6, <1>7

\* A step that does not touch a struct.
LEMMA MoveKeeps ==
  ASSUME ProcessIInv, NEW p \in Process, NEW label,
         Forward(p, label), UNCHANGED cp, TypeOK', AliveInv',
         memory[p] = "live" => Tells(cp[p], label, code'[p]),
         memory[p] = "none" => label \in {"run", "process_exit", "is parent alive", "dying", "dead"} \cup Busy,
         label \in Busy => /\ target'[p] \in Process
                           /\ memory[target'[p]] = "live" /\ parent[target'[p]] = p,
         label = "exec read" => cp[target'[p]].load # "NOT_LOADED",
         label = "wait read" => pc[target'[p]] \in Gone
  PROVE  ProcessIInv'
<1>1. HandInv(p) /\ BareInv(p) /\ CpInv(p) /\ TypeOK
  BY DEF ProcessIInv
<1>2. pc' = [pc EXCEPT ![p] = label] /\ pc \in [Process -> Labels] /\ pc[p] # "unborn"
      /\ parent' = parent /\ memory' = memory
  BY <1>1 DEF Forward, TypeOK
<1>3. HandInv(p)'
  <2>1. CASE label \notin Busy
    BY <1>2, <2>1 DEF HandInv, Busy
  <2>2. CASE label \in Busy
    <3>1. target'[p] # p
      BY <2>2 DEF ProcessIInv, CpInv
    <3> QED
      BY <1>2, <2>2, <3>1 DEF HandInv
  <2> QED
    BY <2>1, <2>2
<1>4. BareInv(p)'
  BY <1>1, <1>2 DEF BareInv, Forward
<1>5. CpInv(p)'
  <2>1. SUFFICES ASSUME memory[p] = "live" PROVE CpInv(p)'
    BY <1>2 DEF CpInv
  <2>2. parent[p] \in Process \ {p} /\ pc'[parent[p]] = pc[parent[p]]
    BY <1>1, <1>2, <2>1 DEF CpInv
  <2> QED
    BY <1>1, <1>2, <2>1, <2>2 DEF CpInv, Forward
<1> QED
  BY <1>3, <1>4, <1>5, ForwardKeeps DEF ProcessIInv

\* A step that writes to the own struct.
LEMMA WriteKeeps ==
  ASSUME ProcessIInv, NEW p \in Process, NEW label \in Labels, NEW new,
         WriteCp(p, new), Goto(p, label),
         UNCHANGED <<parent, all_list, executable, code, target, memory, history>>,
         pc[p] \notin {"unborn", "dead"} \cup Busy,
         label \in Ending => pc[p] \in Ending,
         pc[p] \in Gone => label \in Gone,
         label \notin {"unborn", "dead"} \cup Busy,
         memory[p] # "none",
         cp[p].load # "NOT_LOADED" => new.load # "NOT_LOADED",
         memory[p] = "live" => new \in child_process /\ Tells(new, label, code[p])
  PROVE  ProcessIInv'
<1>1. TypeOK /\ AliveInv
  BY DEF ProcessIInv
<1>3. pc' = [pc EXCEPT ![p] = label] /\ pc' \in [Process -> Labels]
  BY <1>1 DEF Goto, TypeOK
<1>4. AliveInv'
  BY <1>1, <1>3 DEF AliveInv, Gone, TypeOK
<1>5. HandInv(p) /\ BareInv(p) /\ CpInv(p)
  BY DEF ProcessIInv
<1>6. /\ cp' \in [Process -> child_process]
      /\ \A q \in Process \ {p} : cp'[q] = cp[q]
      /\ cp'[p] = cp[p] \/ cp'[p] = new
      /\ memory[p] = "live" => cp'[p] = new
      /\ fault' = NULL \/ fault' \in [child : Process, user : Labels, freed_by : Owners]
  <2>1. CASE memory[p] = "live"
    BY <1>1, <2>1 DEF WriteCp, TypeOK
  <2>2. CASE memory[p] # "live"
    <3>1. pc[p] \in Labels /\ memory[p] \in Owners
      BY <1>1, <2>2 DEF TypeOK
    <3>2. cp' = cp /\ fault' = [child |-> p, user |-> pc[p], freed_by |-> memory[p]]
      BY <2>2 DEF WriteCp
    <3> QED
      BY <1>1, <2>2, <3>1, <3>2 DEF TypeOK
  <2> QED
    BY <2>1, <2>2
<1>2. Forward(p, label)
  <2>1. cp[p].load # "NOT_LOADED" => cp'[p].load # "NOT_LOADED"
    BY <1>6
  <2> QED
    BY <1>3, <1>6, <2>1 DEF Forward
<1>7. TypeOK'
  BY <1>1, <1>3, <1>6 DEF TypeOK, history
<1>8. HandInv(p)' /\ BareInv(p)'
  BY <1>3 DEF HandInv, BareInv, Busy, TypeOK
<1>9. CpInv(p)'
  BY <1>1, <1>3, <1>5, <1>6 DEF CpInv, TypeOK
<1> QED
  BY <1>2, <1>4, <1>7, <1>8, <1>9, ForwardKeeps DEF ProcessIInv

\* A step that takes a semaphore of a child down.
LEMMA DownKeeps ==
  ASSUME ProcessIInv, NEW p \in Process, NEW label \in {"exec read", "wait read"},
         pc[p] \in Busy, Goto(p, label), cp'[target[p]] \in Downed(cp[target[p]]),
         cp' = [cp EXCEPT ![target[p]] = cp'[target[p]]],
         UNCHANGED <<parent, all_list, executable, code, target, memory, fault, history>>,
         label = "exec read" => cp[target[p]].load # "NOT_LOADED",
         label = "wait read" => pc[target[p]] \in Gone
  PROVE  ProcessIInv'
<1>1. TypeOK /\ AliveInv /\ HandInv(p) /\ BareInv(p) /\ CpInv(p)
  BY DEF ProcessIInv
<1> DEFINE c == target[p]
<1>2. c \in Process /\ memory[c] = "live" /\ parent[c] = p /\ c # p
  <2>1. c \in Process /\ memory[c] = "live" /\ parent[c] = p
    BY <1>1 DEF HandInv
  <2> QED
    BY <2>1 DEF ProcessIInv, CpInv
<1>3. pc' = [pc EXCEPT ![p] = label] /\ pc' \in [Process -> Labels] /\ cp[c] \in child_process
  BY <1>1, <1>2 DEF Goto, TypeOK, Labels
<1>4. cp'[c] \in child_process /\ cp'[c].load = cp[c].load
  BY <1>3, DownTells
<1>5. TypeOK'
  BY <1>1, <1>3, <1>4 DEF TypeOK, history
<1>6. AliveInv'
  BY <1>1, <1>3 DEF AliveInv, Busy, TypeOK
<1>7. \A q \in Process \ {p} : cp'[q] = cp[q] \/ (memory[q] = "live" /\ cp'[q] \in Downed(cp[q]))
  <2>1. \A q \in Process \ {c} : cp'[q] = cp[q]
    BY <1>1 DEF TypeOK
  <2>2. memory[c] = "live" /\ cp'[c] \in Downed(cp[c])
    BY <1>2
  <2> HIDE DEF c
  <2> QED
    BY <2>1, <2>2
<1>8. cp'[p] = cp[p]
  BY <1>1, <1>2 DEF TypeOK
<1>9. Forward(p, label)
  BY <1>1, <1>3, <1>7, <1>8 DEF Forward, Busy, Ending, Gone, Labels
<1>10. HandInv(p)'
  BY <1>1, <1>2, <1>3, <1>4 DEF HandInv, TypeOK
<1>11. BareInv(p)'
  BY <1>1, <1>3, <1>8 DEF BareInv, Busy, TypeOK
<1>12. CpInv(p)'
  BY <1>1, <1>3, <1>8 DEF CpInv, Tells, Busy, Starting, Ending, Gone, TypeOK
<1> QED
  BY <1>5, <1>6, <1>9, <1>10, <1>11, <1>12, ForwardKeeps DEF ProcessIInv

-----------------------------------------------------------------------------
(* The actions. *)

\* exec() that finds the result there skips the semaphore.
LEMMA ExecLooksKeeps ==
  ASSUME ProcessIInv, NEW p \in Process, ExecLooks(p)
  PROVE  ProcessIInv'
<1> DEFINE label == IF cp[target[p]].load = "NOT_LOADED" THEN "exec down" ELSE "exec read"
<1>1. TypeOK /\ AliveInv /\ HandInv(p) /\ BareInv(p) /\ CpInv(p)
  BY DEF ProcessIInv
<1>2. Forward(p, label)
  BY <1>1 DEF ExecLooks, Goto, Forward, TypeOK, Labels, Busy, Ending, Gone
<1>3. TypeOK'
  BY <1>1 DEF ExecLooks, Goto, TypeOK, Labels, history
<1>4. AliveInv'
  BY <1>1 DEF ExecLooks, Goto, TypeOK, Labels, AliveInv
<1>5. memory[p] = "live" => Tells(cp[p], label, code'[p])
  BY <1>1 DEF ExecLooks, Goto, CpInv, AliveInv, TypeOK, Tells, Busy, Starting, Ending, Gone
<1>6. memory[p] = "none" => label \in {"run", "process_exit", "is parent alive", "dying", "dead"} \cup Busy
  BY <1>1, ProcessAssumption DEF ExecLooks, Goto, BareInv, TypeOK, Busy
<1>7. label \in Busy => /\ target'[p] \in Process
                        /\ memory[target'[p]] = "live" /\ parent[target'[p]] = p
  BY <1>1 DEF ExecLooks, Goto, HandInv, TypeOK, Busy
<1>8. /\ label = "exec read" => cp[target'[p]].load # "NOT_LOADED"
      /\ label = "wait read" => pc[target'[p]] \in Gone
  BY <1>1 DEF ExecLooks, Goto, HandInv, ProcessIInv, CpInv, Tells, Busy
<1>9. UNCHANGED cp
  BY DEF ExecLooks
<1> HIDE DEF label
<1> QED
  BY <1>2, <1>3, <1>4, <1>5, <1>6, <1>7, <1>8, <1>9, MoveKeeps

\* process_wait() that finds exit set skips the semaphore: the child has set it last but one.
LEMMA WaitLooksKeeps ==
  ASSUME ProcessIInv, NEW p \in Process, WaitLooks(p)
  PROVE  ProcessIInv'
<1> DEFINE label == IF cp[target[p]].exit THEN "wait read" ELSE "wait down"
<1>1. TypeOK /\ AliveInv /\ HandInv(p) /\ BareInv(p) /\ CpInv(p)
  BY DEF ProcessIInv
<1>2. Forward(p, label)
  BY <1>1 DEF WaitLooks, Goto, Forward, TypeOK, Labels, Busy, Ending, Gone
<1>3. TypeOK'
  BY <1>1 DEF WaitLooks, Goto, TypeOK, Labels, history
<1>4. AliveInv'
  BY <1>1 DEF WaitLooks, Goto, TypeOK, Labels, AliveInv
<1>5. memory[p] = "live" => Tells(cp[p], label, code'[p])
  BY <1>1 DEF WaitLooks, Goto, CpInv, AliveInv, TypeOK, Tells, Busy, Starting, Ending, Gone
<1>6. memory[p] = "none" => label \in {"run", "process_exit", "is parent alive", "dying", "dead"} \cup Busy
  BY <1>1, ProcessAssumption DEF WaitLooks, Goto, BareInv, TypeOK, Busy
<1>7. label \in Busy => /\ target'[p] \in Process
                        /\ memory[target'[p]] = "live" /\ parent[target'[p]] = p
  BY <1>1 DEF WaitLooks, Goto, HandInv, TypeOK, Busy
<1>8. /\ label = "exec read" => cp[target'[p]].load # "NOT_LOADED"
      /\ label = "wait read" => pc[target'[p]] \in Gone
  BY <1>1 DEF WaitLooks, Goto, HandInv, ProcessIInv, CpInv, Tells, Busy
<1>9. UNCHANGED cp
  BY DEF WaitLooks
<1> HIDE DEF label
<1> QED
  BY <1>2, <1>3, <1>4, <1>5, <1>6, <1>7, <1>8, <1>9, MoveKeeps

\* A program that was loaded, or not.
LEMMA LoadKeeps ==
  ASSUME ProcessIInv, NEW p \in Process, Load(p)
  PROVE  ProcessIInv'
<1> DEFINE label == pc'[p]
<1>1. TypeOK /\ AliveInv /\ HandInv(p) /\ BareInv(p) /\ CpInv(p)
  BY DEF ProcessIInv
<1>2. Forward(p, label)
  BY <1>1 DEF Load, Goto, TypeOK, Forward, TypeOK, Labels, Busy, Ending, Gone
<1>3. TypeOK'
  BY <1>1 DEF Load, Goto, TypeOK, TypeOK, Labels, history
<1>4. AliveInv'
  BY <1>1 DEF Load, Goto, TypeOK, TypeOK, Labels, AliveInv
<1>5. memory[p] = "live" => Tells(cp[p], label, code'[p])
  BY <1>1 DEF Load, Goto, TypeOK, CpInv, AliveInv, TypeOK, Tells, Busy, Starting, Ending, Gone
<1>6. memory[p] = "none" => label \in {"run", "process_exit", "is parent alive", "dying", "dead"} \cup Busy
  BY <1>1, ProcessAssumption DEF Load, Goto, TypeOK, BareInv, TypeOK, Busy
<1>7. label \in Busy => /\ target'[p] \in Process
                        /\ memory[target'[p]] = "live" /\ parent[target'[p]] = p
  BY <1>1 DEF Load, Goto, TypeOK, HandInv, TypeOK, Busy
<1>8. /\ label = "exec read" => cp[target'[p]].load # "NOT_LOADED"
      /\ label = "wait read" => pc[target'[p]] \in Gone
  <2>1. label \in {"set success", "set fail"}
    BY <1>1 DEF Load, Goto, TypeOK
  <2> QED
    BY <2>1
<1>9. UNCHANGED cp
  BY DEF Load
<1> HIDE DEF label
<1> QED
  BY <1>2, <1>3, <1>4, <1>5, <1>6, <1>7, <1>8, <1>9, MoveKeeps

\* A child with a struct has a living parent.
LEMMA TestParentKeeps ==
  ASSUME ProcessIInv, NEW p \in Process, TestParent(p)
  PROVE  ProcessIInv'
<1> DEFINE label == IF thread_alive(parent[p]) /\ executable[p] THEN "set exit" ELSE "dying"
<1>1. TypeOK /\ AliveInv /\ HandInv(p) /\ BareInv(p) /\ CpInv(p)
  BY DEF ProcessIInv
<1>2. Forward(p, label)
  BY <1>1 DEF TestParent, Goto, thread_alive, Forward, TypeOK, Labels, Busy, Ending, Gone
<1>3. TypeOK'
  BY <1>1 DEF TestParent, Goto, thread_alive, TypeOK, Labels, history
<1>4. AliveInv'
  BY <1>1 DEF TestParent, Goto, thread_alive, TypeOK, Labels, AliveInv
<1>5. memory[p] = "live" => Tells(cp[p], label, code'[p])
  BY <1>1 DEF TestParent, Goto, thread_alive, CpInv, AliveInv, TypeOK, Tells, Busy, Starting, Ending, Gone
<1>6. memory[p] = "none" => label \in {"run", "process_exit", "is parent alive", "dying", "dead"} \cup Busy
  BY <1>1, ProcessAssumption DEF TestParent, Goto, thread_alive, BareInv, TypeOK, Busy
<1>7. label \in Busy => /\ target'[p] \in Process
                        /\ memory[target'[p]] = "live" /\ parent[target'[p]] = p
  BY <1>1 DEF TestParent, Goto, thread_alive, HandInv, TypeOK, Busy
<1>8. /\ label = "exec read" => cp[target'[p]].load # "NOT_LOADED"
      /\ label = "wait read" => pc[target'[p]] \in Gone
  BY <1>1 DEF TestParent, Goto, thread_alive, HandInv, ProcessIInv, CpInv, Tells, Busy
<1>9. UNCHANGED cp
  BY DEF TestParent
<1> HIDE DEF label
<1> QED
  BY <1>2, <1>3, <1>4, <1>5, <1>6, <1>7, <1>8, <1>9, MoveKeeps

\* The child leaves its struct to the parent.
LEMMA DieKeeps ==
  ASSUME ProcessIInv, NEW p \in Process, Die(p)
  PROVE  ProcessIInv'
<1> DEFINE label == "dead"
<1>1. TypeOK /\ AliveInv /\ HandInv(p) /\ BareInv(p) /\ CpInv(p)
  BY DEF ProcessIInv
<1>2. Forward(p, label)
  BY <1>1 DEF Die, Goto, Forward, TypeOK, Labels, Busy, Ending, Gone
<1>3. TypeOK'
  BY <1>1 DEF Die, Goto, TypeOK, Labels, history
<1>4. AliveInv'
  BY <1>1 DEF Die, Goto, TypeOK, Labels, AliveInv
<1>5. memory[p] = "live" => Tells(cp[p], label, code'[p])
  BY <1>1 DEF Die, Goto, CpInv, AliveInv, TypeOK, Tells, Busy, Starting, Ending, Gone
<1>6. memory[p] = "none" => label \in {"run", "process_exit", "is parent alive", "dying", "dead"} \cup Busy
  BY <1>1, ProcessAssumption DEF Die, Goto, BareInv, TypeOK, Busy
<1>7. label \in Busy => /\ target'[p] \in Process
                        /\ memory[target'[p]] = "live" /\ parent[target'[p]] = p
  BY <1>1 DEF Die, Goto, HandInv, TypeOK, Busy
<1>8. /\ label = "exec read" => cp[target'[p]].load # "NOT_LOADED"
      /\ label = "wait read" => pc[target'[p]] \in Gone
  BY <1>1 DEF Die, Goto, HandInv, ProcessIInv, CpInv, Tells, Busy
<1>9. UNCHANGED cp
  BY DEF Die
<1> HIDE DEF label
<1> QED
  BY <1>2, <1>3, <1>4, <1>5, <1>6, <1>7, <1>8, <1>9, MoveKeeps

\* The parent turns to a child.
LEMMA WaitKeeps ==
  ASSUME ProcessIInv, NEW p \in Process, NEW c \in Process, Wait(p, c)
  PROVE  ProcessIInv'
<1> DEFINE label == "wait"
<1>1. TypeOK /\ AliveInv /\ HandInv(p) /\ BareInv(p) /\ CpInv(p)
  BY DEF ProcessIInv
<1>2. Forward(p, label)
  BY <1>1 DEF Wait, Goto, Children, Forward, TypeOK, Labels, Busy, Ending, Gone
<1>3. TypeOK'
  BY <1>1 DEF Wait, Goto, Children, TypeOK, Labels, history
<1>4. AliveInv'
  BY <1>1 DEF Wait, Goto, Children, TypeOK, Labels, AliveInv
<1>5. memory[p] = "live" => Tells(cp[p], label, code'[p])
  BY <1>1 DEF Wait, Goto, Children, CpInv, AliveInv, TypeOK, Tells, Busy, Starting, Ending, Gone
<1>6. memory[p] = "none" => label \in {"run", "process_exit", "is parent alive", "dying", "dead"} \cup Busy
  BY <1>1, ProcessAssumption DEF Wait, Goto, Children, BareInv, TypeOK, Busy
<1>7. label \in Busy => /\ target'[p] \in Process
                        /\ memory[target'[p]] = "live" /\ parent[target'[p]] = p
  BY <1>1 DEF Wait, Goto, Children, HandInv, TypeOK, Busy
<1>8. /\ label = "exec read" => cp[target'[p]].load # "NOT_LOADED"
      /\ label = "wait read" => pc[target'[p]] \in Gone
  BY <1>1 DEF Wait, Goto, Children, HandInv, ProcessIInv, CpInv, Tells, Busy
<1>9. UNCHANGED cp
  BY DEF Wait
<1> HIDE DEF label
<1> QED
  BY <1>2, <1>3, <1>4, <1>5, <1>6, <1>7, <1>8, <1>9, MoveKeeps

\* exit() finds the parent of a child that has a struct.
LEMMA ExitKeeps ==
  ASSUME ProcessIInv, NEW p \in Process, NEW e \in Code, Exit(p, e)
  PROVE  ProcessIInv'
<1> DEFINE label == IF thread_alive(parent[p]) THEN "set status" ELSE "process_exit"
<1>1. TypeOK /\ AliveInv /\ HandInv(p) /\ BareInv(p) /\ CpInv(p)
  BY DEF ProcessIInv
<1>2. Forward(p, label)
  BY <1>1 DEF Exit, Goto, thread_alive, Forward, TypeOK, Labels, Busy, Ending, Gone
<1>3. TypeOK'
  BY <1>1 DEF Exit, Goto, thread_alive, TypeOK, Labels, history
<1>4. AliveInv'
  BY <1>1 DEF Exit, Goto, thread_alive, TypeOK, Labels, AliveInv
<1>5. memory[p] = "live" => Tells(cp[p], label, code'[p])
  BY <1>1 DEF Exit, Goto, thread_alive, CpInv, AliveInv, TypeOK, Tells, Busy, Starting, Ending, Gone
<1>6. memory[p] = "none" => label \in {"run", "process_exit", "is parent alive", "dying", "dead"} \cup Busy
  BY <1>1, ProcessAssumption DEF Exit, Goto, thread_alive, BareInv, TypeOK, Busy
<1>7. label \in Busy => /\ target'[p] \in Process
                        /\ memory[target'[p]] = "live" /\ parent[target'[p]] = p
  BY <1>1 DEF Exit, Goto, thread_alive, HandInv, TypeOK, Busy
<1>8. /\ label = "exec read" => cp[target'[p]].load # "NOT_LOADED"
      /\ label = "wait read" => pc[target'[p]] \in Gone
  BY <1>1 DEF Exit, Goto, thread_alive, HandInv, ProcessIInv, CpInv, Tells, Busy
<1>9. UNCHANGED cp
  BY DEF Exit
<1> HIDE DEF label
<1> QED
  BY <1>2, <1>3, <1>4, <1>5, <1>6, <1>7, <1>8, <1>9, MoveKeeps

\* The result of the load is set before its semaphore goes up.
LEMMA SetLoadKeeps ==
  ASSUME ProcessIInv, NEW p \in Process, SetLoad(p)
  PROVE  ProcessIInv'
<1> DEFINE label == IF pc[p] = "set success" THEN "up success" ELSE "up fail"
           new == [cp[p] EXCEPT !.load = IF pc[p] = "set success" THEN "LOAD_SUCCESS" ELSE "LOAD_FAIL"]
<1>1. TypeOK /\ AliveInv /\ HandInv(p) /\ BareInv(p) /\ CpInv(p)
  BY DEF ProcessIInv
<1>2. cp[p] \in child_process /\ pc[p] \in Labels /\ code[p] \in Code \cup {NULL}
  BY <1>1 DEF TypeOK
<1>3. memory[p] # "none"
  BY <1>1 DEF SetLoad, BareInv, Busy
<1>4. memory[p] = "live" => Tells(cp[p], pc[p], code[p])
  BY <1>1 DEF CpInv
<1>5. memory[p] = "live" => new \in child_process /\ Tells(new, label, code[p])
  BY <1>2, <1>4 DEF SetLoad, child_process, Tells, Starting, Ending, Busy, Gone
<1>6. cp[p].load # "NOT_LOADED" => new.load # "NOT_LOADED"
  BY <1>2 DEF child_process
<1>7. /\ WriteCp(p, new) /\ Goto(p, label)
      /\ UNCHANGED <<parent, all_list, executable, code, target, memory, history>>
  BY DEF SetLoad
<1>8. /\ label \in Labels \ ({"unborn", "dead"} \cup Busy)
      /\ label \in Ending => pc[p] \in Ending
      /\ pc[p] \in Gone => label \in Gone
      /\ pc[p] \notin {"unborn", "dead"} \cup Busy
  BY DEF SetLoad, Labels, Busy, Ending, Gone
<1> HIDE DEF label, new
<1> QED
  BY <1>3, <1>5, <1>6, <1>7, <1>8, WriteKeeps

\* load_sema goes up once.
LEMMA LoadUpKeeps ==
  ASSUME ProcessIInv, NEW p \in Process, LoadUp(p)
  PROVE  ProcessIInv'
<1> DEFINE label == IF pc[p] = "up success" THEN "run" ELSE "process_exit"
           new == [cp[p] EXCEPT !.load_sema = @ + 1]
<1>1. TypeOK /\ AliveInv /\ HandInv(p) /\ BareInv(p) /\ CpInv(p)
  BY DEF ProcessIInv
<1>2. cp[p] \in child_process /\ pc[p] \in Labels /\ code[p] \in Code \cup {NULL}
  BY <1>1 DEF TypeOK
<1>3. memory[p] # "none"
  BY <1>1 DEF LoadUp, BareInv, Busy
<1>4. memory[p] = "live" => Tells(cp[p], pc[p], code[p])
  BY <1>1 DEF CpInv
<1>5. memory[p] = "live" => new \in child_process /\ Tells(new, label, code[p])
  <2>1. memory[p] = "live" => cp[p].load_sema = 0
    BY <1>2, <1>4 DEF LoadUp, child_process, Tells, Starting, Gone
  <2>2. memory[p] = "live" => new = [cp[p] EXCEPT !.load_sema = 1]
    BY <2>1
  <2> SUFFICES ASSUME memory[p] = "live" PROVE new \in child_process /\ Tells(new, label, code[p])
    OBVIOUS
  <2>3. Tells(cp[p], pc[p], code[p])
    BY <1>4
  <2>4. new \in child_process
    BY <1>2, <2>2 DEF child_process
  <2>5. /\ new.load = cp[p].load /\ new.exit = cp[p].exit /\ new.status = cp[p].status
        /\ new.load_sema = 1 /\ new.exit_sema = cp[p].exit_sema
    BY <1>2, <2>2 DEF child_process
  <2> HIDE DEF new
  <2> QED
    BY <2>3, <2>4, <2>5 DEF LoadUp, Tells, Starting, Ending, Busy, Gone
<1>6. cp[p].load # "NOT_LOADED" => new.load # "NOT_LOADED"
  BY <1>2 DEF child_process
<1>7. /\ WriteCp(p, new) /\ Goto(p, label)
      /\ UNCHANGED <<parent, all_list, executable, code, target, memory, history>>
  BY DEF LoadUp
<1>8. /\ label \in Labels \ ({"unborn", "dead"} \cup Busy)
      /\ label \in Ending => pc[p] \in Ending
      /\ pc[p] \in Gone => label \in Gone
      /\ pc[p] \notin {"unborn", "dead"} \cup Busy
  BY DEF LoadUp, Labels, Busy, Ending, Gone
<1> HIDE DEF label, new
<1> QED
  BY <1>3, <1>5, <1>6, <1>7, <1>8, WriteKeeps

\* exit() hands its status over.
LEMMA SetStatusKeeps ==
  ASSUME ProcessIInv, NEW p \in Process, SetStatus(p)
  PROVE  ProcessIInv'
<1> DEFINE label == "process_exit"
           new == [cp[p] EXCEPT !.status = code[p]]
<1>1. TypeOK /\ AliveInv /\ HandInv(p) /\ BareInv(p) /\ CpInv(p)
  BY DEF ProcessIInv
<1>2. cp[p] \in child_process /\ pc[p] \in Labels /\ code[p] \in Code \cup {NULL}
  BY <1>1 DEF TypeOK
<1>3. memory[p] # "none"
  BY <1>1 DEF SetStatus, BareInv, Busy
<1>4. memory[p] = "live" => Tells(cp[p], pc[p], code[p])
  BY <1>1 DEF CpInv
<1>5. memory[p] = "live" => new \in child_process /\ Tells(new, label, code[p])
  BY <1>2, <1>4 DEF SetStatus, child_process, Tells, Starting, Ending, Busy, Gone
<1>6. cp[p].load # "NOT_LOADED" => new.load # "NOT_LOADED"
  BY <1>2 DEF child_process
<1>7. /\ WriteCp(p, new) /\ Goto(p, label)
      /\ UNCHANGED <<parent, all_list, executable, code, target, memory, history>>
  BY DEF SetStatus
<1>8. /\ label \in Labels \ ({"unborn", "dead"} \cup Busy)
      /\ label \in Ending => pc[p] \in Ending
      /\ pc[p] \in Gone => label \in Gone
      /\ pc[p] \notin {"unborn", "dead"} \cup Busy
  BY DEF SetStatus, Labels, Busy, Ending, Gone
<1> HIDE DEF label, new
<1> QED
  BY <1>3, <1>5, <1>6, <1>7, <1>8, WriteKeeps

\* The child has set its status long before exit.
LEMMA SetExitKeeps ==
  ASSUME ProcessIInv, NEW p \in Process, SetExit(p)
  PROVE  ProcessIInv'
<1> DEFINE label == "up exit"
           new == [cp[p] EXCEPT !.exit = TRUE]
<1>1. TypeOK /\ AliveInv /\ HandInv(p) /\ BareInv(p) /\ CpInv(p)
  BY DEF ProcessIInv
<1>2. cp[p] \in child_process /\ pc[p] \in Labels /\ code[p] \in Code \cup {NULL}
  BY <1>1 DEF TypeOK
<1>3. memory[p] # "none"
  BY <1>1 DEF SetExit, BareInv, Busy
<1>4. memory[p] = "live" => Tells(cp[p], pc[p], code[p])
  BY <1>1 DEF CpInv
<1>5. memory[p] = "live" => new \in child_process /\ Tells(new, label, code[p])
  BY <1>2, <1>4 DEF SetExit, child_process, Tells, Starting, Ending, Busy, Gone
<1>6. cp[p].load # "NOT_LOADED" => new.load # "NOT_LOADED"
  BY <1>2 DEF child_process
<1>7. /\ WriteCp(p, new) /\ Goto(p, label)
      /\ UNCHANGED <<parent, all_list, executable, code, target, memory, history>>
  BY DEF SetExit
<1>8. /\ label \in Labels \ ({"unborn", "dead"} \cup Busy)
      /\ label \in Ending => pc[p] \in Ending
      /\ pc[p] \in Gone => label \in Gone
      /\ pc[p] \notin {"unborn", "dead"} \cup Busy
  BY DEF SetExit, Labels, Busy, Ending, Gone
<1> HIDE DEF label, new
<1> QED
  BY <1>3, <1>5, <1>6, <1>7, <1>8, WriteKeeps

\* exit_sema goes up once.
LEMMA ExitUpKeeps ==
  ASSUME ProcessIInv, NEW p \in Process, ExitUp(p)
  PROVE  ProcessIInv'
<1> DEFINE label == "dying"
           new == [cp[p] EXCEPT !.exit_sema = @ + 1]
<1>1. TypeOK /\ AliveInv /\ HandInv(p) /\ BareInv(p) /\ CpInv(p)
  BY DEF ProcessIInv
<1>2. cp[p] \in child_process /\ pc[p] \in Labels /\ code[p] \in Code \cup {NULL}
  BY <1>1 DEF TypeOK
<1>3. memory[p] # "none"
  BY <1>1 DEF ExitUp, BareInv, Busy
<1>4. memory[p] = "live" => Tells(cp[p], pc[p], code[p])
  BY <1>1 DEF CpInv
<1>5. memory[p] = "live" => new \in child_process /\ Tells(new, label, code[p])
  <2>1. memory[p] = "live" => cp[p].exit_sema = 0
    BY <1>2, <1>4 DEF ExitUp, child_process, Tells, Starting, Gone
  <2>2. memory[p] = "live" => new = [cp[p] EXCEPT !.exit_sema = 1]
    BY <2>1
  <2> SUFFICES ASSUME memory[p] = "live" PROVE new \in child_process /\ Tells(new, label, code[p])
    OBVIOUS
  <2>3. Tells(cp[p], pc[p], code[p])
    BY <1>4
  <2>4. new \in child_process
    BY <1>2, <2>2 DEF child_process
  <2>5. /\ new.load = cp[p].load /\ new.exit = cp[p].exit /\ new.status = cp[p].status
        /\ new.exit_sema = 1 /\ new.load_sema = cp[p].load_sema
    BY <1>2, <2>2 DEF child_process
  <2> HIDE DEF new
  <2> QED
    BY <2>3, <2>4, <2>5 DEF ExitUp, Tells, Starting, Ending, Busy, Gone
<1>6. cp[p].load # "NOT_LOADED" => new.load # "NOT_LOADED"
  BY <1>2 DEF child_process
<1>7. /\ WriteCp(p, new) /\ Goto(p, label)
      /\ UNCHANGED <<parent, all_list, executable, code, target, memory, history>>
  BY DEF ExitUp
<1>8. /\ label \in Labels \ ({"unborn", "dead"} \cup Busy)
      /\ label \in Ending => pc[p] \in Ending
      /\ pc[p] \in Gone => label \in Gone
      /\ pc[p] \notin {"unborn", "dead"} \cup Busy
  BY DEF ExitUp, Labels, Busy, Ending, Gone
<1> HIDE DEF label, new
<1> QED
  BY <1>3, <1>5, <1>6, <1>7, <1>8, WriteKeeps

\* Behind load_sema is a result.
LEMMA ExecDownKeeps ==
  ASSUME ProcessIInv, NEW p \in Process, ExecDown(p)
  PROVE  ProcessIInv'
<1> DEFINE c == target[p]
<1>1. TypeOK /\ AliveInv /\ HandInv(p) /\ BareInv(p) /\ CpInv(p)
  BY DEF ProcessIInv
<1>2. c \in Process /\ memory[c] = "live" /\ cp[c] \in child_process /\ pc[p] \in Busy
  BY <1>1 DEF ExecDown, HandInv, Busy, TypeOK
<1>3. Tells(cp[c], pc[c], code[c]) /\ pc[c] \in Labels
  BY <1>2 DEF ProcessIInv, CpInv, TypeOK
<1>4. cp[c].load_sema = 1
  <2>1. cp[c].load_sema \in 0..1 /\ cp[c].load_sema > 0
    BY <1>2 DEF ExecDown, child_process
  <2> QED
    BY <2>1
<1>5. cp[c].load # "NOT_LOADED"
  <2>1. cp[c].load_sema # 0
    BY <1>4
  <2> HIDE DEF c
  <2> QED
    BY <1>3, <2>1 DEF Tells, Starting, Gone
<1>6. cp'[c] = [cp[c] EXCEPT !.load_sema = 0] /\ cp' = [cp EXCEPT ![c] = cp'[c]]
  <2>1. cp' = [cp EXCEPT ![c] = [cp[c] EXCEPT !.load_sema = 0]]
    <3>1. cp[c].load_sema - 1 = 0
      BY <1>4
    <3> QED
      BY <3>1 DEF ExecDown
  <2>2. cp \in [Process -> child_process]
    BY <1>1 DEF TypeOK
  <2> HIDE DEF c
  <2> QED
    BY <1>2, <2>1, <2>2
<1> QED
  BY <1>2, <1>5, <1>6, DownKeeps DEF ExecDown, Downed

\* Behind exit_sema is a child that has no more to say.
LEMMA WaitDownKeeps ==
  ASSUME ProcessIInv, NEW p \in Process, WaitDown(p)
  PROVE  ProcessIInv'
<1> DEFINE c == target[p]
<1>1. TypeOK /\ AliveInv /\ HandInv(p) /\ BareInv(p) /\ CpInv(p)
  BY DEF ProcessIInv
<1>2. c \in Process /\ memory[c] = "live" /\ cp[c] \in child_process /\ pc[p] \in Busy
  BY <1>1 DEF WaitDown, HandInv, Busy, TypeOK
<1>3. Tells(cp[c], pc[c], code[c]) /\ pc[c] \in Labels
  BY <1>2 DEF ProcessIInv, CpInv, TypeOK
<1>4. cp[c].exit_sema = 1
  <2>1. cp[c].exit_sema \in 0..1 /\ cp[c].exit_sema > 0
    BY <1>2 DEF WaitDown, child_process
  <2> QED
    BY <2>1
<1>5. pc[c] \in Gone
  <2>1. cp[c].exit_sema # 0
    BY <1>4
  <2> HIDE DEF c
  <2> QED
    BY <1>3, <2>1 DEF Tells, Starting, Gone
<1>6. cp'[c] = [cp[c] EXCEPT !.exit_sema = 0] /\ cp' = [cp EXCEPT ![c] = cp'[c]]
  <2>1. cp' = [cp EXCEPT ![c] = [cp[c] EXCEPT !.exit_sema = 0]]
    <3>1. cp[c].exit_sema - 1 = 0
      BY <1>4
    <3> QED
      BY <3>1 DEF WaitDown
  <2>2. cp \in [Process -> child_process]
    BY <1>1 DEF TypeOK
  <2> HIDE DEF c
  <2> QED
    BY <1>2, <2>1, <2>2
<1> QED
  BY <1>2, <1>5, <1>6, DownKeeps DEF WaitDown, Downed

\* A parent frees structs of its own children: one it is done with, or all when it
\* ends.
LEMMA FreeKeeps ==
  ASSUME ProcessIInv, NEW p \in Process, NEW set \in SUBSET Process, NEW by \in Owners, NEW label,
         Free(set, by), Goto(p, label), UNCHANGED <<parent, all_list, executable, code, cp, fault>>,
         target' \in [Process -> Process \cup {NULL}], waited' \in SUBSET Process, orphan' = orphan,
         \A q \in Process \ {p} : target'[q] = target[q],
         \A c \in set : memory[c] = "live" /\ parent[c] = p,
         \/ pc[p] \in Busy /\ label = "run"
         \/ pc[p] = "process_exit" /\ label = "is parent alive" /\ set = Children(p)
  PROVE  ProcessIInv'
<1>1. TypeOK /\ AliveInv
  BY DEF ProcessIInv
<1>2. /\ pc' = [pc EXCEPT ![p] = label] /\ pc' \in [Process -> Labels]
      /\ memory' = [c \in Process |-> IF c \in set THEN by ELSE memory[c]]
      /\ memory' \in [Process -> {"none", "live"} \cup Owners]
  BY <1>1 DEF Goto, Free, TypeOK, Labels
<1>3. TypeOK'
  BY <1>1, <1>2 DEF TypeOK
<1>4. AliveInv'
  BY <1>1, <1>2 DEF AliveInv, TypeOK, Busy
<1>5. label \notin Busy /\ label \notin Gone /\ pc[p] \notin Gone
  BY DEF Busy, Gone
<1>6. by # "none" /\ by # "live"
  BY DEF Owners
<1>7. ASSUME NEW q \in Process PROVE HandInv(q)' /\ BareInv(q)' /\ CpInv(q)'
  <2>1. HandInv(q) /\ BareInv(q) /\ CpInv(q)
    BY DEF ProcessIInv
  <2>2. HandInv(q)'
    <3>1. CASE q = p
      BY <1>1, <1>2, <1>5, <3>1 DEF HandInv, TypeOK, Busy
    <3>2. CASE q # p /\ pc[q] \notin Busy
      BY <1>1, <1>2, <3>2 DEF HandInv, TypeOK, Busy
    <3>3. CASE q # p /\ pc[q] \in Busy
      <4>1. target[q] \in Process /\ memory[target[q]] = "live" /\ parent[target[q]] = q
        BY <2>1, <3>3 DEF HandInv
      <4>2. target[q] \notin set
        BY <3>3, <4>1
      <4> QED
        BY <1>1, <1>2, <1>5, <2>1, <3>3, <4>1, <4>2 DEF HandInv, TypeOK
    <3> QED
      BY <3>1, <3>2, <3>3
  <2>3. BareInv(q)'
    BY <1>1, <1>2, <1>6, <2>1 DEF BareInv, TypeOK, Busy
  <2>4. CpInv(q)'
    <3> SUFFICES ASSUME memory'[q] = "live" PROVE CpInv(q)'
      BY DEF CpInv
    <3>1. memory[q] = "live" /\ q \notin set
      BY <1>2, <1>6
    <3>2. parent[q] \in Process \ {q} /\ pc[parent[q]] \notin Ending \cup {"unborn"}
      BY <2>1, <3>1 DEF CpInv
    <3>3. pc'[parent[q]] \notin Ending \cup {"unborn"}
      BY <1>1, <1>2, <3>1, <3>2 DEF TypeOK, Children, Ending
    <3>4. Tells(cp[q], pc'[q], code[q])
      BY <1>1, <1>2, <2>1, <3>1 DEF CpInv, Tells, TypeOK, Starting, Busy, Ending, Gone
    <3>5. pc'[q] # "unborn"
      BY <1>1, <1>2, <2>1, <3>1 DEF CpInv, TypeOK
    <3> QED
      BY <3>2, <3>3, <3>4, <3>5 DEF CpInv
  <2> QED
    BY <2>2, <2>3, <2>4
<1> QED
  BY <1>3, <1>4, <1>7 DEF ProcessIInv

\* exec() and process_wait() free the struct they are done with.
LEMMA ReturnKeeps ==
  ASSUME ProcessIInv, NEW p \in Process, ExecReturns(p) \/ WaitReturns(p)
  PROVE  ProcessIInv'
<1>1. TypeOK /\ HandInv(p) /\ pc[p] \in Busy
  BY DEF ProcessIInv, ExecReturns, WaitReturns, Busy
<1>2. target[p] \in Process /\ memory[target[p]] = "live" /\ parent[target[p]] = p
  BY <1>1 DEF HandInv
<1>3. /\ target' \in [Process -> Process \cup {NULL}]
      /\ \A q \in Process \ {p} : target'[q] = target[q]
      /\ waited' \in SUBSET Process /\ orphan' = orphan
  BY <1>1, <1>2 DEF ExecReturns, WaitReturns, TypeOK, history
<1>4. /\ Goto(p, "run") /\ UNCHANGED <<parent, all_list, executable, code, cp, fault>>
      /\ \/ Free({}, "exec") \/ Free({target[p]}, "exec")
         \/ Free({target[p]}, "process_wait")
  BY DEF ExecReturns, WaitReturns
<1>5. {"exec", "process_wait"} \subseteq Owners
  BY DEF Owners
<1>6. \A s \in {{}, {target[p]}} : s \in SUBSET Process /\ \A c \in s : memory[c] = "live" /\ parent[c] = p
  BY <1>2
<1>7. PICK s \in {{}, {target[p]}}, by \in Owners : Free(s, by)
  BY <1>4, <1>5
<1> QED
  BY <1>1, <1>3, <1>4, <1>6, <1>7, FreeKeeps

\* process_exit() frees those that are left.
LEMMA FreeChildrenKeeps ==
  ASSUME ProcessIInv, NEW p \in Process, FreeChildren(p)
  PROVE  ProcessIInv'
<1>1. TypeOK /\ "remove_child_processes" \in Owners
  BY DEF ProcessIInv, Owners
<1>2. Children(p) \in SUBSET Process /\ \A c \in Children(p) : memory[c] = "live" /\ parent[c] = p
  BY DEF Children
<1>3. /\ target' \in [Process -> Process \cup {NULL}]
      /\ \A q \in Process \ {p} : target'[q] = target[q]
      /\ waited' \in SUBSET Process /\ orphan' = orphan
  BY <1>1 DEF FreeChildren, TypeOK, history
<1> QED
  BY <1>1, <1>2, <1>3, FreeKeeps DEF FreeChildren

\* A new child has a new struct, and a parent that lives.
LEMMA ExecuteKeeps ==
  ASSUME ProcessIInv, NEW p \in Process, NEW c \in Process, process_execute(p, c)
  PROVE  ProcessIInv'
<1> DEFINE label == IF p = InitialThread THEN "wait" ELSE "exec"
<1>1. TypeOK /\ AliveInv
  BY DEF ProcessIInv
<1>2. p # c /\ pc[p] = "run" /\ pc[c] = "unborn"
  BY DEF process_execute
<1>3. /\ pc' = [pc EXCEPT ![c] = "load", ![p] = label]
      /\ parent' = [parent EXCEPT ![c] = p] /\ memory' = [memory EXCEPT ![c] = "live"]
      /\ target' = [target EXCEPT ![p] = c] /\ all_list' = all_list \cup {c}
      /\ cp' = cp /\ code' = code /\ UNCHANGED <<executable, fault, waited, orphan>>
  BY DEF process_execute, history
<1>4. label \in Busy /\ label \in Labels /\ label \notin {"exec read", "wait read"}
  BY DEF Busy, Labels
<1> HIDE DEF label
<1>5. TypeOK'
  BY <1>1, <1>3, <1>4 DEF TypeOK, Labels
<1>6. AliveInv'
  BY <1>1, <1>2, <1>3, <1>4 DEF AliveInv, TypeOK, Busy
<1>7. memory[c] = "none" /\ cp[c] = NewChild /\ code[c] = NULL
  BY <1>2 DEF ProcessIInv, BareInv
<1>8. ASSUME NEW q \in Process PROVE HandInv(q)' /\ BareInv(q)' /\ CpInv(q)'
  <2>1. HandInv(q) /\ BareInv(q) /\ CpInv(q)
    BY DEF ProcessIInv
  <2>2. HandInv(q)'
    BY <1>1, <1>2, <1>3, <1>4, <1>7, <2>1 DEF HandInv, TypeOK, Busy, Gone
  <2>3. BareInv(q)'
    <3>1. CASE q = c
      BY <1>1, <1>2, <1>3, <3>1 DEF BareInv, TypeOK
    <3>2. CASE q = p
      BY <1>1, <1>2, <1>3, <1>4, <2>1, <3>2 DEF BareInv, TypeOK, Busy
    <3>3. CASE q # c /\ q # p
      BY <1>1, <1>3, <2>1, <3>3 DEF BareInv, TypeOK
    <3> QED
      BY <3>1, <3>2, <3>3
  <2>4. CpInv(q)'
    <3>1. CASE q = c
      <4>1. Tells(NewChild, "load", NULL)
        BY DEF Tells, NewChild, Starting, Busy, Ending, Gone
      <4>2. cp'[c] = NewChild /\ code'[c] = NULL /\ pc'[c] = "load"
        BY <1>1, <1>2, <1>3, <1>7 DEF TypeOK
      <4>3. parent'[c] = p /\ pc'[p] \notin Ending \cup {"unborn"}
        BY <1>1, <1>2, <1>3, <1>4 DEF TypeOK, Busy, Ending
      <4> QED
        BY <1>2, <3>1, <4>1, <4>2, <4>3 DEF CpInv
    <3>2. CASE q = p
      BY <1>1, <1>2, <1>3, <1>4, <2>1, <3>2 DEF CpInv, Tells, TypeOK, Starting, Busy, Ending, Gone
    <3>3. CASE q # c /\ q # p
      BY <1>1, <1>2, <1>3, <1>4, <2>1, <3>3 DEF CpInv, TypeOK, Busy, Ending
    <3> QED
      BY <3>1, <3>2, <3>3
  <2> QED
    BY <2>2, <2>3, <2>4
<1> QED
  BY <1>5, <1>6, <1>8 DEF ProcessIInv

-----------------------------------------------------------------------------
\* The invariant holds in the initial state.
LEMMA ProcessInitially == Init => ProcessIInv
<1> SUFFICES ASSUME Init PROVE ProcessIInv
  OBVIOUS
<1>1. NewChild \in child_process
  BY DEF NewChild, child_process
<1>2. TypeOK
  BY <1>1, ProcessAssumption DEF Init, TypeOK, Labels
<1>3. AliveInv
  BY ProcessAssumption DEF Init, AliveInv
<1>4. \A p \in Process : HandInv(p) /\ BareInv(p) /\ CpInv(p)
  BY DEF Init, HandInv, BareInv, CpInv, Busy
<1> QED
  BY <1>2, <1>3, <1>4 DEF ProcessIInv

\* Every step keeps it.
LEMMA ProcessStep == ProcessIInv /\ [Next]_vars => ProcessIInv'
<1> SUFFICES ASSUME ProcessIInv, [Next]_vars PROVE ProcessIInv'
  OBVIOUS
<1>1. CASE UNCHANGED vars
  BY <1>1 DEF vars, ProcessIInv, TypeOK, AliveInv, HandInv, BareInv, CpInv
<1>2. CASE Next
  <2>1. PICK p \in Process : KernelStep(p) \/ Request(p)
    BY <1>2 DEF Next
  <2>2. CASE KernelStep(p)
    BY <2>2, ExecLooksKeeps, ExecDownKeeps, ReturnKeeps, WaitLooksKeeps, WaitDownKeeps, LoadKeeps,
       SetLoadKeeps, LoadUpKeeps, SetStatusKeeps, FreeChildrenKeeps, TestParentKeeps, SetExitKeeps,
       ExitUpKeeps, DieKeeps
    DEF KernelStep
  <2>3. CASE Request(p)
    BY <2>3, ExecuteKeeps, WaitKeeps, ExitKeeps DEF Request
  <2> QED
    BY <2>1, <2>2, <2>3
<1> QED
  BY <1>1, <1>2

-----------------------------------------------------------------------------
(* What has been freed. *)

Failed == {"up fail", "process_exit"} \cup Ending
Early == {"unborn", "load", "set success", "set fail", "up fail"}
Silent == {"process_exit", "is parent alive", "dying", "dead"}

\* The parent is at work on a child until it has been loaded; and a child has come at
\* least as far as whoever freed its struct must have seen.
LateInv(c) ==
  /\ memory[c] = "live" =>
       /\ cp[c].load # "LOAD_SUCCESS" => pc[parent[c]] \in Busy /\ target[parent[c]] = c
       /\ cp[c].load = "LOAD_FAIL" => pc[c] \in Failed
       /\ pc[c] = "up fail" => cp[c].load = "LOAD_FAIL"
  /\ memory[c] = "exec" => pc[c] \in Failed
  /\ memory[c] = "process_wait" => pc[c] \in Gone
  /\ memory[c] = "remove_child_processes" => pc[c] \notin Early
  /\ c \in waited => memory[c] = "process_wait"
  /\ c \in orphan => parent[c] \notin all_list /\ pc[c] \in Silent
  /\ parent[c] \in Process => pc[parent[c]] # "unborn"

LateIInv ==
  /\ \A c \in Process : LateInv(c)
  /\ fault # NULL => fault.user \in Strays(fault.freed_by) /\ fault.child \notin orphan

\* A step of p to a label that frees nothing.
Onward(p, label) ==
  /\ pc' = [pc EXCEPT ![p] = label]
  /\ UNCHANGED <<parent, memory, waited>>
  /\ all_list' \subseteq all_list
  /\ orphan' = orphan \/ (orphan' = orphan \cup {p} /\ parent[p] \notin all_list /\ label = "process_exit")
  /\ \A q \in Process \ {p} : target'[q] = target[q] /\ cp'[q].load = cp[q].load
  /\ pc[p] # "unborn" /\ label # "unborn"
  /\ pc[p] \in Busy => label \in Busy /\ target'[p] = target[p]

\* What it does to the own struct, if there is one, and where it may lead.
Own(p, label) ==
  /\ pc[p] \in Failed => label \in Failed
  /\ pc[p] \in Gone => label \in Gone
  /\ pc[p] \notin Early => label \notin Early
  /\ p \in orphan => label \in Silent
  /\ memory[p] = "live" =>
       /\ cp'[p].load # "LOAD_SUCCESS" => cp[p].load # "LOAD_SUCCESS"
       /\ cp'[p].load = "LOAD_FAIL" => label \in Failed
       /\ label = "up fail" => cp'[p].load = "LOAD_FAIL"

\* Such a step keeps what is known of every struct.
LEMMA OnwardKeeps ==
  ASSUME ProcessIInv, LateIInv, NEW p \in Process, NEW label, Onward(p, label), Own(p, label),
         NEW c \in Process
  PROVE  LateInv(c)'
<1>1. TypeOK /\ CpInv(c) /\ LateInv(c)
  BY DEF ProcessIInv, LateIInv
<1>2. /\ pc' = [pc EXCEPT ![p] = label] /\ pc \in [Process -> Labels]
      /\ parent'[c] = parent[c] /\ memory'[c] = memory[c] /\ waited' = waited
      /\ all_list' \subseteq all_list
  BY <1>1 DEF Onward, TypeOK
<1>3. ASSUME NEW q \in Process
      PROVE  /\ pc[q] \in Busy => pc'[q] \in Busy /\ target'[q] = target[q]
             /\ pc[q] # "unborn" => pc'[q] # "unborn"
  BY <1>2 DEF Onward
<1>4. /\ pc[c] \in Failed => pc'[c] \in Failed
      /\ pc[c] \in Gone => pc'[c] \in Gone
      /\ pc[c] \notin Early => pc'[c] \notin Early
  BY <1>2 DEF Own
<1>5. memory[c] = "live" =>
        /\ cp'[c].load # "LOAD_SUCCESS" => cp[c].load # "LOAD_SUCCESS"
        /\ cp'[c].load = "LOAD_FAIL" => pc'[c] \in Failed
        /\ pc'[c] = "up fail" => cp'[c].load = "LOAD_FAIL"
  <2>1. CASE c = p
    BY <1>2, <2>1 DEF Own
  <2>2. CASE c # p
    <3>1. cp'[c].load = cp[c].load /\ pc'[c] = pc[c]
      BY <1>2, <2>2 DEF Onward
    <3> QED
      BY <1>1, <3>1 DEF LateInv
  <2> QED
    BY <2>1, <2>2
<1>6. memory'[c] = "live" =>
        /\ cp'[c].load # "LOAD_SUCCESS" => pc'[parent'[c]] \in Busy /\ target'[parent'[c]] = c
        /\ cp'[c].load = "LOAD_FAIL" => pc'[c] \in Failed
        /\ pc'[c] = "up fail" => cp'[c].load = "LOAD_FAIL"
  <2> SUFFICES ASSUME memory[c] = "live"
               PROVE  /\ cp'[c].load # "LOAD_SUCCESS" => pc'[parent[c]] \in Busy /\ target'[parent[c]] = c
                      /\ cp'[c].load = "LOAD_FAIL" => pc'[c] \in Failed
                      /\ pc'[c] = "up fail" => cp'[c].load = "LOAD_FAIL"
    BY <1>2
  <2>1. parent[c] \in Process
    BY <1>1 DEF CpInv
  <2> QED
    BY <1>1, <1>3, <1>5, <2>1 DEF LateInv
<1>7. c \in orphan' => parent'[c] \notin all_list' /\ pc'[c] \in Silent
  <2>1. CASE c \in orphan
    BY <1>1, <1>2, <2>1 DEF LateInv, Own
  <2>2. CASE c \notin orphan
    <3>1. c \in orphan' => c = p /\ parent[p] \notin all_list /\ label = "process_exit"
      BY <2>2 DEF Onward
    <3> QED
      BY <1>2, <3>1 DEF Silent
  <2> QED
    BY <2>1, <2>2
<1>8. parent'[c] \in Process => pc'[parent'[c]] # "unborn"
  BY <1>1, <1>2, <1>3 DEF LateInv
<1> QED
  BY <1>1, <1>2, <1>4, <1>6, <1>7, <1>8 DEF LateInv

\* A step that does not use the own struct.
LEMMA QuietKeeps ==
  ASSUME ProcessIInv, LateIInv, NEW p \in Process, NEW label, Onward(p, label), Own(p, label),
         fault = NULL, fault' = fault
  PROVE  LateIInv'
  BY OnwardKeeps DEF LateIInv

\* Nor does a step of the parent, or of a program.
LEMMA LookLate ==
  ASSUME ProcessIInv, LateIInv, fault = NULL, NEW p \in Process,
         \/ ExecLooks(p) \/ ExecDown(p) \/ WaitLooks(p) \/ WaitDown(p)
         \/ (\E c \in Process : Wait(p, c)) \/ Load(p) \/ TestParent(p) \/ Die(p)
         \/ \E e \in Code : Exit(p, e)
  PROVE  LateIInv'
<1>1. TypeOK /\ HandInv(p) /\ LateInv(p) /\ fault = NULL
  BY DEF ProcessIInv, LateIInv
<1>2. pc \in [Process -> Labels] /\ target \in [Process -> Process \cup {NULL}]
      /\ cp \in [Process -> child_process] /\ executable \in [Process -> BOOLEAN]
  BY <1>1 DEF TypeOK
<1>3. CASE ExecLooks(p) \/ WaitLooks(p)
  <2>1. PICK label \in {"exec down", "exec read", "wait down", "wait read"} :
          pc' = [pc EXCEPT ![p] = label]
    BY <1>3 DEF ExecLooks, WaitLooks, Goto
  <2>2. /\ pc[p] \in {"exec", "wait"}
        /\ UNCHANGED <<parent, all_list, target, cp, memory, fault, waited, orphan>>
    BY <1>3 DEF ExecLooks, WaitLooks, history
  <2>3. Onward(p, label)
    BY <2>1, <2>2 DEF Onward, Busy
  <2>4. Own(p, label)
    BY <1>1, <2>2 DEF Own, LateInv, Failed, Early, Silent, Gone, Ending
  <2> QED
    BY <1>1, <2>2, <2>3, <2>4, QuietKeeps
<1>4. CASE ExecDown(p) \/ WaitDown(p)
  <2>1. PICK label \in {"exec read", "wait read"} : pc' = [pc EXCEPT ![p] = label]
    BY <1>4 DEF ExecDown, WaitDown, Goto
  <2>2. /\ pc[p] \in {"exec down", "wait down"}
        /\ UNCHANGED <<parent, all_list, target, memory, fault, waited, orphan>>
    BY <1>4 DEF ExecDown, WaitDown, history
  <2>3. \A q \in Process : cp'[q].load = cp[q].load
    <3>1. ASSUME NEW c \in Process, NEW q \in Process,
                 \/ cp' = [cp EXCEPT ![c] = [cp[c] EXCEPT !.load_sema = cp[c].load_sema - 1]]
                 \/ cp' = [cp EXCEPT ![c] = [cp[c] EXCEPT !.exit_sema = cp[c].exit_sema - 1]]
          PROVE  cp'[q].load = cp[q].load
      <4>1. cp[c] \in child_process
        BY <1>2
      <4>2. /\ [cp[c] EXCEPT !.load_sema = cp[c].load_sema - 1].load = cp[c].load
            /\ [cp[c] EXCEPT !.exit_sema = cp[c].exit_sema - 1].load = cp[c].load
        BY <4>1 DEF child_process
      <4>3. PICK new : cp' = [cp EXCEPT ![c] = new] /\ new.load = cp[c].load
        BY <3>1, <4>2
      <4> QED
        BY <1>2, <4>3
    <3>2. target[p] \in Process
      BY <1>1, <2>2 DEF HandInv, Busy
    <3>3. \/ cp' = [cp EXCEPT ![target[p]] = [cp[target[p]] EXCEPT !.load_sema = cp[target[p]].load_sema - 1]]
          \/ cp' = [cp EXCEPT ![target[p]] = [cp[target[p]] EXCEPT !.exit_sema = cp[target[p]].exit_sema - 1]]
      BY <1>4 DEF ExecDown, WaitDown
    <3> QED
      BY <3>1, <3>2, <3>3
  <2>4. Onward(p, label)
    BY <2>1, <2>2, <2>3 DEF Onward, Busy
  <2>5. Own(p, label)
    BY <1>1, <2>2, <2>3 DEF Own, LateInv, Failed, Early, Silent, Gone, Ending
  <2> QED
    BY <1>1, <2>2, <2>4, <2>5, QuietKeeps
<1>5. CASE \E c \in Process : Wait(p, c)
  <2>1. /\ pc[p] = "run" /\ pc' = [pc EXCEPT ![p] = "wait"]
        /\ \A q \in Process \ {p} : target'[q] = target[q]
        /\ UNCHANGED <<parent, all_list, cp, memory, fault, waited, orphan>>
    BY <1>2, <1>5 DEF Wait, Goto, history
  <2>2. Onward(p, "wait")
    BY <2>1 DEF Onward, Busy
  <2>3. Own(p, "wait")
    BY <1>1, <2>1 DEF Own, LateInv, Failed, Early, Silent, Gone, Ending
  <2> QED
    BY <1>1, <2>1, <2>2, <2>3, QuietKeeps
<1>6. CASE Load(p)
  <2>1. PICK label \in {"set success", "set fail"} : pc' = [pc EXCEPT ![p] = label]
    BY <1>6 DEF Load, Goto
  <2>2. pc[p] = "load" /\ UNCHANGED <<parent, all_list, target, cp, memory, fault, waited, orphan>>
    BY <1>6 DEF Load, history
  <2>3. Onward(p, label)
    BY <2>1, <2>2 DEF Onward, Busy
  <2>4. Own(p, label)
    BY <1>1, <2>2 DEF Own, LateInv, Failed, Early, Silent, Gone, Ending
  <2> QED
    BY <1>1, <2>2, <2>3, <2>4, QuietKeeps
<1>7. CASE TestParent(p)
  <2>1. PICK label \in {"set exit", "dying"} :
          pc' = [pc EXCEPT ![p] = label] /\ (label = "set exit" => parent[p] \in all_list)
    BY <1>7 DEF TestParent, Goto, thread_alive
  <2>2. /\ pc[p] = "is parent alive"
        /\ UNCHANGED <<parent, all_list, target, cp, memory, fault, waited, orphan>>
    BY <1>7 DEF TestParent, history
  <2>3. Onward(p, label)
    BY <2>1, <2>2 DEF Onward, Busy
  <2>4. Own(p, label)
    BY <1>1, <2>1, <2>2 DEF Own, LateInv, Failed, Early, Silent, Gone, Ending
  <2> QED
    BY <1>1, <2>2, <2>3, <2>4, QuietKeeps
<1>8. CASE Die(p)
  <2>1. /\ pc[p] = "dying" /\ pc' = [pc EXCEPT ![p] = "dead"] /\ all_list' \subseteq all_list
        /\ UNCHANGED <<parent, target, cp, memory, fault, waited, orphan>>
    BY <1>8 DEF Die, Goto, history
  <2>2. Onward(p, "dead")
    BY <2>1 DEF Onward, Busy
  <2>3. Own(p, "dead")
    BY <1>1, <2>1 DEF Own, LateInv, Failed, Early, Silent, Gone, Ending
  <2> QED
    BY <1>1, <2>1, <2>2, <2>3, QuietKeeps
<1>9. CASE \E e \in Code : Exit(p, e)
  <2>1. PICK label \in {"set status", "process_exit"} :
          /\ pc' = [pc EXCEPT ![p] = label]
          /\ \/ orphan' = orphan
             \/ orphan' = orphan \cup {p} /\ parent[p] \notin all_list /\ label = "process_exit"
    BY <1>9 DEF Exit, Goto, thread_alive
  <2>2. /\ pc[p] = "run"
        /\ UNCHANGED <<parent, all_list, target, cp, memory, fault, waited>>
    BY <1>9 DEF Exit
  <2>3. Onward(p, label)
    BY <2>1, <2>2 DEF Onward, Busy
  <2>4. Own(p, label)
    BY <1>1, <2>1, <2>2 DEF Own, LateInv, Failed, Early, Silent, Gone, Ending
  <2> QED
    BY <1>1, <2>2, <2>3, <2>4, QuietKeeps
<1> QED
  BY <1>3, <1>4, <1>5, <1>6, <1>7, <1>8, <1>9

\* Where a child writes to its struct.
Writing == {"set success", "set fail", "up success", "up fail", "set status", "set exit", "up exit"}

\* A child that finds its struct freed does so in the last steps only.
LEMMA WriteLate ==
  ASSUME ProcessIInv, LateIInv, fault = NULL, NEW p \in Process, NEW label, NEW new,
         WriteCp(p, new), pc[p] \in Writing, pc' = [pc EXCEPT ![p] = label],
         UNCHANGED <<parent, all_list, target, memory, waited, orphan>>,
         label \notin {"unborn"}, Own(p, label)
  PROVE  LateIInv'
<1>1. TypeOK /\ BareInv(p) /\ LateInv(p)
  BY DEF ProcessIInv, LateIInv
<1>2. \A q \in Process \ {p} : cp'[q] = cp[q]
  BY <1>1 DEF WriteCp, TypeOK
<1>3. Onward(p, label)
  BY <1>2 DEF Onward, Writing, Busy
<1>4. fault' # NULL => fault'.user \in Strays(fault'.freed_by) /\ fault'.child \notin orphan
  <2>1. CASE memory[p] = "live"
    BY <2>1 DEF WriteCp
  <2>2. CASE memory[p] # "live"
    <3>1. memory[p] \in Owners
      BY <1>1, <2>2 DEF TypeOK, BareInv, Writing, Busy
    <3>2. fault' = [child |-> p, user |-> pc[p], freed_by |-> memory[p]]
      BY <2>2 DEF WriteCp
    <3>3. fault'.user = pc[p] /\ fault'.freed_by = memory[p] /\ fault'.child = p
      BY <3>2
    <3>4. pc[p] \in Strays(memory[p])
      <4>1. CASE memory[p] = "exec"
        BY <1>1, <4>1 DEF LateInv, Strays, Failed, Ending, Writing
      <4>2. CASE memory[p] = "process_wait"
        BY <1>1, <4>2 DEF LateInv, Strays, Gone, Writing
      <4>3. CASE memory[p] = "remove_child_processes"
        BY <1>1, <4>3 DEF LateInv, Strays, Early, Writing
      <4> QED
        BY <3>1, <4>1, <4>2, <4>3 DEF Owners
    <3>5. p \notin orphan
      BY <1>1 DEF LateInv, Silent, Writing
    <3> QED
      BY <3>3, <3>4, <3>5
  <2> QED
    BY <2>1, <2>2
<1>5. \A c \in Process : LateInv(c)'
  BY <1>3, OnwardKeeps
<1> QED
  BY <1>4, <1>5 DEF LateIInv

\* Every step of a child that writes is such a step.
LEMMA ChildLate ==
  ASSUME ProcessIInv, LateIInv, fault = NULL, NEW p \in Process,
         SetLoad(p) \/ LoadUp(p) \/ SetStatus(p) \/ SetExit(p) \/ ExitUp(p)
  PROVE  LateIInv'
<1>1. TypeOK /\ LateInv(p)
  BY DEF ProcessIInv, LateIInv
<1>2. cp \in [Process -> child_process] /\ cp[p] \in child_process
  BY <1>1 DEF TypeOK
<1>3. ASSUME NEW new, WriteCp(p, new) PROVE memory[p] = "live" => cp'[p] = new
  BY <1>2, <1>3 DEF WriteCp
<1>4. ASSUME NEW l \in {"LOAD_SUCCESS", "LOAD_FAIL"}, NEW label,
             WriteCp(p, [cp[p] EXCEPT !.load = l]), Goto(p, label),
             \/ pc[p] = "set success" /\ label = "up success" /\ l = "LOAD_SUCCESS"
             \/ pc[p] = "set fail" /\ label = "up fail" /\ l = "LOAD_FAIL",
             UNCHANGED <<parent, all_list, executable, code, target, memory, history>>
      PROVE  LateIInv'
  <2>1. memory[p] = "live" => cp'[p].load = l
    <3>1. [cp[p] EXCEPT !.load = l].load = l
      BY <1>2 DEF child_process
    <3> QED
      BY <1>3, <1>4, <3>1
  <2>2. memory[p] = "live" => cp[p].load # "LOAD_SUCCESS"
    <3>1. memory[p] = "live" => Tells(cp[p], pc[p], code[p])
      BY DEF ProcessIInv, CpInv
    <3> QED
      BY <1>4, <3>1 DEF Tells
  <2>3. Own(p, label)
    BY <1>1, <1>4, <2>1, <2>2 DEF Own, LateInv, Failed, Early, Silent, Gone, Ending
  <2>4. pc' = [pc EXCEPT ![p] = label] /\ pc[p] \in Writing /\ label # "unborn"
    BY <1>4 DEF Goto, Writing
  <2>5. UNCHANGED <<parent, all_list, target, memory, waited, orphan>>
    BY <1>4 DEF history
  <2> QED
    BY <1>4, <2>3, <2>4, <2>5, WriteLate
<1>5. CASE SetLoad(p)
  BY <1>4, <1>5 DEF SetLoad
<1>6. ASSUME NEW new, WriteCp(p, new), new.load = cp[p].load, NEW label, Goto(p, label),
             UNCHANGED <<parent, all_list, executable, code, target, memory, history>>,
             \/ pc[p] = "up success" /\ label = "run"
             \/ pc[p] \in {"up fail", "set status"} /\ label = "process_exit"
             \/ pc[p] = "set exit" /\ label = "up exit"
             \/ pc[p] = "up exit" /\ label = "dying"
      PROVE  LateIInv'
  <2>1. memory[p] = "live" => cp'[p].load = cp[p].load
    BY <1>3, <1>6
  <2>2. Own(p, label)
    BY <1>1, <1>6, <2>1 DEF Own, LateInv, Failed, Early, Silent, Gone, Ending
  <2>3. pc' = [pc EXCEPT ![p] = label] /\ pc[p] \in Writing /\ label # "unborn"
    BY <1>6 DEF Goto, Writing
  <2>4. UNCHANGED <<parent, all_list, target, memory, waited, orphan>>
    BY <1>6 DEF history
  <2> QED
    BY <1>6, <2>2, <2>3, <2>4, WriteLate
<1>7. /\ \A x : [cp[p] EXCEPT !.status = x].load = cp[p].load
      /\ [cp[p] EXCEPT !.exit = TRUE].load = cp[p].load
      /\ \A x : [cp[p] EXCEPT !.load_sema = x].load = cp[p].load
      /\ \A x : [cp[p] EXCEPT !.exit_sema = x].load = cp[p].load
  BY <1>2 DEF child_process
<1>8. CASE LoadUp(p)
  <2>1. /\ WriteCp(p, [cp[p] EXCEPT !.load_sema = cp[p].load_sema + 1])
        /\ UNCHANGED <<parent, all_list, executable, code, target, memory, history>>
    BY <1>8 DEF LoadUp
  <2>2. \/ pc[p] = "up success" /\ Goto(p, "run")
        \/ pc[p] = "up fail" /\ Goto(p, "process_exit")
    BY <1>8 DEF LoadUp
  <2>3. PICK new : WriteCp(p, new) /\ new.load = cp[p].load
    BY <1>7, <2>1
  <2>4. CASE pc[p] = "up success" /\ Goto(p, "run")
    BY <1>6, <2>1, <2>3, <2>4
  <2>5. CASE pc[p] = "up fail" /\ Goto(p, "process_exit")
    BY <1>6, <2>1, <2>3, <2>5
  <2> QED
    BY <2>2, <2>4, <2>5
<1>9. CASE SetStatus(p)
  BY <1>6, <1>7, <1>9 DEF SetStatus
<1>10. CASE SetExit(p)
  <2>1. PICK new : WriteCp(p, new) /\ new.load = cp[p].load
    BY <1>7, <1>10 DEF SetExit
  <2>2. /\ pc[p] = "set exit" /\ Goto(p, "up exit")
        /\ UNCHANGED <<parent, all_list, executable, code, target, memory, history>>
    BY <1>10 DEF SetExit
  <2> QED
    BY <1>6, <2>1, <2>2
<1>11. CASE ExitUp(p)
  BY <1>6, <1>7, <1>11 DEF ExitUp
<1> QED
  BY <1>5, <1>8, <1>9, <1>10, <1>11

\* A parent that frees a struct has seen how far its child is.
LEMMA FreeLate ==
  ASSUME ProcessIInv, LateIInv, fault = NULL, NEW p \in Process,
         ExecReturns(p) \/ WaitReturns(p) \/ FreeChildren(p)
  PROVE  LateIInv'
<1>1. TypeOK /\ HandInv(p) /\ CpInv(p) /\ LateInv(p)
  BY DEF ProcessIInv, LateIInv
<1> DEFINE t == target[p]
<1>2. PICK label \in {"run", "is parent alive"}, by \in Owners, set \in SUBSET Process :
        /\ pc' = [pc EXCEPT ![p] = label] /\ Free(set, by)
        /\ label = "run" <=> pc[p] \in Busy
        /\ label = "is parent alive" <=> pc[p] = "process_exit"
        /\ \A c \in set : memory[c] = "live" /\ parent[c] = p
        /\ \/ by = "exec" /\ pc[p] = "exec read" /\ set = (IF cp[t].load = "LOAD_FAIL" THEN {t} ELSE {})
           \/ by = "process_wait" /\ pc[p] = "wait read" /\ set = {t}
           \/ by = "remove_child_processes" /\ pc[p] = "process_exit" /\ set = Children(p)
  <2>1. pc[p] \in Busy => t \in Process /\ memory[t] = "live" /\ parent[t] = p
    BY <1>1 DEF HandInv
  <2>2. CASE ExecReturns(p)
    <3> DEFINE set == IF cp[t].load = "LOAD_FAIL" THEN {t} ELSE {}
    <3>1. pc[p] = "exec read" /\ Free(set, "exec") /\ Goto(p, "run")
      BY <2>2 DEF ExecReturns
    <3>2. set \in SUBSET Process /\ \A c \in set : memory[c] = "live" /\ parent[c] = p
      BY <2>1, <3>1 DEF Busy
    <3> QED
      BY <3>1, <3>2 DEF Goto, Owners, Busy
  <2>3. CASE WaitReturns(p)
    <3>1. pc[p] = "wait read" /\ Free({t}, "process_wait") /\ Goto(p, "run")
      BY <2>3 DEF WaitReturns
    <3>2. {t} \in SUBSET Process /\ \A c \in {t} : memory[c] = "live" /\ parent[c] = p
      BY <2>1, <3>1 DEF Busy
    <3> QED
      BY <3>1, <3>2 DEF Goto, Owners, Busy
  <2>4. CASE FreeChildren(p)
    <3>1. pc[p] = "process_exit" /\ Free(Children(p), "remove_child_processes") /\ Goto(p, "is parent alive")
      BY <2>4 DEF FreeChildren
    <3>2. Children(p) \in SUBSET Process /\ \A c \in Children(p) : memory[c] = "live" /\ parent[c] = p
      BY DEF Children
    <3> QED
      BY <3>1, <3>2 DEF Goto, Owners, Busy
  <2> QED
    BY <2>2, <2>3, <2>4
<1>3. /\ UNCHANGED <<parent, all_list, cp, fault, orphan>>
      /\ \A q \in Process \ {p} : target'[q] = target[q]
      /\ \A c \in Process : c \in waited' => c \in waited \/ (pc[p] = "wait read" /\ c = t)
  BY <1>1 DEF ExecReturns, WaitReturns, FreeChildren, history, TypeOK
<1>4. \A c \in Process : memory'[c] = (IF c \in set THEN by ELSE memory[c])
  BY <1>2 DEF Free
<1>5. pc \in [Process -> Labels] /\ by # "live" /\ by # "none"
  BY <1>1 DEF TypeOK, Owners
<1>6. ASSUME NEW c \in Process PROVE LateInv(c)'
  <2>1. TypeOK /\ CpInv(c) /\ LateInv(c)
    BY DEF ProcessIInv, LateIInv
  <2>2. /\ pc[c] \in Failed => pc'[c] \in Failed
        /\ pc[c] \in Gone => pc'[c] \in Gone
        /\ pc[c] \notin Early => pc'[c] \notin Early
        /\ pc[c] \in Silent => pc'[c] \in Silent
        /\ pc[c] # "unborn" => pc'[c] # "unborn"
        /\ pc'[c] # "up fail" \/ pc[c] = "up fail"
    BY <1>2, <1>5 DEF Busy, Failed, Gone, Early, Silent, Ending
  <2>3. CASE c \in set
    <3>1. memory[c] = "live" /\ parent[c] = p /\ c # p /\ memory'[c] = by
      BY <1>2, <1>4, <2>1, <2>3 DEF CpInv
    <3>2. by = "exec" => pc[c] \in Failed
      BY <1>2, <2>1, <2>3, <3>1 DEF LateInv, Owners
    <3>3. by = "process_wait" => pc[c] \in Gone
      BY <1>1, <1>2, <2>3 DEF HandInv
    <3>4. by = "remove_child_processes" => pc[c] \notin Early
      <4>1. SUFFICES ASSUME by = "remove_child_processes" PROVE pc[c] \notin Early
        OBVIOUS
      <4>2. pc[p] \notin Busy
        BY <1>2, <4>1 DEF Busy
      <4>3. cp[c].load = "LOAD_SUCCESS"
        BY <2>1, <3>1, <4>2 DEF LateInv
      <4>4. pc[c] # "unborn" /\ Tells(cp[c], pc[c], code[c])
        BY <2>1, <3>1 DEF CpInv
      <4> QED
        BY <2>1, <3>1, <4>3, <4>4 DEF Tells, LateInv, Early
    <3>5. c \in waited' => by = "process_wait"
      BY <1>2, <1>3, <2>1, <3>1 DEF LateInv
    <3>6. c \in orphan' => parent'[c] \notin all_list' /\ pc'[c] \in Silent
      BY <1>3, <2>1, <2>2 DEF LateInv
    <3>7. parent'[c] \in Process => pc'[parent'[c]] # "unborn"
      BY <1>2, <1>3, <1>5, <3>1
    <3> QED
      BY <1>5, <2>2, <3>1, <3>2, <3>3, <3>4, <3>5, <3>6, <3>7 DEF LateInv
  <2>4. CASE c \notin set
    <3>1. memory'[c] = memory[c] /\ cp'[c] = cp[c] /\ parent'[c] = parent[c]
      BY <1>3, <1>4, <2>4
    <3>2. memory[c] = "live" /\ cp[c].load # "LOAD_SUCCESS" =>
            pc'[parent[c]] \in Busy /\ target'[parent[c]] = c
      <4>1. SUFFICES ASSUME memory[c] = "live", cp[c].load # "LOAD_SUCCESS"
                     PROVE  pc'[parent[c]] \in Busy /\ target'[parent[c]] = c
        OBVIOUS
      <4>2. parent[c] \in Process /\ pc[parent[c]] \in Busy /\ target[parent[c]] = c
        BY <2>1, <4>1 DEF CpInv, LateInv
      <4>3. parent[c] # p
        <5>1. SUFFICES ASSUME parent[c] = p PROVE FALSE
          OBVIOUS
        <5>2. pc[p] \in Busy /\ t = c
          BY <4>2, <5>1
        <5>3. pc[p] = "exec read" /\ cp[c].load # "LOAD_FAIL"
          BY <1>2, <2>4, <5>2 DEF Busy
        <5>4. cp[c].load # "NOT_LOADED"
          BY <1>1, <5>2, <5>3 DEF HandInv
        <5>5. cp[c].load \in {"NOT_LOADED", "LOAD_SUCCESS", "LOAD_FAIL"}
          BY <2>1 DEF TypeOK, child_process
        <5> QED
          BY <4>1, <5>3, <5>4, <5>5
      <4>4. pc'[parent[c]] = pc[parent[c]]
        BY <1>2, <1>5, <4>2, <4>3
      <4> QED
        BY <1>3, <4>2, <4>3, <4>4
    <3>3. memory[c] = "live" => /\ cp[c].load = "LOAD_FAIL" => pc'[c] \in Failed
                                /\ pc'[c] = "up fail" => cp[c].load = "LOAD_FAIL"
      BY <2>1, <2>2 DEF LateInv
    <3>4. c \in waited' => memory[c] = "process_wait"
      BY <1>2, <1>3, <2>1, <2>4 DEF LateInv
    <3>5. c \in orphan' => parent'[c] \notin all_list' /\ pc'[c] \in Silent
      BY <1>3, <2>1, <2>2 DEF LateInv
    <3>6. parent'[c] \in Process => pc'[parent'[c]] # "unborn"
      BY <1>2, <1>5, <2>1, <3>1 DEF LateInv
    <3> QED
      BY <2>1, <2>2, <3>1, <3>2, <3>3, <3>4, <3>5, <3>6 DEF LateInv
  <2> QED
    BY <2>3, <2>4
<1>7. fault' = NULL
  BY <1>3
<1> QED
  BY <1>6, <1>7 DEF LateIInv

\* A new child is in its parent's hands.
LEMMA ExecuteLate ==
  ASSUME ProcessIInv, LateIInv, fault = NULL, NEW p \in Process, NEW n \in Process,
         process_execute(p, n)
  PROVE  LateIInv'
<1> DEFINE label == IF p = InitialThread THEN "wait" ELSE "exec"
<1>1. TypeOK
  BY DEF ProcessIInv
<1>2. p # n /\ pc[p] = "run" /\ pc[n] = "unborn"
  BY DEF process_execute
<1>3. /\ pc' = [pc EXCEPT ![n] = "load", ![p] = label]
      /\ parent' = [parent EXCEPT ![n] = p] /\ memory' = [memory EXCEPT ![n] = "live"]
      /\ target' = [target EXCEPT ![p] = n] /\ all_list' = all_list \cup {n}
      /\ cp' = cp /\ UNCHANGED <<fault, waited, orphan>>
  BY DEF process_execute, history
<1>4. label \in Busy /\ label \notin Early \cup Failed \cup Gone \cup Silent
  BY DEF Busy, Early, Failed, Gone, Silent, Ending
<1> HIDE DEF label
<1>5. pc'[n] = "load" /\ pc'[p] = label /\ \A q \in Process \ {p, n} : pc'[q] = pc[q]
  BY <1>1, <1>2, <1>3 DEF TypeOK
<1>6. /\ parent'[n] = p /\ \A q \in Process \ {n} : parent'[q] = parent[q] /\ memory'[q] = memory[q]
      /\ memory'[n] = "live"
      /\ target'[p] = n /\ \A q \in Process \ {p} : target'[q] = target[q]
  BY <1>1, <1>3 DEF TypeOK
<1>7. ASSUME NEW c \in Process PROVE LateInv(c)'
  <2>1. BareInv(c) /\ CpInv(c) /\ LateInv(c)
    BY DEF ProcessIInv, LateIInv
  <2>2. CASE c = n
    <3>1. memory[c] = "none" /\ cp[c] = NewChild
      BY <1>2, <2>1, <2>2 DEF BareInv
    <3>2. cp'[c].load = "NOT_LOADED"
      BY <1>3, <3>1 DEF NewChild
    <3>3. c \notin waited /\ c \notin orphan
      BY <1>2, <2>1, <2>2, <3>1 DEF LateInv, Silent
    <3>4. pc'[parent'[c]] \in Busy /\ target'[parent'[c]] = c /\ pc'[parent'[c]] # "unborn"
      BY <1>4, <1>5, <1>6, <2>2 DEF Early
    <3> QED
      BY <1>3, <1>5, <1>6, <2>2, <3>2, <3>3, <3>4 DEF LateInv
  <2>3. CASE c # n
    <3>1. memory'[c] = memory[c] /\ cp'[c] = cp[c] /\ parent'[c] = parent[c]
      BY <1>3, <1>6, <2>3
    <3>2. /\ pc[c] \in Failed => pc'[c] \in Failed
          /\ pc[c] \in Gone => pc'[c] \in Gone
          /\ pc[c] \notin Early => pc'[c] \notin Early
          /\ pc[c] \in Silent => pc'[c] \in Silent
          /\ pc'[c] # "up fail" \/ pc[c] = "up fail"
      BY <1>2, <1>4, <1>5, <2>3 DEF Failed, Gone, Early, Silent, Ending
    <3>3. parent[c] \in Process => pc[parent[c]] # "unborn" /\ pc'[parent[c]] # "unborn" /\ parent[c] # n
      BY <1>2, <1>4, <1>5, <2>1 DEF LateInv, Early
    <3>4. memory[c] = "live" /\ cp[c].load # "LOAD_SUCCESS" =>
            pc'[parent[c]] \in Busy /\ target'[parent[c]] = c
      <4>1. SUFFICES ASSUME memory[c] = "live", cp[c].load # "LOAD_SUCCESS"
                     PROVE  pc'[parent[c]] \in Busy /\ target'[parent[c]] = c
        OBVIOUS
      <4>2. parent[c] \in Process /\ pc[parent[c]] \in Busy /\ target[parent[c]] = c
        BY <2>1, <4>1 DEF CpInv, LateInv
      <4>3. parent[c] # p /\ parent[c] # n
        BY <1>2, <4>2 DEF Busy
      <4> QED
        BY <1>5, <1>6, <4>2, <4>3
    <3>5. c \in orphan' => parent'[c] \notin all_list' /\ pc'[c] \in Silent
      <4>1. parent[c] # n
        BY <3>3
      <4>2. c \in orphan => parent[c] \notin all_list /\ pc[c] \in Silent
        BY <2>1 DEF LateInv
      <4>3. parent'[c] = parent[c] /\ all_list' = all_list \cup {n} /\ orphan' = orphan
        BY <1>3, <3>1
      <4> QED
        BY <3>2, <4>1, <4>2, <4>3
    <3> QED
      BY <1>3, <2>1, <3>1, <3>2, <3>3, <3>4, <3>5 DEF LateInv
  <2> QED
    BY <2>2, <2>3
<1> QED
  BY <1>3, <1>7 DEF LateIInv

-----------------------------------------------------------------------------
\* Nothing has been freed in the initial state.
LEMMA LateInitially == Init => LateIInv
<1> SUFFICES ASSUME Init PROVE LateIInv
  OBVIOUS
<1>1. /\ \A c \in Process : memory[c] = "none" /\ parent[c] = NULL
      /\ fault = NULL /\ waited = {} /\ orphan = {}
  BY DEF Init
<1> QED
  BY <1>1, ProcessAssumption DEF LateIInv, LateInv

\* Every step keeps it.
LEMMA LateStep == ProcessIInv /\ LateIInv /\ [Next]_vars => LateIInv'
<1> SUFFICES ASSUME ProcessIInv, LateIInv, [Next]_vars PROVE LateIInv'
  OBVIOUS
<1>1. CASE UNCHANGED vars
  BY <1>1 DEF vars, LateIInv, LateInv
<1>2. CASE Next
  <2>1. PICK p \in Process : KernelStep(p) \/ Request(p)
    BY <1>2 DEF Next
  <2>2. fault = NULL
    BY <1>2 DEF Next
  <2>3. CASE KernelStep(p)
    BY <2>2, <2>3, LookLate, ChildLate, FreeLate DEF KernelStep
  <2>4. CASE Request(p)
    BY <2>2, <2>4, LookLate, ExecuteLate DEF Request
  <2> QED
    BY <2>1, <2>3, <2>4
<1> QED
  BY <1>1, <1>2

\* Both hold in every state.
LEMMA ProcessSafe == Spec => [](ProcessIInv /\ LateIInv)
  BY ProcessInitially, ProcessStep, LateInitially, LateStep, PTL DEF Spec

\* What the parent does rests on the invariant.
LEMMA ProcessImplies == ProcessIInv /\ LateIInv => ResultsDelivered /\ StrayUses /\ NoLeak
<1> SUFFICES ASSUME ProcessIInv, LateIInv PROVE ResultsDelivered /\ StrayUses /\ NoLeak
  OBVIOUS
<1>1. TypeOK /\ LoadReported
  BY DEF ProcessIInv, HandInv, LoadReported
<1>2. StrayUses
  BY DEF ProcessIInv, HandInv, LateIInv, StrayUses, Busy
<1>3. NoLeak
  BY DEF ProcessIInv, CpInv, LateIInv, LateInv, NoLeak
<1>4. StatusDelivered
  <2> SUFFICES ASSUME NEW p \in Process, pc[p] = "wait read"
               PROVE  cp[target[p]].status = code[target[p]] /\ pc[target[p]] \in Gone
    BY DEF StatusDelivered, Gone
  <2>1. target[p] \in Process /\ memory[target[p]] = "live" /\ pc[target[p]] \in Gone
    BY DEF ProcessIInv, HandInv, Busy
  <2>2. Tells(cp[target[p]], pc[target[p]], code[target[p]])
    BY <2>1 DEF ProcessIInv, CpInv
  <2> QED
    BY <2>1, <2>2 DEF Tells, Gone, Ending
<1> QED
  BY <1>1, <1>2, <1>3, <1>4 DEF ResultsDelivered

\* exec() and wait() return what the child set, never before it has, whatever the
\* order in which parent and child get there.
THEOREM ResultsCorrect == Spec => []ResultsDelivered
<1> QED
  BY ProcessSafe, ProcessImplies, PTL

\* The parent has the struct of the child it works on until it frees it itself, and a
\* child uses a freed one in the last steps only that StrayUses lists: never one that
\* calls exit() with its parent dead.
THEOREM StraysKnown == Spec => []StrayUses
<1> QED
  BY ProcessSafe, ProcessImplies, PTL

\* A parent that is gone leaves no struct behind, nor does a wait that has returned or
\* an exec that has reported a failure.
THEOREM NoStructLeft == Spec => []NoLeak
<1> QED
  BY ProcessSafe, ProcessImplies, PTL
===============================================================================
