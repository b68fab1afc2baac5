------------------------------- MODULE AllList -------------------------------
(***************************************************************************)
(* all_list of threads/thread.c with its links (lib/kernel/list.c).        *)
(*                                                                         *)
(* thread_exit() takes a thread off with interrupts off, but               *)
(* thread_create() puts one on, and thread_alive() walks the list, with    *)
(* interrupts on: another thread may run between any two statements.       *)
(* A page is a struct thread; a dead thread's page is freed before any     *)
(* other thread runs, and may be given to a new one.                       *)
(*                                                                         *)
(* Where two insertions meet, or one and the exit of the thread it comes   *)
(* after, the links are wrong from there on: "broken", and the model stops.*)
(***************************************************************************)
EXTENDS Naturals, SequencesExt

CONSTANTS Page,
          Initial,     \* initial_thread's
          MaxTid,      \* bound: tids handed out
          HEAD, TAIL   \* of the list

ASSUME AllListAssumption ==
  /\ Initial \in Page /\ MaxTid \in Nat \ {0}
  /\ HEAD # TAIL /\ {HEAD, TAIL} \cap Page = {}

VARIABLES prev, next,  \* of allelem in each page, and of the head and the tail
          tid,         \* 0 before allocate_tid()
          parent,
          op,          \* what each thread is at: "none" in a free page
          new,         \* the page that thread_create() initialises
          cursor,      \* e in thread_alive()
          next_tid,
          threads,     \* history: the threads on the list, in order
          sought,      \* history: the parent that thread_alive() began to look for
          broken

all_list == <<prev, next, tid, parent, op, new, cursor, next_tid, threads, sought, broken>>
links == <<prev, next, threads, broken>>
walks == <<cursor, sought>>

Element == Page \cup {HEAD, TAIL}

AllListInit ==
  /\ prev = [e \in Element |-> IF e = TAIL THEN Initial ELSE HEAD]
  /\ next = [e \in Element |-> IF e = HEAD THEN Initial ELSE TAIL]
  /\ tid = [p \in Page |-> IF p = Initial THEN 1 ELSE 0]
  /\ parent = [p \in Page |-> 0]
  /\ op = [p \in Page |-> IF p = Initial THEN "run" ELSE "none"]
  /\ new = [p \in Page |-> p]
  /\ cursor = [p \in Page |-> HEAD]
  /\ next_tid = 2
  /\ threads = <<Initial>>
  /\ sought = [p \in Page |-> {}]
  /\ broken = FALSE

At(t, what) == op' = [op EXCEPT ![t] = what]

\* Threads that are between the first and the last statement of list_insert().
Inserting == {t \in Page : op[t] \in {"set next", "link prev", "link back"}}

\* thread_create() gets a page.
thread_create(t, p) ==
  /\ op[t] = "run" /\ op[p] = "none"
  /\ op' = [op EXCEPT ![t] = "set prev", ![p] = "born"]
  /\ new' = [new EXCEPT ![t] = p]
  /\ UNCHANGED <<links, walks, tid, parent, next_tid>>

\* The four statements of list_insert (list_end (&all_list), &t->allelem).
SetPrev(t) ==
  /\ op[t] = "set prev" /\ At(t, "set next")
  /\ prev' = [prev EXCEPT ![new[t]] = prev[TAIL]]
  /\ broken' = (Inserting # {})
  /\ UNCHANGED <<next, tid, parent, new, next_tid, threads, walks>>
SetNext(t) ==
  /\ op[t] = "set next" /\ At(t, "link prev")
  /\ next' = [next EXCEPT ![new[t]] = TAIL]
  /\ UNCHANGED <<prev, tid, parent, new, next_tid, threads, broken, walks>>
LinkPrev(t) ==
  /\ op[t] = "link prev" /\ At(t, "link back")
  /\ next' = [next EXCEPT ![prev[TAIL]] = new[t]]
  /\ threads' = Append(threads, new[t])
  /\ UNCHANGED <<prev, tid, parent, new, next_tid, broken, walks>>
LinkBack(t) ==
  /\ op[t] = "link back" /\ At(t, "linked")
  /\ prev' = [prev EXCEPT ![TAIL] = new[t]]
  /\ UNCHANGED <<next, tid, parent, new, next_tid, threads, broken, walks>>

\* The rest of thread_create(), from allocate_tid() to thread_unblock().
Start(t) ==
  /\ op[t] = "linked" /\ next_tid =< MaxTid
  /\ op' = [op EXCEPT ![t] = "run", ![new[t]] = "run"]
  /\ tid' = [tid EXCEPT ![new[t]] = next_tid]
  /\ parent' = [parent EXCEPT ![new[t]] = tid[t]]
  /\ next_tid' = next_tid + 1
  /\ new' = [new EXCEPT ![t] = t]
  /\ UNCHANGED <<links, walks>>

\* Mutant of list_remove: the element behind keeps its prev.
list_remove_half(e) ==
  /\ next' = [next EXCEPT ![prev[e]] = next[e], ![e] = TAIL]
  /\ prev' = [prev EXCEPT ![e] = HEAD]

\* What is left in e's page says nothing: here, the head and the tail.
list_remove(e) ==
  /\ next' = [next EXCEPT ![prev[e]] = next[e], ![e] = TAIL]
  /\ prev' = [prev EXCEPT ![next[e]] = prev[e], ![e] = HEAD]

\* thread_exit() from list_remove() to palloc_free_page() in the next thread's
\* thread_schedule_tail().  Who stands on the thread in thread_alive() goes on
\* from what is left there, or comes there next: "astray", and not followed.
thread_exit(t) ==
  /\ op[t] = "run"
  /\ list_remove(t)
  /\ op' = [u \in Page |-> IF u = t THEN "none"
                           ELSE IF op[u] = "walk" /\ cursor[u] = t THEN "astray" ELSE op[u]]
  /\ \E k \in 1..Len(threads) : threads[k] = t /\ threads' = RemoveAt(threads, k)
  /\ broken' = \E u \in Page : op[u] \in {"set next", "link prev"} /\ prev[new[u]] = t
  /\ sought' = [u \in Page |-> sought[u] \ {t}]
  /\ cursor' = [u \in Page |-> IF cursor[u] = t THEN HEAD ELSE cursor[u]]
  /\ tid' = [tid EXCEPT ![t] = 0] /\ parent' = [parent EXCEPT ![t] = 0]
  /\ new' = [new EXCEPT ![t] = t]
  /\ UNCHANGED next_tid

\* Mutant of thread_alive: list_next() before the first test.
thread_alive_second(t) ==
  /\ op[t] = "run" /\ parent[t] # 0
  /\ At(t, "walk")
  /\ cursor' = [cursor EXCEPT ![t] = next[next[HEAD]]]
  /\ sought' = [sought EXCEPT ![t] = {p \in Page : op[p] # "none" /\ tid[p] = parent[t]}]
  /\ UNCHANGED <<links, tid, parent, new, next_tid>>

\* thread_alive() of the parent, in exit() and process_exit(): list_begin().
thread_alive(t) ==
  /\ op[t] = "run" /\ parent[t] # 0
  /\ At(t, "walk")
  /\ cursor' = [cursor EXCEPT ![t] = next[HEAD]]
  /\ sought' = [sought EXCEPT ![t] = {p \in Page : op[p] # "none" /\ tid[p] = parent[t]}]
  /\ UNCHANGED <<links, tid, parent, new, next_tid>>

\* Another element ...
WalkOn(t) ==
  /\ op[t] = "walk" /\ cursor[t] # TAIL /\ tid[cursor[t]] # parent[t]
  /\ cursor' = [cursor EXCEPT ![t] = next[@]]
  /\ UNCHANGED <<links, tid, parent, op, new, next_tid, sought>>

\* ... or the answer: true at the thread, false at the end.
Answer(t, found) ==
  /\ op[t] = "walk"
  /\ IF found THEN cursor[t] # TAIL /\ tid[cursor[t]] = parent[t] ELSE cursor[t] = TAIL
  /\ At(t, "run")
  /\ cursor' = [cursor EXCEPT ![t] = HEAD]
  /\ sought' = [sought EXCEPT ![t] = {}]
  /\ UNCHANGED <<links, tid, parent, new, next_tid>>

ThreadStep(t) ==
  \/ \E p \in Page : thread_create(t, p)
  \/ SetPrev(t) \/ SetNext(t) \/ LinkPrev(t) \/ LinkBack(t) \/ Start(t)
  \/ thread_exit(t) \/ thread_alive(t) \/ WalkOn(t) \/ \E found \in BOOLEAN : Answer(t, found)

AllListNext == ~broken /\ \E t \in Page : ThreadStep(t)

AllListSpec == AllListInit /\ [][AllListNext]_all_list

-----------------------------------------------------------------------------
(* Properties. *)

\* The links lead through exactly the threads there are, forwards at every
\* moment (thread_foreach() and thread_alive() may start at any), and backwards but
\* for the tail's while an insertion has its last statement to do: one may be
\* interrupted anywhere by exits of other threads, and by walks, and only another
\* insertion or the exit of the thread before does harm.
LinksWhole ==
  LET n == Len(threads)
      node(i) == IF i = 0 THEN HEAD ELSE threads[i]
  IN  ~broken =>
        /\ \A i \in 1..n : next[node(i - 1)] = threads[i]
        /\ next[node(n)] = TAIL
        /\ prev[TAIL] = node(n) \/ \E t \in Page : op[t] = "link back"
        /\ \A i \in 1..n : prev[threads[i]] = node(i - 1)

\* thread_alive() misses no parent that lives all the while: if the end of the
\* list is reached from links that were not broken, the parent has died.
LiveParentFound ==
  [][\A t \in Page : op[t] = "walk" /\ Answer(t, FALSE) => sought[t] = {}]_all_list

\* thread.c:347: "Invoke function 'func' on all threads": all_list lists every
\* thread, and nobody gets lost on it.
ListIntact == ~broken
NobodyAstray == \A t \in Page : op[t] # "astray"
===============================================================================
