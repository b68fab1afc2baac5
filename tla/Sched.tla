-------------------------------- MODULE Sched --------------------------------
(***************************************************************************)
(* The Pintos scheduler of threads/thread.c and the sleep queue of         *)
(* devices/timer.c: one processor, a FIFO run queue, a sleep queue ordered *)
(* by wake-up time, and a timer interrupt that preempts at the end of a    *)
(* time slice.                                                             *)
(*                                                                         *)
(* Every action is a stretch of code that runs with interrupts off.  Who   *)
(* blocks and unblocks whom, and why, is left open: Synch.tla fills it in  *)
(* and is checked to implement SchedSpec.  The machine starts as           *)
(* thread_start() leaves it: main running, the idle thread blocked.        *)
(***************************************************************************)
EXTENDS Integers, Sequences, FiniteSets, Functions

CONSTANTS Thread,      \* every thread but the idle thread; a name is never reused
          Main,        \* initial_thread
          Idle,        \* idle_thread
          TIME_SLICE,  \* ticks a thread runs before it is preempted
          MaxSleep     \* bound: the longest sleep requested

ASSUME SchedAssumption ==
  /\ IsFiniteSet(Thread)
  /\ Main \in Thread
  /\ Idle \notin Thread
  /\ TIME_SLICE \in Nat \ {0}
  /\ MaxSleep \in Nat

VARIABLES status,       \* t->status; "unborn" before thread_create(), "dying" is final
          current,      \* the thread on the processor
          ready_list,   \* processes in THREAD_READY state, in the order they will run
          sleep_list,   \* threads in timer_sleep(), in the order they will wake
          left,         \* t->ticks - ticks: timer ticks until a sleeper is due
          thread_ticks  \* timer ticks since the last thread switch

schedVars == <<status, current, ready_list, sleep_list, left, thread_ticks>>

AllThreads == Thread \cup {Idle}
Status == {"unborn", "running", "ready", "blocked", "dying"}

SchedInit ==
  /\ status = [t \in AllThreads |-> CASE t = Main -> "running"
                                      [] t = Idle -> "blocked"
                                      [] OTHER    -> "unborn"]
  /\ current = Main
  /\ ready_list = <<>>
  /\ sleep_list = <<>>
  /\ left = [t \in Thread |-> 0]
  /\ thread_ticks = 0

-----------------------------------------------------------------------------
(* The thread.c functions the actions are built from. *)

next_thread_to_run(queue) == IF queue = <<>> THEN Idle ELSE Head(queue)

\* schedule() and thread_schedule_tail(): switch to the head of the run queue,
\* here "queue", from the statuses "st" its caller has set.
schedule(queue, st) ==
  LET next == next_thread_to_run(queue)
  IN  /\ ready_list' = IF queue = <<>> THEN queue ELSE Tail(queue)
      /\ current' = next
      /\ status' = [st EXCEPT ![next] = "running"]
      /\ thread_ticks' = 0

\* Mutant of thread_block: the status is not set.
thread_block_running == schedule(ready_list, status)

thread_block == schedule(ready_list, [status EXCEPT ![current] = "blocked"])

thread_unblock(t) ==
  /\ ready_list' = Append(ready_list, t)
  /\ status' = [status EXCEPT ![t] = "ready"]
  /\ UNCHANGED <<current, thread_ticks>>

\* Mutant of thread_yield: list_push_front().
thread_yield_front(queue, st) ==
  schedule(IF current = Idle THEN queue ELSE <<current>> \o queue,
           [st EXCEPT ![current] = "ready"])

\* thread_yield(), called with run queue "queue" and statuses "st".
thread_yield(queue, st) ==
  schedule(IF current = Idle THEN queue ELSE Append(queue, current),
           [st EXCEPT ![current] = "ready"])

\* How many sleepers at the front of sleep_list are due within n ticks.
DueWithin(n) ==
  CHOOSE k \in 0..Len(sleep_list) :
    /\ \A i \in 1..k : left[sleep_list[i]] =< n
    /\ k < Len(sleep_list) => n < left[sleep_list[k + 1]]

\* Mutant of list_insert_ordered: list_push_back().
list_insert_last(t, n) == Append(sleep_list, t)

\* list_insert_ordered (&sleep_list, t, cmp_ticks) for a thread due in n ticks:
\* in front of the first sleeper that is due later.
list_insert_ordered(t, n) ==
  SubSeq(sleep_list, 1, DueWithin(n)) \o <<t>>
    \o SubSeq(sleep_list, DueWithin(n) + 1, Len(sleep_list))

\* Mutant of DueCount: a sleeper whose tick this is stays ("ticks <= t->ticks").
DueCountLate == DueWithin(0)

\* How many sleepers timer_interrupt() takes off sleep_list: it stops at the
\* first that is not due after this tick.
DueCount == DueWithin(1)

-----------------------------------------------------------------------------
(* Steps of the running thread. *)

\* thread_create() up to init_thread(): u exists and is blocked, but is on no
\* queue until its creator unblocks it.
init_thread(u) ==
  /\ current # Idle
  /\ status[u] = "unborn"
  /\ status' = [status EXCEPT ![u] = "blocked"]
  /\ UNCHANGED <<current, ready_list, sleep_list, left, thread_ticks>>

\* A blocked thread that timer_interrupt() will not wake.
Wakeable(t) == status[t] = "blocked" /\ t \notin Range(sleep_list)

Block ==
  /\ current # Idle
  /\ thread_block
  /\ UNCHANGED <<sleep_list, left>>

\* The running thread, or an interrupt handler on top of it, wakes t.
Unblock(t) ==
  /\ Wakeable(t)
  /\ thread_unblock(t)
  /\ UNCHANGED <<sleep_list, left>>

Yield ==
  /\ current # Idle
  /\ thread_yield(ready_list, status)
  /\ UNCHANGED <<sleep_list, left>>

\* The orders in which release_locks() may wake threads that waited for locks
\* of the exiting thread.
WakeOrders ==
  {w \in UNION {[1..n -> Thread] : n \in 0..Cardinality(Thread)} :
     IsInjective(w) /\ \A t \in Range(w) : Wakeable(t)}

\* thread_exit() after process_exit(): release_locks() wakes the threads of
\* "woken", the thread dies, and its successor frees its page.
thread_exit(woken) ==
  /\ current # Idle
  /\ schedule(ready_list \o woken,
              [t \in AllThreads |-> CASE t = current      -> "dying"
                                      [] t \in Range(woken) -> "ready"
                                      [] OTHER            -> status[t]])
  /\ UNCHANGED <<sleep_list, left>>

timer_sleep(n) ==
  /\ current # Idle
  /\ n > 0
  /\ left' = [left EXCEPT ![current] = n]
  /\ sleep_list' = list_insert_ordered(current, n)
  /\ thread_block

\* The idle thread, out of hlt after an interrupt that gave it something to do
\* (otherwise its loop changes nothing), blocks again.
IdleLoop ==
  /\ current = Idle
  /\ ready_list # <<>> \/ thread_ticks > 0
  /\ thread_block
  /\ UNCHANGED <<sleep_list, left>>

-----------------------------------------------------------------------------
(* timer_interrupt() with thread_tick(), and intr_handler()'s thread_yield()  *)
(* on return when the time slice is over.                                    *)
timer_interrupt ==
  LET woken == SubSeq(sleep_list, 1, DueCount)
      queue == ready_list \o woken
      st    == [t \in AllThreads |-> IF t \in Range(woken) THEN "ready" ELSE status[t]]
  IN  /\ sleep_list' = SubSeq(sleep_list, DueCount + 1, Len(sleep_list))
      /\ left' = [t \in Thread |->
                    IF t \in Range(sleep_list) /\ t \notin Range(woken)
                      THEN left[t] - 1 ELSE 0]
      /\ \/ /\ thread_ticks + 1 < TIME_SLICE
            /\ ready_list' = queue
            /\ status' = st
            /\ thread_ticks' = thread_ticks + 1
            /\ UNCHANGED current
         \/ /\ thread_ticks + 1 >= TIME_SLICE
            /\ thread_yield(queue, st)

SchedNext ==
  \/ \E u \in Thread : init_thread(u) \/ Unblock(u)
  \/ Block
  \/ Yield
  \/ \E w \in WakeOrders : thread_exit(w)
  \/ \E n \in 1..MaxSleep : timer_sleep(n)
  \/ IdleLoop
  \/ timer_interrupt

\* The only thing the processor owes its threads: the timer keeps ticking.
SchedSpec == SchedInit /\ [][SchedNext]_schedVars /\ WF_schedVars(timer_interrupt)

-----------------------------------------------------------------------------
(* Properties. *)

SchedTypeOK ==
  /\ status \in [AllThreads -> Status]
  /\ current \in AllThreads
  /\ ready_list \in Seq(Thread)
  /\ sleep_list \in Seq(Thread)
  /\ left \in [Thread -> Nat]
  /\ thread_ticks \in 0..(TIME_SLICE - 1)

\* thread.h: "elem has a dual purpose ... only because they are mutually
\* exclusive: only a thread in the ready state is on the run queue, whereas only
\* a thread in the blocked state is on a semaphore wait list".  A thread is on
\* the run queue exactly when it is ready, at most once; the sleep queue holds
\* blocked threads, each once; and exactly the running thread is "running".
QueueInv ==
  /\ \A t \in Thread : status[t] = "ready" <=> t \in Range(ready_list)
  /\ IsInjective(ready_list)
  /\ \A t \in Range(sleep_list) : status[t] = "blocked"
  /\ IsInjective(sleep_list)
  /\ \A t \in AllThreads : status[t] = "running" <=> t = current

\* timer_interrupt() looks at the front of sleep_list only and stops at the
\* first sleeper that is not due, so no sleeper may hide behind a later one:
\* the queue is ordered by wake-up time and nobody on it is due already.
SleepInv ==
  /\ \A i, j \in 1..Len(sleep_list) :
        i < j => left[sleep_list[i]] =< left[sleep_list[j]]
  /\ \A t \in Range(sleep_list) : left[t] > 0

\* timer_sleep() sleeps neither less nor more than asked: the ticks of all the
\* sleepers pass together, a sleeper leaves the queue at its last tick only, and
\* then it is on the run queue (or runs at once).
WakesOnTime ==
  [][LET elapsed == {left[t] - left'[t] : t \in Range(sleep_list)}
     IN  /\ elapsed \in SUBSET {0} \/ elapsed = {1}
         /\ \A t \in Range(sleep_list) :
              \/ left'[t] = 0 /\ status'[t] \in {"ready", "running"}
              \/ left'[t] > 0 /\ t \in Range(sleep_list')]_schedVars

\* Preemption by the timer is enough for every ready thread to run, whatever
\* the threads in front of it do.
ReadyRuns == \A t \in Thread : status[t] = "ready" ~> current = t
=============================================================================
