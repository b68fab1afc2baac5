-------------------------------- MODULE Synch --------------------------------
(***************************************************************************)
(* threads/synch.c on top of the scheduler: semaphores, locks, condition   *)
(* variables, and release_locks() in thread_exit().  Threads call these    *)
(* functions in any order that respects their preconditions.               *)
(*                                                                         *)
(* A step is what runs between two points at which an interrupt can fire.  *)
(* A thread that blocks in sema_down() finds interrupts off when it is     *)
(* switched to again and goes around its loop before any can (Masked).     *)
(* The semaphore inside a lock goes by the lock's name, the one cond_wait()*)
(* puts on its caller's stack by the caller's.                             *)
(***************************************************************************)
EXTENDS Sched

CONSTANTS Sema, Lock, Cond,
          CondLock,  \* the lock each condition variable is associated with
          NULL,
          MaxValue   \* bound: no up() of a semaphore whose value is this high

ASSUME SynchAssumption ==
  /\ CondLock \in [Cond -> Lock]
  /\ Sema \cap Lock = {} /\ Sema \cap AllThreads = {} /\ Lock \cap AllThreads = {}
  /\ NULL \notin Sema \cup Lock \cup Cond \cup AllThreads
  /\ MaxValue \in Nat

VARIABLES value,        \* sema->value
          waiters,      \* sema->waiters
          holder,       \* lock->holder
          lock_list,    \* t->lock_list
          cond_waiters, \* cond->waiters: the threads whose waiter.elem is on it
          pc,           \* what each thread is in the middle of
          arg,          \* the semaphore, lock, condition or new thread it is about
          in_wait       \* the condition whose cond_wait() the thread is in, or NULL

synchVars == <<value, waiters, holder, lock_list, cond_waiters, pc, arg, in_wait>>
vars == <<schedVars, synchVars>>

Semaphore == Sema \cup Lock \cup Thread

Init ==
  /\ SchedInit
  /\ value = [s \in Semaphore |-> IF s \in Lock THEN 1 ELSE 0]
  /\ waiters = [s \in Semaphore |-> <<>>]
  /\ holder = [l \in Lock |-> NULL]
  /\ lock_list = [t \in Thread |-> <<>>]
  /\ cond_waiters = [c \in Cond |-> <<>>]
  /\ pc = [t \in Thread |-> "run"]
  /\ arg = [t \in Thread |-> NULL]
  /\ in_wait = [t \in Thread |-> NULL]

-----------------------------------------------------------------------------
\* The running thread is at "label".
At(label) == current # Idle /\ pc[current] = label

Goto(label, what) ==
  /\ pc' = [pc EXCEPT ![current] = label]
  /\ arg' = [arg EXCEPT ![current] = what]

\* One pass of sema_down()'s loop: take a unit and go on to "label", or join the
\* wait list and block, to go around again when switched to.
sema_down(s, label) ==
  \/ /\ value[s] > 0
     /\ value' = [value EXCEPT ![s] = @ - 1]
     /\ Goto(label, IF label = "granted" THEN s ELSE NULL)
     /\ UNCHANGED <<schedVars, waiters>>
  \/ /\ value[s] = 0
     /\ waiters' = [waiters EXCEPT ![s] = Append(@, current)]
     /\ Goto("down", s)
     /\ thread_block
     /\ UNCHANGED <<value, sleep_list, left>>

\* Mutants of sema_up: nobody is woken; only an up() from 0 wakes; the woken
\* thread stays on the wait list.
sema_up_silent(s) ==
  /\ value' = [value EXCEPT ![s] = @ + 1]
  /\ UNCHANGED <<waiters, schedVars>>
sema_up_from_zero(s) ==
  /\ value' = [value EXCEPT ![s] = @ + 1]
  /\ \/ /\ waiters[s] # <<>> /\ value[s] = 0
        /\ waiters' = [waiters EXCEPT ![s] = Tail(@)]
        /\ thread_unblock(Head(waiters[s]))
        /\ UNCHANGED <<sleep_list, left>>
     \/ /\ waiters[s] = <<>> \/ value[s] > 0
        /\ UNCHANGED <<waiters, schedVars>>
sema_up_peek(s) ==
  /\ value' = [value EXCEPT ![s] = @ + 1]
  /\ UNCHANGED waiters
  /\ IF waiters[s] # <<>>
       THEN thread_unblock(Head(waiters[s])) /\ UNCHANGED <<sleep_list, left>>
       ELSE UNCHANGED schedVars

sema_up(s) ==
  /\ value' = [value EXCEPT ![s] = @ + 1]
  /\ \/ /\ waiters[s] # <<>>
        /\ waiters' = [waiters EXCEPT ![s] = Tail(@)]
        /\ thread_unblock(Head(waiters[s]))
        /\ UNCHANGED <<sleep_list, left>>
     \/ /\ waiters[s] = <<>>
        /\ UNCHANGED <<waiters, schedVars>>

\* Where a thread goes once sema_down (&s) has taken its unit: back to its
\* caller, on in lock_acquire(), or on in cond_wait().
AfterDown(s) ==
  CASE s \in Sema -> "run" [] s \in Lock -> "granted" [] s \in Thread -> "relock"

Masked == At("down")

-----------------------------------------------------------------------------
(* Semaphores. *)

SemaDown(s) ==
  /\ At("run")
  /\ sema_down(s, "run")
  /\ UNCHANGED <<holder, lock_list, cond_waiters, in_wait>>

\* Switched to inside sema_down(): around the loop again.
Recheck ==
  /\ At("down")
  /\ sema_down(arg[current], AfterDown(arg[current]))
  /\ UNCHANGED <<holder, lock_list, cond_waiters, in_wait>>

SemaUp(s) ==
  /\ At("run")
  /\ value[s] < MaxValue
  /\ sema_up(s)
  /\ UNCHANGED <<holder, lock_list, cond_waiters, pc, arg, in_wait>>

\* sema_up() from a device's interrupt handler, whoever is running.
InterruptSemaUp(s) ==
  /\ ~Masked
  /\ value[s] < MaxValue
  /\ sema_up(s)
  /\ UNCHANGED <<holder, lock_list, cond_waiters, pc, arg, in_wait>>

-----------------------------------------------------------------------------
(* Locks. *)

LockAcquire(l) ==
  /\ At("run")
  /\ holder[l] # current
  /\ sema_down(l, "granted")
  /\ UNCHANGED <<holder, lock_list, cond_waiters, in_wait>>

\* Mutant of LockTryAcquire: the semaphore's value is not tested.
LockTryAcquire_blind(l) ==
  /\ At("run")
  /\ holder[l] # current
  /\ Goto("granted", l)
  /\ UNCHANGED <<schedVars, value, waiters, holder, lock_list, cond_waiters, in_wait>>

\* lock_try_acquire() of a free lock; of any other it does nothing.
LockTryAcquire(l) ==
  /\ At("run")
  /\ holder[l] # current
  /\ value[l] > 0
  /\ value' = [value EXCEPT ![l] = @ - 1]
  /\ Goto("granted", l)
  /\ UNCHANGED <<schedVars, waiters, holder, lock_list, cond_waiters, in_wait>>

\* The rest of lock_acquire(), with interrupts on; if cond_wait() called it,
\* that returns too.
TakeHold ==
  /\ At("granted")
  /\ holder' = [holder EXCEPT ![arg[current]] = current]
  /\ lock_list' = [lock_list EXCEPT ![current] = Append(@, arg[current])]
  /\ in_wait' = [in_wait EXCEPT ![current] = NULL]
  /\ Goto("run", NULL)
  /\ UNCHANGED <<schedVars, value, waiters, cond_waiters>>

WithoutAt(queue, i) == SubSeq(queue, 1, i - 1) \o SubSeq(queue, i + 1, Len(queue))

\* lock_release() up to its sema_up().
DropHold(l) ==
  /\ holder[l] = current
  /\ holder' = [holder EXCEPT ![l] = NULL]
  /\ \E i \in 1..Len(lock_list[current]) :
       /\ lock_list[current][i] = l
       /\ lock_list' = [lock_list EXCEPT ![current] = WithoutAt(@, i)]
  /\ Goto("releasing", l)

LockRelease(l) ==
  /\ At("run")
  /\ DropHold(l)
  /\ UNCHANGED <<schedVars, value, waiters, cond_waiters, in_wait>>

\* The sema_up() of lock_release(); cond_wait() goes on, others return.
ReleaseUp ==
  /\ At("releasing")
  /\ sema_up(arg[current])
  /\ IF in_wait[current] = NULL THEN Goto("run", NULL) ELSE Goto("wait", NULL)
  /\ UNCHANGED <<holder, lock_list, cond_waiters, in_wait>>

\* The members of S from the least to the greatest.
Ascending(S) ==
  {f \in [1..Cardinality(S) -> S] :
     Range(f) = S /\ \A i, j \in DOMAIN f : i < j => f[i] < f[j]}

\* thread_exit() after process_exit(): lock_release() of every lock on
\* lock_list in one stretch with interrupts off, then death.
ThreadExit ==
  LET held   == lock_list[current]
      wanted == {i \in 1..Len(held) : waiters[held[i]] # <<>>}
  IN  /\ At("run")
      /\ holder' = [l \in Lock |-> IF l \in Range(held) THEN NULL ELSE holder[l]]
      /\ lock_list' = [lock_list EXCEPT ![current] = <<>>]
      /\ value' = [s \in Semaphore |-> IF s \in Range(held) THEN value[s] + 1 ELSE value[s]]
      /\ waiters' = [s \in Semaphore |-> IF \E i \in wanted : s = held[i] THEN Tail(waiters[s])
                                                                      ELSE waiters[s]]
      /\ \E order \in Ascending(wanted) :
           thread_exit([i \in 1..Cardinality(wanted) |-> Head(waiters[held[order[i]]])])
      /\ UNCHANGED <<cond_waiters, pc, arg, in_wait>>

-----------------------------------------------------------------------------
(* Condition variables. *)

\* cond_wait(): a fresh semaphore, its element on the list, and lock_release().
CondWait(c) ==
  /\ At("run")
  /\ value' = [value EXCEPT ![current] = 0]
  /\ waiters' = [waiters EXCEPT ![current] = <<>>]
  /\ cond_waiters' = [cond_waiters EXCEPT ![c] = Append(@, current)]
  /\ in_wait' = [in_wait EXCEPT ![current] = c]
  /\ DropHold(CondLock[c])
  /\ UNCHANGED schedVars

\* cond_wait(): sema_down (&waiter.semaphore).
WaitDown ==
  /\ At("wait")
  /\ sema_down(current, "relock")
  /\ UNCHANGED <<holder, lock_list, cond_waiters, in_wait>>

\* cond_wait(): lock_acquire (lock).
Relock ==
  /\ At("relock")
  /\ sema_down(CondLock[in_wait[current]], "granted")
  /\ UNCHANGED <<holder, lock_list, cond_waiters, in_wait>>

\* Mutants of signal: the waiter stays on the condition's list; the last to come
\* is woken first.
signal_last(c) ==
  LET n == Len(cond_waiters[c])
  IN  /\ n > 0
      /\ cond_waiters' = [cond_waiters EXCEPT ![c] = SubSeq(@, 1, n - 1)]
      /\ sema_up(cond_waiters[c][n])
signal_peek(c) ==
  /\ cond_waiters[c] # <<>>
  /\ UNCHANGED cond_waiters
  /\ sema_up(Head(cond_waiters[c]))

\* cond_signal(); nobody can see the list between list_pop_front() and
\* sema_up(), for its users hold the lock.
signal(c) ==
  /\ cond_waiters[c] # <<>>
  /\ cond_waiters' = [cond_waiters EXCEPT ![c] = Tail(@)]
  /\ sema_up(Head(cond_waiters[c]))

CondSignal(c) ==
  /\ At("run")
  /\ holder[CondLock[c]] = current
  /\ signal(c)
  /\ UNCHANGED <<holder, lock_list, pc, arg, in_wait>>

CondBroadcast(c) ==
  /\ At("run")
  /\ holder[CondLock[c]] = current
  /\ Goto("broadcast", c)
  /\ UNCHANGED <<schedVars, value, waiters, holder, lock_list, cond_waiters, in_wait>>

\* Once around cond_broadcast()'s loop, or out of it.
Broadcast ==
  /\ At("broadcast")
  /\ \/ /\ signal(arg[current])
        /\ UNCHANGED <<pc, arg>>
     \/ /\ cond_waiters[arg[current]] = <<>>
        /\ Goto("run", NULL)
        /\ UNCHANGED <<schedVars, value, waiters, cond_waiters>>
  /\ UNCHANGED <<holder, lock_list, in_wait>>

-----------------------------------------------------------------------------
(* thread.c and timer.c under the threads. *)

\* thread_create(), preemptible between init_thread() and thread_unblock().
Create(u) ==
  /\ At("run")
  /\ init_thread(u)
  /\ Goto("creating", u)
  /\ UNCHANGED <<value, waiters, holder, lock_list, cond_waiters, in_wait>>

Start ==
  /\ At("creating")
  /\ thread_unblock(arg[current])
  /\ Goto("run", NULL)
  /\ UNCHANGED <<sleep_list, left, value, waiters, holder, lock_list, cond_waiters, in_wait>>

YieldOrSleep ==
  /\ At("run")
  /\ Yield \/ \E n \in 1..MaxSleep : timer_sleep(n)
  /\ UNCHANGED synchVars

IdleStep == IdleLoop /\ UNCHANGED synchVars

Tick == ~Masked /\ timer_interrupt /\ UNCHANGED synchVars

\* The steps of a thread in the middle of a function; what a thread at "run"
\* does next is its own business.
Continue == Recheck \/ TakeHold \/ ReleaseUp \/ WaitDown \/ Relock \/ Broadcast \/ Start

Next ==
  \/ Continue
  \/ \E s \in Sema : SemaDown(s) \/ SemaUp(s) \/ InterruptSemaUp(s)
  \/ \E l \in Lock : LockAcquire(l) \/ LockTryAcquire(l) \/ LockRelease(l)
  \/ \E c \in Cond : CondWait(c) \/ CondSignal(c) \/ CondBroadcast(c)
  \/ \E u \in Thread : Create(u)
  \/ ThreadExit
  \/ YieldOrSleep
  \/ IdleStep
  \/ Tick

\* Interrupts go off for finite stretches only and the PIC latches the tick, so
\* the timer interrupt cannot be shut out for ever (SF, for Masked comes and
\* goes); and a thread that gets the processor again and again executes.
Fairness ==
  /\ SF_vars(Tick)
  /\ WF_vars(IdleStep)
  /\ \A t \in Thread : SF_vars(current = t /\ Continue)

Spec == Init /\ [][Next]_vars /\ Fairness

-----------------------------------------------------------------------------
(* Properties. *)

SynchTypeOK ==
  /\ SchedTypeOK
  /\ value \in [Semaphore -> Nat]
  /\ waiters \in [Semaphore -> Seq(Thread)]
  /\ holder \in [Lock -> Thread \cup {NULL}]
  /\ lock_list \in [Thread -> Seq(Lock)]
  /\ cond_waiters \in [Cond -> Seq(Thread)]
  /\ pc \in [Thread -> {"run", "down", "granted", "releasing", "wait", "relock",
                        "broadcast", "creating"}]
  /\ arg \in [Thread -> Semaphore \cup Cond \cup {NULL}]
  /\ in_wait \in [Thread -> Cond \cup {NULL}]

\* t has taken the unit of l's semaphore and not given it back: longer than
\* "holder" says, on both sides.
Owns(t, l) == holder[l] = t \/ (pc[t] \in {"granted", "releasing"} /\ arg[t] = l)

\* synch.c: "A lock can be held by at most a single thread at any given time".
\* lock_acquire() sets the holder after the semaphore is down, lock_release()
\* clears it before the semaphore is up, with interrupts on: counting both gaps,
\* a lock has one owner exactly when its semaphore is 0, and none when it is 1.
OneOwner ==
  \A l \in Lock :
    /\ value[l] \in {0, 1}
    /\ value[l] = 1 => \A t \in Thread : ~Owns(t, l)
    /\ value[l] = 0 => \E t \in Thread : Owns(t, l)
    /\ \A t, u \in Thread : Owns(t, l) /\ Owns(u, l) => t = u

\* release_locks() frees what the thread holds because its lock_list lists
\* exactly the locks whose holder it is, each once; the dead own none.
LockListInv ==
  \A t \in Thread :
    /\ IsInjective(lock_list[t])
    /\ \A l \in Lock : l \in Range(lock_list[t]) <=> holder[l] = t
    /\ status[t] \in {"unborn", "dying"} => \A l \in Lock : ~Owns(t, l)

\* A lock has one owner, who has it on its list until it lets go or dies.
LockInv == SynchTypeOK /\ OneOwner /\ LockListInv

\* The thread is inside the wait of sema_down (&s).
WaitsFor(t, s) == pc[t] = "down" /\ arg[t] = s

\* thread.h: "elem" is in at most one list.  A blocked thread is on the wait
\* list of the one semaphore it waits for, or on the sleep queue, or is being
\* created; no wait list holds any other thread, or one twice.  So
\* thread_unblock()'s ASSERT (t->status == THREAD_BLOCKED) cannot fail.
ElemInv ==
  /\ \A s \in Semaphore :
       /\ IsInjective(waiters[s])
       /\ \A t \in Range(waiters[s]) : status[t] = "blocked" /\ WaitsFor(t, s)
  /\ \A t \in Thread : status[t] = "blocked" =>
       \/ pc[t] = "down" /\ t \in Range(waiters[arg[t]]) /\ t \notin Range(sleep_list)
       \/ pc[t] = "run" /\ t \in Range(sleep_list)
       \/ \E u \in Thread : pc[u] = "creating" /\ arg[u] = t

\* No wake-up is lost: while a semaphore has units and threads on its wait
\* list, at least that many threads are already woken and on their way to take
\* them (sema_up() wakes one thread per unit; barging takes units, not wake-ups).
NoLostWakeup ==
  \A s \in Semaphore :
    waiters[s] # <<>> =>
      Cardinality({t \in Thread : WaitsFor(t, s) /\ status[t] # "blocked"}) >= value[s]

\* No signal is lost or counted twice: a thread in cond_wait() that gave up the
\* lock is still on the condition's list, or its semaphore was upped exactly
\* once; nobody else's semaphore is up.  It is on that list once and on no other,
\* and cannot die with its stack's semaphore on it.
SignalInv ==
  /\ \A t \in Thread :
       IF pc[t] = "wait" \/ WaitsFor(t, t)
         THEN value[t] = IF t \in Range(cond_waiters[in_wait[t]]) THEN 0 ELSE 1
         ELSE value[t] = 0
  /\ \A c \in Cond :
       /\ IsInjective(cond_waiters[c])
       /\ \A t \in Range(cond_waiters[c]) :
            in_wait[t] = c /\ holder[CondLock[c]] # t /\ status[t] # "dying"

\* Synch implements Monitor: the owner of a lock is who Owns it; cond_wait() takes
\* effect at the sema_up() of its lock_release(), so that the last on a condition's
\* list may not be waiting yet; and a signalled thread is awake until it has the
\* lock's semaphore.
Owners(l) == {t \in Thread : Owns(t, l)}

OneOf(S) == IF S = {} THEN NULL ELSE CHOOSE t \in S : TRUE

WaitingOn(c) ==
  LET queue == cond_waiters[c]
      n     == Len(queue)
  IN  IF n > 0 /\ pc[queue[n]] = "releasing" THEN SubSeq(queue, 1, n - 1) ELSE queue

AwakeFrom(c) ==
  {t \in Thread : in_wait[t] = c /\ t \notin Range(cond_waiters[c]) /\ pc[t] # "granted"}

M == INSTANCE Monitor WITH owner   <- [l \in Lock |-> OneOf(Owners(l))],
                           waiting <- [c \in Cond |-> WaitingOn(c)],
                           awake   <- [c \in Cond |-> AwakeFrom(c)]

\* The promise of synch.h as a whole: see Monitor.tla.
ImplementsMonitor == M!MonitorSpec

\* The synchronization primitives use the scheduler as thread.c means them to:
\* every step is a step of Sched.tla, and the timer never stops.
ImplementsSched == SchedSpec

\* A free lock with threads on its wait list does not stay free: one of them, or
\* a thread that barges in, takes it.
FreeLockTaken == \A l \in Lock : (value[l] = 1 /\ waiters[l] # <<>>) ~> value[l] = 0

\* A thread whose cond_wait() was signalled gets as far as asking for the lock
\* back (it may then lose it to others for ever).
SignalReturns == \A t \in Thread : value[t] = 1 ~> pc[t] = "relock"

\* Waiters are not left behind, neither those of a lock nor those of a condition.
WaitersProceed == FreeLockTaken /\ SignalReturns
=============================================================================
