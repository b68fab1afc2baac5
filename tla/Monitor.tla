------------------------------- MODULE Monitor -------------------------------
(***************************************************************************)
(* What threads/synch.c promises of locks and condition variables, with    *)
(* semaphores, wait lists and the scheduler abstracted away: a lock has at *)
(* most one owner; cond_wait() "atomically releases LOCK and waits for     *)
(* COND to be signaled", in first-come order; a signalled thread owns the  *)
(* lock again before it returns (Mesa style: others may own it first).     *)
(* Synch.tla is checked to implement MonitorSpec.                          *)
(***************************************************************************)
EXTENDS Naturals, Sequences

CONSTANTS Thread, Lock, Cond,
          CondLock,  \* the lock each condition variable is associated with
          NULL       \* no thread

VARIABLES owner,   \* the thread that owns each lock, or NULL
          waiting, \* the threads in cond_wait() not signalled yet, in order
          awake    \* the threads signalled in cond_wait() that do not own the lock yet

monitorVars == <<owner, waiting, awake>>

MonitorInit ==
  /\ owner = [l \in Lock |-> NULL]
  /\ waiting = [c \in Cond |-> <<>>]
  /\ awake = [c \in Cond |-> {}]

\* t is in no cond_wait().
Outside(t) ==
  \A c \in Cond : t \notin awake[c] /\ \A i \in DOMAIN waiting[c] : waiting[c][i] # t

Acquire(t, l) ==
  /\ Outside(t)
  /\ owner[l] = NULL
  /\ owner' = [owner EXCEPT ![l] = t]
  /\ UNCHANGED <<waiting, awake>>

\* lock_release() gives up one lock, thread_exit() all the thread has.
Release(t, locks) ==
  /\ Outside(t)
  /\ \A l \in locks : owner[l] = t
  /\ owner' = [l \in Lock |-> IF l \in locks THEN NULL ELSE owner[l]]
  /\ UNCHANGED <<waiting, awake>>

Wait(t, c) ==
  /\ Outside(t)
  /\ owner[CondLock[c]] = t
  /\ owner' = [owner EXCEPT ![CondLock[c]] = NULL]
  /\ waiting' = [waiting EXCEPT ![c] = Append(@, t)]
  /\ UNCHANGED awake

Signal(t, c) ==
  /\ Outside(t)
  /\ owner[CondLock[c]] = t
  /\ waiting[c] # <<>>
  /\ waiting' = [waiting EXCEPT ![c] = Tail(@)]
  /\ awake' = [awake EXCEPT ![c] = @ \cup {Head(waiting[c])}]
  /\ UNCHANGED owner

Reacquire(t, c) ==
  /\ t \in awake[c]
  /\ owner[CondLock[c]] = NULL
  /\ owner' = [owner EXCEPT ![CondLock[c]] = t]
  /\ awake' = [awake EXCEPT ![c] = @ \ {t}]
  /\ UNCHANGED waiting

MonitorNext ==
  \E t \in Thread :
    \/ \E l \in Lock : Acquire(t, l)
    \/ \E locks \in (SUBSET Lock) \ {{}} : Release(t, locks)
    \/ \E c \in Cond : Wait(t, c) \/ Signal(t, c) \/ Reacquire(t, c)

MonitorSpec == MonitorInit /\ [][MonitorNext]_monitorVars
=============================================================================
