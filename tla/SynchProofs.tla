----------------------------- MODULE SynchProofs ------------------------------
(*****************************************************************************)
(* Threads, locks, semaphores and conditions, for any number of each,        *)
(* whenever the timer interrupts.  The scheduler's queues are sound for      *)
(* any time slice and any bound on sleeps: SchedTypeOK, QueueInv and         *)
(* SleepInv, which are inductive together.  Locks exclude each other's       *)
(* owners and every wake-up wakes a thread that is blocked: LockInv and      *)
(* ElemInv.  With them every step of the primitives is one that the          *)
(* scheduler allows; no wake-up is lost: NoLostWakeup; a condition's         *)
(* waiters are signalled first come, first served: SignalInv; and the        *)
(* whole implements a monitor: Monitor.                                      *)
(*****************************************************************************)
EXTENDS Synch, QueueLemmas, WellFoundedInduction, FiniteSetTheorems, TLAPS

\* A non-empty set of naturals has a least element.
LEMMA LeastNat ==
  ASSUME NEW T, T \subseteq Nat, T # {}
  PROVE  \E m \in T : \A k \in T : m =< k
<1> DEFINE R == OpToRel(<, Nat)
<1>1. IsWellFoundedOn(R, Nat)
  BY NatLessThanWellFounded, Zenon
<1>2. \A k, m \in Nat : k < m => <<k, m>> \in R
  BY DEF OpToRel
<1> HIDE DEF R
<1>3. PICK m \in T : \A k \in T : ~(<<k, m>> \in R)
  BY <1>1, WFMin, Zenon
<1>4. \A k \in T : ~(k < m)
  BY <1>2, <1>3
<1>5. QED
  BY <1>4

\* DueWithin(n) splits sleep_list before the first sleeper due later than n.
LEMMA DueWithinSplits ==
  ASSUME sleep_list \in Seq(Thread), left \in [Thread -> Nat], NEW n \in Nat
  PROVE  /\ DueWithin(n) \in 0..Len(sleep_list)
         /\ \A i \in 1..DueWithin(n) : left[sleep_list[i]] =< n
         /\ DueWithin(n) < Len(sleep_list) => n < left[sleep_list[DueWithin(n) + 1]]
<1> DEFINE later == {k \in 0..Len(sleep_list) :
                       k < Len(sleep_list) => n < left[sleep_list[k + 1]]}
<1>1. Len(sleep_list) \in Nat /\ \A i \in 1..Len(sleep_list) : left[sleep_list[i]] \in Nat
  OBVIOUS
<1>2. later \subseteq Nat /\ Len(sleep_list) \in later
  BY <1>1
<1>3. PICK k \in later : \A j \in later : k =< j
  BY <1>2, LeastNat
<1>4. \A i \in 1..k : left[sleep_list[i]] =< n
  <2>1. SUFFICES ASSUME NEW i \in 1..k, ~(left[sleep_list[i]] =< n) PROVE FALSE
    OBVIOUS
  <2>2. i \in 1..Len(sleep_list) /\ i - 1 \in 0..Len(sleep_list) /\ i - 1 < k
    BY <1>1, <1>3
  <2>3. i - 1 \in later
    BY <1>1, <2>1, <2>2
  <2>4. k =< i - 1
    BY <1>3, <2>3
  <2>5. QED
    BY <1>2, <2>2, <2>4
<1>5. QED
  BY <1>1, <1>3, <1>4 DEF DueWithin

\* schedule() leaves exactly one thread running and takes it off the run queue.
LEMMA ScheduleKeepsQueues ==
  ASSUME SchedAssumption,
         NEW queue \in Seq(Thread), NEW st \in [AllThreads -> Status],
         IsInjective(queue),
         \A t \in Thread : st[t] = "ready" <=> t \in Range(queue),
         \A t \in AllThreads : st[t] # "running",
         schedule(queue, st)
  PROVE  /\ status' \in [AllThreads -> Status]
         /\ current' \in AllThreads
         /\ ready_list' \in Seq(Thread)
         /\ thread_ticks' \in 0..(TIME_SLICE - 1)
         /\ IsInjective(ready_list')
         /\ \A t \in Thread : status'[t] = "ready" <=> t \in Range(ready_list')
         /\ \A t \in AllThreads : status'[t] = "running" <=> t = current'
         /\ \A t \in Thread : st[t] = "blocked" => status'[t] = "blocked"
<1>1. thread_ticks' \in 0..(TIME_SLICE - 1)
  BY DEF schedule, SchedAssumption
<1>2. CASE queue = <<>>
  <2>1. /\ ready_list' = <<>> /\ current' = Idle
        /\ status' = [st EXCEPT ![Idle] = "running"]
    BY <1>2 DEF schedule, next_thread_to_run
  <2>2. Range(queue) = {}
    BY <1>2 DEF Range
  <2>3. QED
    BY <1>1, <1>2, <2>1, <2>2 DEF AllThreads, Status, SchedAssumption
<1>3. CASE queue # <<>>
  <2>1. /\ ready_list' = Tail(queue) /\ current' = Head(queue)
        /\ status' = [st EXCEPT ![Head(queue)] = "running"]
    BY <1>3 DEF schedule, next_thread_to_run
  <2>2. /\ Head(queue) \in Thread
        /\ Head(queue) \in Range(queue)
        /\ Tail(queue) \in Seq(Thread)
        /\ Range(queue) = Range(Tail(queue)) \cup {Head(queue)}
        /\ IsInjective(Tail(queue)) /\ Head(queue) \notin Range(Tail(queue))
    BY <1>3, PopFront
  <2>3. QED
    BY <1>1, <2>1, <2>2 DEF AllThreads, Status
<1>4. QED
  BY <1>2, <1>3

SchedIInv == SchedTypeOK /\ QueueInv /\ SleepInv

\* Steps that leave the sleepers alone keep them asleep.
LEMMA SleepersUndisturbed ==
  ASSUME SchedIInv,
         UNCHANGED <<sleep_list, left>>,
         \A t \in Thread : status[t] = "blocked" /\ t \in Range(sleep_list)
                             => status'[t] = "blocked"
  PROVE  /\ sleep_list' \in Seq(Thread) /\ left' \in [Thread -> Nat]
         /\ \A t \in Range(sleep_list') : status'[t] = "blocked"
         /\ IsInjective(sleep_list)'
         /\ SleepInv'
<1>1. Range(sleep_list) \subseteq Thread
  BY RangeOfSeq DEF SchedIInv, SchedTypeOK
<1>2. QED
  BY <1>1 DEF SchedIInv, SchedTypeOK, QueueInv, SleepInv

\* The invariant holds in the initial states.
LEMMA InitSchedIInv ==
  ASSUME SchedAssumption, SchedInit PROVE SchedIInv
<1>1. SchedTypeOK
  BY DEF SchedInit, SchedTypeOK, SchedAssumption, AllThreads, Status
<1>2. QueueInv
  BY DEF SchedInit, QueueInv, SchedAssumption, AllThreads, Range, IsInjective
<1>3. SleepInv
  BY DEF SchedInit, SleepInv, Range
<1>4. QED
  BY <1>1, <1>2, <1>3 DEF SchedIInv

\* What every step starts from: the running thread is on neither queue.
LEMMA RunningIsOnNoQueue ==
  ASSUME SchedAssumption, SchedIInv
  PROVE  /\ current \in AllThreads /\ status[current] = "running"
         /\ current # Idle => current \in Thread
         /\ current \notin Range(ready_list) /\ current \notin Range(sleep_list)
         /\ Range(ready_list) \subseteq Thread /\ Range(sleep_list) \subseteq Thread
<1>1. Range(ready_list) \subseteq Thread /\ Range(sleep_list) \subseteq Thread
  BY RangeOfSeq DEF SchedIInv, SchedTypeOK
<1>2. QED
  BY <1>1 DEF SchedIInv, SchedTypeOK, QueueInv, AllThreads, SchedAssumption

\* init_thread() of a new thread.
LEMMA InitThreadStep ==
  ASSUME SchedAssumption, SchedIInv, NEW u \in Thread, init_thread(u)
  PROVE  SchedIInv'
<1>1. status' = [status EXCEPT ![u] = "blocked"] /\ status[u] = "unborn"
  BY DEF init_thread
<1>2. UNCHANGED <<current, ready_list, sleep_list, left, thread_ticks>>
  BY DEF init_thread
<1>3. SchedTypeOK'
  BY <1>1, <1>2 DEF SchedIInv, SchedTypeOK, AllThreads, Status
<1>4. QueueInv'
  BY <1>1, <1>2, RunningIsOnNoQueue DEF SchedIInv, SchedTypeOK, QueueInv, AllThreads
<1>5. SleepInv'
  BY <1>2 DEF SchedIInv, SleepInv
<1>6. QED
  BY <1>3, <1>4, <1>5 DEF SchedIInv

\* thread_unblock()
LEMMA UnblockStep ==
  ASSUME SchedAssumption, SchedIInv, NEW t \in Thread, Unblock(t)
  PROVE  SchedIInv'
<1>1. /\ status[t] = "blocked" /\ t \notin Range(sleep_list)
      /\ ready_list' = Append(ready_list, t)
      /\ status' = [status EXCEPT ![t] = "ready"]
      /\ UNCHANGED <<current, thread_ticks, sleep_list, left>>
  BY DEF Unblock, Wakeable, thread_unblock
<1>2. /\ ready_list \in Seq(Thread) /\ IsInjective(ready_list)
      /\ t \notin Range(ready_list)
  BY <1>1 DEF SchedIInv, SchedTypeOK, QueueInv
<1>3. /\ Append(ready_list, t) \in Seq(Thread)
      /\ Range(Append(ready_list, t)) = Range(ready_list) \cup {t}
      /\ IsInjective(Append(ready_list, t))
  BY <1>2, PushBack
<1>4. SchedTypeOK'
  BY <1>1, <1>3 DEF SchedIInv, SchedTypeOK, AllThreads, Status
<1>5. QueueInv'
  <2>1. \A v \in Thread : status'[v] = "ready" <=> v \in Range(ready_list')
    BY <1>1, <1>3 DEF SchedIInv, SchedTypeOK, QueueInv, AllThreads
  <2>2. \A v \in Range(sleep_list') : status'[v] = "blocked"
    BY <1>1, RunningIsOnNoQueue DEF SchedIInv, SchedTypeOK, QueueInv, AllThreads
  <2>3. \A v \in AllThreads : status'[v] = "running" <=> v = current'
    BY <1>1 DEF SchedIInv, SchedTypeOK, QueueInv, AllThreads
  <2>4. IsInjective(ready_list)' /\ IsInjective(sleep_list)'
    BY <1>1, <1>3 DEF SchedIInv, QueueInv, IsInjective
  <2>5. QED
    BY <2>1, <2>2, <2>3, <2>4 DEF QueueInv
<1>6. SleepInv'
  BY <1>1 DEF SchedIInv, SleepInv
<1>7. QED
  BY <1>4, <1>5, <1>6 DEF SchedIInv

\* thread_block() by a thread that is not in timer_sleep().
LEMMA BlockStep ==
  ASSUME SchedAssumption, SchedIInv, thread_block, UNCHANGED <<sleep_list, left>>
  PROVE  SchedIInv'
<1> DEFINE st == [status EXCEPT ![current] = "blocked"]
<1>1. schedule(ready_list, st)
  BY DEF thread_block
<1>2. /\ ready_list \in Seq(Thread) /\ st \in [AllThreads -> Status]
      /\ IsInjective(ready_list)
      /\ \A t \in Thread : st[t] = "ready" <=> t \in Range(ready_list)
      /\ \A t \in AllThreads : st[t] # "running"
      /\ \A t \in Thread : status[t] = "blocked" => st[t] = "blocked"
  BY RunningIsOnNoQueue DEF SchedIInv, SchedTypeOK, QueueInv, AllThreads, Status
<1> HIDE DEF st
<1>3. /\ status' \in [AllThreads -> Status]
      /\ current' \in AllThreads
      /\ ready_list' \in Seq(Thread)
      /\ thread_ticks' \in 0..(TIME_SLICE - 1)
      /\ IsInjective(ready_list')
      /\ \A t \in Thread : status'[t] = "ready" <=> t \in Range(ready_list')
      /\ \A t \in AllThreads : status'[t] = "running" <=> t = current'
      /\ \A t \in Thread : st[t] = "blocked" => status'[t] = "blocked"
  BY <1>1, <1>2, ScheduleKeepsQueues
<1>4. /\ sleep_list' \in Seq(Thread) /\ left' \in [Thread -> Nat]
      /\ \A t \in Range(sleep_list') : status'[t] = "blocked"
      /\ IsInjective(sleep_list)'
      /\ SleepInv'
  BY <1>2, <1>3, SleepersUndisturbed
<1>5. QED
  BY <1>3, <1>4 DEF SchedIInv, SchedTypeOK, QueueInv

\* thread_yield() with some sleepers just moved to the run queue.
LEMMA YieldKeepsQueues ==
  ASSUME SchedAssumption, current \in AllThreads,
         NEW queue \in Seq(Thread), NEW st \in [AllThreads -> Status],
         IsInjective(queue),
         \A t \in Thread : st[t] = "ready" <=> t \in Range(queue),
         \A t \in AllThreads : st[t] = "running" <=> t = current,
         thread_yield(queue, st)
  PROVE  /\ status' \in [AllThreads -> Status]
         /\ current' \in AllThreads
         /\ ready_list' \in Seq(Thread)
         /\ thread_ticks' \in 0..(TIME_SLICE - 1)
         /\ IsInjective(ready_list')
         /\ \A t \in Thread : status'[t] = "ready" <=> t \in Range(ready_list')
         /\ \A t \in AllThreads : status'[t] = "running" <=> t = current'
         /\ \A t \in Thread : st[t] = "blocked" => status'[t] = "blocked"
<1> DEFINE q2 == IF current = Idle THEN queue ELSE Append(queue, current)
           st2 == [st EXCEPT ![current] = "ready"]
<1>1. schedule(q2, st2)
  BY DEF thread_yield
<1>2. /\ q2 \in Seq(Thread) /\ IsInjective(q2)
      /\ \A t \in Thread : st2[t] = "ready" <=> t \in Range(q2)
  <2>1. CASE current = Idle
    BY <2>1 DEF SchedAssumption, AllThreads
  <2>2. CASE current # Idle
    <3>1. current \in Thread /\ current \notin Range(queue)
      BY <2>2 DEF AllThreads
    <3>2. /\ q2 \in Seq(Thread)
          /\ Range(q2) = Range(queue) \cup {current}
          /\ IsInjective(q2)
      BY <2>2, <3>1, PushBack
    <3>3. QED
      BY <3>1, <3>2 DEF AllThreads
  <2>3. QED
    BY <2>1, <2>2
<1>3. /\ st2 \in [AllThreads -> Status]
      /\ \A t \in AllThreads : st2[t] # "running"
      /\ \A t \in Thread : st[t] = "blocked" => st2[t] = "blocked"
  BY DEF AllThreads, Status
<1> HIDE DEF q2, st2
<1>4. QED
  BY <1>1, <1>2, <1>3, ScheduleKeepsQueues

\* thread_yield()
LEMMA YieldStep ==
  ASSUME SchedAssumption, SchedIInv, Yield
  PROVE  SchedIInv'
<1>1. thread_yield(ready_list, status) /\ UNCHANGED <<sleep_list, left>>
  BY DEF Yield
<1>2. /\ current \in AllThreads
      /\ ready_list \in Seq(Thread) /\ status \in [AllThreads -> Status]
      /\ IsInjective(ready_list)
      /\ \A t \in Thread : status[t] = "ready" <=> t \in Range(ready_list)
      /\ \A t \in AllThreads : status[t] = "running" <=> t = current
  BY DEF SchedIInv, SchedTypeOK, QueueInv
<1>3. /\ status' \in [AllThreads -> Status]
      /\ current' \in AllThreads
      /\ ready_list' \in Seq(Thread)
      /\ thread_ticks' \in 0..(TIME_SLICE - 1)
      /\ IsInjective(ready_list')
      /\ \A t \in Thread : status'[t] = "ready" <=> t \in Range(ready_list')
      /\ \A t \in AllThreads : status'[t] = "running" <=> t = current'
      /\ \A t \in Thread : status[t] = "blocked" => status'[t] = "blocked"
  BY <1>1, <1>2, YieldKeepsQueues
<1>4. /\ sleep_list' \in Seq(Thread) /\ left' \in [Thread -> Nat]
      /\ \A t \in Range(sleep_list') : status'[t] = "blocked"
      /\ IsInjective(sleep_list)'
      /\ SleepInv'
  BY <1>1, <1>3, SleepersUndisturbed
<1>5. QED
  BY <1>3, <1>4 DEF SchedIInv, SchedTypeOK, QueueInv

\* thread_exit()
LEMMA ExitStep ==
  ASSUME SchedAssumption, SchedIInv, NEW w \in WakeOrders, thread_exit(w)
  PROVE  SchedIInv'
<1> DEFINE queue == ready_list \o w
           st == [t \in AllThreads |-> CASE t = current     -> "dying"
                                         [] t \in Range(w) -> "ready"
                                         [] OTHER          -> status[t]]
<1>1. schedule(queue, st) /\ current # Idle /\ UNCHANGED <<sleep_list, left>>
  BY DEF thread_exit
<1>2. /\ w \in Seq(Thread) /\ IsInjective(w)
      /\ \A t \in Range(w) : status[t] = "blocked" /\ t \notin Range(sleep_list)
  <2>1. PICK n \in 0..Cardinality(Thread) : w \in [1..n -> Thread]
    BY DEF WakeOrders
  <2>2. Cardinality(Thread) \in Nat
    BY FS_CardinalityType DEF SchedAssumption
  <2>3. w \in Seq(Thread)
    BY <2>1, <2>2
  <2>4. QED
    BY <2>3 DEF WakeOrders, Wakeable
<1>3. Range(w) \subseteq Thread
  BY <1>2, RangeOfSeq
<1>4. /\ queue \in Seq(Thread) /\ IsInjective(queue)
      /\ Range(queue) = Range(ready_list) \cup Range(w)
  <2>1. ready_list \in Seq(Thread) /\ IsInjective(ready_list)
    BY DEF SchedIInv, SchedTypeOK, QueueInv
  <2>2. Range(ready_list) \cap Range(w) = {}
    BY <1>2, <1>3 DEF SchedIInv, QueueInv
  <2>3. QED
    BY <1>2, <2>1, <2>2, Splice
<1>5. /\ st \in [AllThreads -> Status]
      /\ \A t \in Thread : st[t] = "ready" <=> t \in Range(queue)
      /\ \A t \in AllThreads : st[t] # "running"
      /\ \A t \in Thread : status[t] = "blocked" /\ t \in Range(sleep_list)
                             => st[t] = "blocked"
  <2>1. st \in [AllThreads -> Status]
    BY DEF SchedIInv, SchedTypeOK, Status
  <2>2. \A t \in Thread : st[t] = "ready" <=> t \in Range(queue)
    BY <1>2, <1>3, <1>4, RunningIsOnNoQueue DEF SchedIInv, SchedTypeOK, QueueInv, AllThreads
  <2>3. \A t \in AllThreads : st[t] # "running"
    BY <1>2 DEF SchedIInv, QueueInv
  <2>4. \A t \in Thread : status[t] = "blocked" /\ t \in Range(sleep_list)
                             => st[t] = "blocked"
    BY <1>2, RunningIsOnNoQueue DEF AllThreads
  <2>5. QED
    BY <2>1, <2>2, <2>3, <2>4
<1> HIDE DEF queue, st
<1>6. /\ status' \in [AllThreads -> Status]
      /\ current' \in AllThreads
      /\ ready_list' \in Seq(Thread)
      /\ thread_ticks' \in 0..(TIME_SLICE - 1)
      /\ IsInjective(ready_list')
      /\ \A t \in Thread : status'[t] = "ready" <=> t \in Range(ready_list')
      /\ \A t \in AllThreads : status'[t] = "running" <=> t = current'
      /\ \A t \in Thread : st[t] = "blocked" => status'[t] = "blocked"
  BY <1>1, <1>4, <1>5, ScheduleKeepsQueues
<1>7. /\ sleep_list' \in Seq(Thread) /\ left' \in [Thread -> Nat]
      /\ \A t \in Range(sleep_list') : status'[t] = "blocked"
      /\ IsInjective(sleep_list)'
      /\ SleepInv'
  BY <1>1, <1>5, <1>6, SleepersUndisturbed
<1>8. QED
  BY <1>6, <1>7 DEF SchedIInv, SchedTypeOK, QueueInv

\* timer_sleep(): the newcomer goes between the sleepers that are due before or
\* with it and those due later.
LEMMA SleepStep ==
  ASSUME SchedAssumption, SchedIInv, NEW n \in Nat, timer_sleep(n)
  PROVE  SchedIInv'
<1> DEFINE k     == DueWithin(n)
           front == SubSeq(sleep_list, 1, k)
           back  == SubSeq(sleep_list, k + 1, Len(sleep_list))
           mid   == front \o <<current>>
           st    == [status EXCEPT ![current] = "blocked"]
<1>1. /\ current # Idle /\ n > 0
      /\ left' = [left EXCEPT ![current] = n]
      /\ sleep_list' = mid \o back
      /\ schedule(ready_list, st)
  BY DEF timer_sleep, list_insert_ordered, thread_block
<1>2. /\ current \in Thread /\ current \notin Range(sleep_list)
      /\ sleep_list \in Seq(Thread) /\ left \in [Thread -> Nat]
      /\ IsInjective(sleep_list)
      /\ Range(sleep_list) \subseteq Thread
  BY <1>1, RunningIsOnNoQueue DEF SchedIInv, SchedTypeOK, QueueInv
<1>3. /\ k \in 0..Len(sleep_list)
      /\ \A i \in 1..k : left[sleep_list[i]] =< n
      /\ k < Len(sleep_list) => n < left[sleep_list[k + 1]]
  BY <1>2, DueWithinSplits
<1> HIDE DEF k
<1>4. /\ front \in Seq(Thread) /\ back \in Seq(Thread)
      /\ Len(front) = k /\ Len(back) = Len(sleep_list) - k
      /\ \A i \in 1..k : front[i] = sleep_list[i]
      /\ \A i \in 1..(Len(sleep_list) - k) : back[i] = sleep_list[k + i]
      /\ Range(sleep_list) = Range(front) \cup Range(back)
      /\ IsInjective(front) /\ IsInjective(back)
      /\ Range(front) \cap Range(back) = {}
  BY <1>2, <1>3, Cut
<1> HIDE DEF front, back
<1>5. /\ mid \in Seq(Thread) /\ Len(mid) = k + 1
      /\ Range(mid) = Range(front) \cup {current}
      /\ IsInjective(mid)
      /\ \A i \in 1..k : mid[i] = sleep_list[i]
      /\ mid[k + 1] = current
  <2>1. mid = Append(front, current)
    BY <1>2, <1>4, AppendIsConcat
  <2>2. Append(front, current) \in Seq(Thread)
        /\ Range(Append(front, current)) = Range(front) \cup {current}
        /\ IsInjective(Append(front, current))
    BY <1>2, <1>4, PushBack
  <2>3. /\ Len(Append(front, current)) = k + 1
        /\ \A i \in 1..k : Append(front, current)[i] = sleep_list[i]
        /\ Append(front, current)[k + 1] = current
    BY <1>2, <1>3, <1>4
  <2>4. QED
    BY <2>1, <2>2, <2>3
<1> HIDE DEF mid
<1>6. /\ sleep_list' \in Seq(Thread)
      /\ Range(sleep_list') = Range(sleep_list) \cup {current}
      /\ IsInjective(sleep_list')
  <2>1. Range(mid) \cap Range(back) = {}
    BY <1>2, <1>4, <1>5
  <2>2. QED
    BY <1>1, <1>4, <1>5, <2>1, Splice
<1>7. /\ Len(sleep_list') = Len(sleep_list) + 1
      /\ \A i \in 1..(Len(sleep_list) + 1) :
           sleep_list'[i] = IF i =< k THEN sleep_list[i]
                            ELSE IF i = k + 1 THEN current
                            ELSE sleep_list[i - 1]
  <2>1. Len(sleep_list) \in Nat /\ k \in Nat /\ k =< Len(sleep_list)
    BY <1>2, <1>3
  <2>2. /\ Len(mid \o back) = Len(mid) + Len(back)
        /\ \A i \in 1..Len(mid) : (mid \o back)[i] = mid[i]
        /\ \A i \in 1..Len(back) : (mid \o back)[Len(mid) + i] = back[i]
    <3>1. mid \in Seq(Thread) /\ back \in Seq(Thread)
      BY <1>4, <1>5
    <3>2. QED
      BY <3>1, Splice
  <2>3. Len(sleep_list') = Len(sleep_list) + 1
    BY <1>1, <1>4, <1>5, <2>1, <2>2
  <2>4. \A i \in 1..k : sleep_list'[i] = sleep_list[i]
    BY <1>1, <1>5, <2>1, <2>2
  <2>5. sleep_list'[k + 1] = current
    BY <1>1, <1>5, <2>1, <2>2
  <2>6. ASSUME NEW i \in (k + 2)..(Len(sleep_list) + 1)
        PROVE  sleep_list'[i] = sleep_list[i - 1]
    <3>1. /\ i - (k + 1) \in 1..(Len(sleep_list) - k)
          /\ k + (i - (k + 1)) = i - 1 /\ (k + 1) + (i - (k + 1)) = i
      BY <2>1
    <3>2. back[i - (k + 1)] = sleep_list[i - 1]
      BY <1>4, <3>1
    <3>3. (mid \o back)[i] = back[i - (k + 1)]
      <4>1. i - (k + 1) \in 1..Len(back) /\ Len(mid) + (i - (k + 1)) = i
        BY <1>4, <1>5, <3>1
      <4>2. (mid \o back)[Len(mid) + (i - (k + 1))] = back[i - (k + 1)]
        BY <2>2, <4>1
      <4>3. QED
        BY <4>1, <4>2
    <3>4. QED
      BY <1>1, <3>2, <3>3
  <2>7. QED
    BY <2>1, <2>3, <2>4, <2>5, <2>6
<1>8. SleepInv'
  <2>1. \A t \in Range(sleep_list') : left'[t] > 0
    BY <1>1, <1>2, <1>6 DEF SchedIInv, SleepInv
  <2>2. ASSUME NEW i \in 1..Len(sleep_list'), NEW j \in 1..Len(sleep_list'), i < j
        PROVE  left'[sleep_list'[i]] =< left'[sleep_list'[j]]
    <3>1. /\ Len(sleep_list) \in Nat /\ k \in Nat /\ k =< Len(sleep_list)
          /\ i \in 1..(Len(sleep_list) + 1) /\ j \in 1..(Len(sleep_list) + 1)
      BY <1>2, <1>3, <1>7
    <3>2. \A a \in 1..Len(sleep_list) : /\ sleep_list[a] \in Thread
                                        /\ sleep_list[a] # current
                                        /\ left'[sleep_list[a]] = left[sleep_list[a]]
                                        /\ left[sleep_list[a]] \in Nat
      <4>1. \A a \in 1..Len(sleep_list) : sleep_list[a] \in Range(sleep_list)
        BY <1>2, RangeByIndex
      <4>2. QED
        BY <1>1, <1>2, <4>1
    <3>3. left'[current] = n
      BY <1>1, <1>2
    <3>4. \A a, b \in 1..Len(sleep_list) : a =< b => left[sleep_list[a]] =< left[sleep_list[b]]
      BY <3>2 DEF SchedIInv, SleepInv
    <3>5. \A a \in (k + 1)..Len(sleep_list) : n =< left[sleep_list[a]]
      <4>1. SUFFICES ASSUME NEW a \in (k + 1)..Len(sleep_list) PROVE n =< left[sleep_list[a]]
        OBVIOUS
      <4>2. k + 1 \in 1..Len(sleep_list) /\ a \in 1..Len(sleep_list) /\ k + 1 =< a
        BY <3>1
      <4>3. left[sleep_list[k + 1]] =< left[sleep_list[a]] /\ n < left[sleep_list[k + 1]]
        BY <1>3, <3>1, <3>4, <4>2
      <4>4. QED
        BY <3>2, <4>2, <4>3
    <3>6. CASE j =< k
      <4>1. /\ i \in 1..Len(sleep_list) /\ j \in 1..Len(sleep_list)
            /\ sleep_list'[i] = sleep_list[i] /\ sleep_list'[j] = sleep_list[j]
        BY <1>7, <2>2, <3>1, <3>6
      <4>2. QED
        BY <2>2, <3>2, <3>4, <4>1
    <3>7. CASE j = k + 1
      <4>1. /\ i \in 1..k /\ i \in 1..Len(sleep_list)
            /\ sleep_list'[i] = sleep_list[i] /\ sleep_list'[j] = current
        BY <1>7, <2>2, <3>1, <3>7
      <4>2. QED
        BY <1>3, <3>2, <3>3, <4>1
    <3>8. CASE j > k + 1 /\ i = k + 1
      <4>1. /\ j - 1 \in (k + 1)..Len(sleep_list) /\ j - 1 \in 1..Len(sleep_list)
            /\ sleep_list'[i] = current /\ sleep_list'[j] = sleep_list[j - 1]
        BY <1>7, <2>2, <3>1, <3>8
      <4>2. QED
        BY <3>2, <3>3, <3>5, <4>1
    <3>9. CASE j > k + 1 /\ i =< k
      <4>1. /\ i \in 1..Len(sleep_list) /\ j - 1 \in 1..Len(sleep_list) /\ i =< j - 1
            /\ sleep_list'[i] = sleep_list[i] /\ sleep_list'[j] = sleep_list[j - 1]
        BY <1>7, <2>2, <3>1, <3>9
      <4>2. QED
        BY <3>2, <3>4, <4>1
    <3>10. CASE j > k + 1 /\ i > k + 1
      <4>1. /\ i - 1 \in 1..Len(sleep_list) /\ j - 1 \in 1..Len(sleep_list) /\ i - 1 =< j - 1
            /\ sleep_list'[i] = sleep_list[i - 1] /\ sleep_list'[j] = sleep_list[j - 1]
        BY <1>7, <2>2, <3>1, <3>10
      <4>2. QED
        BY <3>2, <3>4, <4>1
    <3>11. QED
      BY <2>2, <3>1, <3>6, <3>7, <3>8, <3>9, <3>10
  <2>3. QED
    BY <2>1, <2>2 DEF SleepInv
<1>9. /\ ready_list \in Seq(Thread) /\ st \in [AllThreads -> Status]
      /\ IsInjective(ready_list)
      /\ \A t \in Thread : st[t] = "ready" <=> t \in Range(ready_list)
      /\ \A t \in AllThreads : st[t] # "running"
      /\ \A t \in Range(sleep_list') : st[t] = "blocked"
  <2>1. \A t \in Range(sleep_list) : t \in AllThreads /\ status[t] = "blocked"
    BY <1>2 DEF SchedIInv, QueueInv, AllThreads
  <2>2. QED
    BY <1>2, <1>6, <2>1, RunningIsOnNoQueue
       DEF SchedIInv, SchedTypeOK, QueueInv, AllThreads, Status
<1> HIDE DEF st
<1>10. /\ status' \in [AllThreads -> Status]
       /\ current' \in AllThreads
       /\ ready_list' \in Seq(Thread)
       /\ thread_ticks' \in 0..(TIME_SLICE - 1)
       /\ IsInjective(ready_list')
       /\ \A t \in Thread : status'[t] = "ready" <=> t \in Range(ready_list')
       /\ \A t \in AllThreads : status'[t] = "running" <=> t = current'
       /\ \A t \in Thread : st[t] = "blocked" => status'[t] = "blocked"
  BY <1>1, <1>9, ScheduleKeepsQueues
<1>11. SchedTypeOK'
  BY <1>1, <1>2, <1>6, <1>10 DEF SchedTypeOK
<1>12. QueueInv'
  <2>1. \A t \in Range(sleep_list') : status'[t] = "blocked"
    BY <1>2, <1>6, <1>9, <1>10
  <2>2. QED
    BY <1>6, <1>10, <2>1 DEF QueueInv
<1>13. QED
  BY <1>8, <1>11, <1>12 DEF SchedIInv

\* timer_interrupt(): the sleepers in front are due, the others a tick closer.
LEMMA TimerStep ==
  ASSUME SchedAssumption, SchedIInv, timer_interrupt
  PROVE  SchedIInv'
<1> DEFINE k     == DueWithin(1)
           woken == SubSeq(sleep_list, 1, k)
           rest  == SubSeq(sleep_list, k + 1, Len(sleep_list))
           queue == ready_list \o woken
           st    == [t \in AllThreads |-> IF t \in Range(woken) THEN "ready" ELSE status[t]]
<1>1. /\ sleep_list' = rest
      /\ left' = [t \in Thread |-> IF t \in Range(sleep_list) /\ t \notin Range(woken)
                                     THEN left[t] - 1 ELSE 0]
      /\ \/ /\ thread_ticks + 1 < TIME_SLICE
            /\ ready_list' = queue /\ status' = st
            /\ thread_ticks' = thread_ticks + 1 /\ UNCHANGED current
         \/ thread_yield(queue, st)
  BY DEF timer_interrupt, DueCount
<1>2. /\ sleep_list \in Seq(Thread) /\ left \in [Thread -> Nat]
      /\ IsInjective(sleep_list)
      /\ Range(sleep_list) \subseteq Thread
  BY RunningIsOnNoQueue DEF SchedIInv, SchedTypeOK, QueueInv
<1>3. /\ k \in 0..Len(sleep_list)
      /\ \A i \in 1..k : left[sleep_list[i]] =< 1
      /\ k < Len(sleep_list) => 1 < left[sleep_list[k + 1]]
  BY <1>2, DueWithinSplits
<1> HIDE DEF k
<1>4. /\ woken \in Seq(Thread) /\ rest \in Seq(Thread)
      /\ Len(rest) = Len(sleep_list) - k
      /\ \A i \in 1..(Len(sleep_list) - k) : rest[i] = sleep_list[k + i]
      /\ Range(sleep_list) = Range(woken) \cup Range(rest)
      /\ IsInjective(woken) /\ IsInjective(rest)
      /\ Range(woken) \cap Range(rest) = {}
  BY <1>2, <1>3, Cut
<1> HIDE DEF woken, rest
<1>5. \A a \in 1..Len(sleep_list) : /\ sleep_list[a] \in Range(sleep_list)
                                    /\ left[sleep_list[a]] \in Nat
  BY <1>2, RangeByIndex
<1>6. /\ left' \in [Thread -> Nat]
      /\ \A t \in Range(rest) : left'[t] = left[t] - 1
  <2>1. \A t \in Range(sleep_list) : left[t] > 0
    BY DEF SchedIInv, SleepInv
  <2>2. QED
    BY <1>1, <1>2, <1>4, <2>1
<1>7. SleepInv'
  <2>1. Len(sleep_list) \in Nat /\ k \in Nat /\ k =< Len(sleep_list)
    BY <1>2, <1>3
  <2>2. ASSUME NEW i \in 1..Len(rest)
        PROVE  /\ k + i \in 1..Len(sleep_list) /\ rest[i] = sleep_list[k + i]
               /\ rest[i] \in Range(rest) /\ left'[rest[i]] = left[sleep_list[k + i]] - 1
    <3>1. k + i \in 1..Len(sleep_list) /\ rest[i] = sleep_list[k + i]
      BY <1>4, <2>1
    <3>2. rest[i] \in Range(rest)
      BY <1>4, RangeByIndex
    <3>3. QED
      BY <1>6, <3>1, <3>2
  <2>3. \A a, b \in 1..Len(sleep_list) : a =< b => left[sleep_list[a]] =< left[sleep_list[b]]
    BY <1>5 DEF SchedIInv, SleepInv
  <2>4. \A i, j \in 1..Len(rest) : i < j => left'[rest[i]] =< left'[rest[j]]
    <3>1. SUFFICES ASSUME NEW i \in 1..Len(rest), NEW j \in 1..Len(rest), i < j
                   PROVE  left'[rest[i]] =< left'[rest[j]]
      OBVIOUS
    <3>2. left[sleep_list[k + i]] =< left[sleep_list[k + j]]
      BY <2>1, <2>2, <2>3, <3>1
    <3>3. QED
      BY <1>5, <2>2, <3>2
  <2>5. \A t \in Range(rest) : left'[t] > 0
    <3>1. SUFFICES ASSUME NEW t \in Range(rest) PROVE left'[t] > 0
      OBVIOUS
    <3>2. PICK i \in 1..Len(rest) : rest[i] = t
      BY <1>4, RangeByIndex
    <3>3. k + 1 \in 1..Len(sleep_list) /\ k + 1 =< k + i /\ k < Len(sleep_list)
      BY <1>4, <2>1
    <3>4. left[sleep_list[k + 1]] =< left[sleep_list[k + i]]
      BY <2>2, <2>3, <3>3
    <3>5. 1 < left[sleep_list[k + i]]
      BY <1>3, <1>5, <2>2, <3>3, <3>4
    <3>6. left'[t] = left[sleep_list[k + i]] - 1 /\ left[sleep_list[k + i]] \in Nat
      BY <1>5, <2>2, <3>2
    <3>7. QED
      BY <3>5, <3>6
  <2>6. QED
    BY <1>1, <2>4, <2>5 DEF SleepInv
<1>8. /\ ready_list \in Seq(Thread) /\ IsInjective(ready_list)
      /\ status \in [AllThreads -> Status] /\ current \in AllThreads
      /\ \A t \in Range(sleep_list) : t \in AllThreads /\ status[t] = "blocked"
  BY <1>2 DEF SchedIInv, SchedTypeOK, QueueInv, AllThreads
<1>9. /\ queue \in Seq(Thread) /\ IsInjective(queue)
      /\ Range(queue) = Range(ready_list) \cup Range(woken)
  <2>1. Range(ready_list) \cap Range(woken) = {}
    BY <1>2, <1>4, <1>8 DEF SchedIInv, QueueInv
  <2>2. QED
    BY <1>4, <1>8, <2>1, Splice
<1>10. /\ st \in [AllThreads -> Status]
       /\ \A t \in Thread : st[t] = "ready" <=> t \in Range(queue)
       /\ \A t \in AllThreads : st[t] = "running" <=> t = current
       /\ \A t \in Range(rest) : t \in Thread /\ st[t] = "blocked"
  <2>1. st \in [AllThreads -> Status]
    BY <1>8 DEF Status
  <2>2. \A t \in Thread : st[t] = "ready" <=> t \in Range(queue)
    BY <1>2, <1>4, <1>9 DEF SchedIInv, QueueInv, AllThreads
  <2>3. \A t \in AllThreads : st[t] = "running" <=> t = current
    BY <1>4, <1>8 DEF SchedIInv, QueueInv
  <2>4. \A t \in Range(rest) : t \in Thread /\ st[t] = "blocked"
    BY <1>2, <1>4, <1>8
  <2>5. QED
    BY <2>1, <2>2, <2>3, <2>4
<1> HIDE DEF queue, st
<1>11. /\ status' \in [AllThreads -> Status]
       /\ current' \in AllThreads
       /\ ready_list' \in Seq(Thread)
       /\ thread_ticks' \in 0..(TIME_SLICE - 1)
       /\ IsInjective(ready_list')
       /\ \A t \in Thread : status'[t] = "ready" <=> t \in Range(ready_list')
       /\ \A t \in AllThreads : status'[t] = "running" <=> t = current'
       /\ \A t \in Thread : st[t] = "blocked" => status'[t] = "blocked"
  <2>1. CASE thread_yield(queue, st)
    BY <1>8, <1>9, <1>10, <2>1, YieldKeepsQueues
  <2>2. CASE /\ thread_ticks + 1 < TIME_SLICE
             /\ ready_list' = queue /\ status' = st
             /\ thread_ticks' = thread_ticks + 1 /\ UNCHANGED current
    <3>1. thread_ticks' \in 0..(TIME_SLICE - 1)
      BY <2>2 DEF SchedIInv, SchedTypeOK, SchedAssumption
    <3>2. QED
      BY <1>8, <1>9, <1>10, <2>2, <3>1
  <2>3. QED
    BY <1>1, <2>1, <2>2
<1>12. SchedTypeOK'
  BY <1>1, <1>4, <1>6, <1>11 DEF SchedTypeOK
<1>13. QueueInv'
  BY <1>1, <1>4, <1>10, <1>11 DEF QueueInv
<1>14. QED
  BY <1>7, <1>12, <1>13 DEF SchedIInv

\* list_insert_ordered() adds the newcomer and nobody else.
LEMMA InsertRange ==
  ASSUME sleep_list \in Seq(Thread), left \in [Thread -> Nat],
         NEW me \in Thread, NEW n \in Nat
  PROVE  Range(list_insert_ordered(me, n)) = Range(sleep_list) \cup {me}
<1> DEFINE k     == DueWithin(n)
           front == SubSeq(sleep_list, 1, k)
           back  == SubSeq(sleep_list, k + 1, Len(sleep_list))
<1>1. k \in 0..Len(sleep_list)
  BY DueWithinSplits
<1> HIDE DEF k
<1>2. /\ front \in Seq(Thread) /\ back \in Seq(Thread)
      /\ Range(sleep_list) = Range(front) \cup Range(back)
  BY <1>1, Cut
<1> DEFINE mid == front \o <<me>>
<1>3. list_insert_ordered(me, n) = mid \o back
  BY DEF list_insert_ordered, k
<1> HIDE DEF front, back
<1>4. mid = Append(front, me)
  BY <1>2, AppendIsConcat
<1> HIDE DEF mid
<1>5. /\ Append(front, me) \in Seq(Thread)
      /\ Range(Append(front, me)) = Range(front) \cup {me}
  BY <1>2, PushBack
<1>6. mid \in Seq(Thread) /\ Range(mid) = Range(front) \cup {me}
  BY <1>4, <1>5
<1>7. Range(mid \o back) = Range(mid) \cup Range(back)
  BY <1>2, <1>6, Splice
<1> QED
  BY <1>2, <1>3, <1>6, <1>7

\* What WakesOnTime says of a step.
OnTime ==
  LET elapsed == {left[t] - left'[t] : t \in Range(sleep_list)}
  IN  /\ elapsed \in SUBSET {0} \/ elapsed = {1}
      /\ \A t \in Range(sleep_list) :
           \/ left'[t] = 0 /\ status'[t] \in {"ready", "running"}
           \/ left'[t] > 0 /\ t \in Range(sleep_list')

\* No time passes between two timer interrupts.
LEMMA NoTimePasses ==
  ASSUME SchedIInv,
         \A t \in Range(sleep_list) : left'[t] = left[t] /\ t \in Range(sleep_list')
  PROVE  OnTime
<1>1. \A t \in Range(sleep_list) : left[t] \in Nat /\ left[t] > 0
  BY RangeOfSeq DEF SchedIInv, SchedTypeOK, SleepInv
<1>2. \A t \in Range(sleep_list) : left[t] - left'[t] = 0
  BY <1>1
<1> QED
  BY <1>1, <1>2 DEF OnTime

\* timer_interrupt() counts one tick for every sleeper and wakes those whose last
\* it was.
LEMMA TickPasses ==
  ASSUME SchedAssumption, SchedIInv, timer_interrupt
  PROVE  OnTime
<1> DEFINE k     == DueWithin(1)
           woken == SubSeq(sleep_list, 1, k)
           rest  == SubSeq(sleep_list, k + 1, Len(sleep_list))
           queue == ready_list \o woken
           st    == [t \in AllThreads |-> IF t \in Range(woken) THEN "ready" ELSE status[t]]
<1>1. /\ sleep_list' = rest
      /\ left' = [t \in Thread |-> IF t \in Range(sleep_list) /\ t \notin Range(woken)
                                     THEN left[t] - 1 ELSE 0]
      /\ status' = st \/ thread_yield(queue, st)
  BY DEF timer_interrupt, DueCount
<1>2. /\ sleep_list \in Seq(Thread) /\ left \in [Thread -> Nat]
      /\ IsInjective(sleep_list) /\ Range(sleep_list) \subseteq Thread
      /\ \A t \in Range(sleep_list) : left[t] > 0
  BY RunningIsOnNoQueue DEF SchedIInv, SchedTypeOK, QueueInv, SleepInv
<1>3. /\ k \in 0..Len(sleep_list)
      /\ \A i \in 1..k : left[sleep_list[i]] =< 1
      /\ k < Len(sleep_list) => 1 < left[sleep_list[k + 1]]
  BY <1>2, DueWithinSplits
<1> HIDE DEF k
<1>4. /\ woken \in Seq(Thread) /\ rest \in Seq(Thread)
      /\ Len(woken) = k /\ Len(rest) = Len(sleep_list) - k
      /\ \A i \in 1..k : woken[i] = sleep_list[i]
      /\ \A i \in 1..(Len(sleep_list) - k) : rest[i] = sleep_list[k + i]
      /\ Range(sleep_list) = Range(woken) \cup Range(rest)
      /\ Range(woken) \cap Range(rest) = {}
  BY <1>2, <1>3, Cut
<1> HIDE DEF woken, rest
<1>5. \A t \in Range(woken) : left[t] = 1 /\ left'[t] = 0
  <2>1. SUFFICES ASSUME NEW t \in Range(woken) PROVE left[t] = 1 /\ left'[t] = 0
    OBVIOUS
  <2>2. PICK i \in 1..k : sleep_list[i] = t
    <3>1. PICK i \in 1..Len(woken) : woken[i] = t
      BY <1>4, RangeByIndex
    <3> QED
      BY <1>4, <3>1
  <2>3. t \in Thread /\ left[t] \in Nat /\ left[t] > 0
    BY <1>2, <1>4
  <2> QED
    BY <1>1, <1>3, <2>2, <2>3
<1>6. \A t \in Range(rest) : left[t] > 1 /\ left'[t] = left[t] - 1
  <2>1. SUFFICES ASSUME NEW t \in Range(rest) PROVE left[t] > 1 /\ left'[t] = left[t] - 1
    OBVIOUS
  <2>2. PICK i \in 1..(Len(sleep_list) - k) : sleep_list[k + i] = t
    <3>1. PICK i \in 1..Len(rest) : rest[i] = t
      BY <1>4, RangeByIndex
    <3> QED
      BY <1>4, <3>1
  <2>3. Len(sleep_list) \in Nat /\ k \in Nat
    BY <1>2, <1>3
  <2>4. /\ k + 1 \in 1..Len(sleep_list) /\ k + i \in 1..Len(sleep_list) /\ k + 1 =< k + i
        /\ k < Len(sleep_list)
    BY <2>2, <2>3
  <2>5. left[sleep_list[k + 1]] \in Nat /\ left[sleep_list[k + i]] \in Nat
    BY <1>2, <2>4
  <2>6. left[sleep_list[k + 1]] =< left[sleep_list[k + i]]
    BY <2>4, <2>5 DEF SchedIInv, SleepInv
  <2>7. left[t] > 1
    BY <1>3, <2>2, <2>4, <2>5, <2>6
  <2>8. left'[t] = left[t] - 1
    BY <1>1, <1>2, <1>4
  <2> QED
    BY <2>7, <2>8
<1>7. \A t \in Range(sleep_list) : left[t] \in Nat /\ left[t] - left'[t] = 1
  BY <1>2, <1>4, <1>5, <1>6
<1>8. \A t \in Range(woken) : status'[t] \in {"ready", "running"}
  <2>1. SUFFICES ASSUME NEW t \in Range(woken) PROVE status'[t] \in {"ready", "running"}
    OBVIOUS
  <2>2. t \in AllThreads /\ st[t] = "ready"
    BY <1>2, <1>4 DEF AllThreads
  <2>3. ASSUME thread_yield(queue, st) PROVE status'[t] \in {"ready", "running"}
    <3>1. PICK u, v : status' = [[st EXCEPT ![u] = "ready"] EXCEPT ![v] = "running"]
      BY <2>3 DEF thread_yield, schedule
    <3> QED
      BY <2>2, <3>1
  <2> QED
    BY <1>1, <2>2, <2>3
<1>9. \A t \in Range(rest) : left'[t] > 0 /\ t \in Range(sleep_list')
  <2>1. SUFFICES ASSUME NEW t \in Range(rest) PROVE left'[t] > 0 /\ t \in Range(sleep_list')
    OBVIOUS
  <2>2. left[t] \in Nat /\ left[t] > 1 /\ left'[t] = left[t] - 1
    BY <1>2, <1>4, <1>6
  <2> QED
    BY <1>1, <2>2
<1>10. LET elapsed == {left[t] - left'[t] : t \in Range(sleep_list)}
       IN  elapsed \in SUBSET {0} \/ elapsed = {1}
  <2>1. CASE Range(sleep_list) = {}
    BY <2>1
  <2>2. CASE Range(sleep_list) # {}
    BY <1>7, <2>2
  <2> QED
    BY <2>1, <2>2
<1> QED
  BY <1>4, <1>5, <1>8, <1>9, <1>10 DEF OnTime

\* Every step keeps the sleepers on time.
LEMMA NextOnTime ==
  ASSUME SchedAssumption, SchedIInv, SchedNext
  PROVE  OnTime
<1>1. \A t \in Range(sleep_list) : t \in Thread /\ t # current
  BY RunningIsOnNoQueue
<1>2. ASSUME UNCHANGED <<sleep_list, left>> PROVE OnTime
  BY <1>2, NoTimePasses
<1>3. ASSUME NEW n \in 1..MaxSleep, timer_sleep(n) PROVE OnTime
  <2>1. PICK me \in Thread : me = current
    BY <1>3, RunningIsOnNoQueue DEF timer_sleep
  <2>2. /\ n \in Nat /\ sleep_list \in Seq(Thread) /\ left \in [Thread -> Nat]
        /\ left' = [left EXCEPT ![me] = n] /\ sleep_list' = list_insert_ordered(me, n)
    BY <1>3, <2>1 DEF timer_sleep, SchedIInv, SchedTypeOK, SchedAssumption
  <2>3. Range(sleep_list') = Range(sleep_list) \cup {me}
    BY <2>2, InsertRange
  <2> QED
    BY <1>1, <2>1, <2>2, <2>3, NoTimePasses
<1>4. ASSUME timer_interrupt PROVE OnTime
  BY <1>4, TickPasses
<1> QED
  BY <1>2, <1>3, <1>4 DEF SchedNext, init_thread, Unblock, Block, Yield, thread_exit, IdleLoop

\* Every step keeps the invariant.
LEMMA NextSchedIInv ==
  ASSUME SchedAssumption, SchedIInv, [SchedNext]_schedVars
  PROVE  SchedIInv'
<1>1. CASE UNCHANGED schedVars
  BY <1>1 DEF schedVars, SchedIInv, SchedTypeOK, QueueInv, SleepInv
<1>2. ASSUME NEW u \in Thread, init_thread(u) PROVE SchedIInv'
  BY <1>2, InitThreadStep
<1>3. ASSUME NEW u \in Thread, Unblock(u) PROVE SchedIInv'
  BY <1>3, UnblockStep
<1>4. CASE Block
  BY <1>4, BlockStep DEF Block
<1>5. CASE Yield
  BY <1>5, YieldStep
<1>6. ASSUME NEW w \in WakeOrders, thread_exit(w) PROVE SchedIInv'
  BY <1>6, ExitStep
<1>7. ASSUME NEW n \in 1..MaxSleep, timer_sleep(n) PROVE SchedIInv'
  BY <1>7, SleepStep DEF SchedAssumption
<1>8. CASE IdleLoop
  BY <1>8, BlockStep DEF IdleLoop
<1>9. CASE timer_interrupt
  BY <1>9, TimerStep
<1>10. QED
  BY <1>1, <1>2, <1>3, <1>4, <1>5, <1>6, <1>7, <1>8, <1>9 DEF SchedNext

\* In every reachable state the run queue holds exactly the ready threads and the
\* sleep queue blocked ones, each once, one thread runs, and the sleep queue is
\* ordered with nobody overdue.
THEOREM SchedCorrect == SchedSpec => [](SchedTypeOK /\ QueueInv /\ SleepInv)
<1>1. SchedInit => SchedIInv
  BY SchedAssumption, InitSchedIInv
<1>2. SchedIInv /\ [SchedNext]_schedVars => SchedIInv'
  BY SchedAssumption, NextSchedIInv
<1>3. SchedIInv => SchedTypeOK /\ QueueInv /\ SleepInv
  BY DEF SchedIInv
<1>4. QED
  BY <1>1, <1>2, <1>3, PTL DEF SchedSpec

\* A sleeper is never hidden behind one that wakes later, nor overdue.
THEOREM SleepCorrect == SchedSpec => []SleepInv
  BY SchedCorrect, PTL

\* timer_sleep() sleeps exactly as long as asked.
THEOREM SleepOnTime == SchedSpec => WakesOnTime
<1>1. SchedInit => SchedIInv
  BY SchedAssumption, InitSchedIInv
<1>2. SchedIInv /\ [SchedNext]_schedVars => SchedIInv'
  BY SchedAssumption, NextSchedIInv
<1>3. SchedIInv /\ [SchedNext]_schedVars => [OnTime]_schedVars
  BY SchedAssumption, NextOnTime
<1>4. SchedSpec => [][OnTime]_schedVars
  BY <1>1, <1>2, <1>3, PTL DEF SchedSpec
<1> QED
  BY <1>4, PTL DEF WakesOnTime, OnTime

-----------------------------------------------------------------------------
(* Locks and semaphores.                                                   *)

Labels == {"run", "down", "granted", "releasing", "wait", "relock", "broadcast", "creating"}

\* The types of what synch.c adds to the scheduler.
SynchTypes ==
  /\ value \in [Semaphore -> Nat]
  /\ waiters \in [Semaphore -> Seq(Thread)]
  /\ holder \in [Lock -> Thread \cup {NULL}]
  /\ lock_list \in [Thread -> Seq(Lock)]
  /\ cond_waiters \in [Cond -> Seq(Thread)]
  /\ pc \in [Thread -> Labels]
  /\ arg \in [Thread -> Semaphore \cup Cond \cup {NULL}]
  /\ in_wait \in [Thread -> Cond \cup {NULL}]

\* What a thread is about fits where it is; only a thread itself waits for the
\* semaphore on its stack, inside cond_wait().
ArgInv ==
  \A t \in Thread :
    /\ pc[t] = "down" => arg[t] \in Semaphore
    /\ pc[t] = "down" /\ arg[t] \in Thread => arg[t] = t /\ in_wait[t] \in Cond
    /\ pc[t] \in {"wait", "relock"} => in_wait[t] \in Cond
    /\ pc[t] \in {"granted", "releasing"} => arg[t] \in Lock
    /\ pc[t] = "broadcast" => arg[t] \in Cond

\* A sleeper is in the middle of nothing else, and neither is a thread that is not
\* yet started, which one thread is creating.
IdleInv ==
  /\ \A t \in Range(sleep_list) : pc[t] = "run"
  /\ \A t \in Thread : status[t] = "unborn" => pc[t] = "run"
  /\ \A u \in Thread : pc[u] = "creating" =>
       /\ arg[u] \in Thread /\ status[arg[u]] = "blocked" /\ pc[arg[u]] = "run"
       /\ arg[u] \notin Range(sleep_list)
       /\ \A v \in Thread : pc[v] = "creating" /\ arg[v] = arg[u] => v = u

\* In the gaps where a thread owns a lock without being its holder nobody is.
GapInv == \A t \in Thread : pc[t] \in {"granted", "releasing"} => holder[arg[t]] = NULL

Waiting == ElemInv /\ ArgInv /\ IdleInv
Locking == OneOwner /\ LockListInv /\ GapInv

\* LockInv and ElemInv need each other and the scheduler's own invariant: a lock
\* is handed on by waking its waiter, and release_locks() wakes each waiter of a
\* dying thread's locks once since each lock is on lock_list once.
SynchIInv == SchedIInv /\ SynchTypes /\ Waiting /\ Locking

-----------------------------------------------------------------------------
(* What the scheduler's functions do to the statuses that matter here. *)

\* schedule() changes no status but those of threads that are to run.
LEMMA ScheduleEffect ==
  ASSUME NEW queue \in Seq(Thread), NEW st \in [AllThreads -> Status],
         \A t \in Range(queue) : st[t] = "ready",
         schedule(queue, st)
  PROVE  \A t \in Thread : \A x \in {"unborn", "blocked", "dying"} :
           status'[t] = x <=> st[t] = x
<1> DEFINE next == next_thread_to_run(queue)
<1>1. status' = [st EXCEPT ![next] = "running"]
  BY DEF schedule
<1>2. next = Idle \/ (next \in Thread /\ st[next] = "ready")
  BY PopFront DEF next_thread_to_run
<1> HIDE DEF next
<1>3. Idle \notin Thread
  BY SchedAssumption DEF SchedAssumption
<1> QED
  BY <1>1, <1>2, <1>3 DEF AllThreads

\* The running thread blocks.
LEMMA BlockEffect ==
  ASSUME SchedIInv, NEW me \in Thread, me = current, thread_block
  PROVE  /\ \A t \in Thread : status'[t] = "blocked" <=> (t = me \/ status[t] = "blocked")
         /\ \A t \in Thread : \A x \in {"unborn", "dying"} : status'[t] = x <=> status[t] = x
<1> DEFINE st == [status EXCEPT ![me] = "blocked"]
<1>1. /\ ready_list \in Seq(Thread) /\ status \in [AllThreads -> Status]
      /\ status[me] = "running"
      /\ \A t \in Range(ready_list) : t \in Thread /\ status[t] = "ready"
  BY RangeOfSeq DEF SchedIInv, SchedTypeOK, QueueInv, AllThreads
<1>2. st \in [AllThreads -> Status] /\ \A t \in Range(ready_list) : st[t] = "ready"
  BY <1>1 DEF AllThreads, Status
<1>3. schedule(ready_list, st)
  BY DEF thread_block
<1> HIDE DEF st
<1>4. \A t \in Thread : \A x \in {"unborn", "blocked", "dying"} : status'[t] = x <=> st[t] = x
  BY <1>1, <1>2, <1>3, ScheduleEffect
<1>5. \A t \in Thread : st[t] = IF t = me THEN "blocked" ELSE status[t]
  BY <1>1 DEF st, AllThreads
<1> QED
  BY <1>1, <1>4, <1>5

\* Another thread is woken.
LEMMA UnblockEffect ==
  ASSUME SchedIInv, NEW h \in Thread, thread_unblock(h)
  PROVE  \A t \in Thread : status'[t] = IF t = h THEN "ready" ELSE status[t]
  BY DEF SchedIInv, SchedTypeOK, thread_unblock, AllThreads

-----------------------------------------------------------------------------
(* sema_down(). *)

\* A thread takes a unit and goes on.
LEMMA TakeStep ==
  ASSUME SynchAssumption, SynchIInv, NEW me \in Thread, me = current,
         NEW s \in Semaphore, NEW label \in Labels,
         value[s] > 0, value' = [value EXCEPT ![s] = @ - 1],
         \/ label = "granted" /\ s \in Lock
         \/ label = "relock" /\ s = me /\ in_wait[me] \in Cond
         \/ label = "run" /\ s \in Sema,
         pc[me] \in {"run", "down", "wait", "relock"},
         Goto(label, IF label = "granted" THEN s ELSE NULL),
         UNCHANGED <<schedVars, waiters, holder, lock_list, cond_waiters, in_wait>>
  PROVE  SynchIInv'
<1> DEFINE what == IF label = "granted" THEN s ELSE NULL
<1>1. /\ pc' = [pc EXCEPT ![me] = label] /\ arg' = [arg EXCEPT ![me] = what]
      /\ what \in Semaphore \cup {NULL} /\ (label = "granted" => what = s)
  BY DEF Goto
<1> HIDE DEF what
<1>2. status[me] = "running"
  BY DEF SynchIInv, SchedIInv, QueueInv, AllThreads
<1>3. SchedIInv'
  BY DEF SynchIInv, SchedIInv, SchedTypeOK, QueueInv, SleepInv, schedVars
<1>4. SynchTypes'
  BY <1>1 DEF SynchIInv, SynchTypes, schedVars
<1>5. me \notin Range(sleep_list) /\ \A r \in Semaphore : me \notin Range(waiters[r])
  BY <1>2 DEF SynchIInv, SchedIInv, QueueInv, Waiting, ElemInv
<1>6. Waiting'
  <2>1. ElemInv'
    BY <1>1, <1>2, <1>5 DEF SynchIInv, SynchTypes, Waiting, ElemInv, WaitsFor, schedVars
  <2>2. ArgInv'
    BY <1>1 DEF SynchIInv, SynchTypes, Waiting, ArgInv
  <2>3. IdleInv'
    BY <1>1, <1>2, <1>5 DEF SynchIInv, SynchTypes, Waiting, IdleInv, schedVars
  <2> QED
    BY <2>1, <2>2, <2>3 DEF Waiting
<1>7. Locking'
  <2>1. ASSUME NEW l \in Lock, l # s
        PROVE  /\ value'[l] = value[l]
               /\ \A t \in Thread : Owns(t, l)' <=> Owns(t, l)
    BY <1>1, <2>1, SynchAssumption DEF SynchIInv, SynchTypes, Semaphore, Owns, SynchAssumption
  <2>2. ASSUME s \in Lock
        PROVE  /\ value'[s] = 0 /\ value[s] = 1
               /\ \A t \in Thread : Owns(t, s)' <=> t = me
    <3>1. label = "granted"
      BY <2>2, SynchAssumption DEF SynchAssumption, AllThreads
    <3>2. value[s] = 1 /\ \A t \in Thread : ~Owns(t, s)
      BY <2>2 DEF SynchIInv, Locking, OneOwner
    <3>3. value'[s] = 0
      BY <3>2 DEF SynchIInv, SynchTypes
    <3>4. ASSUME NEW t \in Thread PROVE Owns(t, s)' <=> t = me
      BY <1>1, <3>1, <3>2 DEF SynchIInv, SynchTypes, Owns
    <3> QED
      BY <3>2, <3>3, <3>4
  <2>3. OneOwner' /\ LockListInv'
    BY <1>2, <2>1, <2>2 DEF SynchIInv, Locking, OneOwner, LockListInv, schedVars
  <2>4. GapInv'
    <3>1. ASSUME label = "granted" PROVE s \in Lock /\ arg'[me] = s /\ holder[s] = NULL
      <4>1. s \in Lock /\ arg'[me] = s
        BY <1>1, <3>1 DEF SynchIInv, SynchTypes
      <4> QED
        BY <2>2, <4>1 DEF SynchIInv, SynchTypes, Locking, OneOwner, Owns
    <3> QED
      BY <1>1, <3>1 DEF SynchIInv, SynchTypes, Locking, GapInv
  <2> QED
    BY <2>3, <2>4 DEF Locking
<1> QED
  BY <1>3, <1>4, <1>6, <1>7 DEF SynchIInv

\* A thread joins a wait list and blocks.
LEMMA SleepOnStep ==
  ASSUME SynchAssumption, SynchIInv, NEW me \in Thread, me = current,
         NEW s \in Semaphore, s \in Thread => s = me /\ in_wait[me] \in Cond,
         pc[me] \in {"run", "down", "wait", "relock"},
         waiters' = [waiters EXCEPT ![s] = Append(@, current)],
         Goto("down", s), thread_block,
         UNCHANGED <<value, sleep_list, left, holder, lock_list, cond_waiters, in_wait>>
  PROVE  SynchIInv' /\ Block
<1>1. pc' = [pc EXCEPT ![me] = "down"] /\ arg' = [arg EXCEPT ![me] = s]
  BY DEF Goto
<1>2. Block
  BY SchedAssumption DEF Block, SchedAssumption
<1>3. SchedIInv'
  BY <1>2, SchedAssumption, NextSchedIInv DEF SynchIInv, SchedNext
<1>4. status[me] = "running"
  BY DEF SynchIInv, SchedIInv, QueueInv, AllThreads
<1>5. /\ \A t \in Thread : status'[t] = "blocked" <=> (t = me \/ status[t] = "blocked")
      /\ \A t \in Thread : \A x \in {"unborn", "dying"} : status'[t] = x <=> status[t] = x
  BY BlockEffect DEF SynchIInv
<1>6. /\ me \notin Range(sleep_list)
      /\ \A r \in Semaphore : waiters[r] \in Seq(Thread) /\ me \notin Range(waiters[r])
  BY <1>4 DEF SynchIInv, SchedIInv, QueueInv, Waiting, ElemInv, SynchTypes
<1>7. /\ waiters' \in [Semaphore -> Seq(Thread)]
      /\ \A r \in Semaphore : /\ IsInjective(waiters[r]) => IsInjective(waiters'[r])
                              /\ Range(waiters'[r]) = Range(waiters[r]) \cup (IF r = s THEN {me} ELSE {})
  BY <1>6, PushBack DEF SynchIInv, SynchTypes
<1>8. SynchTypes'
  BY <1>1, <1>7 DEF SynchIInv, SynchTypes, Labels
<1>9. Waiting'
  <2>1. ASSUME NEW r \in Semaphore
        PROVE  /\ IsInjective(waiters'[r])
               /\ \A t \in Range(waiters'[r]) : status'[t] = "blocked" /\ WaitsFor(t, r)'
    <3>1. ASSUME NEW t \in Range(waiters[r])
          PROVE  t \in Thread /\ t # me /\ status[t] = "blocked" /\ WaitsFor(t, r)
      BY <1>6, RangeOfSeq DEF SynchIInv, Waiting, ElemInv
    <3>2. WaitsFor(me, s)'
      BY <1>1 DEF SynchIInv, SynchTypes, WaitsFor
    <3>3. ASSUME NEW t \in Range(waiters[r]) PROVE WaitsFor(t, r)'
      BY <1>1, <3>1 DEF SynchIInv, SynchTypes, WaitsFor
    <3> QED
      BY <1>5, <1>7, <3>1, <3>2, <3>3 DEF SynchIInv, Waiting, ElemInv
  <2>2. ASSUME NEW t \in Thread, status'[t] = "blocked"
        PROVE  \/ pc'[t] = "down" /\ t \in Range(waiters'[arg'[t]]) /\ t \notin Range(sleep_list)
               \/ pc'[t] = "run" /\ t \in Range(sleep_list)
               \/ \E u \in Thread : pc'[u] = "creating" /\ arg'[u] = t
    <3>1. CASE t = me
      BY <1>1, <1>6, <1>7, <3>1 DEF SynchIInv, SynchTypes
    <3>2. CASE t # me
      <4>1. status[t] = "blocked" /\ pc'[t] = pc[t] /\ arg'[t] = arg[t]
        BY <1>1, <1>5, <2>2, <3>2 DEF SynchIInv, SynchTypes
      <4>2. \A u \in Thread : pc[u] = "creating" => u # me /\ pc'[u] = pc[u] /\ arg'[u] = arg[u]
        BY <1>1 DEF SynchIInv, SynchTypes
      <4>3. pc[t] = "down" => arg[t] \in Semaphore
        BY DEF SynchIInv, Waiting, ArgInv
      <4> QED
        BY <1>7, <4>1, <4>2, <4>3 DEF SynchIInv, Waiting, ElemInv
    <3> QED
      BY <3>1, <3>2
  <2>3. ElemInv'
    BY <2>1, <2>2 DEF ElemInv
  <2>4. ArgInv'
    BY <1>1 DEF SynchIInv, SynchTypes, Waiting, ArgInv
  <2>5. IdleInv'
    <3>1. ASSUME NEW t \in Thread, t # me PROVE pc'[t] = pc[t] /\ arg'[t] = arg[t]
      BY <1>1, <3>1 DEF SynchIInv, SynchTypes
    <3>2. pc'[me] = "down"
      BY <1>1 DEF SynchIInv, SynchTypes
    <3>3. \A t \in Range(sleep_list) : t \in Thread /\ t # me
      BY <1>6, RangeOfSeq DEF SynchIInv, SchedIInv, SchedTypeOK
    <3>4. \A u \in Thread : pc'[u] = "creating" => u # me /\ arg[u] # me /\ pc[u] = "creating"
      BY <1>4, <3>1, <3>2 DEF SynchIInv, Waiting, IdleInv
    <3>5. \A t \in Thread : status'[t] = "unborn" => t # me /\ status[t] = "unborn"
      BY <1>4, <1>5
    <3> QED
      BY <1>5, <3>1, <3>3, <3>4, <3>5 DEF SynchIInv, Waiting, IdleInv
  <2> QED
    BY <2>3, <2>4, <2>5 DEF Waiting
<1>10. Locking'
  <2>1. \A t \in Thread, l \in Lock : Owns(t, l)' <=> Owns(t, l)
    BY <1>1 DEF SynchIInv, SynchTypes, Owns
  <2>2. GapInv'
    BY <1>1 DEF SynchIInv, SynchTypes, Locking, GapInv
  <2> QED
    BY <1>5, <2>1, <2>2 DEF SynchIInv, Locking, OneOwner, LockListInv
<1> QED
  BY <1>2, <1>3, <1>8, <1>9, <1>10 DEF SynchIInv

\* A pass of sema_down()'s loop, whoever called it.
LEMMA DownStep ==
  ASSUME SynchAssumption, SynchIInv, NEW me \in Thread, me = current,
         NEW s \in Semaphore, s \in Thread => s = me /\ in_wait[me] \in Cond,
         pc[me] \in {"run", "down", "wait", "relock"},
         sema_down(s, AfterDown(s)),
         UNCHANGED <<holder, lock_list, cond_waiters, in_wait>>
  PROVE  SynchIInv' /\ [SchedNext]_schedVars
<1>1. \/ AfterDown(s) = "granted" /\ s \in Lock
      \/ AfterDown(s) = "relock" /\ s = me /\ in_wait[me] \in Cond
      \/ AfterDown(s) = "run" /\ s \in Sema
  BY SynchAssumption DEF AfterDown, Semaphore, SynchAssumption, AllThreads
<1>2. CASE value[s] > 0
  <2>1. /\ value' = [value EXCEPT ![s] = @ - 1]
        /\ Goto(AfterDown(s), IF AfterDown(s) = "granted" THEN s ELSE NULL)
        /\ UNCHANGED <<schedVars, waiters>>
    BY <1>2 DEF sema_down, SynchIInv, SynchTypes
  <2> QED
    BY <1>1, <1>2, <2>1, TakeStep DEF Labels
<1>3. CASE ~(value[s] > 0)
  BY <1>3, SleepOnStep DEF sema_down, SchedNext
<1> QED
  BY <1>2, <1>3

-----------------------------------------------------------------------------
(* sema_up(). *)

\* The head of the wait list is blocked, and waits for nothing else.
LEMMA WakesBlocked ==
  ASSUME SynchIInv, NEW s \in Semaphore, waiters[s] # <<>>
  PROVE  /\ Head(waiters[s]) \in Thread /\ Head(waiters[s]) \in Range(waiters[s])
         /\ Wakeable(Head(waiters[s])) /\ WaitsFor(Head(waiters[s]), s)
<1> DEFINE h == Head(waiters[s])
<1>1. waiters[s] \in Seq(Thread)
  BY DEF SynchIInv, SynchTypes
<1>2. h \in Thread /\ h \in Range(waiters[s])
  BY <1>1, PopFront, RangeOfSeq
<1>3. status[h] = "blocked" /\ WaitsFor(h, s)
  BY <1>2 DEF SynchIInv, Waiting, ElemInv
<1>4. h \notin Range(sleep_list)
  BY <1>3 DEF SynchIInv, Waiting, IdleInv, WaitsFor
<1> QED
  BY <1>2, <1>3, <1>4 DEF Wakeable

\* sema_up() wakes nobody, or one thread that it takes off the wait list.
LEMMA UpEffect ==
  ASSUME SynchIInv, NEW s \in Semaphore, sema_up(s)
  PROVE  /\ [SchedNext]_schedVars /\ SchedIInv' /\ sleep_list' = sleep_list
         /\ value' \in [Semaphore -> Nat] /\ waiters' \in [Semaphore -> Seq(Thread)]
         /\ \A r \in Semaphore :
              /\ IsInjective(waiters'[r])
              /\ \A t \in Range(waiters'[r]) : t \in Range(waiters[r]) /\ status'[t] = "blocked"
         /\ \A t \in Thread : status'[t] = "blocked" =>
              /\ status[t] = "blocked"
              /\ \A r \in Semaphore : t \in Range(waiters[r]) => t \in Range(waiters'[r])
         /\ \A t \in Thread : pc[t] # "down" /\ status[t] = "blocked" => status'[t] = "blocked"
         /\ \A t \in Thread : \A x \in {"unborn", "dying"} : status'[t] = x => status[t] = x
<1>1. value' \in [Semaphore -> Nat]
  BY DEF sema_up, SynchIInv, SynchTypes
<1>2. \A r \in Semaphore : /\ waiters[r] \in Seq(Thread) /\ IsInjective(waiters[r])
                           /\ Range(waiters[r]) \subseteq Thread
                           /\ \A t \in Range(waiters[r]) : status[t] = "blocked" /\ WaitsFor(t, r)
  BY RangeOfSeq DEF SynchIInv, SynchTypes, Waiting, ElemInv
<1>3. CASE waiters[s] = <<>>
  <2>1. UNCHANGED <<schedVars, waiters>>
    BY <1>3 DEF sema_up
  <2>2. SchedIInv'
    BY <2>1 DEF SynchIInv, SchedIInv, SchedTypeOK, QueueInv, SleepInv, schedVars
  <2> QED
    BY <1>1, <1>2, <2>1, <2>2 DEF schedVars, SynchIInv, SynchTypes
<1>4. CASE waiters[s] # <<>>
  <2>1. PICK h : h = Head(waiters[s])
    OBVIOUS
  <2>2. h \in Thread /\ h \in Range(waiters[s]) /\ Wakeable(h) /\ WaitsFor(h, s)
    BY <1>4, <2>1, WakesBlocked
  <2>3. /\ waiters' = [waiters EXCEPT ![s] = Tail(@)]
        /\ thread_unblock(h) /\ UNCHANGED <<sleep_list, left>>
    BY <1>4, <2>1 DEF sema_up
  <2>4. Unblock(h) /\ SchedNext
    BY <2>2, <2>3 DEF Unblock, SchedNext
  <2>5. SchedIInv'
    BY <2>4, SchedAssumption, NextSchedIInv DEF SynchIInv
  <2>6. \A t \in Thread : status'[t] = IF t = h THEN "ready" ELSE status[t]
    BY <2>2, <2>3, UnblockEffect DEF SynchIInv
  <2>7. /\ Tail(waiters[s]) \in Seq(Thread) /\ IsInjective(Tail(waiters[s]))
        /\ Range(waiters[s]) = Range(Tail(waiters[s])) \cup {h} /\ h \notin Range(Tail(waiters[s]))
    BY <1>2, <1>4, <2>1, PopFront
  <2>8. /\ waiters' \in [Semaphore -> Seq(Thread)]
        /\ \A r \in Semaphore : waiters'[r] = IF r = s THEN Tail(waiters[s]) ELSE waiters[r]
    BY <2>3, <2>7 DEF SynchIInv, SynchTypes
  <2>9. ASSUME NEW r \in Semaphore, r # s PROVE h \notin Range(waiters[r])
    BY <1>2, <2>2, <2>9 DEF WaitsFor
  <2>10. ASSUME NEW r \in Semaphore
         PROVE  /\ IsInjective(waiters'[r])
                /\ \A t \in Range(waiters'[r]) : t \in Range(waiters[r]) /\ status'[t] = "blocked"
                /\ \A t \in Thread : t # h /\ t \in Range(waiters[r]) => t \in Range(waiters'[r])
    BY <1>2, <2>6, <2>7, <2>8, <2>9
  <2> QED
    BY <1>1, <2>2, <2>3, <2>4, <2>5, <2>6, <2>8, <2>10 DEF Wakeable, WaitsFor
<1> QED
  BY <1>3, <1>4

\* It disturbs no other thread, and whoever calls it from lock_release() goes on.
LEMMA UpKeepsWaiting ==
  ASSUME SynchIInv, NEW s \in Semaphore, sema_up(s), UNCHANGED in_wait,
         \A t \in Thread :
           \/ pc'[t] = pc[t] /\ arg'[t] = arg[t]
           \/ pc[t] = "releasing" /\ (pc'[t] = "run" \/ (pc'[t] = "wait" /\ in_wait[t] \in Cond))
  PROVE  Waiting'
<1>1. \A t \in Thread : \/ pc'[t] = pc[t] /\ arg'[t] = arg[t]
                        \/ pc[t] = "releasing" /\ pc'[t] # "down" /\ pc'[t] # "creating"
  OBVIOUS
<1>2. \A t \in Range(sleep_list) : t \in Thread
  BY RangeOfSeq DEF SynchIInv, SchedIInv, SchedTypeOK
<1>3. ASSUME NEW r \in Semaphore
      PROVE  /\ IsInjective(waiters'[r])
             /\ \A t \in Range(waiters'[r]) : status'[t] = "blocked" /\ WaitsFor(t, r)'
  <2>1. \A t \in Range(waiters[r]) : t \in Thread /\ WaitsFor(t, r)
    BY RangeOfSeq DEF SynchIInv, SynchTypes, Waiting, ElemInv
  <2>2. /\ IsInjective(waiters'[r])
        /\ \A t \in Range(waiters'[r]) : t \in Range(waiters[r]) /\ status'[t] = "blocked"
    BY UpEffect
  <2> QED
    BY <1>1, <2>1, <2>2 DEF WaitsFor
<1>4. ASSUME NEW t \in Thread, status'[t] = "blocked"
      PROVE  \/ pc'[t] = "down" /\ t \in Range(waiters'[arg'[t]]) /\ t \notin Range(sleep_list')
             \/ pc'[t] = "run" /\ t \in Range(sleep_list')
             \/ \E u \in Thread : pc'[u] = "creating" /\ arg'[u] = t
  <2>1. /\ status[t] = "blocked" /\ sleep_list' = sleep_list
        /\ \A r \in Semaphore : t \in Range(waiters[r]) => t \in Range(waiters'[r])
    BY <1>4, UpEffect
  <2>2. \/ pc[t] = "down" /\ t \in Range(waiters[arg[t]]) /\ t \notin Range(sleep_list)
        \/ pc[t] = "run" /\ t \in Range(sleep_list)
        \/ \E u \in Thread : pc[u] = "creating" /\ arg[u] = t
    BY <2>1 DEF SynchIInv, Waiting, ElemInv
  <2>3. pc[t] = "down" => arg[t] \in Semaphore
    BY DEF SynchIInv, Waiting, ArgInv
  <2> QED
    BY <1>1, <2>1, <2>2, <2>3
<1>5. ElemInv'
  BY <1>3, <1>4 DEF ElemInv
<1>6. ArgInv'
  BY DEF SynchIInv, Waiting, ArgInv
<1>7. IdleInv'
  <2>1. \A t \in Range(sleep_list') : pc'[t] = "run"
    BY <1>1, <1>2, UpEffect DEF SynchIInv, Waiting, IdleInv
  <2>2. \A t \in Thread : status'[t] = "unborn" => pc'[t] = "run"
    BY <1>1, UpEffect DEF SynchIInv, Waiting, IdleInv
  <2>3. \A u \in Thread : pc'[u] = "creating" => pc[u] = "creating" /\ arg'[u] = arg[u]
    BY <1>1
  <2>4. ASSUME NEW u \in Thread, pc[u] = "creating"
        PROVE  /\ arg[u] \in Thread /\ status'[arg[u]] = "blocked" /\ pc'[arg[u]] = "run"
               /\ arg[u] \notin Range(sleep_list')
    BY <1>1, <2>4, UpEffect DEF SynchIInv, Waiting, IdleInv
  <2> QED
    BY <2>1, <2>2, <2>3, <2>4 DEF SynchIInv, Waiting, IdleInv
<1> QED
  BY <1>5, <1>6, <1>7 DEF Waiting

\* sema_up() of a semaphore that is no lock's.
LEMMA UpStep ==
  ASSUME SynchAssumption, SynchIInv, NEW s \in Semaphore, s \notin Lock, sema_up(s),
         cond_waiters' \in [Cond -> Seq(Thread)],
         UNCHANGED <<holder, lock_list, pc, arg, in_wait>>
  PROVE  SynchIInv' /\ [SchedNext]_schedVars
<1>1. Waiting'
  BY UpKeepsWaiting
<1>2. SynchTypes'
  BY UpEffect DEF SynchIInv, SynchTypes
<1>3. Locking'
  <2>1. \A l \in Lock : value'[l] = value[l] /\ \A t \in Thread : Owns(t, l)' <=> Owns(t, l)
    BY DEF sema_up, SynchIInv, SynchTypes, Owns, Semaphore
  <2>2. OneOwner'
    BY <2>1 DEF SynchIInv, Locking, OneOwner
  <2>3. LockListInv'
    BY <2>1, UpEffect DEF SynchIInv, Locking, LockListInv
  <2>4. GapInv'
    BY DEF SynchIInv, Locking, GapInv
  <2> QED
    BY <2>2, <2>3, <2>4 DEF Locking
<1> QED
  BY <1>1, <1>2, <1>3, UpEffect DEF SynchIInv

\* The sema_up() of lock_release().
LEMMA ReleaseUpStep ==
  ASSUME SynchAssumption, SynchIInv, ReleaseUp
  PROVE  SynchIInv' /\ [SchedNext]_schedVars
<1>1. PICK me \in Thread : me = current
  BY SchedAssumption DEF ReleaseUp, At, SynchIInv, SchedIInv, SchedTypeOK, AllThreads
<1>2. PICK l \in Lock : l = arg[me]
  BY <1>1 DEF ReleaseUp, At, SynchIInv, Waiting, ArgInv
<1>3. PICK label \in {"run", "wait"} :
        /\ pc' = [pc EXCEPT ![me] = label] /\ arg' = [arg EXCEPT ![me] = NULL]
        /\ label = "wait" => in_wait[me] \in Cond
  BY <1>1 DEF ReleaseUp, Goto, SynchIInv, SynchTypes
<1>4. /\ pc[me] = "releasing" /\ sema_up(l) /\ l \in Semaphore
      /\ UNCHANGED <<holder, lock_list, cond_waiters, in_wait>>
  BY <1>1, <1>2 DEF ReleaseUp, At, Semaphore
<1>5. Waiting'
  <2>1. ASSUME NEW t \in Thread
        PROVE  \/ pc'[t] = pc[t] /\ arg'[t] = arg[t]
               \/ pc[t] = "releasing" /\ (pc'[t] = "run" \/ (pc'[t] = "wait" /\ in_wait[t] \in Cond))
    BY <1>3, <1>4 DEF SynchIInv, SynchTypes
  <2> QED
    BY <1>4, <2>1, UpKeepsWaiting
<1>6. SynchTypes'
  BY <1>3, <1>4, UpEffect DEF SynchIInv, SynchTypes, Labels
<1>7. Locking'
  <2>1. ASSUME NEW m \in Lock, m # l
        PROVE  value'[m] = value[m] /\ \A t \in Thread : Owns(t, m)' <=> Owns(t, m)
    BY <1>2, <1>3, <1>4, <2>1 DEF sema_up, SynchIInv, SynchTypes, Owns, Semaphore
  <2>2. Owns(me, l)
    BY <1>2, <1>4 DEF Owns
  <2>3. value[l] = 0 /\ \A t \in Thread : Owns(t, l) => t = me
    BY <2>2 DEF SynchIInv, Locking, OneOwner
  <2>4. \A t \in Thread : ~Owns(t, l)'
    <3>1. holder'[l] = NULL /\ NULL \notin Thread
      BY <1>2, <1>4, SynchAssumption DEF SynchAssumption, AllThreads, SynchIInv, Locking, GapInv
    <3>2. ASSUME NEW t \in Thread, t # me PROVE ~(pc'[t] \in {"granted", "releasing"} /\ arg'[t] = l)
      BY <1>3, <2>3, <3>2 DEF SynchIInv, SynchTypes, Owns
    <3>3. pc'[me] \in {"run", "wait"}
      BY <1>3 DEF SynchIInv, SynchTypes
    <3> QED
      BY <3>1, <3>2, <3>3 DEF Owns
  <2>5. value'[l] = 1
    BY <1>4, <2>3 DEF sema_up, SynchIInv, SynchTypes
  <2>6. OneOwner'
    BY <2>1, <2>4, <2>5 DEF SynchIInv, Locking, OneOwner
  <2>7. LockListInv'
    BY <1>4, <2>1, <2>4, UpEffect DEF SynchIInv, Locking, LockListInv
  <2>8. GapInv'
    BY <1>3, <1>4 DEF SynchIInv, SynchTypes, Locking, GapInv
  <2> QED
    BY <2>6, <2>7, <2>8 DEF Locking
<1> QED
  BY <1>4, <1>5, <1>6, <1>7, UpEffect DEF SynchIInv

-----------------------------------------------------------------------------
(* Steps of the running thread that leave the scheduler alone. *)

\* They disturb nobody who waits.
LEMMA GotoKeepsWaiting ==
  ASSUME SynchIInv, NEW me \in Thread, me = current,
         pc[me] # "creating", NEW label \in Labels \ {"down", "creating"},
         pc' = [pc EXCEPT ![me] = label], \A t \in Thread : t # me => arg'[t] = arg[t],
         waiters' = waiters, UNCHANGED schedVars
  PROVE  ElemInv' /\ IdleInv'
<1>1. status[me] = "running"
  BY DEF SynchIInv, SchedIInv, QueueInv, AllThreads
<1>2. me \notin Range(sleep_list) /\ \A r \in Semaphore : me \notin Range(waiters[r])
  BY <1>1 DEF SynchIInv, SchedIInv, QueueInv, Waiting, ElemInv
<1>3. pc'[me] = label /\ \A t \in Thread : t # me => pc'[t] = pc[t] /\ arg'[t] = arg[t]
  BY DEF SynchIInv, SynchTypes
<1>4. UNCHANGED <<status, sleep_list>>
  BY DEF schedVars
<1>5. \A t \in Range(sleep_list) : t \in Thread
  BY RangeOfSeq DEF SynchIInv, SchedIInv, SchedTypeOK
<1>6. \A r \in Semaphore : \A t \in Range(waiters[r]) : t \in Thread
  BY RangeOfSeq DEF SynchIInv, SynchTypes
<1>7. ElemInv'
  <2>1. ASSUME NEW r \in Semaphore
        PROVE  /\ IsInjective(waiters'[r])
               /\ \A t \in Range(waiters'[r]) : status'[t] = "blocked" /\ WaitsFor(t, r)'
    BY <1>2, <1>3, <1>4, <1>6 DEF SynchIInv, Waiting, ElemInv, WaitsFor
  <2>2. ASSUME NEW t \in Thread, status'[t] = "blocked"
        PROVE  \/ pc'[t] = "down" /\ t \in Range(waiters'[arg'[t]]) /\ t \notin Range(sleep_list')
               \/ pc'[t] = "run" /\ t \in Range(sleep_list')
               \/ \E u \in Thread : pc'[u] = "creating" /\ arg'[u] = t
    BY <1>1, <1>3, <1>4, <2>2 DEF SynchIInv, Waiting, ElemInv
  <2> QED
    BY <2>1, <2>2 DEF ElemInv
<1>8. IdleInv'
  <2>1. \A u \in Thread : pc'[u] = "creating" => u # me /\ pc[u] = "creating" /\ arg[u] # me
    BY <1>1, <1>3 DEF SynchIInv, Waiting, IdleInv
  <2> QED
    BY <1>1, <1>2, <1>3, <1>4, <1>5, <2>1 DEF SynchIInv, Waiting, IdleInv
<1> QED
  BY <1>7, <1>8

\* The scheduler's invariant is kept when its variables are.
LEMMA SchedUntouched == SynchIInv /\ UNCHANGED schedVars => SchedIInv'
  BY DEF SynchIInv, SchedIInv, SchedTypeOK, QueueInv, SleepInv, schedVars

\* Who runs at a label is a thread.
LEMMA AtThread ==
  ASSUME SynchIInv, current # Idle
  PROVE  current \in Thread /\ status[current] = "running"
  BY DEF SynchIInv, SchedIInv, SchedTypeOK, QueueInv, AllThreads

\* lock_try_acquire() takes a free lock.
LEMMA LockTryAcquireStep ==
  ASSUME SynchAssumption, SynchIInv, NEW l \in Lock, LockTryAcquire(l)
  PROVE  SynchIInv' /\ [SchedNext]_schedVars
<1>1. PICK me \in Thread : me = current
  BY AtThread DEF LockTryAcquire, At
<1>2. /\ pc[me] = "run" /\ value[l] > 0 /\ value' = [value EXCEPT ![l] = @ - 1]
      /\ Goto("granted", l) /\ l \in Semaphore
      /\ UNCHANGED <<schedVars, waiters, holder, lock_list, cond_waiters, in_wait>>
  BY <1>1 DEF LockTryAcquire, At, Semaphore
<1> QED
  BY <1>1, <1>2, TakeStep DEF Labels

\* The owner of a lock becomes its holder.
LEMMA TakeHoldStep ==
  ASSUME SynchAssumption, SynchIInv, TakeHold
  PROVE  SynchIInv' /\ [SchedNext]_schedVars
<1>1. PICK me \in Thread : me = current
  BY AtThread DEF TakeHold, At
<1>2. PICK l \in Lock : l = arg[me]
  BY <1>1 DEF TakeHold, At, SynchIInv, Waiting, ArgInv
<1>3. /\ pc[me] = "granted"
      /\ holder' = [holder EXCEPT ![l] = me]
      /\ lock_list' = [lock_list EXCEPT ![me] = Append(@, l)]
      /\ in_wait' = [in_wait EXCEPT ![me] = NULL]
      /\ pc' = [pc EXCEPT ![me] = "run"] /\ arg' = [arg EXCEPT ![me] = NULL]
      /\ UNCHANGED <<schedVars, value, waiters, cond_waiters>>
  BY <1>1, <1>2 DEF TakeHold, At, Goto
<1>4. status[me] = "running"
  BY <1>1 DEF SynchIInv, SchedIInv, QueueInv, AllThreads
<1>5. SynchTypes'
  BY <1>3 DEF SynchIInv, SynchTypes, Labels
<1>6. ArgInv'
  BY <1>3 DEF SynchIInv, SynchTypes, Waiting, ArgInv
<1>7. ElemInv' /\ IdleInv'
  BY <1>1, <1>3, GotoKeepsWaiting DEF SynchIInv, SynchTypes, Labels
<1>8. /\ holder[l] = NULL /\ NULL \notin Thread
      /\ \A t \in Thread : Owns(t, l) <=> t = me
  BY <1>2, <1>3, SynchAssumption DEF SynchIInv, Locking, OneOwner, GapInv, Owns, SynchAssumption, AllThreads
<1>9. \A t \in Thread, m \in Lock : Owns(t, m)' <=> Owns(t, m)
  <2>1. ASSUME NEW t \in Thread PROVE Owns(t, l)' <=> t = me
    <3>1. holder'[l] = me /\ pc'[me] = "run" /\ (t # me => pc'[t] = pc[t] /\ arg'[t] = arg[t])
      BY <1>3 DEF SynchIInv, SynchTypes
    <3> QED
      BY <1>8, <3>1 DEF Owns
  <2>2. ASSUME NEW t \in Thread, NEW m \in Lock, m # l PROVE Owns(t, m)' <=> Owns(t, m)
    BY <1>2, <1>3, <2>2 DEF SynchIInv, SynchTypes, Owns
  <2> QED
    BY <1>8, <2>1, <2>2
<1>10. LockListInv'
  <2>1. lock_list[me] \in Seq(Lock) /\ l \notin Range(lock_list[me])
    BY <1>8 DEF SynchIInv, SynchTypes, Locking, LockListInv
  <2>2. /\ IsInjective(Append(lock_list[me], l))
        /\ Range(Append(lock_list[me], l)) = Range(lock_list[me]) \cup {l}
    BY <2>1, PushBack DEF SynchIInv, Locking, LockListInv
  <2>3. /\ lock_list'[me] = Append(lock_list[me], l)
        /\ \A t \in Thread : t # me => lock_list'[t] = lock_list[t]
        /\ \A m \in Lock : holder'[m] = IF m = l THEN me ELSE holder[m]
        /\ status' = status
    BY <1>3 DEF SynchIInv, SynchTypes, schedVars
  <2>4. \A t \in Thread : l \in Range(lock_list[t]) <=> holder[l] = t
    BY DEF SynchIInv, Locking, LockListInv
  <2>5. ASSUME NEW t \in Thread
        PROVE  /\ IsInjective(lock_list'[t])
               /\ \A m \in Lock : m \in Range(lock_list'[t]) <=> holder'[m] = t
               /\ status'[t] \in {"unborn", "dying"} => \A m \in Lock : ~Owns(t, m)'
    <3>1. CASE t = me
      <4>1. \A m \in Lock : m \in Range(lock_list[me]) <=> holder[m] = me
        BY DEF SynchIInv, Locking, LockListInv
      <4>2. IsInjective(lock_list'[me])
        BY <2>2, <2>3
      <4>3. \A m \in Lock : m \in Range(lock_list'[me]) <=> holder'[m] = me
        BY <2>2, <2>3, <4>1
      <4>4. status'[me] = "running"
        BY <1>4, <2>3
      <4> QED
        BY <3>1, <4>2, <4>3, <4>4
    <3>2. CASE t # me
      <4>1. \A m \in Lock : m \in Range(lock_list[t]) <=> holder[m] = t
        BY DEF SynchIInv, Locking, LockListInv
      <4>2. IsInjective(lock_list[t]) /\ (status[t] \in {"unborn", "dying"} => \A m \in Lock : ~Owns(t, m))
        BY DEF SynchIInv, Locking, LockListInv
      <4>3. \A m \in Lock : holder'[m] = t <=> holder[m] = t
        BY <1>8, <2>3, <3>2
      <4> QED
        BY <1>9, <2>3, <3>2, <4>1, <4>2, <4>3
    <3> QED
      BY <3>1, <3>2
  <2> QED
    BY <2>5 DEF LockListInv
<1>11. OneOwner' /\ GapInv'
  <2>1. OneOwner'
    BY <1>3, <1>9 DEF SynchIInv, Locking, OneOwner
  <2>2. ASSUME NEW t \in Thread, pc'[t] \in {"granted", "releasing"}
        PROVE  holder'[arg'[t]] = NULL
    <3>1. t # me /\ pc[t] = pc'[t] /\ arg'[t] = arg[t]
      BY <1>3, <2>2 DEF SynchIInv, SynchTypes
    <3>2. arg[t] \in Lock /\ holder[arg[t]] = NULL /\ arg[t] # l
      BY <1>8, <2>2, <3>1 DEF SynchIInv, Waiting, ArgInv, Locking, GapInv, Owns
    <3> QED
      BY <1>3, <3>1, <3>2 DEF SynchIInv, SynchTypes
  <2> QED
    BY <2>1, <2>2 DEF GapInv
<1> QED
  BY <1>3, <1>5, <1>6, <1>7, <1>10, <1>11, SchedUntouched DEF SynchIInv, Waiting, Locking

\* Without its ith element a list without doubles has the others left.
LEMMA RemoveAt ==
  ASSUME NEW S, NEW q \in Seq(S), NEW i \in 1..Len(q), IsInjective(q)
  PROVE  /\ WithoutAt(q, i) \in Seq(S) /\ IsInjective(WithoutAt(q, i))
         /\ Range(WithoutAt(q, i)) = Range(q) \ {q[i]}
<1> DEFINE front == SubSeq(q, 1, i)
           back  == SubSeq(q, i + 1, Len(q))
           head  == SubSeq(q, 1, i - 1)
           rest  == SubSeq(q, i, Len(q))
<1>1. i \in 0..Len(q) /\ i - 1 \in 0..Len(q) /\ (i - 1) + 1 = i
  OBVIOUS
<1>2. /\ front \in Seq(S) /\ back \in Seq(S) /\ IsInjective(back)
      /\ Len(front) = i /\ \A j \in 1..i : front[j] = q[j]
      /\ Range(q) = Range(front) \cup Range(back) /\ Range(front) \cap Range(back) = {}
  BY <1>1, Cut
<1>3. /\ head \in Seq(S) /\ IsInjective(head)
      /\ Len(head) = i - 1 /\ \A j \in 1..(i - 1) : head[j] = q[j]
  BY <1>1, Cut
<1> HIDE DEF front, back, head
<1>4. Range(head) = Range(front) \ {q[i]}
  <2>1. \A x : x \in Range(front) <=> \E j \in 1..i : q[j] = x
    <3>1. \A x : x \in Range(front) <=> \E j \in 1..Len(front) : front[j] = x
      BY ONLY <1>2, RangeByIndex
    <3> QED
      BY ONLY <1>2, <3>1
  <2>2. \A x : x \in Range(head) <=> \E j \in 1..(i - 1) : q[j] = x
    <3>1. \A x : x \in Range(head) <=> \E j \in 1..Len(head) : head[j] = x
      BY ONLY <1>3, RangeByIndex
    <3> QED
      BY ONLY <1>3, <3>1
  <2>3. \A j \in 1..(i - 1) : q[j] # q[i]
    BY RangeByIndex
  <2>4. \A j \in 1..i : j = i \/ j \in 1..(i - 1)
    OBVIOUS
  <2>5. \A j \in 1..(i - 1) : j \in 1..i
    OBVIOUS
  <2> QED
    BY <2>1, <2>2, <2>3, <2>4, <2>5
<1>5. q[i] \in Range(front)
  <2>1. i \in 1..Len(front) /\ front[i] = q[i]
    BY <1>2
  <2> QED
    BY <1>2, <2>1, RangeByIndex
<1>6. WithoutAt(q, i) = head \o back
  BY DEF WithoutAt, head, back
<1> QED
  BY <1>2, <1>3, <1>4, <1>5, <1>6, Splice

\* lock_release() lets go of a lock and cond_wait() begins with that: what they do
\* before the sema_up().
LEMMA DropHoldKeepsLocking ==
  ASSUME SynchAssumption, SynchIInv, NEW me \in Thread, me = current,
         NEW l \in Lock, DropHold(l), pc[me] = "run",
         \A m \in Lock : value'[m] = value[m], UNCHANGED schedVars
  PROVE  /\ holder' \in [Lock -> Thread \cup {NULL}] /\ lock_list' \in [Thread -> Seq(Lock)]
         /\ pc' = [pc EXCEPT ![me] = "releasing"] /\ arg' = [arg EXCEPT ![me] = l]
         /\ Locking'
<1>1. /\ holder[l] = me /\ holder' = [holder EXCEPT ![l] = NULL]
      /\ pc' = [pc EXCEPT ![me] = "releasing"] /\ arg' = [arg EXCEPT ![me] = l]
  BY DEF DropHold, Goto
<1>2. PICK i \in 1..Len(lock_list[me]) :
        /\ lock_list[me][i] = l
        /\ lock_list' = [lock_list EXCEPT ![me] = WithoutAt(@, i)]
  BY DEF DropHold
<1>3. /\ WithoutAt(lock_list[me], i) \in Seq(Lock) /\ IsInjective(WithoutAt(lock_list[me], i))
      /\ Range(WithoutAt(lock_list[me], i)) = Range(lock_list[me]) \ {l}
  BY <1>2, RemoveAt DEF SynchIInv, SynchTypes, Locking, LockListInv
<1>4. holder' \in [Lock -> Thread \cup {NULL}] /\ lock_list' \in [Thread -> Seq(Lock)]
  BY <1>1, <1>2, <1>3 DEF SynchIInv, SynchTypes
<1>5. NULL \notin Thread /\ \A t \in Thread : Owns(t, l) <=> t = me
  BY <1>1, SynchAssumption DEF SynchIInv, Locking, OneOwner, Owns, SynchAssumption, AllThreads
<1>6. \A t \in Thread, m \in Lock : Owns(t, m)' <=> Owns(t, m)
  <2>1. ASSUME NEW t \in Thread PROVE Owns(t, l)' <=> t = me
    <3>1. /\ holder'[l] = NULL /\ pc'[me] = "releasing" /\ arg'[me] = l
          /\ t # me => pc'[t] = pc[t] /\ arg'[t] = arg[t]
      BY <1>1 DEF SynchIInv, SynchTypes
    <3> QED
      BY <1>5, <3>1 DEF Owns
  <2>2. ASSUME NEW t \in Thread, NEW m \in Lock, m # l PROVE Owns(t, m)' <=> Owns(t, m)
    BY <1>1, <2>2 DEF SynchIInv, SynchTypes, Owns
  <2> QED
    BY <1>5, <2>1, <2>2
<1>7. OneOwner'
  BY <1>6 DEF SynchIInv, Locking, OneOwner
<1>8. LockListInv'
  <2>1. /\ lock_list'[me] = WithoutAt(lock_list[me], i)
        /\ \A t \in Thread : t # me => lock_list'[t] = lock_list[t]
        /\ \A m \in Lock : holder'[m] = IF m = l THEN NULL ELSE holder[m]
        /\ status' = status
    BY <1>1, <1>2 DEF SynchIInv, SynchTypes, schedVars
  <2>2. ASSUME NEW t \in Thread
        PROVE  /\ IsInjective(lock_list[t])
               /\ \A m \in Lock : m \in Range(lock_list[t]) <=> holder[m] = t
               /\ status[t] \in {"unborn", "dying"} => \A m \in Lock : ~Owns(t, m)
    BY DEF SynchIInv, Locking, LockListInv
  <2>3. ASSUME NEW t \in Thread
        PROVE  /\ IsInjective(lock_list'[t])
               /\ \A m \in Lock : m \in Range(lock_list'[t]) <=> holder'[m] = t
    <3>1. CASE t = me
      BY <1>3, <1>5, <2>1, <2>2, <3>1
    <3>2. CASE t # me
      BY <1>1, <1>5, <2>1, <2>2, <3>2
    <3> QED
      BY <3>1, <3>2
  <2> QED
    BY <1>6, <2>1, <2>2, <2>3 DEF LockListInv
<1>9. GapInv'
  BY <1>1 DEF SynchIInv, SynchTypes, Waiting, ArgInv, Locking, GapInv
<1> QED
  BY <1>1, <1>4, <1>7, <1>8, <1>9 DEF Locking

\* lock_release() gives up what the holder has.
LEMMA LockReleaseStep ==
  ASSUME SynchAssumption, SynchIInv, NEW l \in Lock, LockRelease(l)
  PROVE  SynchIInv' /\ [SchedNext]_schedVars
<1>1. PICK me \in Thread : me = current
  BY AtThread DEF LockRelease, At
<1>2. /\ pc[me] = "run" /\ DropHold(l)
      /\ UNCHANGED <<schedVars, value, waiters, cond_waiters, in_wait>>
  BY <1>1 DEF LockRelease, At
<1>3. /\ holder' \in [Lock -> Thread \cup {NULL}] /\ lock_list' \in [Thread -> Seq(Lock)]
      /\ pc' = [pc EXCEPT ![me] = "releasing"] /\ arg' = [arg EXCEPT ![me] = l]
      /\ Locking'
  BY <1>1, <1>2, DropHoldKeepsLocking
<1>4. SynchTypes'
  BY <1>2, <1>3 DEF SynchIInv, SynchTypes, Labels, Semaphore
<1>5. ArgInv'
  BY <1>2, <1>3 DEF SynchIInv, SynchTypes, Waiting, ArgInv
<1>6. ElemInv' /\ IdleInv'
  BY <1>1, <1>2, <1>3, GotoKeepsWaiting DEF SynchIInv, SynchTypes, Labels
<1> QED
  BY <1>2, <1>3, <1>4, <1>5, <1>6, SchedUntouched DEF SynchIInv, Waiting

\* cond_wait() puts a new semaphore on the stack: nobody waits for the old one.
LEMMA CondWaitStep ==
  ASSUME SynchAssumption, SynchIInv, NEW c \in Cond, CondWait(c)
  PROVE  SynchIInv' /\ [SchedNext]_schedVars
<1>1. PICK me \in Thread : me = current
  BY AtThread DEF CondWait, At
<1>2. PICK l \in Lock : l = CondLock[c]
  BY SynchAssumption DEF SynchAssumption
<1>3. /\ pc[me] = "run" /\ DropHold(l)
      /\ value' = [value EXCEPT ![me] = 0] /\ waiters' = [waiters EXCEPT ![me] = <<>>]
      /\ cond_waiters' = [cond_waiters EXCEPT ![c] = Append(@, me)]
      /\ in_wait' = [in_wait EXCEPT ![me] = c]
      /\ UNCHANGED schedVars
  BY <1>1, <1>2 DEF CondWait, At
<1>4. me \notin Lock /\ me \in Semaphore
  BY SynchAssumption DEF SynchAssumption, AllThreads, Semaphore
<1>5. /\ holder' \in [Lock -> Thread \cup {NULL}] /\ lock_list' \in [Thread -> Seq(Lock)]
      /\ pc' = [pc EXCEPT ![me] = "releasing"] /\ arg' = [arg EXCEPT ![me] = l]
      /\ Locking'
  <2>1. \A m \in Lock : value'[m] = value[m]
    BY <1>3, <1>4 DEF SynchIInv, SynchTypes, Semaphore
  <2> QED
    BY <1>1, <1>3, <2>1, DropHoldKeepsLocking
<1>6. waiters' = waiters
  <2>1. ASSUME waiters[me] # <<>> PROVE FALSE
    <3>1. PICK h \in Thread : status[h] = "blocked" /\ WaitsFor(h, me)
      BY <1>4, <2>1, WakesBlocked DEF Wakeable
    <3>2. h = me
      BY <3>1 DEF WaitsFor, SynchIInv, Waiting, ArgInv
    <3> QED
      BY <1>3, <3>1, <3>2 DEF WaitsFor
  <2> QED
    BY <1>3, <1>4, <2>1 DEF SynchIInv, SynchTypes
<1>7. SynchTypes'
  <2>1. Append(cond_waiters[c], me) \in Seq(Thread)
    BY DEF SynchIInv, SynchTypes
  <2> QED
    BY <1>3, <1>5, <1>6, <2>1 DEF SynchIInv, SynchTypes, Labels, Semaphore
<1>8. ArgInv'
  BY <1>3, <1>5 DEF SynchIInv, SynchTypes, Waiting, ArgInv
<1>9. ElemInv' /\ IdleInv'
  BY <1>1, <1>3, <1>5, <1>6, GotoKeepsWaiting DEF SynchIInv, SynchTypes, Labels
<1> QED
  BY <1>3, <1>5, <1>7, <1>8, <1>9, SchedUntouched DEF SynchIInv, Waiting

-----------------------------------------------------------------------------
(* The callers of sema_down(). *)

\* Where each kind of semaphore leads a thread that has downed it.
LEMMA AfterDownOf ==
  ASSUME SynchAssumption
  PROVE  /\ \A s \in Sema : AfterDown(s) = "run" /\ s \in Semaphore /\ s \notin Thread
         /\ \A l \in Lock : AfterDown(l) = "granted" /\ l \in Semaphore /\ l \notin Thread
         /\ \A t \in Thread : AfterDown(t) = "relock" /\ t \in Semaphore
  BY SynchAssumption DEF SynchAssumption, AfterDown, Semaphore, AllThreads

\* sema_down() on a semaphore of the program.
LEMMA SemaDownStep ==
  ASSUME SynchAssumption, SynchIInv, NEW s \in Sema, SemaDown(s)
  PROVE  SynchIInv' /\ [SchedNext]_schedVars
<1>1. PICK me \in Thread : me = current
  BY AtThread DEF SemaDown, At
<1>2. /\ pc[me] = "run" /\ sema_down(s, AfterDown(s))
      /\ s \in Semaphore /\ s \notin Thread
      /\ UNCHANGED <<holder, lock_list, cond_waiters, in_wait>>
  BY <1>1, AfterDownOf DEF SemaDown, At
<1> QED
  BY <1>1, <1>2, DownStep

\* A woken thread tests the value again.
LEMMA RecheckStep ==
  ASSUME SynchAssumption, SynchIInv, Recheck
  PROVE  SynchIInv' /\ [SchedNext]_schedVars
<1>1. PICK me \in Thread : me = current
  BY AtThread DEF Recheck, At
<1>2. PICK s \in Semaphore : s = arg[me]
  BY <1>1 DEF Recheck, At, SynchIInv, Waiting, ArgInv
<1>3. /\ pc[me] = "down" /\ sema_down(s, AfterDown(s))
      /\ s \in Thread => s = me /\ in_wait[me] \in Cond
      /\ UNCHANGED <<holder, lock_list, cond_waiters, in_wait>>
  BY <1>1, <1>2 DEF Recheck, At, SynchIInv, Waiting, ArgInv
<1> QED
  BY <1>1, <1>3, DownStep

\* lock_acquire() goes through sema_down().
LEMMA LockAcquireStep ==
  ASSUME SynchAssumption, SynchIInv, NEW l \in Lock, LockAcquire(l)
  PROVE  SynchIInv' /\ [SchedNext]_schedVars
<1>1. PICK me \in Thread : me = current
  BY AtThread DEF LockAcquire, At
<1>2. /\ pc[me] = "run" /\ sema_down(l, AfterDown(l))
      /\ l \in Semaphore /\ l \notin Thread
      /\ UNCHANGED <<holder, lock_list, cond_waiters, in_wait>>
  BY <1>1, AfterDownOf DEF LockAcquire, At
<1> QED
  BY <1>1, <1>2, DownStep

\* cond_wait() downs the thread's own semaphore.
LEMMA WaitDownStep ==
  ASSUME SynchAssumption, SynchIInv, WaitDown
  PROVE  SynchIInv' /\ [SchedNext]_schedVars
<1>1. PICK me \in Thread : me = current
  BY AtThread DEF WaitDown, At
<1>2. /\ pc[me] = "wait" /\ sema_down(me, AfterDown(me))
      /\ me \in Semaphore /\ in_wait[me] \in Cond
      /\ UNCHANGED <<holder, lock_list, cond_waiters, in_wait>>
  BY <1>1, AfterDownOf DEF WaitDown, At, SynchIInv, Waiting, ArgInv
<1> QED
  BY <1>1, <1>2, DownStep

\* cond_wait() asks for the lock again.
LEMMA RelockStep ==
  ASSUME SynchAssumption, SynchIInv, Relock
  PROVE  SynchIInv' /\ [SchedNext]_schedVars
<1>1. PICK me \in Thread : me = current
  BY AtThread DEF Relock, At
<1>2. PICK l \in Lock : l = CondLock[in_wait[me]]
  BY <1>1, SynchAssumption DEF Relock, At, SynchIInv, Waiting, ArgInv, SynchAssumption
<1>3. /\ pc[me] = "relock" /\ sema_down(l, AfterDown(l))
      /\ l \in Semaphore /\ l \notin Thread
      /\ UNCHANGED <<holder, lock_list, cond_waiters, in_wait>>
  BY <1>1, <1>2, AfterDownOf DEF Relock, At
<1> QED
  BY <1>1, <1>3, DownStep

-----------------------------------------------------------------------------
(* The callers of sema_up(), but for lock_release(). *)

\* sema_up() by a thread or by an interrupt handler.
LEMMA SemaUpStep ==
  ASSUME SynchAssumption, SynchIInv, NEW s \in Sema, SemaUp(s) \/ InterruptSemaUp(s)
  PROVE  SynchIInv' /\ [SchedNext]_schedVars
<1>1. /\ s \in Semaphore /\ s \notin Lock /\ sema_up(s)
      /\ UNCHANGED <<holder, lock_list, cond_waiters, pc, arg, in_wait>>
  BY SynchAssumption DEF SynchAssumption, Semaphore, SemaUp, InterruptSemaUp
<1>2. cond_waiters' \in [Cond -> Seq(Thread)]
  BY <1>1 DEF SynchIInv, SynchTypes
<1> QED
  BY <1>1, <1>2, UpStep

\* The first waiter of a condition is taken off and its semaphore raised.
LEMMA SignalStep ==
  ASSUME SynchAssumption, SynchIInv, NEW c \in Cond, signal(c),
         UNCHANGED <<holder, lock_list, pc, arg, in_wait>>
  PROVE  SynchIInv' /\ [SchedNext]_schedVars
<1>1. cond_waiters[c] \in Seq(Thread) /\ cond_waiters[c] # <<>>
  BY DEF signal, SynchIInv, SynchTypes
<1>2. PICK s : s = Head(cond_waiters[c])
  OBVIOUS
<1>3. s \in Thread /\ Tail(cond_waiters[c]) \in Seq(Thread)
  BY <1>1, <1>2, PopFront, RangeOfSeq
<1>4. s \in Semaphore /\ s \notin Lock /\ sema_up(s)
  BY <1>2, <1>3, SynchAssumption DEF SynchAssumption, AllThreads, Semaphore, signal
<1>5. cond_waiters' \in [Cond -> Seq(Thread)]
  BY <1>3 DEF signal, SynchIInv, SynchTypes
<1> QED
  BY <1>4, <1>5, UpStep

\* cond_signal()
LEMMA CondSignalStep ==
  ASSUME SynchAssumption, SynchIInv, NEW c \in Cond, CondSignal(c)
  PROVE  SynchIInv' /\ [SchedNext]_schedVars
  BY SignalStep DEF CondSignal

\* cond_broadcast() starts or ends.
LEMMA BroadcastGoto ==
  ASSUME SynchAssumption, SynchIInv, NEW me \in Thread, me = current,
         pc[me] \in {"run", "broadcast"},
         \/ \E c \in Cond : Goto("broadcast", c)
         \/ Goto("run", NULL),
         UNCHANGED <<schedVars, value, waiters, holder, lock_list, cond_waiters, in_wait>>
  PROVE  SynchIInv' /\ [SchedNext]_schedVars
<1>1. PICK label \in {"run", "broadcast"}, what \in Cond \cup {NULL} :
        /\ pc' = [pc EXCEPT ![me] = label] /\ arg' = [arg EXCEPT ![me] = what]
        /\ label = "broadcast" => what \in Cond
  BY DEF Goto
<1>2. SynchTypes'
  BY <1>1 DEF SynchIInv, SynchTypes, Labels
<1>3. ArgInv'
  BY <1>1 DEF SynchIInv, SynchTypes, Waiting, ArgInv
<1>4. ElemInv' /\ IdleInv'
  BY <1>1, GotoKeepsWaiting DEF SynchIInv, SynchTypes, Labels
<1>5. \A t \in Thread : /\ pc'[t] \in {"granted", "releasing"} <=> pc[t] \in {"granted", "releasing"}
                        /\ pc'[t] \in {"granted", "releasing"} => arg'[t] = arg[t] /\ pc'[t] = pc[t]
  BY <1>1 DEF SynchIInv, SynchTypes
<1>6. Locking'
  <2>1. \A t \in Thread, l \in Lock : Owns(t, l)' <=> Owns(t, l)
    BY <1>5 DEF Owns
  <2>2. OneOwner' /\ LockListInv'
    BY <2>1 DEF SynchIInv, Locking, OneOwner, LockListInv, schedVars
  <2>3. GapInv'
    BY <1>5 DEF SynchIInv, Locking, GapInv
  <2> QED
    BY <2>2, <2>3 DEF Locking
<1> QED
  BY <1>2, <1>3, <1>4, <1>6, SchedUntouched DEF SynchIInv, Waiting

\* cond_broadcast() begins.
LEMMA CondBroadcastStep ==
  ASSUME SynchAssumption, SynchIInv, NEW c \in Cond, CondBroadcast(c)
  PROVE  SynchIInv' /\ [SchedNext]_schedVars
<1>1. PICK me \in Thread : me = current
  BY AtThread DEF CondBroadcast, At
<1> QED
  BY <1>1, BroadcastGoto DEF CondBroadcast, At

\* cond_broadcast() signals the next waiter.
LEMMA BroadcastStep ==
  ASSUME SynchAssumption, SynchIInv, Broadcast
  PROVE  SynchIInv' /\ [SchedNext]_schedVars
<1>1. PICK me \in Thread : me = current
  BY AtThread DEF Broadcast, At
<1>2. pc[me] = "broadcast" /\ arg[current] \in Cond
  BY <1>1 DEF Broadcast, At, SynchIInv, Waiting, ArgInv
<1>3. CASE signal(arg[current]) /\ UNCHANGED <<pc, arg>>
  BY <1>2, <1>3, SignalStep DEF Broadcast
<1>4. CASE Goto("run", NULL) /\ UNCHANGED <<schedVars, value, waiters, cond_waiters>>
  BY <1>1, <1>2, <1>4, BroadcastGoto DEF Broadcast
<1> QED
  BY <1>3, <1>4 DEF Broadcast

-----------------------------------------------------------------------------
(* thread.c and timer.c under the threads. *)

\* Locking says nothing about who runs, is ready or blocked.
LEMMA LockingUndisturbed ==
  ASSUME SynchIInv, UNCHANGED <<value, holder, lock_list>>,
         \A t \in Thread : \A x \in {"unborn", "dying"} : status'[t] = x => status[t] = x,
         \A t \in Thread :
           /\ pc'[t] \in {"granted", "releasing"} <=> pc[t] \in {"granted", "releasing"}
           /\ pc'[t] \in {"granted", "releasing"} => arg'[t] = arg[t]
  PROVE  Locking'
<1>1. \A t \in Thread, l \in Lock : Owns(t, l)' <=> Owns(t, l)
  BY DEF Owns
<1>2. OneOwner'
  BY <1>1 DEF SynchIInv, Locking, OneOwner
<1>3. LockListInv'
  BY <1>1 DEF SynchIInv, Locking, LockListInv
<1>4. GapInv'
  BY DEF SynchIInv, Locking, GapInv
<1> QED
  BY <1>2, <1>3, <1>4 DEF Locking

\* The scheduler moves threads on and off the processor and in and out of the
\* sleep queue.
LEMMA SchedOnlyStep ==
  ASSUME SynchIInv, SchedIInv', UNCHANGED synchVars,
         \A t \in Thread : \A x \in {"unborn", "dying"} : status'[t] = x => status[t] = x,
         \A t \in Thread : status'[t] = "blocked" =>
           \/ status[t] = "blocked" /\ (t \in Range(sleep_list) => t \in Range(sleep_list'))
           \/ t \in Range(sleep_list'),
         \A t \in Thread : status[t] = "blocked" /\ t \notin Range(sleep_list)
                             => status'[t] = "blocked",
         \A t \in Range(sleep_list') : t \in Range(sleep_list) \/ (status[t] = "running" /\ pc[t] = "run")
  PROVE  SynchIInv'
<1>1. UNCHANGED <<value, waiters, holder, lock_list, cond_waiters, pc, arg, in_wait>>
  BY DEF synchVars
<1>2. SynchTypes'
  BY <1>1 DEF SynchIInv, SynchTypes
<1>3. Range(sleep_list) \subseteq Thread /\ Range(sleep_list') \subseteq Thread
  BY RangeOfSeq DEF SynchIInv, SchedIInv, SchedTypeOK
<1>4. ElemInv'
  <2>1. ASSUME NEW r \in Semaphore
        PROVE  /\ IsInjective(waiters'[r])
               /\ \A t \in Range(waiters'[r]) : status'[t] = "blocked" /\ WaitsFor(t, r)'
    <3>1. IsInjective(waiters[r]) /\ waiters[r] \in Seq(Thread)
      BY DEF SynchIInv, SynchTypes, Waiting, ElemInv
    <3>2. ASSUME NEW t \in Range(waiters[r])
          PROVE  t \in Thread /\ status[t] = "blocked" /\ WaitsFor(t, r) /\ t \notin Range(sleep_list)
      BY <3>1, RangeOfSeq DEF SynchIInv, Waiting, ElemInv, IdleInv, WaitsFor
    <3> QED
      BY <1>1, <3>1, <3>2 DEF WaitsFor
  <2>2. ASSUME NEW t \in Thread, status'[t] = "blocked"
        PROVE  \/ pc'[t] = "down" /\ t \in Range(waiters'[arg'[t]]) /\ t \notin Range(sleep_list')
               \/ pc'[t] = "run" /\ t \in Range(sleep_list')
               \/ \E u \in Thread : pc'[u] = "creating" /\ arg'[u] = t
    <3>1. CASE t \in Range(sleep_list')
      BY <1>1, <3>1 DEF SynchIInv, Waiting, IdleInv
    <3>2. CASE t \notin Range(sleep_list')
      BY <1>1, <2>2, <3>2 DEF SynchIInv, Waiting, ElemInv
    <3> QED
      BY <3>1, <3>2
  <2> QED
    BY <2>1, <2>2 DEF ElemInv
<1>5. ArgInv'
  BY <1>1 DEF SynchIInv, Waiting, ArgInv
<1>6. IdleInv'
  BY <1>1, <1>3 DEF SynchIInv, Waiting, IdleInv
<1>7. Locking'
  BY <1>1, LockingUndisturbed
<1> QED
  BY <1>2, <1>4, <1>5, <1>6, <1>7 DEF SynchIInv, Waiting

\* thread_yield() changes who runs and who is ready.
LEMMA YieldEffect ==
  ASSUME current \in AllThreads, NEW queue \in Seq(Thread), NEW st \in [AllThreads -> Status],
         \A t \in Range(queue) : st[t] = "ready", st[current] = "running",
         thread_yield(queue, st)
  PROVE  \A t \in Thread : \A x \in {"unborn", "blocked", "dying"} :
           status'[t] = x <=> st[t] = x
<1> DEFINE q2  == IF current = Idle THEN queue ELSE Append(queue, current)
           st2 == [st EXCEPT ![current] = "ready"]
<1>1. schedule(q2, st2)
  BY DEF thread_yield
<1>2. q2 \in Seq(Thread) /\ Range(q2) \subseteq Range(queue) \cup {current}
  BY PushBack DEF AllThreads
<1>3. st2 \in [AllThreads -> Status] /\ \A t \in Range(q2) : st2[t] = "ready"
  <2>1. Range(q2) \subseteq AllThreads
    BY <1>2, RangeOfSeq DEF AllThreads
  <2>2. \A t \in AllThreads : st2[t] = IF t = current THEN "ready" ELSE st[t]
    OBVIOUS
  <2> QED
    BY <1>2, <2>1, <2>2 DEF Status
<1>4. \A t \in Thread : \A x \in {"unborn", "blocked", "dying"} : st2[t] = x <=> st[t] = x
  BY DEF AllThreads
<1> HIDE DEF q2, st2
<1> QED
  BY <1>1, <1>2, <1>3, <1>4, ScheduleEffect

\* timer_interrupt() wakes sleepers only.
LEMMA TimerEffect ==
  ASSUME SchedIInv, timer_interrupt
  PROVE  /\ Range(sleep_list') \subseteq Range(sleep_list)
         /\ \A t \in Thread :
              /\ \A x \in {"unborn", "dying"} : status'[t] = x => status[t] = x
              /\ status'[t] = "blocked" =>
                   status[t] = "blocked" /\ (t \in Range(sleep_list) => t \in Range(sleep_list'))
              /\ status[t] = "blocked" /\ t \notin Range(sleep_list) => status'[t] = "blocked"
<1> DEFINE k     == DueWithin(1)
           woken == SubSeq(sleep_list, 1, k)
           rest  == SubSeq(sleep_list, k + 1, Len(sleep_list))
           queue == ready_list \o woken
           st    == [t \in AllThreads |-> IF t \in Range(woken) THEN "ready" ELSE status[t]]
<1>1. /\ sleep_list' = rest
      /\ \/ /\ ready_list' = queue /\ status' = st
         \/ thread_yield(queue, st)
  BY DEF timer_interrupt, DueCount
<1>2. /\ sleep_list \in Seq(Thread) /\ left \in [Thread -> Nat]
      /\ ready_list \in Seq(Thread) /\ status \in [AllThreads -> Status]
      /\ current \in AllThreads /\ status[current] = "running"
      /\ \A t \in Range(sleep_list) : t \in Thread /\ status[t] = "blocked"
      /\ \A t \in Range(ready_list) : t \in Thread /\ status[t] = "ready"
  BY RangeOfSeq DEF SchedIInv, SchedTypeOK, QueueInv
<1>3. k \in 0..Len(sleep_list)
  BY <1>2, DueWithinSplits
<1> HIDE DEF k
<1>4. /\ woken \in Seq(Thread) /\ Range(sleep_list) = Range(woken) \cup Range(rest)
  BY <1>2, <1>3, Cut
<1> HIDE DEF woken, rest
<1>5. queue \in Seq(Thread) /\ Range(queue) = Range(ready_list) \cup Range(woken)
  BY <1>2, <1>4, Splice
<1>6. \A t \in AllThreads : st[t] = IF t \in Range(woken) THEN "ready" ELSE status[t]
  OBVIOUS
<1>7. st \in [AllThreads -> Status]
  BY <1>2 DEF Status
<1> HIDE DEF queue, st
<1>8. \A t \in Range(queue) : st[t] = "ready"
  BY <1>2, <1>4, <1>5, <1>6 DEF AllThreads
<1>9. st[current] = "running"
  BY <1>2, <1>4, <1>6
<1>10. \A t \in Thread : \A x \in {"unborn", "blocked", "dying"} : status'[t] = x <=> st[t] = x
  BY <1>1, <1>2, <1>5, <1>7, <1>8, <1>9, YieldEffect
<1> QED
  BY <1>1, <1>2, <1>4, <1>6, <1>10 DEF AllThreads

\* The timer interrupt.
LEMMA TickStep ==
  ASSUME SynchAssumption, SynchIInv, Tick
  PROVE  SynchIInv' /\ [SchedNext]_schedVars
<1>1. timer_interrupt /\ UNCHANGED synchVars
  BY DEF Tick
<1>2. SchedIInv'
  BY <1>1, SchedAssumption, TimerStep DEF SynchIInv
<1>3. SynchIInv'
  BY <1>1, <1>2, TimerEffect, SchedOnlyStep DEF SynchIInv
<1> QED
  BY <1>1, <1>3 DEF SchedNext

\* The idle thread has no part in the primitives.
LEMMA IdleLoopStep ==
  ASSUME SynchAssumption, SynchIInv, IdleStep
  PROVE  SynchIInv' /\ [SchedNext]_schedVars
<1> DEFINE st == [status EXCEPT ![Idle] = "blocked"]
<1>1. /\ IdleLoop /\ UNCHANGED synchVars /\ UNCHANGED <<sleep_list, left>>
      /\ schedule(ready_list, st)
  BY DEF IdleStep, IdleLoop, thread_block
<1>2. SchedIInv'
  BY <1>1, SchedAssumption, NextSchedIInv DEF SynchIInv, SchedNext
<1>3. /\ ready_list \in Seq(Thread) /\ status \in [AllThreads -> Status] /\ Idle \notin Thread
      /\ \A t \in Range(ready_list) : t \in Thread /\ status[t] = "ready"
  BY RangeOfSeq, SchedAssumption DEF SynchIInv, SchedIInv, SchedTypeOK, QueueInv, SchedAssumption
<1>4. /\ st \in [AllThreads -> Status]
      /\ \A t \in Thread : st[t] = status[t]
      /\ \A t \in Range(ready_list) : st[t] = "ready"
  BY <1>3 DEF AllThreads, Status
<1> HIDE DEF st
<1>5. \A t \in Thread : \A x \in {"unborn", "blocked", "dying"} : status'[t] = x <=> status[t] = x
  BY <1>1, <1>3, <1>4, ScheduleEffect
<1>6. SynchIInv'
  BY <1>1, <1>2, <1>5, SchedOnlyStep
<1> QED
  BY <1>1, <1>6 DEF SchedNext

\* thread_yield() and timer_sleep().
LEMMA YieldOrSleepStep ==
  ASSUME SynchAssumption, SynchIInv, YieldOrSleep
  PROVE  SynchIInv' /\ [SchedNext]_schedVars
<1>1. PICK me \in Thread : me = current /\ pc[me] = "run" /\ status[me] = "running"
  BY AtThread DEF YieldOrSleep, At
<1>2. UNCHANGED synchVars
  BY DEF YieldOrSleep
<1>3. CASE Yield
  <2>1. SchedIInv' /\ [SchedNext]_schedVars
    BY <1>3, SchedAssumption, YieldStep DEF SynchIInv, SchedNext
  <2>2. /\ ready_list \in Seq(Thread) /\ status \in [AllThreads -> Status] /\ current \in AllThreads
        /\ \A t \in Range(ready_list) : status[t] = "ready"
        /\ thread_yield(ready_list, status) /\ status[current] = "running"
        /\ UNCHANGED <<sleep_list, left>>
    BY <1>1, <1>3, RangeOfSeq DEF Yield, SynchIInv, SchedIInv, SchedTypeOK, QueueInv
  <2>3. \A t \in Thread : \A x \in {"unborn", "blocked", "dying"} : status'[t] = x <=> status[t] = x
    BY <2>2, YieldEffect
  <2>4. SynchIInv'
    BY <1>2, <2>1, <2>2, <2>3, SchedOnlyStep
  <2> QED
    BY <2>1, <2>4
<1>4. ASSUME NEW n \in 1..MaxSleep, timer_sleep(n)
      PROVE  SynchIInv' /\ [SchedNext]_schedVars
  <2>1. SchedIInv' /\ [SchedNext]_schedVars
    BY <1>4, SchedAssumption, SleepStep DEF SynchIInv, SchedNext, SchedAssumption
  <2>2. /\ sleep_list \in Seq(Thread) /\ left \in [Thread -> Nat] /\ n \in Nat
        /\ sleep_list' = list_insert_ordered(me, n) /\ thread_block
    BY <1>1, <1>4, SchedAssumption DEF timer_sleep, SynchIInv, SchedIInv, SchedTypeOK, SchedAssumption
  <2>3. Range(sleep_list') = Range(sleep_list) \cup {me}
    BY <2>2, InsertRange
  <2>4. /\ \A t \in Thread : status'[t] = "blocked" <=> (t = me \/ status[t] = "blocked")
        /\ \A t \in Thread : \A x \in {"unborn", "dying"} : status'[t] = x <=> status[t] = x
    BY <1>1, <2>2, BlockEffect DEF SynchIInv
  <2>5. SynchIInv'
    BY <1>1, <1>2, <2>1, <2>3, <2>4, SchedOnlyStep
  <2> QED
    BY <2>1, <2>5
<1> QED
  BY <1>3, <1>4 DEF YieldOrSleep

\* thread_create() names a thread nobody knows yet.
LEMMA CreateStep ==
  ASSUME SynchAssumption, SynchIInv, NEW u \in Thread, Create(u)
  PROVE  SynchIInv' /\ [SchedNext]_schedVars
<1>1. PICK me \in Thread : me = current /\ pc[me] = "run" /\ status[me] = "running"
  BY AtThread DEF Create, At
<1>2. /\ init_thread(u) /\ status[u] = "unborn" /\ u # me
      /\ status' = [status EXCEPT ![u] = "blocked"]
      /\ pc' = [pc EXCEPT ![me] = "creating"] /\ arg' = [arg EXCEPT ![me] = u]
      /\ UNCHANGED <<sleep_list, value, waiters, holder, lock_list, cond_waiters, in_wait>>
  BY <1>1 DEF Create, init_thread, Goto
<1>3. SchedIInv' /\ [SchedNext]_schedVars
  BY <1>2, SchedAssumption, InitThreadStep DEF SynchIInv, SchedNext
<1>4. \A t \in Thread : /\ status'[t] = IF t = u THEN "blocked" ELSE status[t]
                        /\ pc'[t] = IF t = me THEN "creating" ELSE pc[t]
                        /\ arg'[t] = IF t = me THEN u ELSE arg[t]
  BY <1>2 DEF SynchIInv, SynchTypes, SchedIInv, SchedTypeOK, AllThreads
<1>5. SynchTypes'
  BY <1>2 DEF SynchIInv, SynchTypes, Labels, Semaphore
<1>6. ElemInv'
  <2>1. ASSUME NEW r \in Semaphore
        PROVE  /\ IsInjective(waiters'[r])
               /\ \A t \in Range(waiters'[r]) : status'[t] = "blocked" /\ WaitsFor(t, r)'
    <3>1. ASSUME NEW t \in Range(waiters[r])
          PROVE  t \in Thread /\ status[t] = "blocked" /\ WaitsFor(t, r) /\ t # me
      BY <1>1, RangeOfSeq DEF SynchIInv, SynchTypes, Waiting, ElemInv
    <3> QED
      BY <1>2, <1>4, <3>1 DEF SynchIInv, Waiting, ElemInv, WaitsFor
  <2>2. ASSUME NEW t \in Thread, status'[t] = "blocked"
        PROVE  \/ pc'[t] = "down" /\ t \in Range(waiters'[arg'[t]]) /\ t \notin Range(sleep_list')
               \/ pc'[t] = "run" /\ t \in Range(sleep_list')
               \/ \E v \in Thread : pc'[v] = "creating" /\ arg'[v] = t
    <3>1. CASE t = u
      BY <1>4, <3>1
    <3>2. CASE t # u
      BY <1>1, <1>2, <1>4, <2>2, <3>2 DEF SynchIInv, Waiting, ElemInv
    <3> QED
      BY <3>1, <3>2
  <2> QED
    BY <2>1, <2>2 DEF ElemInv
<1>7. ArgInv'
  BY <1>2, <1>4 DEF SynchIInv, Waiting, ArgInv
<1>8. IdleInv'
  <2>1. \A t \in Range(sleep_list) : t \in Thread /\ status[t] = "blocked" /\ pc[t] = "run"
    BY RangeOfSeq DEF SynchIInv, SchedIInv, SchedTypeOK, QueueInv, Waiting, IdleInv
  <2>2. \A v \in Thread : pc[v] = "creating" =>
          /\ arg[v] \in Thread /\ status[arg[v]] = "blocked" /\ pc[arg[v]] = "run"
          /\ arg[v] # u /\ arg[v] # me
    BY <1>1, <1>2 DEF SynchIInv, Waiting, IdleInv
  <2>3. \A t \in Range(sleep_list') : pc'[t] = "run"
    BY <1>1, <1>2, <1>4, <2>1
  <2>4. \A t \in Thread : status'[t] = "unborn" => pc'[t] = "run"
    BY <1>1, <1>4 DEF SynchIInv, Waiting, IdleInv
  <2>5. ASSUME NEW v \in Thread, pc'[v] = "creating"
        PROVE  /\ arg'[v] \in Thread /\ status'[arg'[v]] = "blocked" /\ pc'[arg'[v]] = "run"
               /\ arg'[v] \notin Range(sleep_list')
               /\ \A w \in Thread : pc'[w] = "creating" /\ arg'[w] = arg'[v] => w = v
    <3>1. CASE v = me
      BY <1>1, <1>2, <1>4, <2>1, <2>2, <3>1 DEF SynchIInv, Waiting, IdleInv
    <3>2. CASE v # me
      BY <1>1, <1>2, <1>4, <2>2, <2>5, <3>2 DEF SynchIInv, Waiting, IdleInv
    <3> QED
      BY <3>1, <3>2
  <2> QED
    BY <2>3, <2>4, <2>5 DEF IdleInv
<1>9. Locking'
  BY <1>1, <1>2, <1>4, LockingUndisturbed
<1> QED
  BY <1>3, <1>5, <1>6, <1>7, <1>8, <1>9 DEF SynchIInv, Waiting

\* Its thread_unblock() finds the new thread blocked.
LEMMA StartStep ==
  ASSUME SynchAssumption, SynchIInv, Start
  PROVE  SynchIInv' /\ [SchedNext]_schedVars
<1>1. PICK me \in Thread : me = current /\ pc[me] = "creating" /\ status[me] = "running"
  BY AtThread DEF Start, At
<1>2. PICK u \in Thread : /\ u = arg[me] /\ status[u] = "blocked" /\ pc[u] = "run"
                          /\ u \notin Range(sleep_list)
  BY <1>1 DEF SynchIInv, Waiting, IdleInv
<1>3. /\ thread_unblock(u) /\ UNCHANGED <<sleep_list, left>>
      /\ pc' = [pc EXCEPT ![me] = "run"] /\ arg' = [arg EXCEPT ![me] = NULL]
      /\ UNCHANGED <<value, waiters, holder, lock_list, cond_waiters, in_wait>>
  BY <1>1, <1>2 DEF Start, Goto
<1>4. SchedIInv' /\ [SchedNext]_schedVars
  BY <1>2, <1>3, SchedAssumption, UnblockStep DEF SynchIInv, SchedNext, Unblock, Wakeable
<1>5. \A t \in Thread : status'[t] = IF t = u THEN "ready" ELSE status[t]
  BY <1>3, UnblockEffect DEF SynchIInv
<1>6. \A t \in Thread : /\ pc'[t] = IF t = me THEN "run" ELSE pc[t]
                        /\ t # me => arg'[t] = arg[t]
  BY <1>3 DEF SynchIInv, SynchTypes
<1>7. SynchTypes'
  BY <1>3 DEF SynchIInv, SynchTypes, Labels
<1>8. \A v \in Thread : pc[v] = "creating" /\ v # me => arg[v] # u
  BY <1>1, <1>2 DEF SynchIInv, Waiting, IdleInv
<1>9. ElemInv'
  <2>1. ASSUME NEW r \in Semaphore
        PROVE  /\ IsInjective(waiters'[r])
               /\ \A t \in Range(waiters'[r]) : status'[t] = "blocked" /\ WaitsFor(t, r)'
    <3>1. ASSUME NEW t \in Range(waiters[r])
          PROVE  t \in Thread /\ status[t] = "blocked" /\ WaitsFor(t, r) /\ t # me /\ t # u
      BY <1>1, <1>2, RangeOfSeq DEF SynchIInv, SynchTypes, Waiting, ElemInv, WaitsFor
    <3> QED
      BY <1>3, <1>5, <1>6, <3>1 DEF SynchIInv, Waiting, ElemInv, WaitsFor
  <2>2. ASSUME NEW t \in Thread, status'[t] = "blocked"
        PROVE  \/ pc'[t] = "down" /\ t \in Range(waiters'[arg'[t]]) /\ t \notin Range(sleep_list')
               \/ pc'[t] = "run" /\ t \in Range(sleep_list')
               \/ \E v \in Thread : pc'[v] = "creating" /\ arg'[v] = t
    <3>1. t # u /\ t # me /\ status[t] = "blocked"
      BY <1>1, <1>5, <2>2
    <3> QED
      BY <1>2, <1>3, <1>6, <3>1 DEF SynchIInv, Waiting, ElemInv
  <2> QED
    BY <2>1, <2>2 DEF ElemInv
<1>10. ArgInv'
  BY <1>3, <1>6 DEF SynchIInv, Waiting, ArgInv
<1>11. IdleInv'
  <2>1. \A t \in Range(sleep_list) : t \in Thread
    BY RangeOfSeq DEF SynchIInv, SchedIInv, SchedTypeOK
  <2> QED
    BY <1>1, <1>3, <1>5, <1>6, <1>8, <2>1 DEF SynchIInv, Waiting, IdleInv
<1>12. Locking'
  BY <1>1, <1>3, <1>5, <1>6, LockingUndisturbed
<1> QED
  BY <1>4, <1>7, <1>9, <1>10, <1>11, <1>12 DEF SynchIInv, Waiting

-----------------------------------------------------------------------------
(* thread_exit(). *)

\* A sequence that has nothing at two indices has nothing twice.
LEMMA InjectiveByIndex ==
  ASSUME NEW D, NEW f, DOMAIN f = D, \A i, j \in D : f[i] = f[j] => i = j
  PROVE  IsInjective(f)
  BY DEF IsInjective

\* release_locks() wakes the first waiter of each lock it releases, no thread
\* twice, and each is blocked: its ASSERTs hold.
LEMMA ExitWakes ==
  ASSUME SynchIInv, NEW held \in Seq(Lock), IsInjective(held),
         NEW wanted,
         \A i : i \in wanted <=> i \in 1..Len(held) /\ waiters[held[i]] # <<>>,
         NEW order \in Ascending(wanted)
  PROVE  LET woken == [i \in 1..Cardinality(wanted) |-> Head(waiters[held[order[i]]])]
         IN  /\ woken \in WakeOrders /\ woken \in Seq(Thread)
             /\ Range(woken) = {Head(waiters[held[i]]) : i \in wanted}
<1> DEFINE n     == Cardinality(wanted)
           woken == [i \in 1..Cardinality(wanted) |-> Head(waiters[held[order[i]]])]
<1>1. IsFiniteSet(wanted) /\ n \in Nat /\ wanted \subseteq Nat
  <2>1. IsFiniteSet(1..Len(held)) /\ wanted \subseteq 1..Len(held)
    BY FS_Interval
  <2> QED
    BY <2>1, FS_Subset, FS_CardinalityType
<1> HIDE DEF n
<1>2. /\ order \in [1..n -> wanted] /\ Range(order) = wanted
      /\ \A i, j \in 1..n : i < j => order[i] < order[j]
  BY DEF Ascending, n
<1>3. \A i, j \in 1..n : order[i] = order[j] => i = j
  <2>1. ASSUME NEW i \in 1..n, NEW j \in 1..n, order[i] = order[j], i # j PROVE FALSE
    <3>1. i < j \/ j < i
      BY <1>1, <2>1
    <3>2. order[i] \in Nat /\ order[j] \in Nat
      BY <1>1, <1>2
    <3> QED
      BY <1>2, <2>1, <3>1, <3>2
  <2> QED
    BY <2>1
<1>4. \A i \in wanted : /\ held[i] \in Lock /\ held[i] \in Semaphore
                        /\ Head(waiters[held[i]]) \in Thread
                        /\ Wakeable(Head(waiters[held[i]]))
                        /\ WaitsFor(Head(waiters[held[i]]), held[i])
  <2>1. ASSUME NEW i \in wanted
        PROVE  held[i] \in Lock /\ held[i] \in Semaphore /\ waiters[held[i]] # <<>>
    BY DEF Semaphore
  <2> QED
    BY <2>1, WakesBlocked
<1>5. \A i, j \in wanted : Head(waiters[held[i]]) = Head(waiters[held[j]]) => i = j
  <2>1. ASSUME NEW i \in wanted, NEW j \in wanted, Head(waiters[held[i]]) = Head(waiters[held[j]])
        PROVE  i = j
    <3>1. held[i] = held[j]
      BY <1>4, <2>1 DEF WaitsFor
    <3>2. i \in 1..Len(held) /\ j \in 1..Len(held)
      OBVIOUS
    <3> QED
      BY <3>1, <3>2, RangeByIndex
  <2> QED
    BY <2>1
<1>6. /\ woken \in [1..n -> Thread] /\ DOMAIN woken = 1..n
      /\ \A i \in 1..n : woken[i] = Head(waiters[held[order[i]]])
  BY <1>2, <1>4 DEF n
<1> HIDE DEF woken
<1>7. IsInjective(woken)
  <2>1. \A i, j \in 1..n : woken[i] = woken[j] => i = j
    <3>1. SUFFICES ASSUME NEW i \in 1..n, NEW j \in 1..n, woken[i] = woken[j] PROVE i = j
      OBVIOUS
    <3>2. order[i] \in wanted /\ order[j] \in wanted
      BY <1>2
    <3>3. order[i] = order[j]
      BY <1>5, <1>6, <3>1, <3>2
    <3> QED
      BY <1>3, <3>3
  <2>2. DOMAIN woken = 1..n
    BY <1>6
  <2> QED
    BY <2>1, <2>2, InjectiveByIndex
<1>8. Range(woken) = {Head(waiters[held[i]]) : i \in wanted}
  <2>1. \A x : x \in Range(woken) <=> \E i \in 1..n : x = Head(waiters[held[order[i]]])
    BY <1>6 DEF Range
  <2>2. \A j \in wanted : \E i \in 1..n : order[i] = j
    BY <1>2 DEF Range
  <2> QED
    BY <1>2, <2>1, <2>2
<1>9. n \in 0..Cardinality(Thread)
  <2>1. IsFiniteSet(Thread) /\ Cardinality(Thread) \in Nat
    BY SchedAssumption, FS_CardinalityType DEF SchedAssumption
  <2>2. PICK f : f = [i \in wanted |-> Head(waiters[held[i]])]
    OBVIOUS
  <2>3. f \in Injection(wanted, Thread)
    BY <1>4, <1>5, <2>2 DEF Injection, IsInjective
  <2>4. Cardinality(wanted) =< Cardinality(Thread)
    BY <2>1, <2>3, FS_Injection
  <2> QED
    BY <1>1, <2>1, <2>4 DEF n
<1>10. \A t \in Range(woken) : Wakeable(t)
  BY <1>4, <1>8
<1>11. woken \in Seq(Thread)
  <2>1. \A f \in [1..n -> Thread] : f \in Seq(Thread)
    BY <1>1
  <2> QED
    BY <1>6, <2>1, Zenon
<1>12. woken \in UNION {[1..m -> Thread] : m \in 0..Cardinality(Thread)}
  BY <1>6, <1>9
<1>13. woken \in WakeOrders
  BY <1>7, <1>10, <1>12 DEF WakeOrders
<1> QED
  BY <1>8, <1>11, <1>13 DEF woken

\* What thread_exit() does to the statuses.
LEMMA ExitEffect ==
  ASSUME SchedIInv, NEW me \in Thread, me = current,
         NEW w \in Seq(Thread), \A t \in Range(w) : Wakeable(t), thread_exit(w)
  PROVE  /\ sleep_list' = sleep_list
         /\ \A t \in Thread :
              /\ status'[t] = "unborn" <=> status[t] = "unborn"
              /\ status'[t] = "dying" <=> (t = me \/ status[t] = "dying")
              /\ status'[t] = "blocked" <=> (status[t] = "blocked" /\ t \notin Range(w))
<1> DEFINE queue == ready_list \o w
           st == [t \in AllThreads |-> CASE t = current     -> "dying"
                                         [] t \in Range(w) -> "ready"
                                         [] OTHER          -> status[t]]
<1>1. schedule(queue, st) /\ sleep_list' = sleep_list
  BY DEF thread_exit
<1>2. /\ status[me] = "running" /\ status \in [AllThreads -> Status]
      /\ ready_list \in Seq(Thread)
      /\ \A t \in Range(ready_list) : t \in Thread /\ status[t] = "ready"
      /\ \A t \in Range(w) : t \in Thread /\ status[t] = "blocked"
  BY RangeOfSeq DEF SchedIInv, SchedTypeOK, QueueInv, Wakeable
<1>3. queue \in Seq(Thread) /\ Range(queue) = Range(ready_list) \cup Range(w)
  BY <1>2, Splice
<1>4. \A t \in AllThreads : /\ t = me => st[t] = "dying"
                            /\ t \in Range(w) => st[t] = "ready"
                            /\ t # me /\ t \notin Range(w) => st[t] = status[t]
  BY <1>2
<1>5. st \in [AllThreads -> Status]
  BY <1>2 DEF Status
<1> HIDE DEF queue, st
<1>6. \A t \in Range(queue) : st[t] = "ready"
  BY <1>2, <1>3, <1>4 DEF AllThreads
<1>7. \A t \in Thread : \A x \in {"unborn", "blocked", "dying"} : status'[t] = x <=> st[t] = x
  BY <1>1, <1>3, <1>5, <1>6, ScheduleEffect
<1> QED
  BY <1>1, <1>2, <1>4, <1>7 DEF AllThreads

\* Whom release_locks() of a dying thread wakes, and what becomes of the statuses.
LEMMA ExitWoken ==
  ASSUME SynchIInv, ThreadExit
  PROVE  \E w \in WakeOrders :
           /\ w \in Seq(Thread) /\ thread_exit(w)
           /\ \A t : t \in Range(w) <=>
                \E i \in 1..Len(lock_list[current]) :
                  /\ waiters[lock_list[current][i]] # <<>>
                  /\ t = Head(waiters[lock_list[current][i]])
           /\ sleep_list' = sleep_list
           /\ \A t \in Thread :
                /\ status'[t] = "unborn" <=> status[t] = "unborn"
                /\ status'[t] = "dying" <=> (t = current \/ status[t] = "dying")
                /\ status'[t] = "blocked" <=> (status[t] = "blocked" /\ t \notin Range(w))
<1>1. PICK me \in Thread : me = current
  BY AtThread DEF ThreadExit, At
<1>2. PICK held : held = lock_list[me]
  OBVIOUS
<1>3. PICK wanted : wanted = {i \in 1..Len(held) : waiters[held[i]] # <<>>}
  OBVIOUS
<1>4. PICK order \in Ascending(wanted) :
        thread_exit([i \in 1..Cardinality(wanted) |-> Head(waiters[held[order[i]]])])
  BY <1>1, <1>2, <1>3 DEF ThreadExit
<1>5. PICK w : w = [i \in 1..Cardinality(wanted) |-> Head(waiters[held[order[i]]])]
  OBVIOUS
<1>6. held \in Seq(Lock) /\ IsInjective(held)
  BY <1>2 DEF SynchIInv, SynchTypes, Locking, LockListInv
<1>7. \A i : i \in wanted <=> i \in 1..Len(held) /\ waiters[held[i]] # <<>>
  BY <1>3
<1>8. /\ w \in WakeOrders /\ w \in Seq(Thread)
      /\ Range(w) = {Head(waiters[held[i]]) : i \in wanted}
  BY <1>5, <1>6, <1>7, ExitWakes
<1>9. thread_exit(w) /\ \A t \in Range(w) : Wakeable(t)
  BY <1>4, <1>5, <1>8 DEF WakeOrders
<1>10. \A t : t \in Range(w) <=>
          \E i \in 1..Len(lock_list[current]) :
            /\ waiters[lock_list[current][i]] # <<>>
            /\ t = Head(waiters[lock_list[current][i]])
  BY <1>1, <1>2, <1>7, <1>8
<1>11. /\ sleep_list' = sleep_list
       /\ \A t \in Thread :
            /\ status'[t] = "unborn" <=> status[t] = "unborn"
            /\ status'[t] = "dying" <=> (t = current \/ status[t] = "dying")
            /\ status'[t] = "blocked" <=> (status[t] = "blocked" /\ t \notin Range(w))
  BY <1>1, <1>8, <1>9, ExitEffect DEF SynchIInv
<1>12. w \in WakeOrders
  BY <1>8
<1> WITNESS w \in WakeOrders
<1> QED
  BY <1>8, <1>9, <1>10, <1>11

\* thread_exit(), which releases the locks the thread holds.
LEMMA ThreadExitStep ==
  ASSUME SynchAssumption, SynchIInv, ThreadExit
  PROVE  SynchIInv' /\ [SchedNext]_schedVars
<1>1. PICK me \in Thread : me = current /\ pc[me] = "run" /\ status[me] = "running"
  BY AtThread DEF ThreadExit, At
<1>2. PICK held : held = lock_list[me]
  OBVIOUS
<1>3. PICK wanted : wanted = {i \in 1..Len(held) : waiters[held[i]] # <<>>}
  OBVIOUS
<1>4. /\ holder' = [l \in Lock |-> IF l \in Range(held) THEN NULL ELSE holder[l]]
      /\ lock_list' = [lock_list EXCEPT ![me] = <<>>]
      /\ value' = [s \in Semaphore |-> IF s \in Range(held) THEN value[s] + 1 ELSE value[s]]
      /\ waiters' = [s \in Semaphore |-> IF \E i \in wanted : s = held[i]
                                           THEN Tail(waiters[s]) ELSE waiters[s]]
      /\ UNCHANGED <<cond_waiters, pc, arg, in_wait>>
  BY <1>1, <1>2, <1>3 DEF ThreadExit
<1>6. /\ held \in Seq(Lock) /\ IsInjective(held) /\ Range(held) \subseteq Lock
      /\ \A l \in Lock : l \in Range(held) <=> holder[l] = me
  BY <1>2, RangeOfSeq DEF SynchIInv, SynchTypes, Locking, LockListInv
<1>7. PICK w \in WakeOrders :
        /\ w \in Seq(Thread) /\ thread_exit(w)
        /\ \A t : t \in Range(w) <=> \E i \in wanted : t = Head(waiters[held[i]])
        /\ sleep_list' = sleep_list
        /\ \A t \in Thread :
             /\ status'[t] = "unborn" <=> status[t] = "unborn"
             /\ status'[t] = "dying" <=> (t = me \/ status[t] = "dying")
             /\ status'[t] = "blocked" <=> (status[t] = "blocked" /\ t \notin Range(w))
  <2>1. PICK w \in WakeOrders :
          /\ w \in Seq(Thread) /\ thread_exit(w)
          /\ \A t : t \in Range(w) <=>
               \E i \in 1..Len(lock_list[current]) :
                 /\ waiters[lock_list[current][i]] # <<>>
                 /\ t = Head(waiters[lock_list[current][i]])
          /\ sleep_list' = sleep_list
          /\ \A t \in Thread :
               /\ status'[t] = "unborn" <=> status[t] = "unborn"
               /\ status'[t] = "dying" <=> (t = current \/ status[t] = "dying")
               /\ status'[t] = "blocked" <=> (status[t] = "blocked" /\ t \notin Range(w))
    BY ExitWoken
  <2>2. \A t : t \in Range(w) <=> \E i \in wanted : t = Head(waiters[held[i]])
    BY <1>1, <1>2, <1>3, <2>1
  <2> QED
    BY <1>1, <2>1, <2>2
<1>8. SchedIInv' /\ [SchedNext]_schedVars
  BY <1>7, SchedAssumption, ExitStep DEF SynchIInv, SchedNext
<1>9. /\ sleep_list' = sleep_list
      /\ \A t \in Thread :
           /\ status'[t] = "unborn" <=> status[t] = "unborn"
           /\ status'[t] = "dying" <=> (t = me \/ status[t] = "dying")
           /\ status'[t] = "blocked" <=> (status[t] = "blocked" /\ t \notin Range(w))
  BY <1>7
<1>10. \A i \in wanted : /\ held[i] \in Semaphore
                         /\ waiters[held[i]] \in Seq(Thread) /\ waiters[held[i]] # <<>>
                         /\ WaitsFor(Head(waiters[held[i]]), held[i])
  <2>1. ASSUME NEW i \in wanted PROVE held[i] \in Semaphore /\ waiters[held[i]] # <<>>
    BY <1>3, <1>6 DEF Semaphore
  <2> QED
    BY <2>1, WakesBlocked DEF SynchIInv, SynchTypes
<1>11. \A t \in Range(w) : pc[t] = "down"
  BY <1>7, <1>10 DEF WaitsFor
<1>12. ASSUME NEW r \in Semaphore
       PROVE  /\ waiters'[r] \in Seq(Thread) /\ IsInjective(waiters'[r])
              /\ \A t \in Range(waiters'[r]) : t \in Range(waiters[r]) /\ t \notin Range(w)
              /\ \A t \in Range(waiters[r]) : t \in Range(w) \/ t \in Range(waiters'[r])
  <2>1. /\ waiters[r] \in Seq(Thread) /\ IsInjective(waiters[r])
        /\ \A t \in Range(waiters[r]) : WaitsFor(t, r)
    BY DEF SynchIInv, SynchTypes, Waiting, ElemInv
  <2>2. \A i \in wanted : Head(waiters[held[i]]) \in Range(waiters[r]) => held[i] = r
    BY <1>10, <2>1 DEF WaitsFor
  <2>3. CASE \E i \in wanted : r = held[i]
    <3>1. PICK i \in wanted : r = held[i]
      BY <2>3
    <3>2. waiters'[r] = Tail(waiters[r]) /\ waiters[r] # <<>> /\ Head(waiters[r]) \in Range(w)
      BY <1>4, <1>7, <1>10, <2>3, <3>1
    <3>3. /\ Tail(waiters[r]) \in Seq(Thread) /\ IsInjective(Tail(waiters[r]))
          /\ Range(waiters[r]) = Range(Tail(waiters[r])) \cup {Head(waiters[r])}
          /\ Head(waiters[r]) \notin Range(Tail(waiters[r]))
      BY <2>1, <3>2, PopFront
    <3>4. \A t \in Range(waiters[r]) : t \in Range(w) => t = Head(waiters[r])
      BY <1>7, <2>2
    <3> QED
      BY <3>2, <3>3, <3>4
  <2>4. CASE ~\E i \in wanted : r = held[i]
    <3>1. waiters'[r] = waiters[r]
      BY <1>4, <2>4
    <3> QED
      BY <1>7, <2>1, <2>2, <2>4, <3>1
  <2> QED
    BY <2>3, <2>4
<1>13. SynchTypes'
  <2>1. holder' \in [Lock -> Thread \cup {NULL}] /\ lock_list' \in [Thread -> Seq(Lock)]
    BY <1>4 DEF SynchIInv, SynchTypes
  <2>2. value' \in [Semaphore -> Nat]
    BY <1>4 DEF SynchIInv, SynchTypes
  <2>3. waiters' \in [Semaphore -> Seq(Thread)]
    <3>1. DOMAIN waiters' = Semaphore /\ waiters' = [s \in Semaphore |-> waiters'[s]]
      BY <1>4
    <3> QED
      BY <1>12, <3>1
  <2> QED
    BY <1>4, <2>1, <2>2, <2>3 DEF SynchIInv, SynchTypes
<1>14. Waiting'
  <2>1. ASSUME NEW r \in Semaphore
        PROVE  /\ IsInjective(waiters'[r])
               /\ \A t \in Range(waiters'[r]) : status'[t] = "blocked" /\ WaitsFor(t, r)'
    <3>1. \A t \in Range(waiters[r]) : t \in Thread /\ status[t] = "blocked" /\ WaitsFor(t, r)
      BY RangeOfSeq DEF SynchIInv, SynchTypes, Waiting, ElemInv
    <3> QED
      BY <1>4, <1>9, <1>12, <3>1 DEF WaitsFor
  <2>2. ASSUME NEW t \in Thread, status'[t] = "blocked"
        PROVE  \/ pc'[t] = "down" /\ t \in Range(waiters'[arg'[t]]) /\ t \notin Range(sleep_list')
               \/ pc'[t] = "run" /\ t \in Range(sleep_list')
               \/ \E v \in Thread : pc'[v] = "creating" /\ arg'[v] = t
    <3>1. status[t] = "blocked" /\ t \notin Range(w)
      BY <1>9, <2>2
    <3>2. pc[t] = "down" => arg[t] \in Semaphore
      BY DEF SynchIInv, Waiting, ArgInv
    <3>3. \/ pc[t] = "down" /\ t \in Range(waiters[arg[t]]) /\ t \notin Range(sleep_list)
          \/ pc[t] = "run" /\ t \in Range(sleep_list)
          \/ \E v \in Thread : pc[v] = "creating" /\ arg[v] = t
      BY <3>1 DEF SynchIInv, Waiting, ElemInv
    <3> QED
      BY <1>4, <1>9, <1>12, <3>1, <3>2, <3>3
  <2>3. ElemInv'
    BY <2>1, <2>2 DEF ElemInv
  <2>4. ArgInv'
    BY <1>4 DEF SynchIInv, Waiting, ArgInv
  <2>5. \A u \in Thread : pc[u] = "creating" => arg[u] \in Thread /\ status'[arg[u]] = "blocked"
    BY <1>9, <1>11 DEF SynchIInv, Waiting, IdleInv
  <2>6. IdleInv'
    BY <1>4, <1>9, <2>5 DEF SynchIInv, Waiting, IdleInv
  <2> QED
    BY <2>3, <2>4, <2>6 DEF Waiting
<1>15. NULL \notin Thread
  BY SynchAssumption DEF SynchAssumption, AllThreads
<1>16. ASSUME NEW l \in Lock
       PROVE  /\ l \in Range(held) => /\ value[l] = 0 /\ value'[l] = 1
                                      /\ \A t \in Thread : ~Owns(t, l)'
              /\ l \notin Range(held) => /\ value'[l] = value[l] /\ holder'[l] = holder[l]
                                         /\ \A t \in Thread : Owns(t, l)' <=> Owns(t, l)
  <2>1. CASE l \in Range(held)
    <3>1. holder[l] = me /\ Owns(me, l)
      BY <1>6, <2>1 DEF Owns
    <3>2. value[l] = 0 /\ \A t \in Thread : Owns(t, l) => t = me
      BY <3>1 DEF SynchIInv, Locking, OneOwner
    <3>3. value'[l] = 1 /\ holder'[l] = NULL
      BY <1>4, <2>1, <3>2 DEF Semaphore
    <3>4. ASSUME NEW t \in Thread PROVE ~Owns(t, l)'
      <4>1. ~(pc[t] \in {"granted", "releasing"} /\ arg[t] = l)
        BY <1>1, <3>2 DEF Owns
      <4> QED
        BY <1>4, <1>15, <3>3, <4>1 DEF Owns
    <3> QED
      BY <2>1, <3>2, <3>3, <3>4
  <2>2. CASE l \notin Range(held)
    BY <1>4, <2>2 DEF Owns, Semaphore
  <2> QED
    BY <2>1, <2>2
<1>17. Locking'
  <2>1. OneOwner'
    BY <1>16 DEF SynchIInv, Locking, OneOwner
  <2>2. LockListInv'
    <3>1. lock_list'[me] = <<>> /\ \A t \in Thread : t # me => lock_list'[t] = lock_list[t]
      BY <1>4 DEF SynchIInv, SynchTypes
    <3>2. IsInjective(<<>>) /\ Range(<<>>) = {}
      BY DEF IsInjective, Range
    <3>3. \A t \in Thread : IsInjective(lock_list'[t])
      BY <3>1, <3>2 DEF SynchIInv, Locking, LockListInv
    <3>4. ASSUME NEW t \in Thread, NEW l \in Lock
          PROVE  l \in Range(lock_list'[t]) <=> holder'[l] = t
      <4>1. holder'[l] = IF holder[l] = me THEN NULL ELSE holder[l]
        BY <1>4, <1>6
      <4>2. t # me => (l \in Range(lock_list[t]) <=> holder[l] = t)
        BY DEF SynchIInv, Locking, LockListInv
      <4> QED
        BY <1>15, <3>1, <3>2, <4>1, <4>2
    <3>5. ASSUME NEW t \in Thread, status'[t] \in {"unborn", "dying"}, NEW l \in Lock
          PROVE  ~Owns(t, l)'
      <4>1. t # me => ~Owns(t, l)
        BY <1>9, <3>5 DEF SynchIInv, Locking, LockListInv
      <4>2. l \notin Range(held) => ~Owns(me, l)
        BY <1>1, <1>6 DEF Owns
      <4> QED
        BY <1>16, <4>1, <4>2
    <3> QED
      BY <3>3, <3>4, <3>5 DEF LockListInv
  <2>3. GapInv'
    BY <1>4 DEF SynchIInv, Waiting, ArgInv, Locking, GapInv
  <2> QED
    BY <2>1, <2>2, <2>3 DEF Locking
<1> QED
  BY <1>8, <1>13, <1>14, <1>17 DEF SynchIInv

-----------------------------------------------------------------------------
(* Together. *)

\* The invariant holds in the initial states.
LEMMA InitSynchIInv ==
  ASSUME SynchAssumption, Init PROVE SynchIInv
<1>1. SchedIInv /\ SchedInit
  BY SchedAssumption, InitSchedIInv DEF Init
<1>2. NULL \notin Thread
  BY SynchAssumption DEF SynchAssumption, AllThreads
<1>3. SynchTypes
  BY DEF Init, SynchTypes, Labels, Semaphore
<1>4. IsInjective(<<>>) /\ Range(<<>>) = {}
  BY DEF IsInjective, Range
<1>5. Waiting
  <2>1. sleep_list = <<>> /\ \A t \in Thread : status[t] # "blocked"
    BY <1>1, SchedAssumption DEF SchedInit, SchedAssumption, AllThreads
  <2> QED
    BY <1>4, <2>1 DEF Init, Waiting, ElemInv, ArgInv, IdleInv
<1>6. Locking
  <2>1. \A t \in Thread, l \in Lock : ~Owns(t, l)
    BY <1>2 DEF Init, Owns
  <2>2. OneOwner
    BY <2>1 DEF Init, OneOwner, Semaphore
  <2>3. LockListInv
    BY <1>2, <1>4, <2>1 DEF Init, LockListInv
  <2>4. GapInv
    BY DEF Init, GapInv
  <2> QED
    BY <2>2, <2>3, <2>4 DEF Locking
<1> QED
  BY <1>1, <1>3, <1>5, <1>6 DEF SynchIInv

\* Every step keeps the invariant.
LEMMA NextSynchIInv ==
  ASSUME SynchAssumption, SynchIInv, [Next]_vars
  PROVE  SynchIInv' /\ [SchedNext]_schedVars
<1>1. CASE UNCHANGED vars
  <2>1. UNCHANGED schedVars /\ UNCHANGED synchVars
    BY <1>1 DEF vars
  <2>2. SchedIInv' /\ UNCHANGED <<status, sleep_list>>
    BY <2>1, SchedUntouched DEF schedVars
  <2>3. \A t \in Range(sleep_list') : t \in Range(sleep_list)
    BY <2>2
  <2> QED
    BY <2>1, <2>2, <2>3, SchedOnlyStep
<1>2. CASE Continue
  BY <1>2, RecheckStep, TakeHoldStep, ReleaseUpStep, WaitDownStep, RelockStep,
     BroadcastStep, StartStep DEF Continue
<1>3. ASSUME NEW s \in Sema, SemaDown(s) \/ SemaUp(s) \/ InterruptSemaUp(s)
      PROVE  SynchIInv' /\ [SchedNext]_schedVars
  BY <1>3, SemaDownStep, SemaUpStep
<1>4. ASSUME NEW l \in Lock, LockAcquire(l) \/ LockTryAcquire(l) \/ LockRelease(l)
      PROVE  SynchIInv' /\ [SchedNext]_schedVars
  BY <1>4, LockAcquireStep, LockTryAcquireStep, LockReleaseStep
<1>5. ASSUME NEW c \in Cond, CondWait(c) \/ CondSignal(c) \/ CondBroadcast(c)
      PROVE  SynchIInv' /\ [SchedNext]_schedVars
  BY <1>5, CondWaitStep, CondSignalStep, CondBroadcastStep
<1>6. ASSUME NEW u \in Thread, Create(u) PROVE SynchIInv' /\ [SchedNext]_schedVars
  BY <1>6, CreateStep
<1>7. CASE ThreadExit
  BY <1>7, ThreadExitStep
<1>8. CASE YieldOrSleep
  BY <1>8, YieldOrSleepStep
<1>9. CASE IdleStep
  BY <1>9, IdleLoopStep
<1>10. CASE Tick
  BY <1>10, TickStep
<1> QED
  BY <1>1, <1>2, <1>3, <1>4, <1>5, <1>6, <1>7, <1>8, <1>9, <1>10 DEF Next

\* What it says of the reachable states.
LEMMA SynchIInvIsEnough ==
  ASSUME SynchIInv PROVE LockInv /\ ElemInv
<1>1. SynchTypeOK
  BY DEF SynchIInv, SchedIInv, SynchTypes, SynchTypeOK, Labels
<1> QED
  BY <1>1 DEF SynchIInv, Waiting, Locking, LockInv

\* The inductive invariant holds throughout.
LEMMA SynchSafe == Spec => []SynchIInv
<1>1. Init => SynchIInv
  BY SynchAssumption, InitSynchIInv
<1>2. SynchIInv /\ [Next]_vars => SynchIInv'
  BY SynchAssumption, NextSynchIInv
<1> QED
  BY <1>1, <1>2, PTL DEF Spec

\* Whenever the timer interrupts, a lock has one owner, who has it on its list
\* until it lets go or dies.
THEOREM LockCorrect == Spec => []LockInv
<1>1. SynchIInv => LockInv
  BY SynchIInvIsEnough
<1> QED
  BY <1>1, SynchSafe, PTL

\* A blocked thread is on the wait list of the one semaphore it waits for, or
\* sleeps, or is being created: whoever is woken is blocked, and woken once.
THEOREM ElemCorrect == Spec => []ElemInv
<1>1. SynchIInv => ElemInv
  BY SynchIInvIsEnough
<1> QED
  BY <1>1, SynchSafe, PTL

\* The primitives never ask of the scheduler what thread.c does not allow, such
\* as unblocking a thread that is not blocked: their steps are its steps.
THEOREM SynchStepsAreSched == Spec => SchedInit /\ [][SchedNext]_schedVars
<1>1. Init => SynchIInv /\ SchedInit
  BY SynchAssumption, InitSynchIInv DEF Init
<1>2. SynchIInv /\ [Next]_vars => SynchIInv' /\ [SchedNext]_schedVars
  BY SynchAssumption, NextSynchIInv
<1> QED
  BY <1>1, <1>2, PTL DEF Spec

-----------------------------------------------------------------------------
(* No wake-up is lost.                                                     *)

\* The threads that are woken and on their way to take a unit of s.
Woken(s) == {t \in Thread : WaitsFor(t, s) /\ status[t] # "blocked"}

\* Sets of threads are finite.
LEMMA FiniteThreads ==
  ASSUME NEW S \in SUBSET Thread
  PROVE  IsFiniteSet(S) /\ Cardinality(S) \in Nat
  BY SchedAssumption, FS_Subset, FS_CardinalityType DEF SchedAssumption

\* Counting threads.
LEMMA OneMore ==
  ASSUME NEW S \in SUBSET Thread, NEW t \in Thread \ S, NEW U \in SUBSET Thread,
         S \cup {t} \subseteq U
  PROVE  Cardinality(U) >= Cardinality(S) + 1
<1>1. IsFiniteSet(U) /\ IsFiniteSet(S)
  BY FiniteThreads
<1>2. Cardinality(S \cup {t}) = Cardinality(S) + 1
  BY <1>1, FS_AddElement
<1>3. Cardinality(S \cup {t}) =< Cardinality(U)
  BY <1>1, FS_Subset
<1>4. Cardinality(S) \in Nat /\ Cardinality(U) \in Nat
  BY FiniteThreads
<1> QED
  BY <1>2, <1>3, <1>4

\* ... and without one.
LEMMA OneFewer ==
  ASSUME NEW S \in SUBSET Thread, NEW t \in S, NEW U \in SUBSET Thread,
         S \ {t} \subseteq U
  PROVE  Cardinality(U) >= Cardinality(S) - 1
<1>1. IsFiniteSet(U) /\ IsFiniteSet(S)
  BY FiniteThreads
<1>2. Cardinality(S \ {t}) = Cardinality(S) - 1
  BY <1>1, FS_RemoveElement
<1>3. Cardinality(S \ {t}) =< Cardinality(U)
  BY <1>1, FS_Subset
<1>4. Cardinality(S) \in Nat /\ Cardinality(U) \in Nat
  BY FiniteThreads
<1> QED
  BY <1>2, <1>3, <1>4

\* A semaphore that gets no new units, and no waiters where it had none, has
\* enough woken threads as long as those it has stay so.
LEMMA WokenStay ==
  ASSUME SynchIInv, SynchTypes', NoLostWakeup, NEW s \in Semaphore,
         value'[s] =< value[s], waiters[s] = <<>> => waiters'[s] = <<>>,
         Woken(s) \subseteq Woken(s)'
  PROVE  waiters'[s] # <<>> => Cardinality(Woken(s)') >= value'[s]
<1>1. SUFFICES ASSUME waiters'[s] # <<>> PROVE Cardinality(Woken(s)') >= value'[s]
  OBVIOUS
<1>2. Cardinality(Woken(s)) >= value[s]
  BY <1>1 DEF NoLostWakeup, Woken
<1>3. value[s] \in Nat /\ value'[s] \in Nat
  BY DEF SynchIInv, SynchTypes
<1>4. PICK A \in SUBSET Thread : A = Woken(s)
  BY DEF Woken
<1>5. PICK B \in SUBSET Thread : B = Woken(s)'
  BY DEF Woken
<1>6. Cardinality(A) =< Cardinality(B)
  BY <1>4, <1>5, FiniteThreads, FS_Subset
<1> QED
  BY <1>2, <1>3, <1>4, <1>5, <1>6, FiniteThreads

\* A step that adds no units, and leaves alone the threads that wait.
LEMMA QuietStep ==
  ASSUME SynchIInv, SynchTypes', NoLostWakeup,
         \A s \in Semaphore : /\ value'[s] =< value[s]
                              /\ waiters[s] = <<>> => waiters'[s] = <<>>,
         \A t \in Thread : pc[t] = "down" /\ status[t] # "blocked" =>
           pc'[t] = "down" /\ arg'[t] = arg[t] /\ status'[t] # "blocked"
  PROVE  NoLostWakeup'
<1>1. ASSUME NEW s \in Semaphore PROVE Woken(s) \subseteq Woken(s)'
  BY DEF Woken, WaitsFor
<1>2. ASSUME NEW s \in Semaphore
      PROVE  waiters'[s] # <<>> => Cardinality(Woken(s)') >= value'[s]
  BY <1>1, WokenStay
<1> QED
  BY <1>2 DEF NoLostWakeup, Woken

\* sema_down() by a thread that goes around its loop, or comes to it.
LEMMA DownWakes ==
  ASSUME SynchAssumption, SynchIInv, SynchTypes', NoLostWakeup,
         NEW me \in Thread, me = current, NEW s \in Semaphore, NEW label \in Labels \ {"down"},
         pc[me] = "down" => arg[me] = s,
         sema_down(s, label)
  PROVE  NoLostWakeup'
<1>1. /\ value[s] \in Nat /\ value'[s] \in Nat
      /\ \A r \in Semaphore : value[r] \in Nat
      /\ status[me] = "running"
  BY DEF SynchIInv, SynchTypes, SchedIInv, QueueInv, AllThreads
<1>2. CASE value[s] > 0
  <2>1. /\ value' = [value EXCEPT ![s] = @ - 1] /\ waiters' = waiters /\ status' = status
        /\ pc' = [pc EXCEPT ![me] = label]
        /\ \A t \in Thread \ {me} : arg'[t] = arg[t]
    BY <1>1, <1>2 DEF sema_down, Goto, schedVars, SynchIInv, SynchTypes
  <2>2. ASSUME NEW r \in Semaphore, r # s
        PROVE  Woken(r) \subseteq Woken(r)'
    BY <2>1, <2>2 DEF Woken, WaitsFor, SynchIInv, SynchTypes
  <2>3. ASSUME NEW r \in Semaphore, r # s
        PROVE  waiters'[r] # <<>> => Cardinality(Woken(r)') >= value'[r]
    <3>1. value'[r] =< value[r]
      BY <1>1, <2>1, <2>3 DEF SynchIInv, SynchTypes
    <3> QED
      BY <2>1, <2>2, <2>3, <3>1, WokenStay
  <2>4. waiters'[s] # <<>> => Cardinality(Woken(s)') >= value'[s]
    <3>1. SUFFICES ASSUME waiters[s] # <<>> PROVE Cardinality(Woken(s)') >= value[s] - 1
      BY <1>1, <2>1 DEF SynchIInv, SynchTypes
    <3>2. Cardinality(Woken(s)) >= value[s]
      BY <3>1 DEF NoLostWakeup, Woken
    <3>3. PICK A \in SUBSET Thread : A = Woken(s)
      BY DEF Woken
    <3>4. PICK B \in SUBSET Thread : B = Woken(s)'
      BY DEF Woken
    <3>5. A \ {me} \subseteq B
      BY <2>1, <3>3, <3>4 DEF Woken, WaitsFor, SynchIInv, SynchTypes
    <3>6. Cardinality(B) >= Cardinality(A) - 1
      <4>1. CASE me \in A
        BY <3>5, <4>1, OneFewer
      <4>2. CASE me \notin A
        BY <3>5, <4>2, FiniteThreads, FS_Subset
      <4> QED
        BY <4>1, <4>2
    <3> QED
      BY <1>1, <3>2, <3>3, <3>4, <3>6, FiniteThreads
  <2> QED
    BY <2>3, <2>4 DEF NoLostWakeup, Woken
<1>3. CASE value[s] = 0
  <2>1. /\ value' = value /\ waiters' = [waiters EXCEPT ![s] = Append(@, me)]
        /\ pc' = [pc EXCEPT ![me] = "down"]
        /\ \A t \in Thread \ {me} : arg'[t] = arg[t]
        /\ thread_block
    BY <1>1, <1>3 DEF sema_down, Goto, SynchIInv, SynchTypes
  <2>2. \A t \in Thread : status'[t] = "blocked" <=> (t = me \/ status[t] = "blocked")
    BY <2>1, BlockEffect DEF SynchIInv
  <2>3. ASSUME NEW r \in Semaphore, r # s
        PROVE  waiters'[r] # <<>> => Cardinality(Woken(r)') >= value'[r]
    <3>1. Woken(r) \subseteq Woken(r)'
      BY <2>1, <2>2, <2>3 DEF Woken, WaitsFor, SynchIInv, SynchTypes
    <3>2. value'[r] =< value[r] /\ waiters'[r] = waiters[r]
      BY <1>1, <2>1, <2>3 DEF SynchIInv, SynchTypes
    <3> QED
      BY <3>1, <3>2, WokenStay
  <2>4. Cardinality(Woken(s)') >= value'[s]
    <3>1. PICK B \in SUBSET Thread : B = Woken(s)'
      BY DEF Woken
    <3> QED
      BY <1>3, <2>1, <3>1, FiniteThreads
  <2> QED
    BY <2>3, <2>4 DEF NoLostWakeup, Woken
<1> QED
  BY <1>1, <1>2, <1>3

\* sema_up() wakes one thread for the unit it adds.
LEMMA UpWakes ==
  ASSUME SynchAssumption, SynchIInv, SynchTypes', NoLostWakeup,
         NEW s \in Semaphore, sema_up(s),
         \A t \in Thread : pc[t] = "down" => pc'[t] = "down" /\ arg'[t] = arg[t]
  PROVE  NoLostWakeup'
<1>1. /\ \A r \in Semaphore : value[r] \in Nat
      /\ value' = [value EXCEPT ![s] = @ + 1] /\ value \in [Semaphore -> Nat]
      /\ waiters \in [Semaphore -> Seq(Thread)]
  BY DEF sema_up, SynchIInv, SynchTypes
<1>2. \A t \in Thread : status[t] # "blocked" => status'[t] # "blocked"
  BY UpEffect
<1>3. ASSUME NEW r \in Semaphore PROVE Woken(r) \subseteq Woken(r)'
  BY <1>2 DEF Woken, WaitsFor
<1>4. ASSUME NEW r \in Semaphore, r # s
      PROVE  waiters'[r] # <<>> => Cardinality(Woken(r)') >= value'[r]
  <2>1. value'[r] = value[r] /\ waiters'[r] = waiters[r]
    BY <1>1, <1>4 DEF sema_up
  <2>2. value'[r] =< value[r]
    BY <1>1, <2>1
  <2>3. Woken(r) \subseteq Woken(r)'
    BY <1>3
  <2> QED
    BY <2>1, <2>2, <2>3, WokenStay
<1>5. waiters'[s] # <<>> => Cardinality(Woken(s)') >= value'[s]
  <2>1. CASE waiters[s] = <<>>
    BY <2>1 DEF sema_up
  <2>2. CASE waiters[s] # <<>>
    <3>1. PICK h \in Thread : /\ h = Head(waiters[s]) /\ WaitsFor(h, s) /\ Wakeable(h)
                              /\ thread_unblock(h)
      BY <2>2, WakesBlocked DEF sema_up
    <3>2. status[h] = "blocked" /\ status'[h] = "ready"
      BY <3>1, UnblockEffect DEF Wakeable, SynchIInv
    <3>3. PICK A \in SUBSET Thread : A = Woken(s)
      BY DEF Woken
    <3>4. PICK B \in SUBSET Thread : B = Woken(s)'
      BY DEF Woken
    <3>5. h \in Thread \ A /\ A \cup {h} \subseteq B
      BY <1>3, <3>1, <3>2, <3>3, <3>4 DEF Woken, WaitsFor
    <3>6. Cardinality(A) >= value[s]
      BY <2>2, <3>3 DEF NoLostWakeup, Woken
    <3>7. Cardinality(B) >= Cardinality(A) + 1 /\ Cardinality(A) \in Nat /\ Cardinality(B) \in Nat
      BY <3>5, OneMore, FiniteThreads
    <3>8. value'[s] = value[s] + 1 /\ value[s] \in Nat
      BY <1>1
    <3> QED
      BY <3>4, <3>6, <3>7, <3>8
  <2> QED
    BY <2>1, <2>2
<1> QED
  BY <1>4, <1>5 DEF NoLostWakeup, Woken

\* release_locks() frees locks nobody else owned, and wakes the first waiter of each.
LEMMA ExitWakesEnough ==
  ASSUME SynchAssumption, SynchIInv, SynchTypes', NoLostWakeup, ThreadExit
  PROVE  NoLostWakeup'
<1>1. PICK me \in Thread : me = current /\ pc[me] = "run" /\ status[me] = "running"
  BY AtThread DEF ThreadExit, At
<1>2. PICK held : held = lock_list[me]
  OBVIOUS
<1>3. PICK wanted : wanted = {i \in 1..Len(held) : waiters[held[i]] # <<>>}
  OBVIOUS
<1>4. /\ value' = [s \in Semaphore |-> IF s \in Range(held) THEN value[s] + 1 ELSE value[s]]
      /\ waiters' = [s \in Semaphore |-> IF \E i \in wanted : s = held[i]
                                           THEN Tail(waiters[s]) ELSE waiters[s]]
      /\ UNCHANGED <<pc, arg>>
  BY <1>1, <1>2, <1>3 DEF ThreadExit
<1>6. /\ held \in Seq(Lock) /\ IsInjective(held) /\ Range(held) \subseteq Lock
      /\ \A l \in Lock : l \in Range(held) <=> holder[l] = me
  BY <1>2, RangeOfSeq DEF SynchIInv, SynchTypes, Locking, LockListInv
<1>7. PICK w :
        /\ \A t : t \in Range(w) <=>
             \E i \in 1..Len(lock_list[current]) :
               /\ waiters[lock_list[current][i]] # <<>>
               /\ t = Head(waiters[lock_list[current][i]])
        /\ \A t \in Thread :
             status'[t] = "blocked" <=> (status[t] = "blocked" /\ t \notin Range(w))
  BY ExitWoken
<1>8. \A t \in Thread : status'[t] = "blocked" <=> (status[t] = "blocked" /\ t \notin Range(w))
  BY <1>7
<1>9. ASSUME NEW s \in Semaphore PROVE Woken(s) \subseteq Woken(s)'
  BY <1>4, <1>8 DEF Woken, WaitsFor
<1>10. ASSUME NEW s \in Semaphore, s \notin Range(held)
       PROVE  waiters'[s] # <<>> => Cardinality(Woken(s)') >= value'[s]
  <2>1. \A i \in wanted : s # held[i]
    BY <1>3, <1>6, <1>10, RangeByIndex
  <2>2. value'[s] = value[s] /\ waiters'[s] = waiters[s] /\ value[s] \in Nat
    BY <1>4, <1>10, <2>1 DEF SynchIInv, SynchTypes
  <2>3. value'[s] =< value[s] /\ Woken(s) \subseteq Woken(s)'
    BY <1>9, <2>2
  <2> QED
    BY <2>2, <2>3, WokenStay
<1>11. ASSUME NEW s \in Semaphore, s \in Range(held)
       PROVE  waiters'[s] # <<>> => Cardinality(Woken(s)') >= value'[s]
  <2>1. s \in Lock /\ Owns(me, s) /\ value[s] = 0
    BY <1>6, <1>11 DEF Owns, SynchIInv, Locking, OneOwner
  <2>2. value'[s] = 1
    BY <1>4, <1>11, <2>1
  <2>3. CASE waiters[s] = <<>>
    <3>1. \A i \in wanted : s # held[i]
      BY <1>3, <2>3
    <3> QED
      BY <1>4, <2>3, <3>1
  <2>4. CASE waiters[s] # <<>>
    <3>1. PICK i \in 1..Len(held) : held[i] = s
      BY <1>6, <1>11, RangeByIndex
    <3>2. PICK h \in Thread : h = Head(waiters[s]) /\ WaitsFor(h, s)
      BY <2>4, WakesBlocked
    <3>3. h \in Range(w)
      BY <1>1, <1>2, <1>7, <2>4, <3>1, <3>2
    <3>4. PICK B \in SUBSET Thread : B = Woken(s)'
      BY DEF Woken
    <3>5. h \in B
      BY <1>4, <1>8, <3>2, <3>3, <3>4 DEF Woken, WaitsFor
    <3>6. {} \in SUBSET Thread /\ h \in Thread \ {} /\ {} \cup {h} \subseteq B
      BY <3>5
    <3>7. Cardinality(B) >= Cardinality({}) + 1
      BY <3>6, OneMore
    <3> QED
      BY <2>2, <3>4, <3>7, FS_EmptySet
  <2> QED
    BY <2>3, <2>4
<1> QED
  BY <1>10, <1>11 DEF NoLostWakeup, Woken

\* At the start nobody waits.
LEMMA InitWakes ==
  ASSUME Init PROVE NoLostWakeup
  BY DEF Init, NoLostWakeup

\* A thread goes on in a primitive it is in.
LEMMA ContinueWakes ==
  ASSUME SynchAssumption, SynchIInv, SynchTypes', NoLostWakeup, Continue
  PROVE  NoLostWakeup'
<1>1. PICK me \in Thread : me = current /\ status[me] = "running"
  BY AtThread DEF Continue, Recheck, TakeHold, ReleaseUp, WaitDown, Relock, Broadcast, Start, At
<1>2. CASE Recheck
  <2>1. PICK s \in Semaphore : s = arg[me]
    BY <1>1, <1>2 DEF Recheck, At, SynchIInv, Waiting, ArgInv
  <2>2. AfterDown(s) \in Labels \ {"down"}
    BY AfterDownOf DEF Semaphore, Labels
  <2> QED
    BY <1>1, <1>2, <2>1, <2>2, DownWakes DEF Recheck, At
<1>3. CASE TakeHold
  BY <1>1, <1>3, QuietStep DEF TakeHold, At, Goto, SynchIInv, SynchTypes, schedVars
<1>4. CASE ReleaseUp
  <2>1. PICK l \in Lock : l = arg[me]
    BY <1>1, <1>4 DEF ReleaseUp, At, SynchIInv, Waiting, ArgInv
  <2>2. l \in Semaphore /\ sema_up(l)
    BY <1>1, <1>4, <2>1 DEF ReleaseUp, Semaphore
  <2>3. \A t \in Thread : pc[t] = "down" => pc'[t] = "down" /\ arg'[t] = arg[t]
    BY <1>1, <1>4 DEF ReleaseUp, At, Goto, SynchIInv, SynchTypes
  <2> QED
    BY <2>2, <2>3, UpWakes
<1>5. CASE WaitDown
  <2>1. me \in Semaphore /\ pc[me] # "down" /\ sema_down(me, "relock")
    BY <1>1, <1>5 DEF WaitDown, At, Semaphore
  <2> QED
    BY <1>1, <2>1, DownWakes DEF Labels
<1>6. CASE Relock
  <2>1. in_wait[me] \in Cond
    BY <1>1, <1>6 DEF Relock, At, SynchIInv, Waiting, ArgInv
  <2>2. PICK l \in Semaphore : l = CondLock[in_wait[me]]
    BY <2>1, SynchAssumption DEF SynchAssumption, Semaphore
  <2>3. pc[me] # "down" /\ sema_down(l, "granted")
    BY <1>1, <1>6, <2>2 DEF Relock, At
  <2> QED
    BY <1>1, <2>2, <2>3, DownWakes DEF Labels
<1>7. CASE Broadcast
  <2>1. PICK c \in Cond : c = arg[me] /\ pc[me] = "broadcast"
    BY <1>1, <1>7 DEF Broadcast, At, SynchIInv, Waiting, ArgInv
  <2>2. CASE signal(c) /\ UNCHANGED <<pc, arg>>
    <3>1. PICK s \in Semaphore : s = Head(cond_waiters[c])
      <4>1. cond_waiters[c] \in Seq(Thread) /\ cond_waiters[c] # <<>>
        BY <2>2 DEF signal, SynchIInv, SynchTypes
      <4> QED
        BY <4>1, PopFront, RangeOfSeq DEF Semaphore
    <3> QED
      BY <2>2, <3>1, UpWakes DEF signal
  <2>3. CASE Goto("run", NULL) /\ UNCHANGED <<schedVars, value, waiters, cond_waiters>>
    BY <1>1, <2>1, <2>3, QuietStep DEF Goto, SynchIInv, SynchTypes, schedVars
  <2> QED
    BY <1>1, <1>7, <2>1, <2>2, <2>3 DEF Broadcast
<1>8. CASE Start
  <2>1. PICK u \in Thread : u = arg[me] /\ pc[me] = "creating"
    BY <1>1, <1>8 DEF Start, At, SynchIInv, Waiting, IdleInv
  <2>2. \A t \in Thread : status'[t] = IF t = u THEN "ready" ELSE status[t]
    BY <1>1, <1>8, <2>1, UnblockEffect DEF Start, SynchIInv
  <2>3. value' = value /\ waiters' = waiters
    BY <1>8 DEF Start
  <2>4. \A t \in Thread : pc[t] = "down" => pc'[t] = "down" /\ arg'[t] = arg[t]
    BY <1>1, <1>8, <2>1 DEF Start, Goto, SynchIInv, SynchTypes
  <2>5. \A s \in Semaphore : value'[s] =< value[s]
    BY <2>3 DEF SynchIInv, SynchTypes
  <2> QED
    BY <2>2, <2>3, <2>4, <2>5, QuietStep
<1> QED
  BY <1>2, <1>3, <1>4, <1>5, <1>6, <1>7, <1>8 DEF Continue

\* Whatever only moves threads among running, ready and blocked without waking or
\* blocking one that waits for a semaphore.
LEMMA SchedOnlyWakes ==
  ASSUME SynchIInv, SynchTypes', NoLostWakeup, UNCHANGED synchVars,
         \A t \in Thread : pc[t] = "down" /\ status'[t] = "blocked" => status[t] = "blocked"
  PROVE  NoLostWakeup'
<1>1. UNCHANGED <<value, waiters, pc, arg>>
  BY DEF synchVars
<1>2. \A s \in Semaphore : value'[s] =< value[s]
  BY <1>1 DEF SynchIInv, SynchTypes
<1> QED
  BY <1>1, <1>2, QuietStep

\* When the idle thread blocks again the threads only change places.
LEMMA IdleEffect ==
  ASSUME SynchIInv, IdleLoop
  PROVE  \A t \in Thread : \A x \in {"unborn", "blocked", "dying"} : status'[t] = x <=> status[t] = x
<1> DEFINE st == [status EXCEPT ![Idle] = "blocked"]
<1>1. schedule(ready_list, st)
  BY DEF IdleLoop, thread_block
<1>2. /\ ready_list \in Seq(Thread) /\ status \in [AllThreads -> Status] /\ Idle \notin Thread
      /\ \A t \in Range(ready_list) : t \in Thread /\ status[t] = "ready"
  BY RangeOfSeq, SchedAssumption DEF SynchIInv, SchedIInv, SchedTypeOK, QueueInv, SchedAssumption
<1>3. /\ st \in [AllThreads -> Status]
      /\ \A t \in Thread : st[t] = status[t]
      /\ \A t \in Range(ready_list) : st[t] = "ready"
  BY <1>2 DEF AllThreads, Status
<1> HIDE DEF st
<1> QED
  BY <1>1, <1>2, <1>3, ScheduleEffect

\* Every step keeps the wake-ups.
LEMMA NextWakes ==
  ASSUME SynchAssumption, SynchIInv, NoLostWakeup, [Next]_vars
  PROVE  NoLostWakeup'
<1> SynchIInv' /\ SynchTypes'
  BY NextSynchIInv DEF SynchIInv
<1>1. CASE UNCHANGED vars
  BY <1>1, SchedOnlyWakes DEF vars, schedVars
<1>2. CASE Continue
  BY <1>2, ContinueWakes
<1>3. ASSUME NEW s \in Sema, SemaDown(s) PROVE NoLostWakeup'
  <2>1. PICK me \in Thread : me = current
    BY <1>3, AtThread DEF SemaDown, At
  <2>2. pc[me] # "down" /\ sema_down(s, "run") /\ s \in Semaphore
    BY <1>3, <2>1 DEF SemaDown, At, Semaphore
  <2> QED
    BY <2>1, <2>2, DownWakes DEF Labels
<1>4. ASSUME NEW s \in Sema, SemaUp(s) \/ InterruptSemaUp(s) PROVE NoLostWakeup'
  BY <1>4, UpWakes DEF SemaUp, InterruptSemaUp, Semaphore
<1>5. ASSUME NEW l \in Lock, LockAcquire(l) PROVE NoLostWakeup'
  <2>1. PICK me \in Thread : me = current
    BY <1>5, AtThread DEF LockAcquire, At
  <2>2. pc[me] # "down" /\ sema_down(l, "granted") /\ l \in Semaphore
    BY <1>5, <2>1 DEF LockAcquire, At, Semaphore
  <2> QED
    BY <2>1, <2>2, DownWakes DEF Labels
<1>6. ASSUME NEW l \in Lock, LockTryAcquire(l) \/ LockRelease(l) PROVE NoLostWakeup'
  <2>1. PICK me \in Thread : me = current /\ pc[me] = "run"
    BY <1>6, AtThread DEF LockTryAcquire, LockRelease, At
  <2>2. /\ UNCHANGED <<status, waiters>>
        /\ value' = value \/ value' = [value EXCEPT ![l] = @ - 1]
    BY <1>6 DEF LockTryAcquire, LockRelease, schedVars
  <2>4. ASSUME NEW s \in Semaphore PROVE value'[s] =< value[s]
    <3>1. value \in [Semaphore -> Nat] /\ value[s] \in Nat
      BY DEF SynchIInv, SynchTypes
    <3>2. value'[s] = value[s] \/ value'[s] = value[s] - 1
      BY <2>2, <3>1
    <3> QED
      BY <3>1, <3>2
  <2>3. \A t \in Thread : pc[t] = "down" => pc'[t] = "down" /\ arg'[t] = arg[t]
    BY <1>6, <2>1 DEF LockTryAcquire, LockRelease, DropHold, Goto, SynchIInv, SynchTypes
  <2> QED
    BY <2>2, <2>3, <2>4, QuietStep
<1>7. ASSUME NEW c \in Cond, CondWait(c) \/ CondBroadcast(c) PROVE NoLostWakeup'
  <2>1. PICK me \in Thread : me = current /\ pc[me] = "run"
    BY <1>7, AtThread DEF CondWait, CondBroadcast, At
  <2>2. /\ status' = status
        /\ value' = value \/ value' = [value EXCEPT ![me] = 0]
        /\ waiters' = waiters \/ waiters' = [waiters EXCEPT ![me] = <<>>]
    BY <1>7, <2>1 DEF CondWait, CondBroadcast, schedVars
  <2>4. ASSUME NEW s \in Semaphore PROVE value'[s] =< value[s]
    <3>1. value \in [Semaphore -> Nat] /\ value[s] \in Nat
      BY DEF SynchIInv, SynchTypes
    <3>2. value'[s] = value[s] \/ value'[s] = 0
      BY <2>2, <3>1
    <3> QED
      BY <3>1, <3>2
  <2>5. \A s \in Semaphore : waiters[s] = <<>> => waiters'[s] = <<>>
    BY <2>2 DEF SynchIInv, SynchTypes
  <2>3. \A t \in Thread : pc[t] = "down" => pc'[t] = "down" /\ arg'[t] = arg[t]
    BY <1>7, <2>1 DEF CondWait, CondBroadcast, DropHold, Goto, SynchIInv, SynchTypes
  <2> QED
    BY <2>2, <2>3, <2>4, <2>5, QuietStep
<1>8. ASSUME NEW c \in Cond, CondSignal(c) PROVE NoLostWakeup'
  <2>1. cond_waiters[c] \in Seq(Thread) /\ cond_waiters[c] # <<>>
    BY <1>8 DEF CondSignal, signal, SynchIInv, SynchTypes
  <2>2. PICK s \in Semaphore : s = Head(cond_waiters[c])
    BY <2>1, PopFront, RangeOfSeq DEF Semaphore
  <2> QED
    BY <1>8, <2>2, UpWakes DEF CondSignal, signal
<1>9. ASSUME NEW u \in Thread, Create(u) PROVE NoLostWakeup'
  <2>1. PICK me \in Thread : me = current /\ pc[me] = "run" /\ status[me] = "running"
    BY <1>9, AtThread DEF Create, At
  <2>2. pc[u] = "run" /\ \A t \in Thread : t # u => status'[t] = status[t]
    BY <1>9, <2>1 DEF Create, init_thread, SynchIInv, Waiting, IdleInv, SchedIInv, SchedTypeOK, AllThreads
  <2>3. UNCHANGED <<value, waiters>> /\ \A s \in Semaphore : value'[s] =< value[s]
    BY <1>9 DEF Create, SynchIInv, SynchTypes
  <2>4. \A t \in Thread : pc[t] = "down" => pc'[t] = "down" /\ arg'[t] = arg[t]
    BY <1>9, <2>1 DEF Create, Goto, SynchIInv, SynchTypes
  <2> QED
    BY <2>2, <2>3, <2>4, QuietStep
<1>10. CASE ThreadExit
  BY <1>10, ExitWakesEnough
<1>11. CASE YieldOrSleep
  <2>1. PICK me \in Thread : me = current /\ pc[me] = "run" /\ status[me] = "running"
    BY <1>11, AtThread DEF YieldOrSleep, At
  <2>2. CASE Yield
    <3>1. /\ ready_list \in Seq(Thread) /\ status \in [AllThreads -> Status] /\ current \in AllThreads
          /\ \A t \in Range(ready_list) : status[t] = "ready"
          /\ thread_yield(ready_list, status) /\ status[current] = "running"
      BY <2>1, <2>2, RangeOfSeq DEF Yield, SynchIInv, SchedIInv, SchedTypeOK, QueueInv
    <3> QED
      BY <1>11, <3>1, YieldEffect, SchedOnlyWakes DEF YieldOrSleep
  <2>3. CASE \E n \in 1..MaxSleep : timer_sleep(n)
    BY <1>11, <2>1, <2>3, BlockEffect, SchedOnlyWakes DEF YieldOrSleep, timer_sleep, SynchIInv
  <2> QED
    BY <1>11, <2>2, <2>3 DEF YieldOrSleep
<1>12. CASE IdleStep
  BY <1>12, IdleEffect, SchedOnlyWakes DEF IdleStep
<1>13. CASE Tick
  BY <1>13, TimerEffect, SchedOnlyWakes DEF Tick, SynchIInv
<1> QED
  BY <1>1, <1>2, <1>3, <1>4, <1>5, <1>6, <1>7, <1>8, <1>9, <1>10, <1>11, <1>12, <1>13 DEF Next

\* No wake-up is lost: whoever barges in takes a unit and leaves its wake-up, and
\* release_locks() wakes a waiter for each lock it frees.
THEOREM WakeupCorrect == Spec => []NoLostWakeup
<1>1. Init => NoLostWakeup
  BY InitWakes
<1>2. SynchIInv /\ NoLostWakeup /\ [Next]_vars => NoLostWakeup'
  BY SynchAssumption, NextWakes
<1> QED
  BY <1>1, <1>2, SynchSafe, PTL DEF Spec

-----------------------------------------------------------------------------
(* Conditions.                                                             *)

\* t is inside cond_wait() before it is signalled, or on its way out.
Suspended(t) == pc[t] \in {"releasing", "wait"} \/ WaitsFor(t, t)

\* Where a thread with in_wait set is in cond_wait(): giving up the lock, last on
\* the list as nobody else can come to the list; waiting; asking for the lock; or
\* about to be its holder.
InCondWait(t) ==
  in_wait[t] # NULL =>
    LET c == in_wait[t]
        l == CondLock[c]
        n == Len(cond_waiters[c])
    IN  \/ pc[t] = "releasing" /\ arg[t] = l /\ n > 0 /\ cond_waiters[c][n] = t
        \/ pc[t] \in {"wait", "relock"}
        \/ pc[t] = "down" /\ arg[t] \in {t, l}
        \/ pc[t] = "granted" /\ arg[t] = l

\* A thread on a condition's list is in that condition's cond_wait().
OnList(t) ==
  \A c \in Cond : t \in Range(cond_waiters[c]) =>
    in_wait[t] = c /\ Suspended(t) /\ holder[CondLock[c]] # t /\ status[t] # "dying"

\* The semaphore on the stack of cond_wait() is up when the thread has been taken
\* off the list and has not noticed.
OwnSemaphore(t) ==
  value[t] = IF /\ pc[t] = "wait" \/ WaitsFor(t, t)
                /\ t \notin Range(cond_waiters[in_wait[t]])
               THEN 1 ELSE 0

\* Who broadcasts holds the lock all the time.
Broadcasting(t) == pc[t] = "broadcast" => holder[CondLock[arg[t]]] = t

CondInvOf(t) == InCondWait(t) /\ OnList(t) /\ OwnSemaphore(t) /\ Broadcasting(t)

\* SignalInv is not inductive without the places where a listed thread can be, and
\* without the lock that the broadcaster keeps between two signals.
CondInv == (\A c \in Cond : IsInjective(cond_waiters[c])) /\ \A t \in Thread : CondInvOf(t)

\* The invariant of the conditions says what SignalInv says.
LEMMA CondInvIsEnough ==
  ASSUME SynchAssumption, SynchIInv, CondInv PROVE SignalInv
<1>1. ASSUME NEW t \in Thread
      PROVE  IF pc[t] = "wait" \/ WaitsFor(t, t)
               THEN value[t] = IF t \in Range(cond_waiters[in_wait[t]]) THEN 0 ELSE 1
               ELSE value[t] = 0
  BY DEF CondInv, CondInvOf, OwnSemaphore
<1>2. ASSUME NEW c \in Cond
      PROVE  /\ IsInjective(cond_waiters[c])
             /\ \A t \in Range(cond_waiters[c]) :
                  in_wait[t] = c /\ holder[CondLock[c]] # t /\ status[t] # "dying"
  <2>1. Range(cond_waiters[c]) \subseteq Thread
    BY RangeOfSeq DEF SynchIInv, SynchTypes
  <2> QED
    BY <2>1 DEF CondInv, CondInvOf, OnList
<1> QED
  BY <1>1, <1>2 DEF SignalInv

\* A thread that is elsewhere is on no condition's list.
LEMMA OffList ==
  ASSUME CondInv, NEW t \in Thread, ~Suspended(t), NEW c \in Cond
  PROVE  t \notin Range(cond_waiters[c])
  BY DEF CondInv, CondInvOf, OnList

\* A step of one thread that changes no list of a condition.
LEMMA CondFrame ==
  ASSUME CondInv, NEW me \in Thread, cond_waiters' = cond_waiters,
         \A t \in Thread \ {me} :
           /\ pc'[t] = pc[t] /\ arg'[t] = arg[t] /\ in_wait'[t] = in_wait[t] /\ value'[t] = value[t]
           /\ \A l : holder'[l] = t <=> holder[l] = t
           /\ status'[t] = "dying" => status[t] = "dying",
         CondInvOf(me)'
  PROVE  CondInv'
<1>1. ASSUME NEW t \in Thread, t # me PROVE CondInvOf(t)'
  <2>1. CondInvOf(t)
    BY DEF CondInv
  <2>2. InCondWait(t)'
    BY <1>1, <2>1 DEF CondInvOf, InCondWait
  <2>3. OnList(t)'
    BY <1>1, <2>1 DEF CondInvOf, OnList, Suspended, WaitsFor
  <2>4. OwnSemaphore(t)'
    BY <1>1, <2>1 DEF CondInvOf, OwnSemaphore, WaitsFor
  <2>5. Broadcasting(t)'
    BY <1>1, <2>1 DEF CondInvOf, Broadcasting
  <2> QED
    BY <2>2, <2>3, <2>4, <2>5 DEF CondInvOf
<1> QED
  BY <1>1 DEF CondInv

\* A thread goes from one place to another outside the wait of cond_wait().
LEMMA CondGoto ==
  ASSUME SynchAssumption, SynchIInv, CondInv, NEW me \in Thread, NEW label, NEW what,
         pc' = [pc EXCEPT ![me] = label], arg' = [arg EXCEPT ![me] = what],
         UNCHANGED <<cond_waiters, in_wait, holder>>,
         \A t \in Thread : value'[t] = value[t] /\ (status'[t] = "dying" => status[t] = "dying"),
         ~Suspended(me),
         label \notin {"releasing", "wait"}, ~(label = "down" /\ what = me),
         label = "broadcast" => holder[CondLock[what]] = me,
         in_wait[me] # NULL =>
           label \in {"down", "granted"} /\ what = CondLock[in_wait[me]]
  PROVE  CondInv'
<1>1. /\ pc'[me] = label /\ arg'[me] = what
      /\ \A t \in Thread \ {me} : pc'[t] = pc[t] /\ arg'[t] = arg[t]
  BY DEF SynchIInv, SynchTypes
<1>2. \A c \in Cond : me \notin Range(cond_waiters[c])
  BY OffList
<1>3. CondInvOf(me)
  BY DEF CondInv
<1>4. InCondWait(me)'
  BY <1>1 DEF InCondWait
<1>5. OnList(me)'
  BY <1>1, <1>2 DEF OnList
<1>6. OwnSemaphore(me)'
  BY <1>1, <1>3 DEF OwnSemaphore, CondInvOf, WaitsFor, Suspended
<1>7. Broadcasting(me)'
  BY <1>1 DEF Broadcasting
<1> QED
  BY <1>1, <1>4, <1>5, <1>6, <1>7, CondFrame DEF CondInvOf

\* sema_down() of a semaphore or a lock.
LEMMA DownConds ==
  ASSUME SynchAssumption, SynchIInv, CondInv, NEW me \in Thread, me = current,
         NEW s \in Sema \cup Lock, NEW label \in {"run", "granted"}, ~Suspended(me),
         sema_down(s, label), UNCHANGED <<holder, cond_waiters, in_wait>>,
         in_wait[me] # NULL => label = "granted" /\ s = CondLock[in_wait[me]]
  PROVE  CondInv'
<1>1. s \in Semaphore /\ s \notin Thread /\ value \in [Semaphore -> Nat] /\ Thread \subseteq Semaphore
  BY SynchAssumption DEF SynchAssumption, AllThreads, Semaphore, SynchIInv, SynchTypes
<1>2. CASE value[s] > 0
  <2>0. PICK what : what = IF label = "granted" THEN s ELSE NULL
    OBVIOUS
  <2>1. /\ pc' = [pc EXCEPT ![me] = label] /\ arg' = [arg EXCEPT ![me] = what]
        /\ label = "granted" => what = s
    BY <1>1, <1>2, <2>0 DEF sema_down, Goto
  <2>2. /\ value' = [value EXCEPT ![s] = @ - 1] /\ status' = status
    BY <1>1, <1>2 DEF sema_down, schedVars
  <2>3. \A t \in Thread : value'[t] = value[t]
    BY <1>1, <2>2
  <2> QED
    BY <2>1, <2>2, <2>3, CondGoto
<1>3. CASE value[s] = 0
  <2>1. /\ pc' = [pc EXCEPT ![me] = "down"] /\ arg' = [arg EXCEPT ![me] = s]
        /\ value' = value /\ thread_block
    BY <1>1, <1>3 DEF sema_down, Goto
  <2>2. \A t \in Thread : status'[t] = "dying" <=> status[t] = "dying"
    BY <2>1, BlockEffect DEF SynchIInv
  <2>3. s # me /\ (in_wait[me] # NULL => s = CondLock[in_wait[me]])
    BY <1>1
  <2>4. \A t \in Thread : value'[t] = value[t] /\ (status'[t] = "dying" => status[t] = "dying")
    BY <2>1, <2>2
  <2>5. PICK there : there = "down"
    OBVIOUS
  <2>6. /\ pc' = [pc EXCEPT ![me] = there]
        /\ there \in {"down", "granted"} /\ there # "broadcast"
        /\ there \notin {"releasing", "wait"}
    BY <2>1, <2>5
  <2> QED
    BY <2>1, <2>3, <2>4, <2>6, CondGoto
<1> QED
  BY <1>1, <1>2, <1>3

\* sema_down() of the semaphore on cond_wait()'s own stack.
LEMMA OwnDownConds ==
  ASSUME SynchAssumption, SynchIInv, CondInv, NEW me \in Thread, me = current,
         pc[me] = "wait" \/ WaitsFor(me, me),
         sema_down(me, "relock"), UNCHANGED <<holder, cond_waiters, in_wait>>
  PROVE  CondInv'
<1>1. /\ me \in Semaphore /\ value \in [Semaphore -> Nat] /\ in_wait[me] \in Cond
      /\ Thread \subseteq Semaphore
  BY DEF Semaphore, SynchIInv, SynchTypes, Waiting, ArgInv, WaitsFor
<1>2. CondInvOf(me)
  BY DEF CondInv
<1>3. CASE value[me] > 0
  <2>1. /\ pc' = [pc EXCEPT ![me] = "relock"] /\ arg' = [arg EXCEPT ![me] = NULL]
        /\ value' = [value EXCEPT ![me] = @ - 1] /\ status' = status
    BY <1>1, <1>3 DEF sema_down, schedVars, Goto
  <2>2. pc'[me] = "relock" /\ arg'[me] = NULL /\ value'[me] = value[me] - 1
    BY <1>1, <2>1 DEF SynchIInv, SynchTypes
  <2>3. value[me] = 1 /\ me \notin Range(cond_waiters[in_wait[me]])
    BY <1>2, <1>3 DEF CondInvOf, OwnSemaphore
  <2>4. OnList(me)'
    BY <1>2, <2>3 DEF CondInvOf, OnList
  <2>5. OwnSemaphore(me)'
    BY <2>2, <2>3 DEF OwnSemaphore, WaitsFor
  <2>6. InCondWait(me)' /\ Broadcasting(me)'
    BY <2>2 DEF InCondWait, Broadcasting
  <2>7. \A t \in Thread \ {me} : pc'[t] = pc[t] /\ arg'[t] = arg[t] /\ value'[t] = value[t]
    BY <1>1, <2>1 DEF SynchIInv, SynchTypes
  <2> QED
    BY <2>1, <2>4, <2>5, <2>6, <2>7, CondFrame DEF CondInvOf
<1>4. CASE value[me] = 0
  <2>1. /\ pc' = [pc EXCEPT ![me] = "down"] /\ arg' = [arg EXCEPT ![me] = me]
        /\ value' = value /\ thread_block
    BY <1>1, <1>4 DEF sema_down, Goto
  <2>2. \A t \in Thread : status'[t] = "dying" <=> status[t] = "dying"
    BY <2>1, BlockEffect DEF SynchIInv
  <2>3. pc'[me] = "down" /\ arg'[me] = me
    BY <2>1 DEF SynchIInv, SynchTypes
  <2>4. OnList(me)'
    BY <1>2, <2>2, <2>3 DEF CondInvOf, OnList, Suspended, WaitsFor
  <2>5. OwnSemaphore(me)'
    BY <1>2, <1>4, <2>1, <2>3 DEF CondInvOf, OwnSemaphore, WaitsFor
  <2>6. InCondWait(me)' /\ Broadcasting(me)'
    BY <2>3 DEF InCondWait, Broadcasting
  <2>7. \A t \in Thread \ {me} : pc'[t] = pc[t] /\ arg'[t] = arg[t]
    BY <2>1 DEF SynchIInv, SynchTypes
  <2> QED
    BY <2>1, <2>2, <2>4, <2>5, <2>6, <2>7, CondFrame DEF CondInvOf
<1> QED
  BY <1>1, <1>3, <1>4

\* Nothing that a condition variable depends on changes.
LEMMA CondUndisturbed ==
  ASSUME CondInv, UNCHANGED <<cond_waiters, pc, arg, in_wait>>,
         \A t \in Thread :
           /\ value'[t] = value[t]
           /\ \A l : holder'[l] = t => holder[l] = t
           /\ \A l \in Lock : pc[t] = "broadcast" /\ holder[l] = t => holder'[l] = t
           /\ pc[t] = "broadcast" => CondLock[arg[t]] \in Lock
           /\ status'[t] = "dying" => status[t] = "dying" \/ ~Suspended(t)
  PROVE  CondInv'
<1>1. ASSUME NEW t \in Thread PROVE CondInvOf(t)'
  <2>1. CondInvOf(t)
    BY DEF CondInv
  <2>2. InCondWait(t)'
    BY <2>1 DEF CondInvOf, InCondWait
  <2>3. OnList(t)'
    BY <2>1 DEF CondInvOf, OnList, Suspended, WaitsFor
  <2>4. OwnSemaphore(t)'
    BY <2>1 DEF CondInvOf, OwnSemaphore, WaitsFor
  <2>5. Broadcasting(t)'
    BY <2>1 DEF CondInvOf, Broadcasting
  <2> QED
    BY <2>2, <2>3, <2>4, <2>5 DEF CondInvOf
<1> QED
  BY <1>1 DEF CondInv

\* A broadcaster's lock is a lock.
LEMMA BroadcastLock ==
  ASSUME SynchAssumption, SynchIInv, NEW t \in Thread, pc[t] = "broadcast"
  PROVE  arg[t] \in Cond /\ CondLock[arg[t]] \in Lock
  BY DEF SynchAssumption, SynchIInv, Waiting, ArgInv

\* cond_signal(), or once around cond_broadcast()'s loop: the first on the list
\* is past its lock_release(), for the signaller holds the lock.
LEMMA SignalConds ==
  ASSUME SynchAssumption, SynchIInv, CondInv, NEW me \in Thread, NEW c \in Cond,
         holder[CondLock[c]] = me, signal(c), UNCHANGED <<holder, pc, arg, in_wait>>
  PROVE  CondInv'
<1> DEFINE q == cond_waiters[c]
<1>1. /\ q \in Seq(Thread) /\ q # <<>> /\ IsInjective(q) /\ cond_waiters \in [Cond -> Seq(Thread)]
      /\ value \in [Semaphore -> Nat]
  BY DEF signal, SynchIInv, SynchTypes, CondInv
<1>2. PICK h \in Thread : h = Head(q) /\ h \in Range(q)
  BY <1>1, PopFront, RangeOfSeq
<1>3. cond_waiters' = [cond_waiters EXCEPT ![c] = Tail(q)] /\ sema_up(h) /\ h \in Semaphore
  BY <1>2 DEF signal, Semaphore
<1>4. /\ Range(q) = Range(Tail(q)) \cup {h} /\ h \notin Range(Tail(q))
      /\ IsInjective(Tail(q)) /\ Tail(q) \in Seq(Thread)
  BY <1>1, <1>2, PopFront
<1>5. \A d \in Cond : cond_waiters'[d] = IF d = c THEN Tail(q) ELSE cond_waiters[d]
  BY <1>1, <1>3
<1>6. \A t \in Thread : value'[t] = IF t = h THEN value[t] + 1 ELSE value[t]
  BY <1>1, <1>3 DEF sema_up, Semaphore
<1>7. \A t \in Thread : status'[t] = "dying" => status[t] = "dying"
  BY <1>3, UpEffect
<1>8. CondInvOf(h) /\ in_wait[h] = c
  BY <1>2 DEF CondInv, CondInvOf, OnList
<1>9. h # me /\ (pc[h] = "wait" \/ WaitsFor(h, h))
  <2>1. me # NULL /\ c # NULL /\ h # me
    BY <1>2, <1>8, SynchAssumption DEF SynchAssumption, AllThreads, CondInvOf, OnList
  <2>2. pc[h] # "releasing"
    BY <1>8, <2>1 DEF CondInvOf, InCondWait, SynchIInv, Locking, GapInv
  <2> QED
    BY <1>2, <1>8, <2>1, <2>2 DEF CondInvOf, OnList, Suspended
<1> HIDE DEF q
<1>10. ASSUME NEW t \in Thread PROVE CondInvOf(t)'
  <2>1. CondInvOf(t)
    BY DEF CondInv
  <2>2. InCondWait(t)'
    <3>1. CASE in_wait[t] # NULL /\ pc[t] = "releasing"
      <4>1. /\ in_wait[t] \in Cond /\ arg[t] = CondLock[in_wait[t]]
            /\ holder[arg[t]] = NULL /\ NULL \notin Thread
        BY <2>1, <3>1, SynchAssumption DEF SynchIInv, SynchTypes, Locking, GapInv, CondInvOf,
          InCondWait, SynchAssumption, AllThreads
      <4>2. in_wait[t] # c
        BY <4>1
      <4> QED
        BY <1>5, <2>1, <4>1, <4>2 DEF CondInvOf, InCondWait
    <3>2. CASE ~(in_wait[t] # NULL /\ pc[t] = "releasing")
      BY <2>1, <3>2 DEF CondInvOf, InCondWait
    <3> QED
      BY <3>1, <3>2
  <2>3. OnList(t)'
    <3>1. \A d \in Cond : t \in Range(cond_waiters'[d]) => t \in Range(cond_waiters[d])
      BY <1>4, <1>5 DEF q
    <3> QED
      BY <1>7, <2>1, <3>1 DEF CondInvOf, OnList, Suspended, WaitsFor
  <2>4. OwnSemaphore(t)'
    <3>1. CASE t = h
      <4>1. value[h] = 0
        BY <1>2, <1>8, <1>9 DEF CondInvOf, OwnSemaphore, q
      <4>2. value'[h] = 1 /\ h \notin Range(cond_waiters'[in_wait[h]])
        BY <1>4, <1>5, <1>6, <1>8, <4>1
      <4> QED
        BY <1>9, <3>1, <4>2 DEF OwnSemaphore, WaitsFor
    <3>2. CASE t # h
      <4>1. value'[t] = value[t] /\ \A d \in Cond : t \in Range(cond_waiters'[d]) <=> t \in Range(cond_waiters[d])
        BY <1>4, <1>5, <1>6, <3>2 DEF q
      <4>2. pc[t] = "wait" \/ WaitsFor(t, t) => in_wait[t] \in Cond
        BY DEF SynchIInv, Waiting, ArgInv, WaitsFor
      <4> QED
        BY <2>1, <4>1, <4>2 DEF CondInvOf, OwnSemaphore, WaitsFor
    <3> QED
      BY <3>1, <3>2
  <2>5. Broadcasting(t)'
    BY <2>1 DEF CondInvOf, Broadcasting
  <2> QED
    BY <2>2, <2>3, <2>4, <2>5 DEF CondInvOf
<1> QED
  BY <1>4, <1>5, <1>10 DEF CondInv

\* cond_wait() puts its caller, who is on no list, last on the condition's.
LEMMA CondWaitConds ==
  ASSUME SynchAssumption, SynchIInv, CondInv, NEW c \in Cond, CondWait(c)
  PROVE  CondInv'
<1>1. PICK me \in Thread : me = current /\ pc[me] = "run" /\ status[me] = "running"
  BY AtThread DEF CondWait, At
<1>2. PICK l \in Lock : l = CondLock[c]
  BY SynchAssumption DEF SynchAssumption
<1>3. /\ value' = [value EXCEPT ![me] = 0]
      /\ cond_waiters' = [cond_waiters EXCEPT ![c] = Append(@, me)]
      /\ in_wait' = [in_wait EXCEPT ![me] = c]
      /\ holder[l] = me /\ holder' = [holder EXCEPT ![l] = NULL]
      /\ pc' = [pc EXCEPT ![me] = "releasing"] /\ arg' = [arg EXCEPT ![me] = l]
      /\ status' = status
  BY <1>1, <1>2 DEF CondWait, DropHold, Goto, schedVars
<1>4. /\ pc'[me] = "releasing" /\ arg'[me] = l /\ in_wait'[me] = c /\ value'[me] = 0
      /\ holder'[l] = NULL /\ NULL # me
      /\ \A m \in Lock : m # l => holder'[m] = holder[m]
      /\ \A t \in Thread \ {me} : /\ pc'[t] = pc[t] /\ arg'[t] = arg[t] /\ in_wait'[t] = in_wait[t]
                                  /\ value'[t] = value[t]
  BY <1>3, SynchAssumption DEF SynchIInv, SynchTypes, Semaphore, SynchAssumption, AllThreads
<1>5. ~Suspended(me) /\ \A d \in Cond : me \notin Range(cond_waiters[d])
  BY <1>1, OffList DEF Suspended, WaitsFor
<1>6. PICK q \in Seq(Thread) : q = cond_waiters[c]
  BY DEF SynchIInv, SynchTypes
<1>7. /\ Append(q, me) \in Seq(Thread) /\ Range(Append(q, me)) = Range(q) \cup {me}
      /\ IsInjective(Append(q, me)) /\ Len(Append(q, me)) = Len(q) + 1 /\ Len(q) \in Nat
      /\ Append(q, me)[Len(q) + 1] = me
  BY <1>5, <1>6, PushBack DEF CondInv
<1>8. \A d \in Cond : cond_waiters'[d] = IF d = c THEN Append(q, me) ELSE cond_waiters[d]
  BY <1>3, <1>6 DEF SynchIInv, SynchTypes
<1>9. \A d \in Cond, t \in Thread :
        t \in Range(cond_waiters'[d]) <=> (t \in Range(cond_waiters[d]) \/ (d = c /\ t = me))
  BY <1>6, <1>7, <1>8
<1>10. CondInvOf(me)'
  <2>1. InCondWait(me)'
    <3>0. PICK r : r = Append(q, me)
      OBVIOUS
    <3>1. cond_waiters'[c] = r
      BY <1>8, <3>0
    <3>2. Len(r) > 0 /\ r[Len(r)] = me
      BY <1>7, <3>0
    <3> QED
      BY <1>2, <1>4, <3>1, <3>2 DEF InCondWait
  <2>2. OnList(me)'
    BY <1>1, <1>2, <1>3, <1>4, <1>5, <1>9 DEF OnList, Suspended
  <2>3. OwnSemaphore(me)' /\ Broadcasting(me)'
    BY <1>4 DEF OwnSemaphore, Broadcasting, WaitsFor
  <2> QED
    BY <2>1, <2>2, <2>3 DEF CondInvOf
<1>11. ASSUME NEW t \in Thread, t # me PROVE CondInvOf(t)'
  <2>1. CondInvOf(t)
    BY DEF CondInv
  <2>2. InCondWait(t)'
    <3>1. CASE in_wait[t] # NULL /\ pc[t] = "releasing"
      <4>1. /\ in_wait[t] \in Cond /\ arg[t] = CondLock[in_wait[t]]
            /\ holder[arg[t]] = NULL
        BY <2>1, <3>1 DEF SynchIInv, SynchTypes, Locking, GapInv, CondInvOf, InCondWait
      <4>2. in_wait[t] # c
        BY <1>2, <1>3, <1>4, <4>1
      <4> QED
        BY <1>4, <1>8, <1>11, <2>1, <4>1, <4>2 DEF CondInvOf, InCondWait
    <3>2. CASE ~(in_wait[t] # NULL /\ pc[t] = "releasing")
      BY <1>4, <1>11, <2>1, <3>2 DEF CondInvOf, InCondWait
    <3> QED
      BY <3>1, <3>2
  <2>3. OnList(t)'
    <3>1. ASSUME NEW d \in Cond PROVE holder'[CondLock[d]] = t => holder[CondLock[d]] = t
      <4>1. CondLock[d] \in Lock /\ NULL # t
        BY SynchAssumption DEF SynchAssumption, AllThreads
      <4> QED
        BY <1>4, <4>1
    <3> QED
      BY <1>3, <1>4, <1>9, <1>11, <2>1, <3>1 DEF CondInvOf, OnList, Suspended, WaitsFor
  <2>4. OwnSemaphore(t)'
    <3>1. pc[t] = "wait" \/ WaitsFor(t, t) => in_wait[t] \in Cond
      BY DEF SynchIInv, Waiting, ArgInv, WaitsFor
    <3> QED
      BY <1>4, <1>9, <1>11, <2>1, <3>1 DEF CondInvOf, OwnSemaphore, WaitsFor
  <2>5. Broadcasting(t)'
    BY <1>3, <1>4, <1>11, <2>1, BroadcastLock DEF CondInvOf, Broadcasting
  <2> QED
    BY <2>2, <2>3, <2>4, <2>5 DEF CondInvOf
<1> QED
  BY <1>7, <1>8, <1>10, <1>11 DEF CondInv

\* sema_up() of a semaphore or a lock wakes nobody in cond_wait() for good, and
\* nobody who is there dies.
LEMMA UpConds ==
  ASSUME SynchAssumption, SynchIInv, CondInv, NEW s \in Sema \cup Lock, sema_up(s),
         UNCHANGED <<holder, cond_waiters, pc, arg, in_wait>>
  PROVE  CondInv'
<1>1. s \in Semaphore /\ s \notin Thread /\ Thread \subseteq Semaphore
  BY SynchAssumption DEF SynchAssumption, AllThreads, Semaphore
<1>2. \A t \in Thread : value'[t] = value[t] /\ (status'[t] = "dying" => status[t] = "dying")
  <2>1. \A t \in Thread : value'[t] = value[t]
    BY <1>1 DEF sema_up, SynchIInv, SynchTypes
  <2> QED
    BY <1>1, <2>1, UpEffect
<1> QED
  BY <1>2, CondUndisturbed, BroadcastLock

\* lock_release() is over; in cond_wait() the thread goes on to wait.
LEMMA ReleaseUpConds ==
  ASSUME SynchAssumption, SynchIInv, CondInv, ReleaseUp
  PROVE  CondInv'
<1>1. PICK me \in Thread : me = current /\ pc[me] = "releasing"
  BY AtThread DEF ReleaseUp, At
<1>2. PICK l \in Lock : l = arg[me] /\ sema_up(l)
  BY <1>1 DEF ReleaseUp, SynchIInv, Waiting, ArgInv
<1>3. PICK there : there = IF in_wait[me] = NULL THEN "run" ELSE "wait"
  OBVIOUS
<1>4. /\ pc' = [pc EXCEPT ![me] = there] /\ arg' = [arg EXCEPT ![me] = NULL]
      /\ UNCHANGED <<holder, cond_waiters, in_wait>>
  BY <1>1, <1>3 DEF ReleaseUp, Goto
<1>5. /\ pc'[me] = there
      /\ \A t \in Thread \ {me} : pc'[t] = pc[t] /\ arg'[t] = arg[t]
  BY <1>4 DEF SynchIInv, SynchTypes
<1>6. \A t \in Thread : value'[t] = value[t] /\ (status'[t] = "dying" => status[t] = "dying")
  <2>1. l \in Semaphore /\ l \notin Thread /\ Thread \subseteq Semaphore
    BY SynchAssumption DEF SynchAssumption, AllThreads, Semaphore
  <2>2. \A t \in Thread : value'[t] = value[t]
    BY <1>2, <2>1 DEF sema_up, SynchIInv, SynchTypes
  <2> QED
    BY <1>2, <2>1, <2>2, UpEffect
<1>7. CondInvOf(me)
  BY DEF CondInv
<1>8. value[me] = 0
  BY <1>1, <1>7 DEF CondInvOf, OwnSemaphore, WaitsFor
<1>9. CASE in_wait[me] = NULL
  <2>1. there = "run" /\ \A c \in Cond : me \notin Range(cond_waiters[c])
    BY <1>3, <1>7, <1>9, SynchAssumption DEF CondInvOf, OnList, SynchAssumption
  <2>2. InCondWait(me)' /\ Broadcasting(me)' /\ OnList(me)'
    BY <1>4, <1>5, <1>9, <2>1 DEF InCondWait, Broadcasting, OnList
  <2>3. OwnSemaphore(me)'
    BY <1>5, <1>6, <1>8, <2>1 DEF OwnSemaphore, WaitsFor
  <2> QED
    BY <1>4, <1>5, <1>6, <2>2, <2>3, CondFrame DEF CondInvOf
<1>10. CASE in_wait[me] # NULL
  <2>1. there = "wait"
    BY <1>3, <1>10
  <2>2. me \in Range(cond_waiters[in_wait[me]])
    <3>1. PICK q \in Seq(Thread) : q = cond_waiters[in_wait[me]]
      BY <1>10 DEF SynchIInv, SynchTypes
    <3>2. Len(q) > 0 /\ q[Len(q)] = me /\ Len(q) \in 1..Len(q)
      BY <1>1, <1>7, <1>10, <3>1 DEF CondInvOf, InCondWait
    <3> QED
      BY <3>1, <3>2, RangeByIndex
  <2>3. InCondWait(me)' /\ Broadcasting(me)'
    BY <1>5, <2>1 DEF InCondWait, Broadcasting
  <2>4. OnList(me)'
    BY <1>4, <1>5, <1>6, <1>7, <2>1 DEF CondInvOf, OnList, Suspended
  <2>5. OwnSemaphore(me)'
    BY <1>4, <1>5, <1>6, <1>8, <2>1, <2>2 DEF OwnSemaphore
  <2> QED
    BY <1>4, <1>5, <1>6, <2>3, <2>4, <2>5, CondFrame DEF CondInvOf
<1> QED
  BY <1>9, <1>10

\* The rest of lock_acquire(): cond_wait() is over if it was in one.
LEMMA TakeHoldConds ==
  ASSUME SynchAssumption, SynchIInv, CondInv, TakeHold
  PROVE  CondInv'
<1>1. PICK me \in Thread : me = current /\ pc[me] = "granted"
  BY AtThread DEF TakeHold, At
<1>2. PICK l \in Lock : l = arg[me] /\ holder[l] = NULL
  BY <1>1 DEF SynchIInv, Waiting, ArgInv, Locking, GapInv
<1>3. /\ holder' = [holder EXCEPT ![l] = me] /\ in_wait' = [in_wait EXCEPT ![me] = NULL]
      /\ pc' = [pc EXCEPT ![me] = "run"] /\ arg' = [arg EXCEPT ![me] = NULL]
      /\ UNCHANGED <<value, cond_waiters>> /\ status' = status
  BY <1>1, <1>2 DEF TakeHold, Goto, schedVars
<1>4. /\ pc'[me] = "run" /\ in_wait'[me] = NULL
      /\ \A t \in Thread \ {me} : pc'[t] = pc[t] /\ arg'[t] = arg[t] /\ in_wait'[t] = in_wait[t]
      /\ \A t \in Thread \ {me} : t # NULL
  BY <1>3, SynchAssumption DEF SynchIInv, SynchTypes, SynchAssumption, AllThreads
<1>5. \A t \in Thread \ {me} : \A m : holder'[m] = t <=> holder[m] = t
  BY <1>2, <1>3, <1>4 DEF SynchIInv, SynchTypes
<1>6. CondInvOf(me) /\ \A c \in Cond : me \notin Range(cond_waiters[c])
  BY <1>1, OffList DEF CondInv, Suspended, WaitsFor
<1>7. CondInvOf(me)'
  BY <1>1, <1>3, <1>4, <1>6 DEF CondInvOf, InCondWait, OnList, OwnSemaphore, Broadcasting, WaitsFor
<1> QED
  BY <1>3, <1>4, <1>5, <1>7, CondFrame

\* lock_release() of a lock, outside cond_wait().
LEMMA LockReleaseConds ==
  ASSUME SynchAssumption, SynchIInv, CondInv, NEW l \in Lock, LockRelease(l)
  PROVE  CondInv'
<1>1. PICK me \in Thread : me = current /\ pc[me] = "run"
  BY AtThread DEF LockRelease, At
<1>2. /\ holder[l] = me /\ holder' = [holder EXCEPT ![l] = NULL]
      /\ pc' = [pc EXCEPT ![me] = "releasing"] /\ arg' = [arg EXCEPT ![me] = l]
      /\ UNCHANGED <<value, cond_waiters, in_wait>> /\ status' = status
  BY <1>1 DEF LockRelease, DropHold, Goto, schedVars
<1>3. /\ pc'[me] = "releasing"
      /\ \A t \in Thread \ {me} : pc'[t] = pc[t] /\ arg'[t] = arg[t]
      /\ \A t \in Thread \ {me} : t # NULL
  BY <1>2, SynchAssumption DEF SynchIInv, SynchTypes, SynchAssumption, AllThreads
<1>4. \A t \in Thread \ {me} : \A m : holder'[m] = t <=> holder[m] = t
  BY <1>2, <1>3 DEF SynchIInv, SynchTypes
<1>5. CondInvOf(me) /\ \A c \in Cond : me \notin Range(cond_waiters[c])
  BY <1>1, OffList DEF CondInv, Suspended, WaitsFor
<1>6. in_wait[me] = NULL
  BY <1>1, <1>5 DEF CondInvOf, InCondWait
<1>7. CondInvOf(me)'
  BY <1>1, <1>2, <1>3, <1>5, <1>6 DEF CondInvOf, InCondWait, OnList, OwnSemaphore, Broadcasting, WaitsFor
<1> QED
  BY <1>2, <1>3, <1>4, <1>7, CondFrame

\* The locks that release_locks() frees are nobody else's, and its caller is in no
\* cond_wait().
LEMMA ThreadExitConds ==
  ASSUME SynchAssumption, SynchIInv, CondInv, ThreadExit
  PROVE  CondInv'
<1>1. PICK me \in Thread : me = current /\ pc[me] = "run"
  BY AtThread DEF ThreadExit, At
<1>2. PICK held \in Seq(Lock) : held = lock_list[me]
  BY DEF SynchIInv, SynchTypes
<1>3. Range(held) \subseteq Lock /\ \A l \in Lock : l \in Range(held) <=> holder[l] = me
  BY <1>2, RangeOfSeq DEF SynchIInv, Locking, LockListInv
<1>4. /\ holder' = [l \in Lock |-> IF l \in Range(held) THEN NULL ELSE holder[l]]
      /\ value' = [s \in Semaphore |-> IF s \in Range(held) THEN value[s] + 1 ELSE value[s]]
      /\ UNCHANGED <<cond_waiters, pc, arg, in_wait>>
  BY <1>1, <1>2 DEF ThreadExit
<1>5. \A t \in Thread : value'[t] = value[t] /\ t # NULL
  BY <1>3, <1>4, SynchAssumption DEF SynchAssumption, AllThreads, Semaphore
<1>6. \A t \in Thread : status'[t] = "dying" => status[t] = "dying" \/ t = me
  BY <1>1, ExitWoken
<1>7. ASSUME NEW t \in Thread
      PROVE  /\ \A l \in Lock : holder'[l] = t => holder[l] = t
             /\ \A l \in Lock : pc[t] = "broadcast" /\ holder[l] = t => holder'[l] = t
  BY <1>1, <1>3, <1>4, <1>5
<1>8. ASSUME NEW t \in Thread PROVE CondInvOf(t)'
  <2>1. CondInvOf(t)
    BY DEF CondInv
  <2>2. InCondWait(t)'
    BY <1>4, <2>1 DEF CondInvOf, InCondWait
  <2>3. OnList(t)'
    <3>1. \A c \in Cond : CondLock[c] \in Lock
      BY SynchAssumption DEF SynchAssumption
    <3>2. t = me => ~Suspended(t)
      BY <1>1 DEF Suspended, WaitsFor
    <3> QED
      BY <1>4, <1>6, <1>7, <2>1, <3>1, <3>2 DEF CondInvOf, OnList, Suspended, WaitsFor
  <2>4. OwnSemaphore(t)'
    BY <1>4, <1>5, <2>1 DEF CondInvOf, OwnSemaphore, WaitsFor
  <2>5. Broadcasting(t)'
    BY <1>4, <1>7, <2>1, BroadcastLock DEF CondInvOf, Broadcasting
  <2> QED
    BY <2>2, <2>3, <2>4, <2>5 DEF CondInvOf
<1> QED
  BY <1>4, <1>8 DEF CondInv

\* The scheduler's part: nobody dies and no thread in cond_wait() is disturbed.
LEMMA SchedOnlyConds ==
  ASSUME SynchAssumption, SynchIInv, CondInv, UNCHANGED synchVars,
         \A t \in Thread : status'[t] = "dying" => status[t] = "dying"
  PROVE  CondInv'
<1>1. UNCHANGED <<value, holder, cond_waiters, pc, arg, in_wait>>
  BY DEF synchVars
<1> QED
  BY <1>1, CondUndisturbed, BroadcastLock

\* A thread goes on in a primitive it is in.
LEMMA ContinueConds ==
  ASSUME SynchAssumption, SynchIInv, CondInv, Continue
  PROVE  CondInv'
<1>1. PICK me \in Thread : me = current
  BY AtThread DEF Continue, Recheck, TakeHold, ReleaseUp, WaitDown, Relock, Broadcast, Start, At
<1>2. CASE Recheck
  <2>1. PICK s \in Semaphore : s = arg[me] /\ pc[me] = "down"
    BY <1>1, <1>2 DEF Recheck, At, SynchIInv, Waiting, ArgInv
  <2>2. /\ sema_down(s, AfterDown(s)) /\ UNCHANGED <<holder, cond_waiters, in_wait>>
        /\ CondInvOf(me)
    BY <1>1, <1>2, <2>1 DEF Recheck, CondInv
  <2>3. CASE s = me
    <3>1. AfterDown(s) = "relock" /\ WaitsFor(me, me)
      BY <2>1, <2>3, AfterDownOf DEF WaitsFor
    <3> QED
      BY <1>1, <2>2, <2>3, <3>1, OwnDownConds
  <2>4. CASE s # me
    <3>1. s \in Sema \cup Lock /\ ~Suspended(me)
      BY <2>1, <2>4 DEF Semaphore, Suspended, WaitsFor, SynchIInv, Waiting, ArgInv
    <3>2. in_wait[me] # NULL => s = CondLock[in_wait[me]] /\ in_wait[me] \in Cond
      BY <2>1, <2>2, <2>4 DEF CondInvOf, InCondWait, SynchIInv, SynchTypes
    <3>3. AfterDown(s) \in {"run", "granted"} /\ (s \in Lock => AfterDown(s) = "granted")
      BY <3>1, AfterDownOf
    <3>4. in_wait[me] # NULL => AfterDown(s) = "granted" /\ s = CondLock[in_wait[me]]
      BY <3>2, <3>3, SynchAssumption DEF SynchAssumption
    <3> QED
      BY <1>1, <2>2, <3>1, <3>3, <3>4, DownConds
  <2> QED
    BY <2>3, <2>4
<1>3. CASE TakeHold
  BY <1>3, TakeHoldConds
<1>4. CASE ReleaseUp
  BY <1>4, ReleaseUpConds
<1>5. CASE WaitDown
  BY <1>1, <1>5, OwnDownConds DEF WaitDown, At
<1>6. CASE Relock
  <2>1. pc[me] = "relock" /\ in_wait[me] \in Cond
    BY <1>1, <1>6 DEF Relock, At, SynchIInv, Waiting, ArgInv
  <2>2. CondLock[in_wait[me]] \in Sema \cup Lock /\ ~Suspended(me)
    BY <2>1, SynchAssumption DEF SynchAssumption, Suspended, WaitsFor
  <2> QED
    BY <1>1, <1>6, <2>1, <2>2, DownConds DEF Relock
<1>7. CASE Broadcast
  <2>1. pc[me] = "broadcast" /\ arg[me] \in Cond /\ holder[CondLock[arg[me]]] = me
    BY <1>1, <1>7, BroadcastLock DEF Broadcast, At, CondInv, CondInvOf, Broadcasting
  <2>2. CASE signal(arg[me]) /\ UNCHANGED <<pc, arg>>
    BY <1>7, <2>1, <2>2, SignalConds DEF Broadcast
  <2>3. CASE Goto("run", NULL) /\ UNCHANGED <<schedVars, value, waiters, cond_waiters>>
    <3>1. ~Suspended(me) /\ in_wait[me] = NULL
      BY <2>1 DEF Suspended, WaitsFor, CondInv, CondInvOf, InCondWait
    <3>2. /\ pc' = [pc EXCEPT ![me] = "run"] /\ arg' = [arg EXCEPT ![me] = NULL]
          /\ UNCHANGED <<cond_waiters, in_wait, holder>> /\ status' = status /\ value' = value
      BY <1>1, <1>7, <2>3 DEF Broadcast, Goto, schedVars
    <3>3. PICK there : there = "run"
      OBVIOUS
    <3>4. /\ pc' = [pc EXCEPT ![me] = there]
          /\ there \notin {"releasing", "wait"} /\ there # "down" /\ there # "broadcast"
      BY <3>2, <3>3
    <3> QED
      BY <3>1, <3>2, <3>4, CondGoto
  <2> QED
    BY <1>1, <1>7, <2>2, <2>3 DEF Broadcast
<1>8. CASE Start
  <2>1. PICK u \in Thread : u = arg[me] /\ pc[me] = "creating"
    BY <1>1, <1>8 DEF Start, At, SynchIInv, Waiting, IdleInv
  <2>2. ~Suspended(me) /\ in_wait[me] = NULL
    BY <2>1 DEF Suspended, WaitsFor, CondInv, CondInvOf, InCondWait
  <2>3. \A t \in Thread : status'[t] = IF t = u THEN "ready" ELSE status[t]
    BY <1>1, <1>8, <2>1, UnblockEffect DEF Start, SynchIInv
  <2>4. /\ pc' = [pc EXCEPT ![me] = "run"] /\ arg' = [arg EXCEPT ![me] = NULL]
        /\ UNCHANGED <<cond_waiters, in_wait, holder, value>>
    BY <1>1, <1>8 DEF Start, Goto
  <2>5. PICK there : there = "run"
    OBVIOUS
  <2>6. /\ pc' = [pc EXCEPT ![me] = there]
        /\ there \notin {"releasing", "wait"} /\ there # "down" /\ there # "broadcast"
    BY <2>4, <2>5
  <2>7. \A t \in Thread : value'[t] = value[t] /\ (status'[t] = "dying" => status[t] = "dying")
    BY <2>3, <2>4
  <2> QED
    BY <2>2, <2>4, <2>6, <2>7, CondGoto
<1> QED
  BY <1>2, <1>3, <1>4, <1>5, <1>6, <1>7, <1>8 DEF Continue

\* At the start nobody waits for a condition.
LEMMA InitConds ==
  ASSUME SynchAssumption, Init PROVE CondInv
<1>1. IsInjective(<<>>) /\ Range(<<>>) = {}
  BY DEF IsInjective, Range
<1>2. \A t \in Thread : value[t] = 0
  BY SynchAssumption DEF Init, Semaphore, SynchAssumption, AllThreads
<1> QED
  BY <1>1, <1>2 DEF Init, CondInv, CondInvOf, InCondWait, OnList, OwnSemaphore, Broadcasting, WaitsFor

\* A thread that is not in the middle of anything is in no cond_wait().
LEMMA RunIsOut ==
  ASSUME CondInv, NEW t \in Thread, pc[t] = "run"
  PROVE  ~Suspended(t) /\ in_wait[t] = NULL
  BY DEF Suspended, WaitsFor, CondInv, CondInvOf, InCondWait

\* Every step keeps the invariant of the conditions.
LEMMA NextConds ==
  ASSUME SynchAssumption, SynchIInv, CondInv, [Next]_vars
  PROVE  CondInv'
<1>1. CASE UNCHANGED vars
  BY <1>1, SchedOnlyConds DEF vars, schedVars
<1>2. CASE Continue
  BY <1>2, ContinueConds
<1>3. ASSUME NEW s \in Sema, SemaDown(s) PROVE CondInv'
  <2>1. PICK me \in Thread : me = current /\ pc[me] = "run"
    BY <1>3, AtThread DEF SemaDown, At
  <2> QED
    BY <1>3, <2>1, RunIsOut, DownConds DEF SemaDown
<1>4. ASSUME NEW s \in Sema, SemaUp(s) \/ InterruptSemaUp(s) PROVE CondInv'
  BY <1>4, UpConds DEF SemaUp, InterruptSemaUp
<1>5. ASSUME NEW l \in Lock, LockAcquire(l) PROVE CondInv'
  <2>1. PICK me \in Thread : me = current /\ pc[me] = "run"
    BY <1>5, AtThread DEF LockAcquire, At
  <2> QED
    BY <1>5, <2>1, RunIsOut, DownConds DEF LockAcquire
<1>6. ASSUME NEW l \in Lock, LockTryAcquire(l) PROVE CondInv'
  <2>1. PICK me \in Thread : me = current /\ pc[me] = "run"
    BY <1>6, AtThread DEF LockTryAcquire, At
  <2>2. /\ pc' = [pc EXCEPT ![me] = "granted"] /\ arg' = [arg EXCEPT ![me] = l]
        /\ value' = [value EXCEPT ![l] = @ - 1] /\ status' = status
        /\ UNCHANGED <<cond_waiters, in_wait, holder>>
    BY <1>6, <2>1 DEF LockTryAcquire, Goto, schedVars
  <2>3. \A t \in Thread : value'[t] = value[t] /\ (status'[t] = "dying" => status[t] = "dying")
    BY <2>2, SynchAssumption DEF SynchIInv, SynchTypes, SynchAssumption, AllThreads, Semaphore
  <2>4. PICK there : there = "granted"
    OBVIOUS
  <2>5. /\ pc' = [pc EXCEPT ![me] = there]
        /\ there \notin {"releasing", "wait"} /\ there # "down" /\ there # "broadcast"
    BY <2>2, <2>4
  <2> QED
    BY <2>1, <2>2, <2>3, <2>5, RunIsOut, CondGoto
<1>7. ASSUME NEW l \in Lock, LockRelease(l) PROVE CondInv'
  BY <1>7, LockReleaseConds
<1>8. ASSUME NEW c \in Cond, CondWait(c) PROVE CondInv'
  BY <1>8, CondWaitConds
<1>9. ASSUME NEW c \in Cond, CondSignal(c) PROVE CondInv'
  BY <1>9, AtThread, SignalConds DEF CondSignal, At
<1>10. ASSUME NEW c \in Cond, CondBroadcast(c) PROVE CondInv'
  <2>1. PICK me \in Thread : me = current /\ pc[me] = "run" /\ holder[CondLock[c]] = me
    BY <1>10, AtThread DEF CondBroadcast, At
  <2>2. /\ pc' = [pc EXCEPT ![me] = "broadcast"] /\ arg' = [arg EXCEPT ![me] = c]
        /\ UNCHANGED <<cond_waiters, in_wait, holder, value>> /\ status' = status
    BY <1>10, <2>1 DEF CondBroadcast, Goto, schedVars
  <2>3. PICK there : there = "broadcast"
    OBVIOUS
  <2>4. /\ pc' = [pc EXCEPT ![me] = there]
        /\ there \notin {"releasing", "wait"} /\ there # "down"
    BY <2>2, <2>3
  <2> QED
    BY <2>1, <2>2, <2>4, RunIsOut, CondGoto
<1>11. ASSUME NEW u \in Thread, Create(u) PROVE CondInv'
  <2>1. PICK me \in Thread : me = current /\ pc[me] = "run" /\ status[me] = "running"
    BY <1>11, AtThread DEF Create, At
  <2>2. /\ pc' = [pc EXCEPT ![me] = "creating"] /\ arg' = [arg EXCEPT ![me] = u]
        /\ UNCHANGED <<cond_waiters, in_wait, holder, value>>
    BY <1>11, <2>1 DEF Create, Goto
  <2>3. \A t \in Thread : value'[t] = value[t] /\ (status'[t] = "dying" => status[t] = "dying")
    BY <1>11, <2>2 DEF Create, init_thread, SynchIInv, SchedIInv, SchedTypeOK, AllThreads
  <2>4. PICK there : there = "creating"
    OBVIOUS
  <2>5. /\ pc' = [pc EXCEPT ![me] = there]
        /\ there \notin {"releasing", "wait"} /\ there # "down" /\ there # "broadcast"
    BY <2>2, <2>4
  <2> QED
    BY <2>1, <2>2, <2>3, <2>5, RunIsOut, CondGoto
<1>12. CASE ThreadExit
  BY <1>12, ThreadExitConds
<1>13. CASE YieldOrSleep
  <2>1. PICK me \in Thread : me = current /\ pc[me] = "run" /\ status[me] = "running"
    BY <1>13, AtThread DEF YieldOrSleep, At
  <2>2. CASE Yield
    <3>1. /\ ready_list \in Seq(Thread) /\ status \in [AllThreads -> Status] /\ current \in AllThreads
          /\ \A t \in Range(ready_list) : status[t] = "ready"
          /\ thread_yield(ready_list, status) /\ status[current] = "running"
      BY <2>1, <2>2, RangeOfSeq DEF Yield, SynchIInv, SchedIInv, SchedTypeOK, QueueInv
    <3> QED
      BY <1>13, <3>1, YieldEffect, SchedOnlyConds DEF YieldOrSleep
  <2>3. CASE \E n \in 1..MaxSleep : timer_sleep(n)
    BY <1>13, <2>1, <2>3, BlockEffect, SchedOnlyConds DEF YieldOrSleep, timer_sleep, SynchIInv
  <2> QED
    BY <1>13, <2>2, <2>3 DEF YieldOrSleep
<1>14. CASE IdleStep
  BY <1>14, IdleEffect, SchedOnlyConds DEF IdleStep
<1>15. CASE Tick
  BY <1>15, TimerEffect, SchedOnlyConds DEF Tick, SynchIInv
<1> QED
  BY <1>1, <1>2, <1>3, <1>4, <1>5, <1>6, <1>7, <1>8, <1>9, <1>10, <1>11, <1>12, <1>13, <1>14,
     <1>15 DEF Next

\* No signal is lost or counted twice, and nobody dies on a condition's list.
THEOREM SignalCorrect == Spec => []SignalInv
<1>1. Init => CondInv
  BY SynchAssumption, InitConds
<1>2. SynchIInv /\ CondInv /\ [Next]_vars => CondInv'
  BY SynchAssumption, NextConds
<1>3. SynchIInv /\ CondInv => SignalInv
  BY SynchAssumption, CondInvIsEnough
<1> QED
  BY <1>1, <1>2, <1>3, SynchSafe, PTL DEF Spec

-----------------------------------------------------------------------------
(* Synch implements Monitor.                                               *)

\* A list and the same with one more at its end.
LEMMA LastOff ==
  ASSUME NEW S, NEW q \in Seq(S), NEW x \in S
  PROVE  SubSeq(Append(q, x), 1, Len(q)) = q
<1> DEFINE r == Append(q, x)
<1>1. r \in Seq(S) /\ Len(r) = Len(q) + 1 /\ \A i \in 1..Len(q) : r[i] = q[i]
  OBVIOUS
<1> HIDE DEF r
<1>2. /\ SubSeq(r, 1, Len(q)) \in Seq(S) /\ Len(SubSeq(r, 1, Len(q))) = Len(q)
      /\ \A i \in 1..Len(q) : SubSeq(r, 1, Len(q))[i] = q[i]
  BY <1>1, SubSeqProperties
<1>3. SubSeq(r, 1, Len(q)) = q
  BY <1>2, SeqEqual
<1> QED
  BY <1>3 DEF r

\* All of a list but its last, and the last.
LEMMA LastOn ==
  ASSUME NEW S, NEW q \in Seq(S), Len(q) > 0
  PROVE  /\ SubSeq(q, 1, Len(q) - 1) \in Seq(S)
         /\ Append(SubSeq(q, 1, Len(q) - 1), q[Len(q)]) = q
<1> DEFINE r == SubSeq(q, 1, Len(q) - 1)
<1>1. /\ r \in Seq(S) /\ Len(r) = Len(q) - 1 /\ Len(q) - 1 \in Nat
      /\ \A i \in 1..(Len(q) - 1) : r[i] = q[i]
  <2>0. Len(q) \in Nat /\ Len(q) - 1 \in 0..Len(q)
    BY LenProperties
  <2>1. PICK n \in 0..Len(q) : n = Len(q) - 1
    BY <2>0
  <2> QED
    BY <2>1, Cut
<1> HIDE DEF r
<1>2. q[Len(q)] \in S
  OBVIOUS
<1>3. /\ Append(r, q[Len(q)]) \in Seq(S) /\ Len(Append(r, q[Len(q)])) = Len(q)
      /\ \A i \in 1..Len(q) : Append(r, q[Len(q)])[i] = q[i]
  BY <1>1, <1>2
<1>4. Append(r, q[Len(q)]) = q
  BY <1>3, SeqEqual
<1> QED
  BY <1>1, <1>4 DEF r

\* The abstract state is as it was.
MonitorSame ==
  /\ \A l \in Lock : Owners(l)' = Owners(l)
  /\ \A c \in Cond : WaitingOn(c)' = WaitingOn(c) /\ AwakeFrom(c)' = AwakeFrom(c)

\* A step that changes none of what the mapping is made of is a stutter.
LEMMA SameIsStutter == MonitorSame => UNCHANGED M!monitorVars
<1> SUFFICES ASSUME MonitorSame PROVE UNCHANGED M!monitorVars
  OBVIOUS
<1>1. [l \in Lock |-> OneOf(Owners(l))]' = [l \in Lock |-> OneOf(Owners(l))]
  BY DEF MonitorSame
<1>2. [c \in Cond |-> WaitingOn(c)]' = [c \in Cond |-> WaitingOn(c)]
  BY DEF MonitorSame
<1>3. [c \in Cond |-> AwakeFrom(c)]' = [c \in Cond |-> AwakeFrom(c)]
  BY DEF MonitorSame
<1> QED
  BY <1>1, <1>2, <1>3 DEF M!monitorVars

\* Whoever owns a lock is its only owner.
LEMMA OneOfOne ==
  ASSUME NEW t PROVE OneOf({t}) = t /\ OneOf({}) = NULL
  BY DEF OneOf

\* Who is not on the condition's list does not wait.
LEMMA NotWaiting ==
  ASSUME SynchIInv, NEW me, NEW c \in Cond, me \notin Range(cond_waiters[c])
  PROVE  \A i \in DOMAIN WaitingOn(c) : WaitingOn(c)[i] # me
<1>1. PICK q \in Seq(Thread) : q = cond_waiters[c] /\ \A i \in 1..Len(q) : q[i] # me
  BY RangeByIndex DEF SynchIInv, SynchTypes
<1>2. PICK w : w = WaitingOn(c)
  OBVIOUS
<1>3. CASE w = q
  BY <1>1, <1>2, <1>3
<1>4. CASE Len(q) > 0 /\ w = SubSeq(q, 1, Len(q) - 1)
  <2>1. DOMAIN w = 1..(Len(q) - 1) /\ \A i \in 1..(Len(q) - 1) : w[i] = q[i]
    BY <1>4
  <2> QED
    BY <1>1, <1>2, <2>1
<1> QED
  BY <1>1, <1>2, <1>3, <1>4 DEF WaitingOn

\* A thread outside cond_wait() is outside every wait of the monitor.
LEMMA OutsideWaits ==
  ASSUME SynchAssumption, SynchIInv, CondInv, NEW me \in Thread, ~Suspended(me), in_wait[me] = NULL
  PROVE  M!Outside(me)
<1>1. ASSUME NEW c \in Cond
      PROVE  /\ me \notin AwakeFrom(c)
             /\ \A i \in DOMAIN WaitingOn(c) : WaitingOn(c)[i] # me
  <2>1. c # NULL
    BY SynchAssumption DEF SynchAssumption
  <2>2. me \notin Range(cond_waiters[c])
    BY OffList
  <2>7. \A i \in DOMAIN WaitingOn(c) : WaitingOn(c)[i] # me
    BY <2>2, NotWaiting
  <2> QED
    BY <2>1, <2>7 DEF AwakeFrom
<1> QED
  BY <1>1 DEF M!Outside

\* The list of a condition, but for a last thread that is still giving up the lock.
LEMMA ListSettled ==
  ASSUME SynchAssumption, SynchIInv, CondInv, NEW c \in Cond,
         holder[CondLock[c]] \in Thread
  PROVE  WaitingOn(c) = cond_waiters[c]
<1>1. PICK q \in Seq(Thread) : q = cond_waiters[c]
  BY DEF SynchIInv, SynchTypes
<1>2. SUFFICES ASSUME Len(q) > 0, pc[q[Len(q)]] = "releasing" PROVE FALSE
  BY <1>1 DEF WaitingOn
<1>3. PICK t \in Thread : t = q[Len(q)] /\ t \in Range(q)
  <2>1. Len(q) \in 1..Len(q) /\ q[Len(q)] \in Thread
    BY <1>2
  <2> QED
    BY <2>1, RangeByIndex
<1>4. in_wait[t] = c /\ c # NULL /\ NULL \notin Thread
  BY <1>1, <1>3, SynchAssumption DEF CondInv, CondInvOf, OnList, SynchAssumption, AllThreads
<1>5. holder[CondLock[c]] = NULL
  BY <1>2, <1>3, <1>4 DEF CondInv, CondInvOf, InCondWait, SynchIInv, Locking, GapInv
<1> QED
  BY <1>4, <1>5

\* A thread that is off the condition's list before and after does not show in it.
LEMMA WaitingFrame ==
  ASSUME SynchIInv, CondInv, NEW me, NEW c \in Cond, cond_waiters'[c] = cond_waiters[c],
         me \notin Range(cond_waiters[c]),
         \A t \in Thread \ {me} : pc'[t] = "releasing" <=> pc[t] = "releasing"
  PROVE  WaitingOn(c)' = WaitingOn(c)
<1>1. PICK q \in Seq(Thread) : q = cond_waiters[c]
  BY DEF SynchIInv, SynchTypes
<1>2. Len(q) > 0 => q[Len(q)] \in Thread /\ q[Len(q)] # me
  <2>1. Len(q) > 0 => Len(q) \in 1..Len(q) /\ q[Len(q)] \in Thread
    OBVIOUS
  <2> QED
    BY <1>1, <2>1, RangeByIndex
<1> QED
  BY <1>1, <1>2 DEF WaitingOn

\* A thread goes from one place to another that is no gap of a lock.
LEMMA GotoIsStutter ==
  ASSUME SynchIInv, NEW me \in Thread,
         \A t \in Thread \ {me} : pc'[t] = pc[t] /\ arg'[t] = arg[t],
         pc[me] \notin {"granted", "releasing"}, pc'[me] \notin {"granted", "releasing"},
         UNCHANGED <<holder, cond_waiters, in_wait>>
  PROVE  MonitorSame
<1>1. ASSUME NEW l \in Lock PROVE Owners(l)' = Owners(l)
  BY DEF Owners, Owns
<1>2. ASSUME NEW c \in Cond PROVE WaitingOn(c)' = WaitingOn(c)
  <2>1. PICK q \in Seq(Thread) : q = cond_waiters[c]
    BY DEF SynchIInv, SynchTypes
  <2>2. Len(q) > 0 => q[Len(q)] \in Thread
    OBVIOUS
  <2>3. \A t \in Thread : pc'[t] = "releasing" <=> pc[t] = "releasing"
    OBVIOUS
  <2> QED
    BY <2>1, <2>2, <2>3 DEF WaitingOn
<1>3. ASSUME NEW c \in Cond PROVE AwakeFrom(c)' = AwakeFrom(c)
  BY DEF AwakeFrom
<1> QED
  BY <1>1, <1>2, <1>3 DEF MonitorSame

\* Nothing the monitor is about changes.
LEMMA UnchangedIsStutter ==
  ASSUME UNCHANGED <<holder, cond_waiters, pc, arg, in_wait>> PROVE MonitorSame
  BY DEF MonitorSame, Owners, Owns, WaitingOn, AwakeFrom

\* A lock's semaphore is taken: its owner changes from nobody to the taker.
LEMMA TakeOwners ==
  ASSUME SynchAssumption, SynchIInv, NEW me \in Thread, NEW l \in Lock, value[l] > 0,
         pc[me] \notin {"granted", "releasing"},
         pc' = [pc EXCEPT ![me] = "granted"], arg' = [arg EXCEPT ![me] = l], holder' = holder
  PROVE  /\ Owners(l) = {} /\ Owners(l)' = {me}
         /\ \A m \in Lock : m # l => Owners(m)' = Owners(m)
<1>1. \A t \in Thread : ~Owns(t, l)
  BY DEF SynchIInv, Locking, OneOwner
<1>2. /\ pc'[me] = "granted" /\ arg'[me] = l
      /\ \A t \in Thread \ {me} : pc'[t] = pc[t] /\ arg'[t] = arg[t]
  BY DEF SynchIInv, SynchTypes
<1>3. Owners(l) = {} /\ Owners(l)' = {me}
  BY <1>1, <1>2 DEF Owners, Owns
<1>4. ASSUME NEW m \in Lock, m # l PROVE Owners(m)' = Owners(m)
  BY <1>2, <1>4 DEF Owners, Owns
<1> QED
  BY <1>3, <1>4

\* lock_acquire() or lock_try_acquire() gets the lock, first or back in cond_wait().
LEMMA TakeIsAcquire ==
  ASSUME SynchAssumption, SynchIInv, CondInv, NEW me \in Thread, NEW l \in Lock, value[l] > 0,
         ~Suspended(me), pc[me] # "granted",
         in_wait[me] # NULL => l = CondLock[in_wait[me]],
         pc' = [pc EXCEPT ![me] = "granted"], arg' = [arg EXCEPT ![me] = l],
         UNCHANGED <<holder, cond_waiters, in_wait>>
  PROVE  M!MonitorNext
<1>1. /\ Owners(l) = {} /\ Owners(l)' = {me}
      /\ \A m \in Lock : m # l => Owners(m)' = Owners(m)
  BY TakeOwners DEF Suspended
<1>2. /\ pc'[me] = "granted"
      /\ \A t \in Thread \ {me} : pc'[t] = pc[t]
  BY DEF SynchIInv, SynchTypes
<1> DEFINE own == [m \in Lock |-> OneOf(Owners(m))]
<1>3. own[l] = NULL /\ own' = [own EXCEPT ![l] = me]
  BY <1>1, OneOfOne
<1>4. [c \in Cond |-> WaitingOn(c)]' = [c \in Cond |-> WaitingOn(c)]
  <2>1. \A c \in Cond : me \notin Range(cond_waiters[c])
    BY OffList
  <2>2. ASSUME NEW c \in Cond PROVE WaitingOn(c)' = WaitingOn(c)
    BY <1>2, <2>1, WaitingFrame
  <2> QED
    BY <2>2
<1>5. CASE in_wait[me] = NULL
  <2>1. ASSUME NEW c \in Cond PROVE AwakeFrom(c)' = AwakeFrom(c)
    <3>1. c # NULL
      BY SynchAssumption DEF SynchAssumption
    <3> QED
      BY <1>2, <1>5, <3>1 DEF AwakeFrom
  <2>2. M!Outside(me)
    BY <1>5, OutsideWaits
  <2>3. M!Acquire(me, l)
    BY <1>3, <1>4, <2>1, <2>2 DEF M!Acquire
  <2> QED
    BY <2>3 DEF M!MonitorNext
<1>6. CASE in_wait[me] # NULL
  <2>1. PICK c \in Cond : c = in_wait[me] /\ l = CondLock[c]
    BY <1>6 DEF SynchIInv, SynchTypes
  <2>2. me \in AwakeFrom(c) /\ AwakeFrom(c)' = AwakeFrom(c) \ {me}
    BY <1>2, <2>1, OffList DEF AwakeFrom
  <2>3. \A d \in Cond : d # c => AwakeFrom(d)' = AwakeFrom(d)
    BY <1>2, <2>1 DEF AwakeFrom
  <2> DEFINE awk == [d \in Cond |-> AwakeFrom(d)]
  <2>4. awk' = [awk EXCEPT ![c] = @ \ {me}] /\ me \in awk[c]
    BY <2>2, <2>3
  <2>5. M!Reacquire(me, c)
    BY <1>3, <1>4, <2>1, <2>4 DEF M!Reacquire
  <2> QED
    BY <2>5 DEF M!MonitorNext
<1> QED
  BY <1>5, <1>6

\* sema_down() of a semaphore or lock: a lock may get an owner.
LEMMA DownIsMonitor ==
  ASSUME SynchAssumption, SynchIInv, CondInv, NEW me \in Thread, me = current,
         NEW s \in Sema \cup Lock, NEW label \in {"run", "granted"},
         label = "granted" <=> s \in Lock,
         ~Suspended(me), pc[me] # "granted",
         in_wait[me] # NULL => s = CondLock[in_wait[me]],
         sema_down(s, label), UNCHANGED <<holder, cond_waiters, in_wait>>
  PROVE  [M!MonitorNext]_M!monitorVars
<1>1. pc[me] # "releasing" /\ value[s] \in Nat
  BY DEF Suspended, SynchIInv, SynchTypes, Semaphore
<1>2. CASE value[s] > 0 /\ s \in Lock
  <2>1. pc' = [pc EXCEPT ![me] = "granted"] /\ arg' = [arg EXCEPT ![me] = s]
    BY <1>2 DEF sema_down, Goto
  <2> QED
    BY <1>2, <2>1, TakeIsAcquire
<1>3. CASE value[s] = 0 \/ s \notin Lock
  <2>1. PICK there, what : /\ pc' = [pc EXCEPT ![me] = there] /\ arg' = [arg EXCEPT ![me] = what]
                           /\ there \in {"run", "down"}
    BY <1>3 DEF sema_down, Goto
  <2>2. /\ pc'[me] \notin {"granted", "releasing"}
        /\ \A t \in Thread \ {me} : pc'[t] = pc[t] /\ arg'[t] = arg[t]
    BY <2>1 DEF SynchIInv, SynchTypes
  <2> QED
    BY <1>1, <2>2, GotoIsStutter, SameIsStutter
<1> QED
  BY <1>1, <1>2, <1>3

\* sema_down() of a thread's own semaphore is no business of the monitor's.
LEMMA OwnDownIsStutter ==
  ASSUME SynchIInv, NEW me \in Thread, me = current,
         pc[me] = "wait" \/ WaitsFor(me, me),
         sema_down(me, "relock"), UNCHANGED <<holder, cond_waiters, in_wait>>
  PROVE  MonitorSame
<1>1. PICK there, what : /\ pc' = [pc EXCEPT ![me] = there] /\ arg' = [arg EXCEPT ![me] = what]
                         /\ there \in {"relock", "down"}
  BY DEF sema_down, Goto
<1>2. /\ pc'[me] \notin {"granted", "releasing"} /\ pc[me] \notin {"granted", "releasing"}
      /\ \A t \in Thread \ {me} : pc'[t] = pc[t] /\ arg'[t] = arg[t]
  BY <1>1 DEF SynchIInv, SynchTypes, WaitsFor
<1> QED
  BY <1>2, GotoIsStutter

\* The owner of a lock becomes its holder.
LEMMA TakeHoldIsStutter ==
  ASSUME SynchAssumption, SynchIInv, CondInv, TakeHold PROVE MonitorSame
<1>1. PICK me \in Thread : me = current /\ pc[me] = "granted"
  BY AtThread DEF TakeHold, At
<1>2. PICK l \in Lock : l = arg[me] /\ holder[l] = NULL
  BY <1>1 DEF SynchIInv, Waiting, ArgInv, Locking, GapInv
<1>3. /\ holder' = [holder EXCEPT ![l] = me] /\ in_wait' = [in_wait EXCEPT ![me] = NULL]
      /\ pc' = [pc EXCEPT ![me] = "run"] /\ arg' = [arg EXCEPT ![me] = NULL]
      /\ cond_waiters' = cond_waiters
  BY <1>1, <1>2 DEF TakeHold, Goto
<1>4. /\ pc'[me] = "run" /\ in_wait'[me] = NULL /\ holder'[l] = me
      /\ \A t \in Thread \ {me} : pc'[t] = pc[t] /\ arg'[t] = arg[t] /\ in_wait'[t] = in_wait[t]
      /\ \A m \in Lock : m # l => holder'[m] = holder[m]
      /\ NULL \notin Thread /\ NULL \notin Cond
  BY <1>3, SynchAssumption DEF SynchIInv, SynchTypes, SynchAssumption, AllThreads
<1>5. ASSUME NEW m \in Lock PROVE Owners(m)' = Owners(m)
  <2>1. ASSUME NEW t \in Thread PROVE Owns(t, m)' <=> Owns(t, m)
    <3>1. CASE t = me
      BY <1>1, <1>2, <1>4, <3>1 DEF Owns
    <3>2. CASE t # me
      BY <1>2, <1>4, <3>2 DEF Owns
    <3> QED
      BY <3>1, <3>2
  <2> QED
    BY <2>1 DEF Owners
<1>6. \A c \in Cond : me \notin Range(cond_waiters[c])
  BY <1>1, OffList DEF Suspended, WaitsFor
<1>7. ASSUME NEW c \in Cond PROVE WaitingOn(c)' = WaitingOn(c)
  BY <1>3, <1>4, <1>6, WaitingFrame
<1>8. ASSUME NEW c \in Cond PROVE AwakeFrom(c)' = AwakeFrom(c)
  BY <1>1, <1>3, <1>4 DEF AwakeFrom
<1> QED
  BY <1>5, <1>7, <1>8 DEF MonitorSame

\* lock_release() or cond_wait() up to the sema_up(): the lock has no holder, but
\* still its owner.
LEMMA DropOwners ==
  ASSUME SynchAssumption, SynchIInv, NEW me \in Thread, NEW l \in Lock, pc[me] = "run",
         holder[l] = me, holder' = [holder EXCEPT ![l] = NULL],
         pc' = [pc EXCEPT ![me] = "releasing"], arg' = [arg EXCEPT ![me] = l]
  PROVE  \A m \in Lock : Owners(m)' = Owners(m)
<1>1. /\ pc'[me] = "releasing" /\ arg'[me] = l /\ holder'[l] = NULL
      /\ \A t \in Thread \ {me} : pc'[t] = pc[t] /\ arg'[t] = arg[t]
      /\ \A m \in Lock : m # l => holder'[m] = holder[m]
      /\ NULL \notin Thread
  BY SynchAssumption DEF SynchIInv, SynchTypes, SynchAssumption, AllThreads
<1>2. ASSUME NEW m \in Lock, NEW t \in Thread PROVE Owns(t, m)' <=> Owns(t, m)
  <2>1. CASE t = me
    BY <1>1, <2>1 DEF Owns
  <2>2. CASE t # me
    BY <1>1, <2>2 DEF Owns
  <2> QED
    BY <2>1, <2>2
<1> QED
  BY <1>2 DEF Owners

\* lock_release() itself is a stutter: the sema_up() that follows releases.
LEMMA LockReleaseIsStutter ==
  ASSUME SynchAssumption, SynchIInv, CondInv, NEW l \in Lock, LockRelease(l) PROVE MonitorSame
<1>1. PICK me \in Thread : me = current /\ pc[me] = "run"
  BY AtThread DEF LockRelease, At
<1>2. /\ holder[l] = me /\ holder' = [holder EXCEPT ![l] = NULL]
      /\ pc' = [pc EXCEPT ![me] = "releasing"] /\ arg' = [arg EXCEPT ![me] = l]
      /\ UNCHANGED <<cond_waiters, in_wait>>
  BY <1>1 DEF LockRelease, DropHold, Goto
<1>3. ~Suspended(me) /\ in_wait[me] = NULL /\ NULL \notin Cond
  BY <1>1, RunIsOut, SynchAssumption DEF SynchAssumption
<1>4. pc'[me] = "releasing" /\ \A t \in Thread \ {me} : pc'[t] = pc[t]
  BY <1>2 DEF SynchIInv, SynchTypes
<1>5. ASSUME NEW c \in Cond PROVE WaitingOn(c)' = WaitingOn(c) /\ AwakeFrom(c)' = AwakeFrom(c)
  <2>1. WaitingOn(c)' = WaitingOn(c)
    BY <1>2, <1>3, <1>4, OffList, WaitingFrame
  <2> QED
    BY <1>2, <1>3, <1>4, <2>1 DEF AwakeFrom
<1> QED
  BY <1>1, <1>2, <1>5, DropOwners DEF MonitorSame

\* cond_wait() up to the sema_up(): its caller is on the list, but does not wait yet.
LEMMA CondWaitIsStutter ==
  ASSUME SynchAssumption, SynchIInv, CondInv, NEW c \in Cond, CondWait(c) PROVE MonitorSame
<1>1. PICK me \in Thread : me = current /\ pc[me] = "run"
  BY AtThread DEF CondWait, At
<1>2. PICK l \in Lock : l = CondLock[c]
  BY SynchAssumption DEF SynchAssumption
<1>3. /\ cond_waiters' = [cond_waiters EXCEPT ![c] = Append(@, me)]
      /\ in_wait' = [in_wait EXCEPT ![me] = c]
      /\ holder[l] = me /\ holder' = [holder EXCEPT ![l] = NULL]
      /\ pc' = [pc EXCEPT ![me] = "releasing"] /\ arg' = [arg EXCEPT ![me] = l]
  BY <1>1, <1>2 DEF CondWait, DropHold, Goto
<1>4. ~Suspended(me) /\ in_wait[me] = NULL /\ NULL \notin Cond
  BY <1>1, RunIsOut, SynchAssumption DEF SynchAssumption
<1>5. /\ pc'[me] = "releasing" /\ in_wait'[me] = c
      /\ \A t \in Thread \ {me} : pc'[t] = pc[t] /\ in_wait'[t] = in_wait[t]
  BY <1>3 DEF SynchIInv, SynchTypes
<1>6. PICK q \in Seq(Thread) : q = cond_waiters[c] /\ WaitingOn(c) = q
  BY <1>2, <1>3, ListSettled DEF SynchIInv, SynchTypes
<1>7. PICK r \in Seq(Thread) : /\ r = Append(q, me) /\ Len(r) > 0 /\ r[Len(r)] = me
                               /\ SubSeq(r, 1, Len(r) - 1) = q /\ Range(r) = Range(q) \cup {me}
  <2>1. PICK r : r = Append(q, me)
    OBVIOUS
  <2>2. /\ r \in Seq(Thread) /\ Len(r) = Len(q) + 1 /\ Len(q) \in Nat /\ r[Len(q) + 1] = me
        /\ Range(r) = Range(q) \cup {me}
    BY <2>1, PushBack
  <2>3. SubSeq(r, 1, Len(q)) = q
    BY <2>1, LastOff
  <2>4. Len(r) > 0 /\ Len(r) - 1 = Len(q) /\ r[Len(r)] = me
    BY <2>2
  <2> QED
    BY <2>1, <2>2, <2>3, <2>4
<1>8. \A d \in Cond : cond_waiters'[d] = IF d = c THEN r ELSE cond_waiters[d]
  BY <1>3, <1>6, <1>7 DEF SynchIInv, SynchTypes
<1>9. WaitingOn(c)' = q
  BY <1>5, <1>7, <1>8 DEF WaitingOn
<1>10. ASSUME NEW d \in Cond, d # c PROVE WaitingOn(d)' = WaitingOn(d)
  BY <1>4, <1>5, <1>8, <1>10, OffList, WaitingFrame
<1>11. ASSUME NEW d \in Cond PROVE AwakeFrom(d)' = AwakeFrom(d)
  <2>1. \A t \in Thread : t # me => (t \in Range(cond_waiters'[d]) <=> t \in Range(cond_waiters[d]))
    BY <1>6, <1>7, <1>8
  <2>2. me \in Range(cond_waiters'[c])
    BY <1>7, <1>8
  <2> QED
    BY <1>4, <1>5, <2>1, <2>2 DEF AwakeFrom
<1> QED
  BY <1>1, <1>2, <1>3, <1>6, <1>9, <1>10, <1>11, DropOwners DEF MonitorSame

\* The sema_up() of lock_release(): the lock is free and, in cond_wait(), its caller
\* begins to wait.
LEMMA ReleaseUpIsMonitor ==
  ASSUME SynchAssumption, SynchIInv, CondInv, ReleaseUp
  PROVE  M!MonitorNext
<1>1. PICK me \in Thread : me = current /\ pc[me] = "releasing"
  BY AtThread DEF ReleaseUp, At
<1>2. PICK l \in Lock : l = arg[me] /\ holder[l] = NULL
  BY <1>1 DEF ReleaseUp, SynchIInv, Waiting, ArgInv, Locking, GapInv
<1>3. PICK there \in {"run", "wait"} : there = IF in_wait[me] = NULL THEN "run" ELSE "wait"
  OBVIOUS
<1>4. /\ pc' = [pc EXCEPT ![me] = there] /\ arg' = [arg EXCEPT ![me] = NULL]
      /\ UNCHANGED <<holder, cond_waiters, in_wait>>
  BY <1>1, <1>3 DEF ReleaseUp, Goto
<1>5. /\ pc'[me] = there
      /\ \A t \in Thread \ {me} : pc'[t] = pc[t] /\ arg'[t] = arg[t]
      /\ NULL \notin Thread /\ NULL \notin Cond
  BY <1>4, SynchAssumption DEF SynchIInv, SynchTypes, SynchAssumption, AllThreads
<1>6. Owners(l) = {me} /\ Owners(l)' = {}
  <2>1. \A t \in Thread : Owns(t, l) <=> t = me
    BY <1>1, <1>2 DEF SynchIInv, Locking, OneOwner, Owns
  <2>2. \A t \in Thread : ~Owns(t, l)'
    BY <1>2, <1>4, <1>5, <2>1 DEF Owns
  <2> QED
    BY <2>1, <2>2 DEF Owners
<1>7. ASSUME NEW m \in Lock, m # l PROVE Owners(m)' = Owners(m)
  BY <1>1, <1>2, <1>4, <1>5, <1>7 DEF Owners, Owns
<1> DEFINE own == [m \in Lock |-> OneOf(Owners(m))]
<1>8. own[l] = me /\ own' = [own EXCEPT ![l] = NULL]
  BY <1>6, <1>7, OneOfOne
<1>9. CondInvOf(me)
  BY DEF CondInv
<1>10. ASSUME NEW c \in Cond PROVE AwakeFrom(c)' = AwakeFrom(c)
  BY <1>1, <1>4, <1>5 DEF AwakeFrom
<1>11. CASE in_wait[me] = NULL
  <2>1. \A c \in Cond : me \notin Range(cond_waiters[c])
    BY <1>5, <1>9, <1>11 DEF CondInvOf, OnList
  <2>2. ASSUME NEW c \in Cond PROVE WaitingOn(c)' = WaitingOn(c)
    BY <1>4, <1>5, <2>1, WaitingFrame
  <2>3. M!Outside(me)
    <3>1. ASSUME NEW c \in Cond
          PROVE  me \notin AwakeFrom(c) /\ \A i \in DOMAIN WaitingOn(c) : WaitingOn(c)[i] # me
      <4>4. \A i \in DOMAIN WaitingOn(c) : WaitingOn(c)[i] # me
        BY <2>1, NotWaiting
      <4> QED
        BY <1>5, <1>11, <4>4 DEF AwakeFrom
    <3> QED
      BY <3>1 DEF M!Outside
  <2>4. own' = [m \in Lock |-> IF m \in {l} THEN NULL ELSE own[m]]
    BY <1>8
  <2>5. M!Release(me, {l})
    BY <1>8, <1>10, <2>2, <2>3, <2>4 DEF M!Release
  <2>6. {l} \in (SUBSET Lock) \ {{}}
    OBVIOUS
  <2> QED
    BY <2>5, <2>6 DEF M!MonitorNext
<1>12. CASE in_wait[me] # NULL
  <2>1. PICK c \in Cond : c = in_wait[me] /\ l = CondLock[c]
    BY <1>1, <1>2, <1>9, <1>12 DEF SynchIInv, SynchTypes, CondInvOf, InCondWait
  <2>2. PICK q \in Seq(Thread) : /\ q = cond_waiters[c] /\ Len(q) > 0 /\ q[Len(q)] = me
                                 /\ IsInjective(q)
    BY <1>1, <1>9, <1>12, <2>1 DEF SynchIInv, SynchTypes, CondInvOf, InCondWait, CondInv
  <2>3. PICK r \in Seq(Thread) : /\ r = SubSeq(q, 1, Len(q) - 1) /\ Append(r, me) = q
                                 /\ \A i \in DOMAIN r : r[i] # me
    <3>1. PICK r : r = SubSeq(q, 1, Len(q) - 1)
      OBVIOUS
    <3>2. r \in Seq(Thread) /\ Append(r, me) = q
      BY <2>2, <3>1, LastOn
    <3>3. DOMAIN r = 1..(Len(q) - 1) /\ \A i \in 1..(Len(q) - 1) : r[i] = q[i]
      BY <2>2, <3>1
    <3>4. \A i \in 1..(Len(q) - 1) : q[i] # me
      <4>1. \A i, j \in 1..Len(q) : q[i] = q[j] => i = j
        BY <2>2, RangeByIndex
      <4> QED
        BY <2>2, <4>1
    <3> QED
      BY <3>1, <3>2, <3>3, <3>4
  <2>4. WaitingOn(c) = r /\ WaitingOn(c)' = q
    BY <1>1, <1>3, <1>4, <1>5, <1>12, <2>2, <2>3 DEF WaitingOn
  <2>5. \A d \in Cond : d # c => me \notin Range(cond_waiters[d])
    BY <1>9, <2>1 DEF CondInvOf, OnList
  <2>6. \A d \in Cond : d # c => WaitingOn(d)' = WaitingOn(d)
    BY <1>4, <1>5, <2>5, WaitingFrame
  <2> DEFINE wtg == [d \in Cond |-> WaitingOn(d)]
  <2>7. wtg' = [wtg EXCEPT ![c] = Append(@, me)]
    BY <2>3, <2>4, <2>6
  <2>8. me \in Range(cond_waiters[c])
    <3>1. Len(q) \in 1..Len(q)
      BY <2>2
    <3> QED
      BY <2>2, <3>1, RangeByIndex
  <2>9. M!Outside(me)
    <3>1. ASSUME NEW d \in Cond
          PROVE  me \notin AwakeFrom(d) /\ \A i \in DOMAIN WaitingOn(d) : WaitingOn(d)[i] # me
      <4>1. CASE d = c
        BY <2>3, <2>4, <2>8, <4>1 DEF AwakeFrom
      <4>2. CASE d # c
        <5>4. \A i \in DOMAIN WaitingOn(d) : WaitingOn(d)[i] # me
          BY <2>5, <4>2, NotWaiting
        <5> QED
          BY <2>1, <4>2, <5>4 DEF AwakeFrom
      <4> QED
        BY <4>1, <4>2
    <3> QED
      BY <3>1 DEF M!Outside
  <2>10. M!Wait(me, c)
    BY <1>8, <1>10, <2>1, <2>7, <2>9 DEF M!Wait
  <2> QED
    BY <2>10 DEF M!MonitorNext
<1> QED
  BY <1>11, <1>12

\* The last of a list is the last of its tail.
LEMMA LastOfTail ==
  ASSUME NEW S, NEW q \in Seq(S), q # <<>>, Len(Tail(q)) > 0
  PROVE  Tail(q)[Len(Tail(q))] = q[Len(q)] /\ Len(q) > 0
  BY HeadTailProperties

\* cond_signal(), and each turn of cond_broadcast(), signal the first that waits.
LEMMA SignalIsMonitor ==
  ASSUME SynchAssumption, SynchIInv, CondInv, NEW me \in Thread, NEW c \in Cond,
         ~Suspended(me), in_wait[me] = NULL,
         holder[CondLock[c]] = me, signal(c), UNCHANGED <<holder, pc, arg, in_wait>>
  PROVE  M!MonitorNext
<1>1. PICK q \in Seq(Thread) : q = cond_waiters[c] /\ q # <<>> /\ IsInjective(q) /\ WaitingOn(c) = q
  BY ListSettled DEF signal, SynchIInv, SynchTypes, CondInv
<1>2. PICK h \in Thread : h = Head(q) /\ h \in Range(q)
  BY <1>1, PopFront, RangeOfSeq
<1>3. PICK r \in Seq(Thread) : r = Tail(q) /\ Range(q) = Range(r) \cup {h} /\ h \notin Range(r)
  BY <1>1, <1>2, PopFront
<1>4. \A d \in Cond : cond_waiters'[d] = IF d = c THEN r ELSE cond_waiters[d]
  BY <1>1, <1>3 DEF signal, SynchIInv, SynchTypes
<1>5. WaitingOn(c)' = r
  <2>1. Len(r) > 0 => r[Len(r)] = q[Len(q)] /\ Len(q) > 0
    BY <1>1, <1>3, LastOfTail
  <2>2. Len(q) > 0 => pc[q[Len(q)]] # "releasing"
    <3>1. SUFFICES ASSUME Len(q) > 0, pc[q[Len(q)]] = "releasing" PROVE FALSE
      OBVIOUS
    <3>2. WaitingOn(c) = SubSeq(q, 1, Len(q) - 1)
      BY <1>1, <3>1 DEF WaitingOn
    <3>3. Len(SubSeq(q, 1, Len(q) - 1)) = Len(q) - 1
      <4>0. Len(q) \in Nat /\ Len(q) - 1 \in 0..Len(q)
        BY <3>1, LenProperties
      <4>1. PICK n \in 0..Len(q) : n = Len(q) - 1
        BY <4>0
      <4> QED
        BY <4>1, Cut
    <3> QED
      BY <1>1, <3>1, <3>2, <3>3
  <2> QED
    BY <1>4, <2>1, <2>2 DEF WaitingOn
<1>6. \A d \in Cond : d # c => WaitingOn(d)' = WaitingOn(d)
  BY <1>4 DEF WaitingOn
<1> DEFINE wtg == [d \in Cond |-> WaitingOn(d)]
           awk == [d \in Cond |-> AwakeFrom(d)]
           own == [l \in Lock |-> OneOf(Owners(l))]
<1>7. wtg[c] = q /\ wtg' = [wtg EXCEPT ![c] = Tail(@)]
  BY <1>1, <1>3, <1>5, <1>6
<1>8. in_wait[h] = c /\ pc[h] # "granted"
  BY <1>1, <1>2 DEF CondInv, CondInvOf, OnList, Suspended, WaitsFor
<1>9. AwakeFrom(c)' = AwakeFrom(c) \cup {h}
  BY <1>1, <1>3, <1>4, <1>8 DEF AwakeFrom
<1>10. \A d \in Cond : d # c => AwakeFrom(d)' = AwakeFrom(d)
  BY <1>4 DEF AwakeFrom
<1>11. awk' = [awk EXCEPT ![c] = @ \cup {h}]
  BY <1>9, <1>10
<1>12. own' = own
  BY DEF Owners, Owns
<1>13. own[CondLock[c]] = me
  <2>1. CondLock[c] \in Lock
    BY SynchAssumption DEF SynchAssumption
  <2>2. Owners(CondLock[c]) = {me}
    BY <2>1 DEF Owners, Owns, SynchIInv, Locking, OneOwner
  <2> QED
    BY <2>1, <2>2, OneOfOne
<1>14. M!Outside(me)
  BY OutsideWaits
<1>15. M!Signal(me, c)
  BY <1>1, <1>2, <1>7, <1>11, <1>12, <1>13, <1>14 DEF M!Signal
<1> QED
  BY <1>15 DEF M!MonitorNext

\* thread_exit() releases all the locks of a thread at once, if it has any.
LEMMA ThreadExitIsMonitor ==
  ASSUME SynchAssumption, SynchIInv, CondInv, ThreadExit
  PROVE  [M!MonitorNext]_M!monitorVars
<1>1. PICK me \in Thread : me = current /\ pc[me] = "run"
  BY AtThread DEF ThreadExit, At
<1>2. PICK locks : locks = Range(lock_list[me])
  OBVIOUS
<1>3. locks \subseteq Lock /\ \A l \in Lock : l \in locks <=> holder[l] = me
  BY <1>2, RangeOfSeq DEF SynchIInv, SynchTypes, Locking, LockListInv
<1>4. /\ holder' = [l \in Lock |-> IF l \in locks THEN NULL ELSE holder[l]]
      /\ UNCHANGED <<cond_waiters, pc, arg, in_wait>>
  BY <1>1, <1>2 DEF ThreadExit
<1>5. ASSUME NEW l \in locks PROVE Owners(l) = {me} /\ Owners(l)' = {}
  <2>1. \A t \in Thread : Owns(t, l) <=> t = me
    BY <1>3 DEF SynchIInv, Locking, OneOwner, Owns
  <2>2. \A t \in Thread : ~Owns(t, l)'
    <3>1. NULL \notin Thread /\ holder'[l] = NULL
      BY <1>3, <1>4, SynchAssumption DEF SynchAssumption, AllThreads
    <3> QED
      BY <1>1, <1>4, <2>1, <3>1 DEF Owns
  <2> QED
    BY <2>1, <2>2 DEF Owners
<1>6. ASSUME NEW l \in Lock \ locks PROVE Owners(l)' = Owners(l)
  BY <1>4 DEF Owners, Owns
<1>7. \A c \in Cond : WaitingOn(c)' = WaitingOn(c) /\ AwakeFrom(c)' = AwakeFrom(c)
  BY <1>4 DEF WaitingOn, AwakeFrom
<1>8. CASE locks = {}
  BY <1>6, <1>7, <1>8, SameIsStutter DEF MonitorSame
<1>9. CASE locks # {}
  <2> DEFINE own == [l \in Lock |-> OneOf(Owners(l))]
  <2>1. \A l \in locks : own[l] = me
    BY <1>3, <1>5, OneOfOne
  <2>2. own' = [l \in Lock |-> IF l \in locks THEN NULL ELSE own[l]]
    BY <1>5, <1>6, OneOfOne
  <2>3. M!Outside(me)
    BY <1>1, RunIsOut, OutsideWaits
  <2>4. M!Release(me, locks)
    BY <1>7, <2>1, <2>2, <2>3 DEF M!Release
  <2>5. locks \in (SUBSET Lock) \ {{}}
    BY <1>3, <1>9
  <2> QED
    BY <2>4, <2>5 DEF M!MonitorNext
<1> QED
  BY <1>8, <1>9

\* Going on in a primitive is a step of the monitor or a stutter.
LEMMA ContinueIsMonitor ==
  ASSUME SynchAssumption, SynchIInv, CondInv, Continue
  PROVE  [M!MonitorNext]_M!monitorVars
<1>1. PICK me \in Thread : me = current
  BY AtThread DEF Continue, Recheck, TakeHold, ReleaseUp, WaitDown, Relock, Broadcast, Start, At
<1>2. CASE Recheck
  <2>1. PICK s \in Semaphore : s = arg[me] /\ pc[me] = "down"
    BY <1>1, <1>2 DEF Recheck, At, SynchIInv, Waiting, ArgInv
  <2>2. /\ sema_down(s, AfterDown(s)) /\ UNCHANGED <<holder, cond_waiters, in_wait>>
        /\ CondInvOf(me)
    BY <1>1, <1>2, <2>1 DEF Recheck, CondInv
  <2>3. CASE s = me
    <3>1. AfterDown(s) = "relock" /\ WaitsFor(me, me)
      BY <2>1, <2>3, AfterDownOf DEF WaitsFor
    <3> QED
      BY <1>1, <2>2, <2>3, <3>1, OwnDownIsStutter, SameIsStutter
  <2>4. CASE s # me
    <3>1. s \in Sema \cup Lock /\ ~Suspended(me)
      BY <2>1, <2>4 DEF Semaphore, Suspended, WaitsFor, SynchIInv, Waiting, ArgInv
    <3>2. in_wait[me] # NULL => s = CondLock[in_wait[me]]
      BY <2>1, <2>2, <2>4 DEF CondInvOf, InCondWait
    <3>3. AfterDown(s) \in {"run", "granted"} /\ (AfterDown(s) = "granted" <=> s \in Lock)
      BY <3>1, AfterDownOf, SynchAssumption DEF SynchAssumption
    <3> QED
      BY <1>1, <2>1, <2>2, <3>1, <3>2, <3>3, DownIsMonitor
  <2> QED
    BY <2>3, <2>4
<1>3. CASE TakeHold
  BY <1>3, TakeHoldIsStutter, SameIsStutter
<1>4. CASE ReleaseUp
  BY <1>4, ReleaseUpIsMonitor
<1>5. CASE WaitDown
  BY <1>1, <1>5, OwnDownIsStutter, SameIsStutter DEF WaitDown, At
<1>6. CASE Relock
  <2>1. pc[me] = "relock" /\ in_wait[me] \in Cond
    BY <1>1, <1>6 DEF Relock, At, SynchIInv, Waiting, ArgInv
  <2>2. CondLock[in_wait[me]] \in Lock /\ ~Suspended(me)
    BY <2>1, SynchAssumption DEF SynchAssumption, Suspended, WaitsFor
  <2> QED
    BY <1>1, <1>6, <2>1, <2>2, DownIsMonitor DEF Relock
<1>7. CASE Broadcast
  <2>1. pc[me] = "broadcast" /\ arg[me] \in Cond /\ holder[CondLock[arg[me]]] = me
    BY <1>1, <1>7, BroadcastLock DEF Broadcast, At, CondInv, CondInvOf, Broadcasting
  <2>2. CASE signal(arg[me]) /\ UNCHANGED <<pc, arg>>
    <3>1. ~Suspended(me) /\ in_wait[me] = NULL
      BY <2>1 DEF Suspended, WaitsFor, CondInv, CondInvOf, InCondWait
    <3> QED
      BY <1>7, <2>1, <2>2, <3>1, SignalIsMonitor DEF Broadcast
  <2>3. CASE Goto("run", NULL)
    <3>1. /\ pc'[me] = "run" /\ \A t \in Thread \ {me} : pc'[t] = pc[t] /\ arg'[t] = arg[t]
          /\ UNCHANGED <<holder, in_wait>>
      BY <1>1, <1>7, <2>3 DEF Broadcast, Goto, SynchIInv, SynchTypes
    <3>2. cond_waiters' = cond_waiters
      BY <1>1, <1>7, <2>1, <3>1 DEF Broadcast
    <3> QED
      BY <2>1, <3>1, <3>2, GotoIsStutter, SameIsStutter
  <2> QED
    BY <1>1, <1>7, <2>2, <2>3 DEF Broadcast
<1>8. CASE Start
  <2>1. pc[me] = "creating" /\ pc'[me] = "run" /\ \A t \in Thread \ {me} : pc'[t] = pc[t] /\ arg'[t] = arg[t]
    BY <1>1, <1>8 DEF Start, At, Goto, SynchIInv, SynchTypes
  <2> QED
    BY <1>8, <2>1, GotoIsStutter, SameIsStutter DEF Start
<1> QED
  BY <1>2, <1>3, <1>4, <1>5, <1>6, <1>7, <1>8 DEF Continue

\* Every step is a step of the monitor or a stutter.
LEMMA NextIsMonitor ==
  ASSUME SynchAssumption, SynchIInv, CondInv, [Next]_vars
  PROVE  [M!MonitorNext]_M!monitorVars
<1>1. CASE UNCHANGED synchVars
  BY <1>1, UnchangedIsStutter, SameIsStutter DEF synchVars
<1>2. CASE Continue
  BY <1>2, ContinueIsMonitor
<1>3. ASSUME NEW s \in Sema, SemaDown(s) PROVE [M!MonitorNext]_M!monitorVars
  <2>1. PICK me \in Thread : me = current /\ pc[me] = "run"
    BY <1>3, AtThread DEF SemaDown, At
  <2>2. s \notin Lock
    BY SynchAssumption DEF SynchAssumption
  <2> QED
    BY <1>3, <2>1, <2>2, RunIsOut, DownIsMonitor DEF SemaDown
<1>4. ASSUME NEW s \in Sema, SemaUp(s) \/ InterruptSemaUp(s) PROVE [M!MonitorNext]_M!monitorVars
  BY <1>4, UnchangedIsStutter, SameIsStutter DEF SemaUp, InterruptSemaUp
<1>5. ASSUME NEW l \in Lock, LockAcquire(l) PROVE [M!MonitorNext]_M!monitorVars
  <2>1. PICK me \in Thread : me = current /\ pc[me] = "run"
    BY <1>5, AtThread DEF LockAcquire, At
  <2> QED
    BY <1>5, <2>1, RunIsOut, DownIsMonitor DEF LockAcquire
<1>6. ASSUME NEW l \in Lock, LockTryAcquire(l) PROVE [M!MonitorNext]_M!monitorVars
  <2>1. PICK me \in Thread : me = current /\ pc[me] = "run"
    BY <1>6, AtThread DEF LockTryAcquire, At
  <2> QED
    BY <1>6, <2>1, RunIsOut, TakeIsAcquire DEF LockTryAcquire, Goto
<1>7. ASSUME NEW l \in Lock, LockRelease(l) PROVE [M!MonitorNext]_M!monitorVars
  BY <1>7, LockReleaseIsStutter, SameIsStutter
<1>8. ASSUME NEW c \in Cond, CondWait(c) PROVE [M!MonitorNext]_M!monitorVars
  BY <1>8, CondWaitIsStutter, SameIsStutter
<1>9. ASSUME NEW c \in Cond, CondSignal(c) PROVE [M!MonitorNext]_M!monitorVars
  <2>1. PICK me \in Thread : me = current /\ pc[me] = "run"
    BY <1>9, AtThread DEF CondSignal, At
  <2> QED
    BY <1>9, <2>1, RunIsOut, SignalIsMonitor DEF CondSignal
<1>10. ASSUME NEW c \in Cond, CondBroadcast(c) PROVE [M!MonitorNext]_M!monitorVars
  <2>1. PICK me \in Thread : me = current /\ pc[me] = "run"
    BY <1>10, AtThread DEF CondBroadcast, At
  <2>2. pc'[me] = "broadcast" /\ \A t \in Thread \ {me} : pc'[t] = pc[t] /\ arg'[t] = arg[t]
    BY <1>10, <2>1 DEF CondBroadcast, Goto, SynchIInv, SynchTypes
  <2> QED
    BY <1>10, <2>1, <2>2, GotoIsStutter, SameIsStutter DEF CondBroadcast
<1>11. ASSUME NEW u \in Thread, Create(u) PROVE [M!MonitorNext]_M!monitorVars
  <2>1. PICK me \in Thread : me = current /\ pc[me] = "run"
    BY <1>11, AtThread DEF Create, At
  <2>2. pc'[me] = "creating" /\ \A t \in Thread \ {me} : pc'[t] = pc[t] /\ arg'[t] = arg[t]
    BY <1>11, <2>1 DEF Create, Goto, SynchIInv, SynchTypes
  <2> QED
    BY <1>11, <2>1, <2>2, GotoIsStutter, SameIsStutter DEF Create
<1>12. CASE ThreadExit
  BY <1>12, ThreadExitIsMonitor
<1> QED
  BY <1>1, <1>2, <1>3, <1>4, <1>5, <1>6, <1>7, <1>8, <1>9, <1>10, <1>11, <1>12
     DEF Next, YieldOrSleep, IdleStep, Tick, vars

\* The initial states map to the monitor's.
LEMMA InitIsMonitor ==
  ASSUME SynchAssumption, Init PROVE M!MonitorInit
<1>1. NULL \notin Thread
  BY SynchAssumption DEF SynchAssumption, AllThreads
<1>2. [l \in Lock |-> OneOf(Owners(l))] = [l \in Lock |-> NULL]
  <2>1. ASSUME NEW l \in Lock PROVE Owners(l) = {}
    BY <1>1 DEF Init, Owners, Owns
  <2> QED
    BY <2>1, OneOfOne
<1>3. [c \in Cond |-> WaitingOn(c)] = [c \in Cond |-> <<>>]
  BY DEF Init, WaitingOn
<1>4. [c \in Cond |-> AwakeFrom(c)] = [c \in Cond |-> {}]
  <2>1. ASSUME NEW c \in Cond PROVE AwakeFrom(c) = {}
    BY SynchAssumption DEF SynchAssumption, Init, AwakeFrom
  <2> QED
    BY <2>1
<1> QED
  BY <1>2, <1>3, <1>4 DEF M!MonitorInit

\* Locks and condition variables are a monitor: however semaphores, wait lists and
\* the scheduler interleave, the program sees one owner per lock, cond_wait() that
\* gives up the lock and waits in one step, and signals in first-come order.
THEOREM MonitorCorrect == Spec => ImplementsMonitor
<1>1. Init => M!MonitorInit /\ CondInv
  BY SynchAssumption, InitIsMonitor, InitConds
<1>2. SynchIInv /\ CondInv /\ [Next]_vars => CondInv' /\ [M!MonitorNext]_M!monitorVars
  BY SynchAssumption, NextConds, NextIsMonitor
<1> QED
  BY <1>1, <1>2, SynchSafe, PTL DEF Spec, ImplementsMonitor, M!MonitorSpec
===============================================================================
