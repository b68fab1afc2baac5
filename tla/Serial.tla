-------------------------------- MODULE Serial --------------------------------
(***************************************************************************)
(* The two interrupt queues of the console: devices/intq.c, with the input *)
(* buffer of devices/input.c, filled by the keyboard and the serial port   *)
(* and read by any thread, and the transmit queue of devices/serial.c,     *)
(* which the thread that has the console lock and interrupt handlers fill. *)
(* serial_flush(), on the way to power off or a panic, is left out.        *)
(*                                                                         *)
(* Interrupts are off in all of this but where a thread is switched away:  *)
(* blocked on a queue's lock, or as the queue's one waiter with the lock.  *)
(* What it does from one such point to the next is one step.  Bytes are    *)
(* numbered in the order they come, modulo BYTES.                          *)
(***************************************************************************)
EXTENDS Naturals, Sequences, FiniteSets

CONSTANTS GetThread, PutThread,  \* those that call input_getc(), the one that prints
          INTQ_BUFSIZE,
          BYTES,                 \* bound: more than a queue holds
          NO_THREAD

ASSUME SerialAssumption ==
  /\ INTQ_BUFSIZE \in Nat \ {0, 1} /\ BYTES \in Nat /\ BYTES > INTQ_BUFSIZE
  /\ PutThread \notin GetThread /\ NO_THREAD \notin GetThread \cup {PutThread}

VARIABLES buffer,    \* the input buffer, and
          txq,       \* the transmit queue: struct intq, with its lock's wait list
          where,     \* where each thread is
          ier,       \* the UART's interrupt enable register
          rx_ready,  \* a byte has arrived in the UART,
          thr_empty, \* it can take a byte
          received, taken, accepted, sent, \* history: bytes that passed each point
          panicking

serial == <<buffer, txq, where, ier, rx_ready, thr_empty, received, taken, accepted, sent, panicking>>

IntqThread == GetThread \cup {PutThread}
Up(n) == (n + 1) % BYTES

\* not_empty is used in the input buffer only and not_full in the transmit queue
\* only: one waiter in each.
intq_init == [buf |-> [i \in 0..(INTQ_BUFSIZE - 1) |-> 0], head |-> 0, tail |-> 0,
              waiter |-> NO_THREAD, holder |-> NO_THREAD, waiters |-> <<>>]

SerialInit ==
  /\ buffer = intq_init /\ txq = intq_init
  /\ where = [t \in IntqThread |-> "run"]
  /\ ier = {"RECV"}
  /\ rx_ready = FALSE /\ thr_empty = TRUE
  /\ received = 0 /\ taken = 0 /\ accepted = 0 /\ sent = 0
  /\ panicking = FALSE

-----------------------------------------------------------------------------
(* intq.c *)

\* next() of intq.c.
Follow(pos) == (pos + 1) % INTQ_BUFSIZE

intq_empty(q) == q.head = q.tail

intq_full(q) == Follow(q.head) = q.tail

\* The byte enters or leaves; signal() resets the waiter.
Put(q, byte) == [q EXCEPT !.buf[q.head] = byte, !.head = Follow(@), !.waiter = NO_THREAD]
Drop(q) == [q EXCEPT !.tail = Follow(@), !.waiter = NO_THREAD]

\* lock_release() by a waiter that was woken: the first on the lock's wait list
\* is woken in turn.
LetGo(q, t) ==
  IF q.holder = t
    THEN [q EXCEPT !.holder = NO_THREAD, !.waiters = IF @ = <<>> THEN @ ELSE Tail(@)]
    ELSE q
NextInLine(q, t) == IF q.holder = t /\ q.waiters # <<>> THEN {Head(q.waiters)} ELSE {}

\* Where the threads are when those of S have been woken and t has come to p.
Places(S, t, p) ==
  [u \in IntqThread |-> IF u = t THEN p
                        ELSE IF u \in S /\ where[u] = "wait" THEN "woken"
                        ELSE IF u \in S THEN "lock again" ELSE where[u]]

\* t calls, or is back from wait(), and tests the queue.
Tests(t) == where[t] \in {"run", "woken"}

\* It cannot go on: lock_acquire(), which may block, and wait().
Blocks(q, t) ==
  LET r == LetGo(q, t)
  IN  IF r.holder = NO_THREAD THEN [r EXCEPT !.holder = t, !.waiter = t]
                              ELSE [r EXCEPT !.waiters = Append(@, t)]
BlockedOn(q, t) ==
  Places(NextInLine(q, t), t, IF LetGo(q, t).holder = NO_THREAD THEN "wait" ELSE "lock")

-----------------------------------------------------------------------------
(* input.c and serial.c *)

\* write_ier()
Enabled(b, q) == (IF intq_empty(q) THEN {} ELSE {"XMIT"}) \cup (IF intq_full(b) THEN {} ELSE {"RECV"})

\* Mutant of input_getc: without serial_notify().
input_getc_silent(t) ==
  /\ Tests(t) /\ ~intq_empty(buffer)
  /\ buffer' = Drop(LetGo(buffer, t))
  /\ where' = Places(NextInLine(buffer, t), t, "run")
  /\ taken' = Up(taken)
  /\ UNCHANGED <<txq, ier, rx_ready, thr_empty, received, accepted, sent, panicking>>

\* input_getc() gets a byte ...
input_getc(t) ==
  /\ Tests(t) /\ ~intq_empty(buffer)
  /\ buffer' = Drop(LetGo(buffer, t))
  /\ where' = Places(NextInLine(buffer, t), t, "run")
  /\ taken' = Up(taken)
  /\ ier' = Enabled(buffer', txq)
  /\ UNCHANGED <<txq, rx_ready, thr_empty, received, accepted, sent, panicking>>

\* ... or blocks ...
GetWaits(t) ==
  /\ Tests(t) /\ intq_empty(buffer)
  /\ buffer' = Blocks(buffer, t)
  /\ where' = BlockedOn(buffer, t)
  /\ UNCHANGED <<txq, ier, rx_ready, thr_empty, received, taken, accepted, sent, panicking>>

\* ... and, once the lock is free, is the waiter: wait() asserts that the buffer is
\* (still) empty.
GetLocks(t) ==
  /\ where[t] = "lock again"
  /\ \/ /\ buffer.holder # NO_THREAD
        /\ buffer' = [buffer EXCEPT !.waiters = Append(@, t)]
        /\ where' = [where EXCEPT ![t] = "lock"]
        /\ UNCHANGED panicking
     \/ /\ buffer.holder = NO_THREAD
        /\ buffer' = [buffer EXCEPT !.holder = t, !.waiter = t]
        /\ where' = [where EXCEPT ![t] = "wait"]
        /\ panicking' = ~intq_empty(buffer)
  /\ UNCHANGED <<txq, ier, rx_ready, thr_empty, received, taken, accepted, sent>>

\* serial_putc() by the thread that prints queues a byte, or waits.
serial_putc(t) ==
  /\ Tests(t) /\ ~intq_full(txq)
  /\ accepted' = Up(accepted)
  /\ txq' = Put(LetGo(txq, t), accepted')
  /\ where' = [where EXCEPT ![t] = "run"]
  /\ ier' = Enabled(buffer, txq')
  /\ UNCHANGED <<buffer, rx_ready, thr_empty, received, taken, sent, panicking>>
PutWaits(t) ==
  /\ Tests(t) /\ intq_full(txq)
  /\ txq' = Blocks(txq, t)
  /\ where' = BlockedOn(txq, t)
  /\ UNCHANGED <<buffer, ier, rx_ready, thr_empty, received, taken, accepted, sent, panicking>>

Oldest(q) == q.buf[q.tail]

\* serial_putc() with interrupts off cannot wait: if the queue is full the oldest
\* byte is sent by polling.
PutPolling ==
  /\ accepted' = Up(accepted)
  /\ txq' = Put(IF intq_full(txq) THEN Drop(txq) ELSE txq, accepted')
  /\ where' = IF intq_full(txq) THEN Places({txq.waiter}, NO_THREAD, "run") ELSE where
  /\ sent' = IF intq_full(txq) THEN Oldest(txq) ELSE sent
  /\ thr_empty' = (thr_empty /\ ~intq_full(txq))
  /\ ier' = Enabled(buffer, txq')
  /\ UNCHANGED <<buffer, rx_ready, received, taken, panicking>>

\* serial_interrupt(): a byte is received if there is room, one transmitted if
\* there is any.
serial_interrupt ==
  LET in == rx_ready /\ ~intq_full(buffer)
      out == thr_empty /\ ~intq_empty(txq)
  IN  /\ \/ "RECV" \in ier /\ rx_ready
         \/ "XMIT" \in ier /\ thr_empty
      /\ rx_ready' = (rx_ready /\ ~in)
      /\ received' = IF in THEN Up(received) ELSE received
      /\ buffer' = IF in THEN Put(buffer, received') ELSE buffer
      /\ thr_empty' = (thr_empty /\ ~out)
      /\ sent' = IF out THEN Oldest(txq) ELSE sent
      /\ txq' = IF out THEN Drop(txq) ELSE txq
      /\ where' = Places((IF in THEN {buffer.waiter} ELSE {}) \cup (IF out THEN {txq.waiter} ELSE {}),
                         NO_THREAD, "run")
      /\ ier' = Enabled(buffer', txq')
      /\ UNCHANGED <<taken, accepted, panicking>>

\* keyboard_interrupt() of a key: lost if there is no room.
keyboard_interrupt ==
  /\ ~intq_full(buffer)
  /\ received' = Up(received)
  /\ buffer' = Put(buffer, received')
  /\ where' = Places({buffer.waiter}, NO_THREAD, "run")
  /\ ier' = Enabled(buffer', txq)
  /\ UNCHANGED <<txq, rx_ready, thr_empty, taken, accepted, sent, panicking>>

\* The UART receives a byte; it has sent one.
RxArrives == /\ ~rx_ready /\ rx_ready' = TRUE
             /\ UNCHANGED <<buffer, txq, where, ier, thr_empty, received, taken, accepted, sent, panicking>>
TxDone == /\ ~thr_empty /\ thr_empty' = TRUE
          /\ UNCHANGED <<buffer, txq, where, ier, rx_ready, received, taken, accepted, sent, panicking>>

SerialNext ==
  /\ ~panicking
  /\ \/ \E t \in GetThread : input_getc(t) \/ GetWaits(t) \/ GetLocks(t)
     \/ serial_putc(PutThread) \/ PutWaits(PutThread) \/ PutPolling
     \/ serial_interrupt \/ keyboard_interrupt \/ RxArrives \/ TxDone

SerialSpec == SerialInit /\ [][SerialNext]_serial

-----------------------------------------------------------------------------
(* Properties. *)

\* q has the bytes after number out, in the order they came, up to number in.
Holds(q, out, in) ==
  LET n == (q.head + INTQ_BUFSIZE - q.tail) % INTQ_BUFSIZE
  IN  /\ \A i \in 0..(n - 1) : q.buf[(q.tail + i) % INTQ_BUFSIZE] = (out + i + 1) % BYTES
      /\ (out + n) % BYTES = in

\* No byte that was queued is lost, doubled or overtaken, whether readers take it
\* as they come or after they waited, and whether it is sent by the interrupt
\* handler or by polling.
BytesInOrder == Holds(buffer, taken, received) /\ Holds(txq, sent, accepted)

\* Whoever waits will be woken: a reader waits on an empty buffer, the writer on a
\* full queue, and each is the waiter that signal() will find; who waits for the
\* lock waits for such a thread or for one that was woken; and the interrupts
\* that change the queues are enabled exactly while they can.
NobodyForgotten ==
  ~panicking =>
    /\ \A t \in GetThread : where[t] = "wait" => buffer.waiter = t /\ intq_empty(buffer)
    /\ where[PutThread] = "wait" => txq.waiter = PutThread /\ intq_full(txq)
    /\ (\E t \in GetThread : where[t] = "lock")
         => \E t \in GetThread : t = buffer.holder \/ where[t] = "lock again"
    /\ \A t \in GetThread : t = buffer.holder <=> where[t] \in {"wait", "woken"}
    /\ ier = Enabled(buffer, txq)

\* Bytes come and go in the order they were put, and no thread waits for one that
\* is there.
ConsoleKept == BytesInOrder /\ NobodyForgotten

\* intq.c:91, the assertion of wait(): the queue is still empty when the reader has
\* got the lock.
WaitAsserts == ~panicking
===============================================================================
