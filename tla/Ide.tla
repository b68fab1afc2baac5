---------------------------------- MODULE Ide ----------------------------------
(***************************************************************************)
(* devices/ide.c: the threads that read and write the disks of one         *)
(* channel, its interrupt handler, and the controller as the code uses it. *)
(* The channel's lock is held from the choice of the sector to the end of  *)
(* the transfer; the handler ups completion_wait, which counts interrupts  *)
(* that come before the thread waits.  Identification of the disks at boot *)
(* and the time limits of wait_until_idle() and wait_while_busy() are left *)
(* out.                                                                    *)
(***************************************************************************)
EXTENDS Naturals

CONSTANTS IdeThread,
          Address,       \* pairs of a disk of the channel and a sector
          BLANK, NO_ONE

ASSUME IdeAssumption == NO_ONE \notin IdeThread

VARIABLES lock,          \* the channel: its lock's holder,
          expecting_interrupt,
          completion_wait,
          step,          \* where a thread is in ide_read() or ide_write(), and
          request,       \* what it is to do; data is what is written, or was read
          controller,    \* registers, command in progress, data port
          irq,           \* the controller asks for an interrupt
          disk

ide == <<lock, expecting_interrupt, completion_wait, step, request, controller, irq, disk>>

Requests == {[op |-> "read", addr |-> a, data |-> BLANK] : a \in Address}
            \cup {[op |-> "write", addr |-> a, data |-> t] : a \in Address, t \in IdeThread}
None == [op |-> "none", addr |-> BLANK, data |-> BLANK]

\* The status: ready (BSY and DRQ clear), seeking (a read is under way: BSY), data
\* (DRQ: the port has or wants data), storing (BSY).
Controllers == [status : {"ready", "seeking", "data", "storing"}, command : {"read", "write"},
                addr : Address, port : IdeThread \cup {BLANK}]

IdeInit ==
  /\ lock = NO_ONE /\ expecting_interrupt = FALSE /\ completion_wait = 0
  /\ step = [t \in IdeThread |-> "idle"]
  /\ request = [t \in IdeThread |-> None]
  /\ controller \in {c \in Controllers : c.status = "ready" /\ c.command = "read" /\ c.port = BLANK}
  /\ irq = FALSE
  /\ disk = [a \in Address |-> BLANK]

-----------------------------------------------------------------------------
(* ide_read() and ide_write(). *)

lock_acquire(t, r) ==
  /\ step[t] = "idle" /\ lock = NO_ONE
  /\ lock' = t
  /\ request' = [request EXCEPT ![t] = r]
  /\ step' = [step EXCEPT ![t] = "select"]
  /\ UNCHANGED <<expecting_interrupt, completion_wait, controller, irq, disk>>

\* select_device_wait() reads the status, which clears a pending interrupt.
select_sector(t) ==
  /\ step[t] = "select" /\ controller.status = "ready"
  /\ controller' = [controller EXCEPT !.addr = request[t].addr]
  /\ irq' = FALSE
  /\ step' = [step EXCEPT ![t] = "issue"]
  /\ UNCHANGED <<lock, expecting_interrupt, completion_wait, request, disk>>

issue_pio_command(t) ==
  /\ step[t] = "issue"
  /\ expecting_interrupt' = TRUE
  /\ controller' = [controller EXCEPT !.command = request[t].op, !.status = "seeking"]
  /\ step' = [step EXCEPT ![t] = IF request[t].op = "read" THEN "wait" ELSE "output"]
  /\ UNCHANGED <<lock, completion_wait, request, irq, disk>>

\* Mutant of output_sector: ide_write() returns without waiting for completion.
output_sector_returns(t) ==
  /\ step[t] = "output" /\ controller.status = "data"
  /\ controller' = [controller EXCEPT !.port = request[t].data, !.status = "storing"]
  /\ step' = [step EXCEPT ![t] = "release"]
  /\ UNCHANGED <<lock, expecting_interrupt, completion_wait, request, irq, disk>>

\* ide_write() gives the data once wait_while_busy() finds DRQ set.
output_sector(t) ==
  /\ step[t] = "output" /\ controller.status = "data"
  /\ controller' = [controller EXCEPT !.port = request[t].data, !.status = "storing"]
  /\ step' = [step EXCEPT ![t] = "wait"]
  /\ UNCHANGED <<lock, expecting_interrupt, completion_wait, request, irq, disk>>

\* sema_down(&c->completion_wait)
sema_down(t) ==
  /\ step[t] = "wait" /\ completion_wait > 0
  /\ completion_wait' = completion_wait - 1
  /\ step' = [step EXCEPT ![t] = IF request[t].op = "read" THEN "input" ELSE "release"]
  /\ UNCHANGED <<lock, expecting_interrupt, request, controller, irq, disk>>

\* ide_read() takes the data once wait_while_busy() finds DRQ set.
input_sector(t) ==
  /\ step[t] = "input" /\ controller.status = "data"
  /\ request' = [request EXCEPT ![t].data = controller.port]
  /\ controller' = [controller EXCEPT !.status = "ready"]
  /\ step' = [step EXCEPT ![t] = "release"]
  /\ UNCHANGED <<lock, expecting_interrupt, completion_wait, irq, disk>>

lock_release(t) ==
  /\ step[t] = "release"
  /\ lock' = NO_ONE
  /\ request' = [request EXCEPT ![t] = None]
  /\ step' = [step EXCEPT ![t] = "idle"]
  /\ UNCHANGED <<expecting_interrupt, completion_wait, controller, irq, disk>>

\* interrupt_handler() acknowledges and ups the semaphore, or finds the interrupt
\* spurious.
interrupt_handler ==
  /\ irq
  /\ irq' = (irq /\ ~expecting_interrupt)
  /\ completion_wait' = IF expecting_interrupt THEN completion_wait + 1 ELSE completion_wait
  /\ UNCHANGED <<lock, expecting_interrupt, step, request, controller, disk>>

-----------------------------------------------------------------------------
(* The controller. *)

\* It has read a sector and says so; it is ready for the data of a write, and does
\* not interrupt.
DataReady ==
  /\ controller.status = "seeking"
  /\ controller' = [controller EXCEPT !.status = "data",
                      !.port = IF controller.command = "read" THEN disk[controller.addr] ELSE @]
  /\ irq' = (irq \/ controller.command = "read")
  /\ UNCHANGED <<lock, expecting_interrupt, completion_wait, step, request, disk>>

\* It has stored a sector.
Stored ==
  /\ controller.status = "storing"
  /\ disk' = [disk EXCEPT ![controller.addr] = controller.port]
  /\ controller' = [controller EXCEPT !.status = "ready"]
  /\ irq' = TRUE
  /\ UNCHANGED <<lock, expecting_interrupt, completion_wait, step, request>>

Transfer(t) ==
  \/ \E r \in Requests : lock_acquire(t, r)
  \/ select_sector(t) \/ issue_pio_command(t) \/ output_sector(t)
  \/ sema_down(t) \/ input_sector(t) \/ lock_release(t)

IdeNext == (\E t \in IdeThread : Transfer(t)) \/ interrupt_handler \/ DataReady \/ Stored

IdeSpec == IdeInit /\ [][IdeNext]_ide

-----------------------------------------------------------------------------
(* Properties. *)

\* What the holder of the lock has asked for has happened once the controller has
\* the data of a read, or the disk that of a write.
Served(t) ==
  \/ step[t] = "release"
  \/ step[t] \in {"wait", "input"} /\ controller.status = IF request[t].op = "read" THEN "data" ELSE "ready"

Call(t) ==
  IF step[t] \in {"wait", "input", "release"} /\ Served(t)
    THEN [op |-> "done", addr |-> request[t].addr,
          data |-> IF request[t].op = "read" /\ step[t] # "release" THEN controller.port ELSE request[t].data]
    ELSE request[t]

BlockLevel == INSTANCE BlockDevice WITH
                Thread <- IdeThread, Contents <- IdeThread, Blank <- BLANK,
                sectors <- disk, calls <- [t \in IdeThread |-> Call(t)]

\* ide.c:341: "Internally synchronizes accesses to disks, so external per-disk
\* locking is unneeded."  Each call has the effect of one access to one sector.
ImplementsBlockDevice == BlockLevel!BlockSpec

================================================================================
