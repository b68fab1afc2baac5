---------------------------- MODULE ServiceProofs -----------------------------
(*****************************************************************************)
(* The disks of a channel behave as block devices whose sectors are read     *)
(* and written as a whole, for any number of threads and of sectors: Ide     *)
(* implements BlockDevice.  The links of all_list lead through the threads   *)
(* there are while no two insertions meet, and a walk misses nobody:         *)
(* LinksWhole and LiveParentFound.  The queues of the console pass every     *)
(* byte in order, and nobody waits for one that is there: ConsoleKept.  No   *)
(* page and no block of memory has two owners, and none is lost:             *)
(* MemoryOwnedOnce.  A file under any number of readers and writers has a    *)
(* sector for every byte anyone goes by, and no more, though                 *)
(* new_data_sectors may wrap; only a stale write or a full index shortens    *)
(* it; and read_length hides what is being appended: the properties of       *)
(* FileGrowth.                                                               *)
(*****************************************************************************)
EXTENDS Ide, AllList, Serial, Malloc, FileGrowth, QueueLemmas, FiniteSetTheorems, FunctionTheorems, WellFoundedInduction, TLAPS

-----------------------------------------------------------------------------
(* Ide implements BlockDevice.                                             *)

Steps == {"idle", "select", "issue", "output", "wait", "input", "release"}
Data == IdeThread \cup {BLANK}
Asked == [op : {"read", "write"}, addr : Address, data : Data]

\* No interrupt has come or is to come, and one has but has not been waited for.
Quiet == completion_wait = 0 /\ irq = FALSE
Signalled == \/ completion_wait = 0 /\ irq = TRUE
             \/ completion_wait = 1 /\ irq = FALSE

IdeTypes ==
  /\ lock \in IdeThread \cup {NO_ONE}
  /\ step \in [IdeThread -> Steps]
  /\ request \in [IdeThread -> Asked \cup {None}]
  /\ controller \in Controllers
  /\ expecting_interrupt \in BOOLEAN /\ irq \in BOOLEAN /\ completion_wait \in Nat
  /\ disk \in [Address -> Data]

\* Only the holder of the channel's lock is in a transfer, and between transfers the
\* controller is at rest.
OneTransfer ==
  /\ \A t \in IdeThread : step[t] # "idle" <=> lock = t
  /\ lock = NO_ONE => controller.status = "ready" /\ Quiet

\* The controller works on what thread t has asked for, as far as t has got: one
\* interrupt for a command, and none left for the next.
InStep(t) ==
  /\ step[t] = "idle" <=> request[t] = None
  /\ step[t] \in {"select", "issue", "release"} => controller.status = "ready" /\ Quiet
  /\ step[t] \in {"issue", "output", "wait", "input"} => controller.addr = request[t].addr
  /\ step[t] \in {"output", "wait", "input"} => controller.command = request[t].op /\ expecting_interrupt
  /\ step[t] = "output" =>
       request[t].op = "write" /\ controller.status \in {"seeking", "data"} /\ Quiet
  /\ step[t] = "wait" /\ request[t].op = "read" =>
       \/ controller.status = "seeking" /\ Quiet
       \/ controller.status = "data" /\ Signalled
  /\ step[t] = "wait" /\ request[t].op = "write" =>
       \/ controller.status = "storing" /\ controller.port = request[t].data /\ Quiet
       \/ controller.status = "ready" /\ Signalled
  /\ step[t] = "input" => request[t].op = "read" /\ controller.status = "data" /\ Quiet

IdeIInv == IdeTypes /\ OneTransfer /\ \A t \in IdeThread : InStep(t)

-----------------------------------------------------------------------------
\* A thread that asks for nothing differs from one that does.
LEMMA AskedIsNotNone == None \notin Asked
  BY DEF None, Asked

\* The invariant holds in the initial states.
LEMMA IdeInitially == IdeInit => IdeIInv
<1> SUFFICES ASSUME IdeInit PROVE IdeIInv
  OBVIOUS
<1> USE DEF IdeInit
<1>1. IdeTypes
  BY DEF IdeTypes, Steps, Data
<1>2. OneTransfer
  BY IdeAssumption DEF OneTransfer, Quiet
<1>3. ASSUME NEW t \in IdeThread PROVE InStep(t)
  BY DEF InStep
<1> QED
  BY <1>1, <1>2, <1>3 DEF IdeIInv

\* Each step of a transfer keeps it.
LEMMA TransferKeeps == ASSUME IdeIInv, NEW t \in IdeThread, Transfer(t) PROVE IdeIInv'
<1> USE IdeAssumption, AskedIsNotNone DEF IdeIInv, IdeTypes, Controllers
<1>1. ASSUME NEW r \in Requests, lock_acquire(t, r) PROVE IdeIInv'
  <2>1. r \in Asked
    BY DEF Requests, Asked, Data
  <2>2. IdeTypes'
    BY <1>1, <2>1 DEF lock_acquire, Steps
  <2>3. OneTransfer'
    BY <1>1 DEF lock_acquire, OneTransfer
  <2>4. ASSUME NEW u \in IdeThread PROVE InStep(u)'
    BY <1>1, <2>1 DEF lock_acquire, OneTransfer, InStep, Quiet, Signalled
  <2> QED
    BY <2>2, <2>3, <2>4
<1>2. CASE select_sector(t)
  <2>1. request[t] \in Asked
    BY <1>2 DEF select_sector, InStep
  <2>2. controller' = [controller EXCEPT !.addr = request[t].addr] /\ request[t].addr \in Address
    BY <1>2, <2>1 DEF select_sector, Asked
  <2>3. controller' \in Controllers
    BY <2>2
  <2>4. IdeTypes'
    BY <1>2, <2>3 DEF select_sector, Steps
  <2>5. OneTransfer'
    BY <1>2 DEF select_sector, OneTransfer
  <2>6. ASSUME NEW u \in IdeThread PROVE InStep(u)'
    BY <1>2, <2>2 DEF select_sector, OneTransfer, InStep, Quiet, Signalled
  <2> QED
    BY <2>4, <2>5, <2>6
<1>3. CASE issue_pio_command(t)
  <2>1. request[t] \in Asked /\ request[t].op \in {"read", "write"}
    BY <1>3 DEF issue_pio_command, InStep, Asked
  <2>2. controller' \in Controllers
    BY <1>3, <2>1 DEF issue_pio_command
  <2>3. IdeTypes'
    BY <1>3, <2>2 DEF issue_pio_command, Steps
  <2>4. OneTransfer'
    BY <1>3 DEF issue_pio_command, OneTransfer
  <2>5. ASSUME NEW u \in IdeThread PROVE InStep(u)'
    BY <1>3, <2>1 DEF issue_pio_command, OneTransfer, InStep, Quiet, Signalled
  <2> QED
    BY <2>3, <2>4, <2>5
<1>4. CASE output_sector(t)
  <2>1. request[t] \in Asked /\ request[t].data \in Data
    BY <1>4 DEF output_sector, InStep, Asked
  <2>2. controller' \in Controllers
    BY <1>4, <2>1 DEF output_sector, Data
  <2>3. IdeTypes'
    BY <1>4, <2>2 DEF output_sector, Steps
  <2>4. OneTransfer'
    BY <1>4 DEF output_sector, OneTransfer
  <2>5. ASSUME NEW u \in IdeThread PROVE InStep(u)'
    BY <1>4, <2>1 DEF output_sector, OneTransfer, InStep, Quiet, Signalled
  <2> QED
    BY <2>3, <2>4, <2>5
<1>5. CASE sema_down(t)
  <2>1. request[t] \in Asked /\ request[t].op \in {"read", "write"}
    BY <1>5 DEF sema_down, InStep, Asked
  <2>2. completion_wait = 1 /\ completion_wait' = 0 /\ irq = FALSE
    BY <1>5, <2>1 DEF sema_down, InStep, Quiet, Signalled
  <2>3. IdeTypes'
    BY <1>5, <2>2 DEF sema_down, Steps
  <2>4. OneTransfer'
    BY <1>5 DEF sema_down, OneTransfer
  <2>5. ASSUME NEW u \in IdeThread PROVE InStep(u)'
    BY <1>5, <2>1, <2>2 DEF sema_down, OneTransfer, InStep, Quiet, Signalled
  <2> QED
    BY <2>3, <2>4, <2>5
<1>6. CASE input_sector(t)
  <2>1. request[t] \in Asked /\ controller.port \in Data
    BY <1>6 DEF input_sector, InStep, Data
  <2>2. request'[t] = [request[t] EXCEPT !.data = controller.port] /\ request'[t] \in Asked
    BY <1>6, <2>1 DEF input_sector, Asked
  <2>3. controller' \in Controllers /\ controller'.status = "ready"
    BY <1>6 DEF input_sector
  <2>4. IdeTypes'
    BY <1>6, <2>2, <2>3 DEF input_sector, Steps
  <2>5. OneTransfer'
    BY <1>6 DEF input_sector, OneTransfer
  <2>6. ASSUME NEW u \in IdeThread PROVE InStep(u)'
    BY <1>6, <2>2, <2>3 DEF input_sector, OneTransfer, InStep, Quiet, Signalled
  <2> QED
    BY <2>4, <2>5, <2>6
<1>7. CASE lock_release(t)
  <2>1. IdeTypes'
    BY <1>7 DEF lock_release, Steps
  <2>2. OneTransfer'
    BY <1>7 DEF lock_release, OneTransfer, InStep, Quiet
  <2>3. ASSUME NEW u \in IdeThread PROVE InStep(u)'
    BY <1>7 DEF lock_release, OneTransfer, InStep, Quiet, Signalled
  <2> QED
    BY <2>1, <2>2, <2>3
<1> QED
  BY <1>1, <1>2, <1>3, <1>4, <1>5, <1>6, <1>7 DEF Transfer

\* The steps of the handler and of the controller do.
LEMMA ControllerKeeps ==
  ASSUME IdeIInv, interrupt_handler \/ DataReady \/ Stored PROVE IdeIInv'
<1> USE IdeAssumption, AskedIsNotNone DEF IdeIInv, IdeTypes, Controllers
<1>1. PICK t \in IdeThread : t = lock
  <2>1. controller.status # "ready" \/ irq = TRUE
    BY DEF interrupt_handler, DataReady, Stored
  <2>2. lock # NO_ONE
    BY <2>1 DEF OneTransfer, Quiet
  <2> QED
    BY <2>2
<1>2. \A u \in IdeThread : u # t => step[u] = "idle"
  BY <1>1 DEF OneTransfer
<1>3. request[t] \in Asked /\ request[t].op \in {"read", "write"}
  BY <1>1 DEF OneTransfer, InStep, Asked
<1>4. CASE interrupt_handler
  <2>1. irq = TRUE
    BY <1>4 DEF interrupt_handler
  <2>2. step[t] = "wait"
    BY <1>1, <1>3, <2>1 DEF OneTransfer, InStep, Quiet, Steps
  <2>3. Signalled /\ expecting_interrupt = TRUE
    BY <1>3, <2>1, <2>2 DEF InStep, Quiet
  <2>4. completion_wait = 0
    BY <2>1, <2>3 DEF Signalled
  <2>5. completion_wait' = 1 /\ irq' = FALSE
    <3>1. completion_wait' = completion_wait + 1
      BY <1>4, <2>3 DEF interrupt_handler
    <3>2. irq' = FALSE
      BY <1>4, <2>3 DEF interrupt_handler
    <3> QED
      BY <2>4, <3>1, <3>2
  <2>6. IdeTypes'
    BY <1>4, <2>5 DEF interrupt_handler
  <2>7. OneTransfer'
    BY <1>1, <1>4 DEF interrupt_handler, OneTransfer
  <2>8. ASSUME NEW u \in IdeThread PROVE InStep(u)'
    BY <1>2, <1>3, <1>4, <2>2, <2>3, <2>5 DEF interrupt_handler, InStep, Quiet, Signalled
  <2> QED
    BY <2>6, <2>7, <2>8
<1>5. CASE DataReady
  <2>1. \/ step[t] = "output" /\ controller.command = "write" /\ Quiet
        \/ step[t] = "wait" /\ controller.command = "read" /\ Quiet
    BY <1>1, <1>3, <1>5 DEF DataReady, OneTransfer, InStep, Steps
  <2>2. controller' \in Controllers
    BY <1>5 DEF DataReady, Data
  <2>3. IdeTypes'
    BY <1>5, <2>2 DEF DataReady
  <2>4. OneTransfer'
    BY <1>1, <1>5 DEF DataReady, OneTransfer
  <2>5. ASSUME NEW u \in IdeThread PROVE InStep(u)'
    <3>1. completion_wait' = 0 /\ controller'.status = "data"
      BY <1>5, <2>1 DEF DataReady, Quiet
    <3>2. irq' = (controller.command = "read")
      BY <1>5, <2>1 DEF DataReady, Quiet
    <3>3. controller'.command = controller.command /\ controller'.addr = controller.addr
      BY <1>5 DEF DataReady
    <3>4. UNCHANGED <<step, request, expecting_interrupt>>
      BY <1>5 DEF DataReady
    <3> QED
      BY <1>2, <1>3, <2>1, <3>1, <3>2, <3>3, <3>4 DEF InStep, Quiet, Signalled
  <2> QED
    BY <2>3, <2>4, <2>5
<1>6. CASE Stored
  <2>1. step[t] = "wait" /\ request[t].op = "write" /\ completion_wait = 0
    BY <1>1, <1>3, <1>6 DEF Stored, OneTransfer, InStep, Quiet, Steps
  <2>2. controller' \in Controllers
    BY <1>6 DEF Stored
  <2>3. IdeTypes'
    BY <1>6, <2>2 DEF Stored, Data
  <2>4. OneTransfer'
    BY <1>1, <1>6 DEF Stored, OneTransfer
  <2>5. ASSUME NEW u \in IdeThread PROVE InStep(u)'
    BY <1>2, <1>3, <1>6, <2>1 DEF Stored, InStep, Quiet, Signalled
  <2> QED
    BY <2>3, <2>4, <2>5
<1> QED
  BY <1>4, <1>5, <1>6

\* Every step does.
LEMMA IdeKeeps == IdeIInv /\ [IdeNext]_ide => IdeIInv'
<1>1. IdeIInv /\ UNCHANGED ide => IdeIInv'
  BY DEF ide, IdeIInv, IdeTypes, OneTransfer, InStep, Quiet, Signalled
<1> QED
  BY <1>1, TransferKeeps, ControllerKeeps DEF IdeNext

-----------------------------------------------------------------------------
calls == [t \in IdeThread |-> Call(t)]

\* Steps that change no call and no sector are stutters of the block device.
LEMMA SameCalls ==
  ASSUME \A t \in IdeThread : Call(t)' = Call(t), disk' = disk
  PROVE  UNCHANGED <<disk, calls>>
  BY DEF calls

\* A step of thread t is one that it takes in the block device: lock_acquire() is
\* the call, lock_release() the return, and the others change nothing there.
LEMMA TransferRefines ==
  ASSUME IdeIInv, IdeIInv', NEW t \in IdeThread, Transfer(t)
  PROVE  [BlockLevel!BlockNext]_<<disk, calls>>
<1> USE DEF IdeIInv
<1>1. ASSUME NEW u \in IdeThread, step'[u] = step[u], request'[u] = request[u], step[u] = "idle"
      PROVE  Call(u)' = Call(u)
  BY <1>1 DEF Call
<1>2. ASSUME NEW r \in Requests, lock_acquire(t, r) PROVE BlockLevel!Call(t)
  <2>1. r \in BlockLevel!BlockCalls
    BY DEF Requests, BlockLevel!BlockCalls
  <2>2. calls[t] = BlockLevel!NoCall
    BY <1>2 DEF lock_acquire, calls, Call, InStep, None, BlockLevel!NoCall
  <2>3. ASSUME NEW u \in IdeThread PROVE calls'[u] = IF u = t THEN r ELSE calls[u]
    BY <1>2, <1>1, IdeAssumption DEF lock_acquire, calls, Call, OneTransfer, IdeTypes
  <2>4. calls' = [calls EXCEPT ![t] = r]
    BY <2>3 DEF calls
  <2> QED
    BY <1>2, <2>1, <2>2, <2>4 DEF BlockLevel!Call, lock_acquire, calls
<1>3. ASSUME UNCHANGED disk, \A u \in IdeThread : Call(u)' = Call(u)
      PROVE  UNCHANGED <<disk, calls>>
  BY <1>3, SameCalls
<1>4. ASSUME NEW u \in IdeThread, u # t, step'[u] = step[u], request'[u] = request[u]
      PROVE  Call(u)' = Call(u)
  BY <1>4, <1>1 DEF Transfer, OneTransfer, lock_acquire, select_sector, issue_pio_command,
                    output_sector, sema_down, input_sector, lock_release
<1>5. CASE select_sector(t)
  <2>1. ASSUME NEW u \in IdeThread PROVE Call(u)' = Call(u)
    BY <1>5, <1>1, IdeAssumption DEF select_sector, Call, OneTransfer, IdeTypes
  <2> QED
    BY <1>5, <1>3, <2>1 DEF select_sector
<1>6. CASE issue_pio_command(t)
  <2>1. request[t].op \in {"read", "write"}
    BY <1>6 DEF issue_pio_command, IdeTypes, InStep, Asked
  <2>2. controller'.status = "seeking"
    BY <1>6 DEF issue_pio_command, IdeTypes, Controllers
  <2>3. Call(t)' = Call(t)
    BY <1>6, <2>1, <2>2 DEF issue_pio_command, Call, Served, IdeTypes
  <2>4. ASSUME NEW u \in IdeThread, u # t PROVE Call(u)' = Call(u)
    BY <1>4, <1>6, <2>4 DEF issue_pio_command, IdeTypes
  <2> QED
    BY <1>3, <1>6, <2>3, <2>4 DEF issue_pio_command
<1>7. CASE output_sector(t)
  <2>1. request[t].op = "write" /\ controller'.status = "storing"
    BY <1>7 DEF output_sector, InStep, IdeTypes, Controllers
  <2>2. Call(t)' = Call(t)
    BY <1>7, <2>1 DEF output_sector, Call, Served, IdeTypes
  <2>3. ASSUME NEW u \in IdeThread, u # t PROVE Call(u)' = Call(u)
    BY <1>4, <1>7, <2>3 DEF output_sector, IdeTypes
  <2> QED
    BY <1>3, <1>7, <2>2, <2>3 DEF output_sector
<1>8. CASE sema_down(t)
  <2>1. \/ request[t].op = "read" /\ controller.status = "data"
        \/ request[t].op = "write" /\ controller.status = "ready"
    BY <1>8 DEF sema_down, InStep, IdeTypes, Asked, Quiet
  <2>2. Call(t)' = Call(t)
    BY <1>8, <2>1 DEF sema_down, Call, Served, IdeTypes
  <2>3. ASSUME NEW u \in IdeThread, u # t PROVE Call(u)' = Call(u)
    BY <1>4, <1>8, <2>3 DEF sema_down, IdeTypes
  <2> QED
    BY <1>3, <1>8, <2>2, <2>3 DEF sema_down
<1>9. CASE input_sector(t)
  <2>1. request[t] \in Asked /\ request[t].op = "read"
    BY <1>9 DEF input_sector, InStep, IdeTypes
  <2>2. /\ request'[t] = [request[t] EXCEPT !.data = controller.port]
        /\ step'[t] = "release" /\ step[t] = "input" /\ controller.status = "data"
    BY <1>9 DEF input_sector, IdeTypes
  <2>3. /\ request'[t].addr = request[t].addr /\ request'[t].data = controller.port
    BY <2>1, <2>2 DEF Asked
  <2>4. Call(t)' = Call(t)
    BY <2>1, <2>2, <2>3 DEF Call, Served
  <2>5. ASSUME NEW u \in IdeThread, u # t PROVE Call(u)' = Call(u)
    BY <1>4, <1>9, <2>5 DEF input_sector, IdeTypes
  <2> QED
    BY <1>3, <1>9, <2>4, <2>5 DEF input_sector
<1>10. CASE lock_release(t)
  <2>1. calls[t].op = "done"
    BY <1>10 DEF lock_release, calls, Call, Served
  <2>2. Call(t)' = BlockLevel!NoCall
    BY <1>10 DEF lock_release, Call, IdeTypes, None, BlockLevel!NoCall
  <2>3. ASSUME NEW u \in IdeThread, u # t PROVE Call(u)' = Call(u)
    BY <1>4, <1>10, <2>3 DEF lock_release, IdeTypes
  <2>4. calls' = [calls EXCEPT ![t] = BlockLevel!NoCall]
    BY <2>2, <2>3 DEF calls
  <2> QED
    BY <1>10, <2>1, <2>4 DEF lock_release, calls, BlockLevel!Return, BlockLevel!BlockNext
<1> QED
  BY <1>2, <1>5, <1>6, <1>7, <1>8, <1>9, <1>10 DEF Transfer, BlockLevel!BlockNext

\* The controller's steps are the reads and the writes; the handler's are stutters.
LEMMA ControllerRefines ==
  ASSUME IdeIInv, IdeIInv', interrupt_handler \/ DataReady \/ Stored
  PROVE  [BlockLevel!BlockNext]_<<disk, calls>>
<1> USE DEF IdeIInv
<1>1. CASE interrupt_handler
  <2>1. ASSUME NEW u \in IdeThread PROVE Call(u)' = Call(u)
    BY <1>1 DEF interrupt_handler, Call, Served
  <2> QED
    BY <1>1, <2>1, SameCalls DEF interrupt_handler
<1>2. CASE DataReady \/ Stored
  <2>1. PICK t \in IdeThread : lock = t
    BY <1>2 DEF DataReady, Stored, OneTransfer, IdeTypes
  <2>2. ASSUME NEW u \in IdeThread, u # t PROVE Call(u)' = Call(u)
    BY <1>2, <2>1, <2>2 DEF DataReady, Stored, OneTransfer, Call
  <2>3. /\ request[t] \in Asked /\ request[t].op \in {"read", "write"}
        /\ request' = request /\ step' = step
    BY <1>2, <2>1 DEF OneTransfer, InStep, IdeTypes, Asked, DataReady, Stored
  <2>4. CASE DataReady /\ request[t].op = "read"
    <3>1. step[t] = "wait" /\ controller.command = "read" /\ controller.addr = request[t].addr
      BY <2>1, <2>3, <2>4 DEF DataReady, OneTransfer, InStep, IdeTypes, Steps
    <3>2. controller.status = "seeking" /\ controller'.status = "data"
          /\ controller'.port = disk[request[t].addr]
      BY <2>4, <3>1 DEF DataReady, IdeTypes, Controllers
    <3>3. Call(t) = request[t]
      BY <2>4, <3>1, <3>2 DEF Call, Served
    <3>4. Call(t)' = [op |-> "done", addr |-> request[t].addr, data |-> disk[request[t].addr]]
      BY <2>3, <2>4, <3>1, <3>2 DEF Call, Served
    <3>5. calls' = [calls EXCEPT ![t] = [op |-> "done", addr |-> @.addr, data |-> disk[@.addr]]]
      BY <2>2, <3>3, <3>4 DEF calls
    <3>6. calls[t].op = "read" /\ disk' = disk
      BY <2>4, <3>3 DEF calls, DataReady
    <3> QED
      BY <3>5, <3>6 DEF calls, BlockLevel!Read, BlockLevel!BlockNext
  <2>5. CASE DataReady /\ request[t].op = "write"
    <3>1. step[t] = "output"
      BY <2>1, <2>3, <2>5 DEF DataReady, OneTransfer, InStep, IdeTypes, Steps
    <3>2. Call(t)' = Call(t)
      BY <2>3, <3>1 DEF Call
    <3> QED
      BY <2>2, <2>5, <3>2, SameCalls DEF DataReady
  <2>6. CASE Stored
    <3>1. /\ step[t] = "wait" /\ request[t].op = "write" /\ controller.addr = request[t].addr
          /\ controller.port = request[t].data
      BY <2>1, <2>3, <2>6 DEF Stored, OneTransfer, InStep, IdeTypes, Steps
    <3>2. controller.status = "storing" /\ controller'.status = "ready"
      BY <2>6 DEF Stored, IdeTypes, Controllers
    <3>3. Call(t) = request[t]
      BY <3>1, <3>2 DEF Call, Served
    <3>4. Call(t)' = [op |-> "done", addr |-> request[t].addr, data |-> request[t].data]
      BY <2>3, <3>1, <3>2 DEF Call, Served
    <3>5. calls' = [calls EXCEPT ![t] = [op |-> "done", addr |-> @.addr, data |-> @.data]]
      BY <2>2, <3>3, <3>4 DEF calls
    <3>6. disk' = [disk EXCEPT ![calls[t].addr] = calls[t].data] /\ calls[t].op = "write"
      BY <2>6, <3>1, <3>3 DEF calls, Stored
    <3> QED
      BY <3>5, <3>6 DEF calls, BlockLevel!Write, BlockLevel!BlockNext
  <2> QED
    BY <1>2, <2>3, <2>4, <2>5, <2>6
<1> QED
  BY <1>1, <1>2

\* Reads and writes of a sector through ide_read() and ide_write() are reads and
\* writes of it as a whole, at one moment each, whatever the threads and the
\* interrupts do: Ide's ImplementsBlockDevice, for every IdeThread and Address.
THEOREM IdeCorrect == IdeSpec => ImplementsBlockDevice
<1>1. IdeInit => BlockLevel!BlockInit
  BY DEF IdeInit, BlockLevel!BlockInit, BlockLevel!NoCall, Call, None
<1>2. IdeIInv /\ IdeIInv' /\ [IdeNext]_ide => [BlockLevel!BlockNext]_<<disk, calls>>
  <2>1. ASSUME UNCHANGED ide PROVE UNCHANGED <<disk, calls>>
    BY <2>1 DEF ide, calls, Call, Served
  <2> QED
    BY <2>1, TransferRefines, ControllerRefines DEF IdeNext
<1>3. IdeIInv /\ [IdeNext]_ide => IdeIInv'
  BY IdeKeeps
<1> QED
  BY <1>1, <1>2, <1>3, IdeInitially, PTL DEF IdeSpec, ImplementsBlockDevice, BlockLevel!BlockSpec, calls

-----------------------------------------------------------------------------
(* The list of all threads.                                                *)

Creating == {"set prev", "set next", "link prev", "link back", "linked"}

AllListTypeOK ==
  /\ prev \in [Element -> Element] /\ next \in [Element -> Element]
  /\ tid \in [Page -> Nat] /\ parent \in [Page -> Nat]
  /\ op \in [Page -> {"none", "born", "run", "walk", "astray"} \cup Creating]
  /\ new \in [Page -> Page]
  /\ cursor \in [Page -> Element]
  /\ next_tid \in Nat
  /\ threads \in Seq(Page)
  /\ sought \in [Page -> SUBSET Page]
  /\ broken \in BOOLEAN

\* Who creates a thread has a page of its own for it, and the threads on the list are
\* those that live and those that have been put there but not started.
Creator(t) == op[t] \in Creating =>
  /\ op[new[t]] = "born"
  /\ \A u \in Page : op[u] \in Creating /\ new[u] = new[t] => u = t
Listed(p) == (\E k \in 1..Len(threads) : threads[k] = p) <=>
  op[p] \notin {"none", "born"} \/ \E t \in Page : op[t] \in {"link back", "linked"} /\ new[t] = p
Nameless(p) == op[p] \in {"none", "born"} => tid[p] = 0

OnceOnly == \A j, k \in 1..Len(threads) : threads[j] = threads[k] => j = k
OneInserts == \A t, u \in Page : t \in Inserting /\ u \in Inserting => t = u

Node(i) == IF i = 0 THEN HEAD ELSE threads[i]
Rear == Node(Len(threads))

Chained ==
  /\ \A i \in 1..Len(threads) : next[Node(i - 1)] = threads[i] /\ prev[threads[i]] = Node(i - 1)
  /\ next[Rear] = TAIL
  /\ (\A t \in Page : op[t] # "link back") => prev[TAIL] = Rear

\* What an insertion has done so far.
Inserted(t) ==
  /\ op[t] \in {"set next", "link prev"} => prev[new[t]] = Rear
  /\ op[t] = "link prev" => next[new[t]] = TAIL
  /\ op[t] = "link back" => Rear = new[t]

\* Whom thread_alive() looks for is ahead of it on the list.
Ahead(t) ==
  op[t] = "walk" =>
    \/ cursor[t] = TAIL /\ sought[t] = {}
    \/ \E k \in 1..Len(threads) :
         /\ cursor[t] = threads[k]
         /\ \A p \in sought[t] : /\ tid[p] = parent[t] /\ op[p] \notin {"none", "born"}
                                 /\ \E j \in k..Len(threads) : threads[j] = p

Intact ==
  /\ \A t \in Page : Creator(t) /\ Listed(t) /\ Nameless(t) /\ Inserted(t) /\ Ahead(t)
  /\ OnceOnly /\ OneInserts /\ Chained

AllListIInv == AllListTypeOK /\ (~broken => Intact)

Good == AllListAssumption /\ AllListTypeOK /\ Intact

-----------------------------------------------------------------------------

\* The invariant holds in the initial states.
LEMMA ListInit == AllListAssumption /\ AllListInit => AllListIInv
<1> SUFFICES ASSUME AllListAssumption, AllListInit PROVE AllListIInv
  OBVIOUS
<1>1. /\ Initial \in Page /\ Initial \notin {HEAD, TAIL} /\ HEAD # TAIL
      /\ Page \subseteq Element /\ HEAD \in Element /\ TAIL \in Element
  BY DEF AllListAssumption, Element
<1>2. /\ Len(threads) = 1 /\ threads[1] = Initial /\ threads \in Seq(Page)
      /\ \A i \in 1..1 : i = 1
  BY <1>1 DEF AllListInit
<1>3. AllListTypeOK
  BY <1>1, <1>2 DEF AllListInit, AllListTypeOK, Creating
<1>4. \A t \in Page : Creator(t) /\ Nameless(t) /\ Inserted(t) /\ Ahead(t)
  BY DEF AllListInit, Creator, Nameless, Inserted, Ahead, Creating
<1>5. \A t \in Page : Listed(t)
  BY <1>2 DEF AllListInit, Listed
<1>6. OnceOnly /\ OneInserts
  BY <1>2 DEF AllListInit, OnceOnly, OneInserts, Inserting
<1>7. Chained
  <2>1. Rear = Initial /\ Node(1 - 1) = HEAD
    BY <1>2 DEF Rear, Node
  <2> QED
    BY <1>1, <1>2, <2>1 DEF AllListInit, Chained
<1> QED
  BY <1>3, <1>4, <1>5, <1>6, <1>7 DEF AllListIInv, Intact

\* How many threads there are is a number.
LEMMA ListLength ==
  ASSUME Good PROVE Len(threads) \in Nat /\ Len(threads) =< Len(threads)
<1>1. threads \in Seq(Page)
  BY DEF Good, AllListTypeOK
<1> QED
  BY <1>1

\* A walk stays where it is, and the threads on the list keep their places.
LEMMA AheadKept ==
  ASSUME Good, NEW u \in Page,
         op'[u] = "walk" => op[u] = "walk",
         cursor'[u] = cursor[u], sought'[u] = sought[u], parent'[u] = parent[u],
         \A p \in Page : op[p] \notin {"none", "born"} =>
           op'[p] \notin {"none", "born"} /\ tid'[p] = tid[p],
         Len(threads') \in Nat, Len(threads) =< Len(threads'),
         \A k \in 1..Len(threads) : threads'[k] = threads[k]
  PROVE  Ahead(u)'
<1> PICK n \in Nat : n = Len(threads)
  BY DEF Good, AllListTypeOK
<1> PICK m \in Nat : m = Len(threads')
  OBVIOUS
<1>0. /\ n =< m /\ \A k \in 1..n : threads'[k] = threads[k]
      /\ \A k \in 1..n : k \in 1..m /\ \A j \in k..n : j \in k..m /\ j \in 1..n
  OBVIOUS
<1>1. CASE op'[u] = "walk" /\ ~(cursor[u] = TAIL /\ sought[u] = {})
  <2> PICK k \in 1..n :
        /\ cursor[u] = threads[k]
        /\ \A p \in sought[u] : /\ tid[p] = parent[u] /\ op[p] \notin {"none", "born"}
                                /\ \E j \in k..n : threads[j] = p
    BY <1>1 DEF Good, Intact, Ahead
  <2>1. ASSUME NEW p \in sought[u]
        PROVE  /\ tid'[p] = parent'[u] /\ op'[p] \notin {"none", "born"}
               /\ \E j \in k..m : threads'[j] = p
    <3>1. p \in Page
      BY DEF Good, AllListTypeOK
    <3> PICK j \in k..n : threads[j] = p
      OBVIOUS
    <3>2. j \in k..m /\ threads'[j] = p
      BY <1>0
    <3> QED
      BY <3>1, <3>2
  <2>2. cursor'[u] = threads'[k] /\ k \in 1..m
    BY <1>0
  <2> QED
    BY <2>1, <2>2 DEF Ahead
<1>2. CASE op'[u] # "walk" \/ (cursor[u] = TAIL /\ sought[u] = {})
  BY <1>2 DEF Ahead
<1> QED
  BY <1>1, <1>2

\* thread_create()'s page.
LEMMA CreateList ==
  ASSUME Good, NEW t \in Page, NEW p \in Page, thread_create(t, p)
  PROVE  AllListTypeOK' /\ Intact'
<1>1. /\ op[t] = "run" /\ op[p] = "none" /\ t # p
      /\ op' = [op EXCEPT ![t] = "set prev", ![p] = "born"]
      /\ new' = [new EXCEPT ![t] = p]
      /\ UNCHANGED <<prev, next, threads, broken, cursor, sought, tid, parent, next_tid>>
  BY DEF thread_create, links, walks
<1>2. AllListTypeOK'
  BY <1>1 DEF Good, AllListTypeOK, Creating
<1>3. /\ op'[t] = "set prev" /\ op'[p] = "born" /\ new'[t] = p
      /\ \A u \in Page \ {t, p} : op'[u] = op[u]
      /\ \A u \in Page \ {t} : new'[u] = new[u]
  BY <1>1 DEF Good, AllListTypeOK
<1>4. ASSUME NEW u \in Page PROVE Creator(u)'
  <2>1. CASE u = t
    <3>1. ASSUME NEW v \in Page, op'[v] \in Creating, new'[v] = p PROVE v = t
      <4>1. ASSUME v # t PROVE FALSE
        <5>1. op[v] \in Creating /\ new[v] = p
          BY <1>1, <1>3, <3>1, <4>1 DEF Creating
        <5>2. op[p] = "born"
          BY <5>1 DEF Good, Intact, Creator
        <5> QED
          BY <1>1, <5>2
      <4> QED
        BY <4>1
    <3> QED
      BY <1>3, <2>1, <3>1 DEF Creator
  <2>2. CASE u # t /\ op'[u] \in Creating
    <3>1. op[u] \in Creating /\ u # p /\ new'[u] = new[u] /\ op[new[u]] = "born"
      BY <1>1, <1>3, <2>2 DEF Good, Intact, Creator, Creating
    <3>2. new[u] \in Page \ {t, p}
      BY <1>1, <3>1 DEF Good, AllListTypeOK
    <3>3. op'[new'[u]] = "born"
      BY <1>3, <3>1, <3>2
    <3>4. ASSUME NEW v \in Page, op'[v] \in Creating, new'[v] = new'[u] PROVE v = u
      <4>1. v # t
        BY <1>1, <1>3, <3>1, <3>4
      <4>2. op[v] \in Creating /\ new[v] = new[u]
        BY <1>1, <1>3, <3>1, <3>4, <4>1 DEF Creating
      <4> QED
        BY <3>1, <4>2 DEF Good, Intact, Creator
    <3> QED
      BY <3>3, <3>4 DEF Creator
  <2> QED
    BY <2>1, <2>2 DEF Creator
<1>5. ASSUME NEW u \in Page PROVE Listed(u)' /\ Nameless(u)' /\ Inserted(u)'
  <2>1. Nameless(u)'
    BY <1>1, <1>3 DEF Good, Intact, Nameless
  <2>2. Inserted(u)'
    BY <1>1, <1>3 DEF Good, Intact, Inserted, Rear, Node
  <2>3. \A v \in Page : op'[v] \in {"link back", "linked"} <=> op[v] \in {"link back", "linked"}
    BY <1>1, <1>3
  <2>4. \A v \in Page : op[v] \in {"link back", "linked"} => new'[v] = new[v]
    BY <1>1, <1>3
  <2>5. op'[u] \notin {"none", "born"} <=> op[u] \notin {"none", "born"}
    BY <1>1, <1>3
  <2>6. Listed(u)'
    <3>1. (\E v \in Page : op'[v] \in {"link back", "linked"} /\ new'[v] = u)
            <=> (\E v \in Page : op[v] \in {"link back", "linked"} /\ new[v] = u)
      BY <2>3, <2>4
    <3>2. Listed(u)
      BY DEF Good, Intact
    <3> QED
      BY <1>1, <2>5, <3>1, <3>2 DEF Listed
  <2> QED
    BY <2>1, <2>2, <2>6
<1>6. ASSUME NEW u \in Page PROVE Ahead(u)'
  <2>1. \A q \in Page : op[q] \notin {"none", "born"} => op'[q] \notin {"none", "born"}
    BY <1>1, <1>3
  <2>2. op'[u] = "walk" => op[u] = "walk"
    BY <1>1, <1>3
  <2>4. Len(threads) \in Nat /\ Len(threads) =< Len(threads)
    BY ListLength
  <2>5. threads' = threads /\ cursor' = cursor /\ sought' = sought /\ parent' = parent /\ tid' = tid
    BY <1>1
  <2> QED
    BY <2>1, <2>2, <2>4, <2>5, AheadKept
<1>7. OnceOnly' /\ OneInserts' /\ Chained'
  <2>1. \A u \in Page : /\ u \in Inserting' <=> u \in Inserting
                        /\ op'[u] = "link back" <=> op[u] = "link back"
    BY <1>1, <1>3 DEF Inserting
  <2>2. Rear' = Rear /\ \A i : Node(i)' = Node(i)
    BY <1>1 DEF Rear, Node
  <2>3. OnceOnly'
    BY <1>1 DEF Good, Intact, OnceOnly
  <2>4. OneInserts'
    BY <2>1 DEF Good, Intact, OneInserts
  <2>5. Chained'
    BY <1>1, <2>1, <2>2 DEF Good, Intact, Chained
  <2> QED
    BY <2>3, <2>4, <2>5
<1> QED
  BY <1>2, <1>4, <1>5, <1>6, <1>7 DEF Intact

\* A step of thread t that leaves the list and the other threads as they are.
LEMMA OwnStepList ==
  ASSUME Good, NEW t \in Page, AllListTypeOK',
         op[t] \notin {"none", "born"}, op'[t] \notin {"none", "born"},
         \A u \in Page \ {t} : op'[u] = op[u] /\ cursor'[u] = cursor[u] /\ sought'[u] = sought[u],
         UNCHANGED <<threads, new, tid, parent>>,
         op'[t] \in {"link back", "linked"} <=> op[t] \in {"link back", "linked"},
         op'[t] \in Creating => op[t] \in Creating,
         OneInserts', Chained', Ahead(t)', \A u \in Page : Inserted(u)'
  PROVE  Intact'
<1>1. ASSUME NEW u \in Page PROVE Creator(u)'
  <2>1. \A v \in Page : op'[v] \in Creating => op[v] \in Creating
    OBVIOUS
  <2>2. op[t] # "born" /\ new[u] \in Page
    BY DEF Good, AllListTypeOK
  <2> QED
    BY <2>1, <2>2 DEF Good, Intact, Creator
<1>2. ASSUME NEW u \in Page PROVE Listed(u)' /\ Nameless(u)'
  <2>1. \A v \in Page : /\ op'[v] \in {"link back", "linked"} <=> op[v] \in {"link back", "linked"}
                        /\ op'[v] \in {"none", "born"} <=> op[v] \in {"none", "born"}
    OBVIOUS
  <2> QED
    BY <2>1 DEF Good, Intact, Listed, Nameless
<1>3. ASSUME NEW u \in Page \ {t} PROVE Ahead(u)'
  <2>1. \A v \in Page : op[v] \notin {"none", "born"} => op'[v] \notin {"none", "born"}
    OBVIOUS
  <2>3. Len(threads) \in Nat /\ Len(threads) =< Len(threads)
    BY ListLength
  <2>4. threads' = threads /\ parent' = parent /\ tid' = tid
    OBVIOUS
  <2>5. op'[u] = op[u] /\ cursor'[u] = cursor[u] /\ sought'[u] = sought[u]
    OBVIOUS
  <2> QED
    BY <2>1, <2>3, <2>4, <2>5, AheadKept
<1>4. OnceOnly'
  BY DEF Good, Intact, OnceOnly
<1> QED
  BY <1>1, <1>2, <1>3, <1>4 DEF Intact

\* Where an insertion begins, the values stay what they are even if another is under way.
LEMMA SetPrevType ==
  ASSUME Good, NEW t \in Page, SetPrev(t)
  PROVE  AllListTypeOK'
<1>1. /\ op[t] = "set prev" /\ op' = [op EXCEPT ![t] = "set next"]
      /\ prev' = [prev EXCEPT ![new[t]] = prev[TAIL]]
      /\ broken' = (Inserting # {})
      /\ UNCHANGED <<next, tid, parent, new, next_tid, threads, cursor, sought>>
  BY DEF SetPrev, At, walks
<1>2. new[t] \in Element /\ TAIL \in Element
  BY DEF Good, AllListTypeOK, Element
<1>3. prev' \in [Element -> Element] /\ broken' \in BOOLEAN
  BY <1>1, <1>2 DEF Good, AllListTypeOK
<1>4. op' \in [Page -> {"none", "born", "run", "walk", "astray"} \cup Creating]
  BY <1>1 DEF Good, AllListTypeOK, Creating
<1> QED
  BY <1>1, <1>3, <1>4 DEF Good, AllListTypeOK

\* The new element gets its prev.
LEMMA SetPrevList ==
  ASSUME Good, NEW t \in Page, SetPrev(t), ~broken'
  PROVE  AllListTypeOK' /\ Intact'
<1>1. /\ op[t] = "set prev" /\ op' = [op EXCEPT ![t] = "set next"]
      /\ prev' = [prev EXCEPT ![new[t]] = prev[TAIL]]
      /\ broken' = (Inserting # {})
      /\ UNCHANGED <<next, tid, parent, new, next_tid, threads, cursor, sought>>
  BY DEF SetPrev, At, walks
<1>2. AllListTypeOK'
  BY SetPrevType
<1>3. \A u \in Page : op[u] \notin {"set next", "link prev", "link back"}
  BY <1>1 DEF Inserting
<1>4. op'[t] = "set next" /\ \A u \in Page \ {t} : op'[u] = op[u]
  BY <1>1 DEF Good, AllListTypeOK
<1>5. OneInserts'
  BY <1>3, <1>4 DEF OneInserts, Inserting
<1>6. prev[TAIL] = Rear
  BY <1>3 DEF Good, Intact, Chained
<1>7. ~\E k \in 1..Len(threads) : threads[k] = new[t]
  <2>1. op[new[t]] = "born" /\ new[t] \in Page
    BY <1>1 DEF Good, Intact, Creator, Creating, AllListTypeOK
  <2>2. ASSUME NEW u \in Page, op[u] \in {"link back", "linked"}, new[u] = new[t] PROVE FALSE
    BY <1>1, <2>2 DEF Good, Intact, Creator, Creating
  <2> QED
    BY <2>1, <2>2 DEF Good, Intact, Listed
<1>8. prev'[new[t]] = Rear /\ \A e \in Element \ {new[t]} : prev'[e] = prev[e]
  <2>1. new[t] \in Element
    BY DEF Good, AllListTypeOK, Element
  <2> QED
    BY <1>1, <1>6, <2>1 DEF Good, AllListTypeOK
<1>9. Rear' = Rear /\ \A i : Node(i)' = Node(i)
  BY <1>1 DEF Rear, Node
<1>10. Chained'
  <2>1. \A i \in 1..Len(threads) : threads[i] \in Element \ {new[t]}
    BY <1>7 DEF Good, AllListTypeOK, Element
  <2>2. prev'[TAIL] = Rear
    BY <1>6, <1>8 DEF Good, AllListAssumption, AllListTypeOK, Element
  <2> QED
    BY <1>1, <1>8, <1>9, <2>1, <2>2 DEF Good, Intact, Chained
<1>11. ASSUME NEW u \in Page PROVE Inserted(u)'
  BY <1>1, <1>3, <1>4, <1>8, <1>9 DEF Inserted
<1>12. Ahead(t)'
  BY <1>4 DEF Ahead
<1> QED
  BY <1>1, <1>2, <1>4, <1>5, <1>10, <1>11, <1>12, OwnStepList DEF Creating

\* The new element gets its next.
LEMMA SetNextList ==
  ASSUME Good, NEW t \in Page, SetNext(t)
  PROVE  AllListTypeOK' /\ Intact'
<1>1. /\ op[t] = "set next" /\ op' = [op EXCEPT ![t] = "link prev"]
      /\ next' = [next EXCEPT ![new[t]] = TAIL]
      /\ UNCHANGED <<prev, tid, parent, new, next_tid, threads, broken, cursor, sought>>
  BY DEF SetNext, At, walks
<1>2. AllListTypeOK'
  <2>1. new[t] \in Element /\ TAIL \in Element
    BY DEF Good, AllListTypeOK, Element
  <2>2. next' \in [Element -> Element]
    BY <1>1, <2>1 DEF Good, AllListTypeOK
  <2>3. op' \in [Page -> {"none", "born", "run", "walk", "astray"} \cup Creating]
    BY <1>1 DEF Good, AllListTypeOK, Creating
  <2> QED
    BY <1>1, <2>2, <2>3 DEF Good, AllListTypeOK
<1>3. op'[t] = "link prev" /\ \A u \in Page \ {t} : op'[u] = op[u]
  BY <1>1 DEF Good, AllListTypeOK
<1>4. \A u \in Page : u \in Inserting' <=> u \in Inserting
  BY <1>1, <1>3 DEF Inserting
<1>5. OneInserts'
  BY <1>4 DEF Good, Intact, OneInserts
<1>6. \A u \in Page \ {t} : op[u] \notin {"set next", "link prev", "link back"}
  BY <1>1 DEF Good, Intact, OneInserts, Inserting
<1>7. ~\E k \in 1..Len(threads) : threads[k] = new[t]
  <2>1. op[new[t]] = "born" /\ new[t] \in Page
    BY <1>1 DEF Good, Intact, Creator, Creating, AllListTypeOK
  <2>2. ASSUME NEW u \in Page, op[u] \in {"link back", "linked"}, new[u] = new[t] PROVE FALSE
    BY <1>1, <2>2 DEF Good, Intact, Creator, Creating
  <2> QED
    BY <2>1, <2>2 DEF Good, Intact, Listed
<1>8. next'[new[t]] = TAIL /\ \A e \in Element \ {new[t]} : next'[e] = next[e]
  <2>1. new[t] \in Element
    BY DEF Good, AllListTypeOK, Element
  <2> QED
    BY <1>1, <2>1 DEF Good, AllListTypeOK
<1>9. Rear' = Rear /\ \A i : Node(i)' = Node(i)
  BY <1>1 DEF Rear, Node
<1>10. Chained'
  <2>1. \A i \in 0..Len(threads) : Node(i) \in Element \ {new[t]}
    BY <1>7 DEF Good, AllListTypeOK, AllListAssumption, Element, Node
  <2>2. Rear \in Element \ {new[t]} /\ \A i \in 1..Len(threads) : i - 1 \in 0..Len(threads)
    BY <2>1 DEF Good, AllListTypeOK, Rear
  <2> QED
    BY <1>1, <1>3, <1>8, <1>9, <2>1, <2>2 DEF Good, Intact, Chained
<1>11. ASSUME NEW u \in Page PROVE Inserted(u)'
  <2>1. prev[new[t]] = Rear
    BY <1>1 DEF Good, Intact, Inserted
  <2>2. CASE u = t
    BY <1>1, <1>3, <1>8, <1>9, <2>1, <2>2 DEF Inserted
  <2>3. CASE u # t
    BY <1>3, <1>6, <2>3 DEF Inserted
  <2> QED
    BY <2>2, <2>3
<1>12. Ahead(t)'
  BY <1>3 DEF Ahead
<1> QED
  BY <1>1, <1>2, <1>3, <1>5, <1>10, <1>11, <1>12, OwnStepList DEF Creating

\* The tail gets its prev: the insertion is complete.
LEMMA LinkBackList ==
  ASSUME Good, NEW t \in Page, LinkBack(t)
  PROVE  AllListTypeOK' /\ Intact'
<1>1. /\ op[t] = "link back" /\ op' = [op EXCEPT ![t] = "linked"]
      /\ prev' = [prev EXCEPT ![TAIL] = new[t]]
      /\ UNCHANGED <<next, tid, parent, new, next_tid, threads, broken, cursor, sought>>
  BY DEF LinkBack, At, walks
<1>2. AllListTypeOK'
  <2>1. new[t] \in Element /\ TAIL \in Element
    BY DEF Good, AllListTypeOK, Element
  <2>2. prev' \in [Element -> Element]
    BY <1>1, <2>1 DEF Good, AllListTypeOK
  <2>3. op' \in [Page -> {"none", "born", "run", "walk", "astray"} \cup Creating]
    BY <1>1 DEF Good, AllListTypeOK, Creating
  <2> QED
    BY <1>1, <2>2, <2>3 DEF Good, AllListTypeOK
<1>3. op'[t] = "linked" /\ \A u \in Page \ {t} : op'[u] = op[u]
  BY <1>1 DEF Good, AllListTypeOK
<1>4. \A u \in Page \ {t} : op[u] \notin {"set next", "link prev", "link back"}
  BY <1>1 DEF Good, Intact, OneInserts, Inserting
<1>5. OneInserts'
  BY <1>3, <1>4 DEF OneInserts, Inserting
<1>6. prev'[TAIL] = Rear /\ \A e \in Element \ {TAIL} : prev'[e] = prev[e]
  <2>1. TAIL \in Element /\ Rear = new[t]
    BY <1>1 DEF Element, Good, Intact, Inserted
  <2> QED
    BY <1>1, <2>1 DEF Good, AllListTypeOK
<1>7. Rear' = Rear /\ \A i : Node(i)' = Node(i)
  BY <1>1 DEF Rear, Node
<1>8. Chained'
  <2>1. \A i \in 1..Len(threads) : threads[i] \in Element \ {TAIL}
    BY DEF Good, AllListTypeOK, AllListAssumption, Element
  <2> QED
    BY <1>1, <1>6, <1>7, <2>1 DEF Good, Intact, Chained
<1>9. ASSUME NEW u \in Page PROVE Inserted(u)'
  BY <1>3, <1>4 DEF Inserted
<1>10. Ahead(t)'
  BY <1>3 DEF Ahead
<1> QED
  BY <1>1, <1>2, <1>3, <1>5, <1>8, <1>9, <1>10, OwnStepList DEF Creating
\* The new thread is behind all others now.
LEMMA LinkPrevList ==
  ASSUME Good, NEW t \in Page, LinkPrev(t)
  PROVE  AllListTypeOK' /\ Intact'
<1> PICK q \in Seq(Page), n \in Nat, x \in Page : q = threads /\ n = Len(threads) /\ x = new[t]
  BY DEF Good, AllListTypeOK
<1>1. /\ op[t] = "link prev" /\ op' = [op EXCEPT ![t] = "link back"]
      /\ next' = [next EXCEPT ![prev[TAIL]] = x]
      /\ threads' = Append(q, x)
      /\ UNCHANGED <<prev, tid, parent, new, next_tid, broken, cursor, sought>>
  BY DEF LinkPrev, At, walks
<1>2. /\ Append(q, x) \in Seq(Page) /\ Len(threads') = n + 1 /\ threads'[n + 1] = x
      /\ \A k \in 1..n : threads'[k] = threads[k] /\ k \in 1..(n + 1)
      /\ \A k \in 1..(n + 1) : k \in 1..n \/ k = n + 1
      /\ n + 1 \in 1..(n + 1)
  <2>1. Append(q, x) \in Seq(Page)
    OBVIOUS
  <2>2. Len(Append(q, x)) = n + 1
    OBVIOUS
  <2>3. Append(q, x)[n + 1] = x
    OBVIOUS
  <2>4. \A k \in 1..n : Append(q, x)[k] = q[k]
    OBVIOUS
  <2>5. /\ \A k \in 1..n : k \in 1..(n + 1)
        /\ \A k \in 1..(n + 1) : k \in 1..n \/ k = n + 1
        /\ n + 1 \in 1..(n + 1)
    OBVIOUS
  <2> QED
    BY <1>1, <2>1, <2>2, <2>3, <2>4, <2>5
<1>3. AllListTypeOK'
  <2>1. x \in Element
    BY DEF Element
  <2>2. next' \in [Element -> Element]
    BY <1>1, <2>1 DEF Good, AllListTypeOK
  <2>3. op' \in [Page -> {"none", "born", "run", "walk", "astray"} \cup Creating]
    BY <1>1 DEF Good, AllListTypeOK, Creating
  <2> QED
    BY <1>1, <1>2, <2>2, <2>3 DEF Good, AllListTypeOK
<1>4. op'[t] = "link back" /\ \A u \in Page \ {t} : op'[u] = op[u]
  BY <1>1 DEF Good, AllListTypeOK
<1>5. \A u \in Page \ {t} : op[u] \notin {"set next", "link prev", "link back"}
  BY <1>1 DEF Good, Intact, OneInserts, Inserting
<1>6. OneInserts'
  BY <1>4, <1>5 DEF OneInserts, Inserting
<1>7. prev[TAIL] = Rear /\ prev[x] = Rear /\ next[x] = TAIL /\ op[x] = "born"
  <2>1. \A u \in Page : op[u] # "link back"
    BY <1>1, <1>5
  <2> QED
    BY <1>1, <2>1 DEF Good, Intact, Chained, Inserted, Creator, Creating
<1>8. \A k \in 1..n : threads[k] # x
  <2>1. ASSUME NEW u \in Page, op[u] \in {"link back", "linked"}, new[u] = x PROVE FALSE
    BY <1>1, <2>1 DEF Good, Intact, Creator, Creating
  <2>2. Listed(x)
    BY DEF Good, Intact
  <2> QED
    BY <1>7, <2>1, <2>2 DEF Listed
<1>9. /\ \A i \in 0..n : Node(i)' = Node(i) /\ Node(i) \in Element \ {x}
      /\ Rear' = x /\ Node(n)' = Rear
  <2>1. \A i \in 0..n : Node(i)' = Node(i)
    BY <1>2 DEF Node
  <2>2. \A i \in 0..n : Node(i) \in Element \ {x}
    BY <1>8 DEF Node, Good, AllListTypeOK, AllListAssumption, Element
  <2>3. n \in 0..n /\ n + 1 # 0
    OBVIOUS
  <2> QED
    BY <1>2, <2>1, <2>2, <2>3 DEF Rear, Node
<1>10. ASSUME NEW i \in 0..n, NEW j \in 0..n, Node(i) = Node(j) PROVE i = j
  BY <1>10 DEF Node, Good, Intact, OnceOnly, AllListTypeOK, AllListAssumption
<1>11. /\ next'[Rear] = x
       /\ \A i \in 0..(n - 1) : next'[Node(i)] = next[Node(i)]
       /\ next'[x] = TAIL
  <2>1. Rear = Node(n) /\ Rear \in Element /\ x \in Element /\ Rear # x
    BY <1>9 DEF Rear, Element
  <2>2. \A i \in 0..(n - 1) : i \in 0..n /\ i # n /\ n \in 0..n
    OBVIOUS
  <2>3. next' = [next EXCEPT ![Rear] = x]
    BY <1>1, <1>7
  <2>4. \A i \in 0..(n - 1) : Node(i) # Rear /\ Node(i) \in Element
    BY <1>9, <1>10, <2>1, <2>2
  <2> QED
    BY <1>7, <2>1, <2>3, <2>4 DEF Good, AllListTypeOK
<1>12. Chained'
  <2>1. ASSUME NEW i \in 1..(n + 1)
        PROVE  next'[Node(i - 1)'] = threads'[i] /\ prev'[threads'[i]] = Node(i - 1)'
    <3>1. CASE i \in 1..n
      <4>1. i - 1 \in 0..(n - 1) /\ i - 1 \in 0..n /\ threads'[i] = threads[i]
        BY <1>2, <3>1
      <4>2. next[Node(i - 1)] = threads[i] /\ prev[threads[i]] = Node(i - 1)
        BY <3>1 DEF Good, Intact, Chained
      <4> QED
        BY <1>1, <1>9, <1>11, <4>1, <4>2
    <3>2. CASE i = n + 1
      <4>1. i - 1 = n
        BY <3>2
      <4> QED
        BY <1>1, <1>2, <1>7, <1>9, <1>11, <3>2, <4>1
    <3> QED
      BY <1>2, <3>1, <3>2
  <2>2. \A i \in 1..Len(threads') : i \in 1..(n + 1)
    BY <1>2
  <2>3. next'[Rear'] = TAIL
    BY <1>9, <1>11
  <2> QED
    BY <1>4, <2>1, <2>2, <2>3 DEF Chained, Node
<1>13. OnceOnly'
  <2> SUFFICES ASSUME NEW j \in 1..(n + 1), NEW k \in 1..(n + 1), threads'[j] = threads'[k]
               PROVE  j = k
    BY <1>2 DEF OnceOnly
  <2>1. CASE j \in 1..n /\ k \in 1..n
    BY <1>2, <2>1 DEF Good, Intact, OnceOnly
  <2>2. CASE j \in 1..n /\ k = n + 1
    BY <1>2, <1>8, <2>2
  <2>3. CASE k \in 1..n /\ j = n + 1
    BY <1>2, <1>8, <2>3
  <2> QED
    BY <1>2, <2>1, <2>2, <2>3
<1>14. ASSUME NEW u \in Page PROVE Creator(u)' /\ Nameless(u)' /\ Inserted(u)'
  <2>1. \A v \in Page : op'[v] \in Creating <=> op[v] \in Creating
    BY <1>1, <1>4 DEF Creating
  <2>2. \A v \in Page : /\ op'[v] = "born" <=> op[v] = "born"
                        /\ op'[v] = "none" <=> op[v] = "none"
    BY <1>1, <1>4
  <2>3. Creator(u)'
    <3>1. new[u] \in Page /\ Creator(u)
      BY DEF Good, AllListTypeOK, Intact
    <3> QED
      BY <1>1, <2>1, <2>2, <3>1 DEF Creator
  <2>4. Nameless(u)'
    BY <1>1, <2>2 DEF Good, Intact, Nameless
  <2>5. Inserted(u)'
    BY <1>1, <1>4, <1>5, <1>9 DEF Inserted
  <2> QED
    BY <2>3, <2>4, <2>5
<1>15. ASSUME NEW p \in Page PROVE Listed(p)'
  <2>1. (\E k \in 1..Len(threads') : threads'[k] = p) <=> (\E k \in 1..n : threads[k] = p) \/ p = x
    BY <1>2
  <2>2. (\E v \in Page : op'[v] \in {"link back", "linked"} /\ new'[v] = p)
          <=> (\E v \in Page : op[v] \in {"link back", "linked"} /\ new[v] = p) \/ p = x
    BY <1>1, <1>4
  <2>3. op'[p] \in {"none", "born"} <=> op[p] \in {"none", "born"}
    BY <1>1, <1>4
  <2>4. Listed(p)
    BY DEF Good, Intact
  <2> QED
    BY <2>1, <2>2, <2>3, <2>4 DEF Listed
<1>16. ASSUME NEW u \in Page PROVE Ahead(u)'
  <2>1. \A v \in Page : op[v] \notin {"none", "born"} => op'[v] \notin {"none", "born"}
    BY <1>1, <1>4
  <2>2. op'[u] = "walk" => op[u] = "walk"
    BY <1>4
  <2>3. Len(threads) =< Len(threads') /\ Len(threads') \in Nat
    BY <1>2
  <2> QED
    BY <1>1, <1>2, <2>1, <2>2, <2>3, AheadKept
<1> QED
  BY <1>3, <1>6, <1>12, <1>13, <1>14, <1>15, <1>16 DEF Intact
\* The new thread has a name, and is one like the others.
LEMMA StartList ==
  ASSUME Good, NEW t \in Page, Start(t)
  PROVE  AllListTypeOK' /\ Intact'
<1> PICK x \in Page : x = new[t]
  BY DEF Good, AllListTypeOK
<1>1. /\ op[t] = "linked" /\ op' = [op EXCEPT ![t] = "run", ![x] = "run"]
      /\ tid' = [tid EXCEPT ![x] = next_tid]
      /\ parent' = [parent EXCEPT ![x] = tid[t]]
      /\ next_tid' = next_tid + 1
      /\ new' = [new EXCEPT ![t] = t]
      /\ UNCHANGED <<prev, next, threads, broken, cursor, sought>>
  BY DEF Start, links, walks
<1>2. AllListTypeOK'
  <2>1. tid' \in [Page -> Nat] /\ parent' \in [Page -> Nat] /\ next_tid' \in Nat
    BY <1>1 DEF Good, AllListTypeOK
  <2>2. op' \in [Page -> {"none", "born", "run", "walk", "astray"} \cup Creating]
    BY <1>1 DEF Good, AllListTypeOK, Creating
  <2>3. new' \in [Page -> Page]
    BY <1>1 DEF Good, AllListTypeOK
  <2> QED
    BY <1>1, <2>1, <2>2, <2>3 DEF Good, AllListTypeOK
<1>3. op[x] = "born" /\ x # t
  BY <1>1 DEF Good, Intact, Creator, Creating
<1>4. ASSUME NEW v \in Page, op[v] \in Creating, new[v] = x PROVE v = t
  BY <1>1, <1>4 DEF Good, Intact, Creator, Creating
<1>5. /\ op'[t] = "run" /\ op'[x] = "run" /\ \A u \in Page \ {t, x} : op'[u] = op[u]
      /\ \A u \in Page \ {t} : new'[u] = new[u]
      /\ \A u \in Page \ {x} : tid'[u] = tid[u] /\ parent'[u] = parent[u]
  BY <1>1, <1>3 DEF Good, AllListTypeOK
<1>6. ASSUME NEW u \in Page PROVE Creator(u)'
  <2>1. \A v \in Page : op'[v] \in Creating => op[v] \in Creating /\ v \notin {t, x}
    BY <1>5 DEF Creating
  <2>2. CASE op'[u] \in Creating
    <3>1. op[u] \in Creating /\ u # t /\ new'[u] = new[u] /\ new[u] \in Page
      BY <1>5, <2>1, <2>2 DEF Good, AllListTypeOK
    <3>2. new[u] # x
      BY <1>4, <3>1
    <3>3. op[new[u]] = "born" /\ new[u] # t
      BY <1>1, <3>1 DEF Good, Intact, Creator
    <3>4. op'[new[u]] = "born"
      BY <1>5, <3>1, <3>2, <3>3
    <3>5. ASSUME NEW v \in Page, op'[v] \in Creating, new'[v] = new'[u] PROVE v = u
      <4>1. op[v] \in Creating /\ new[v] = new[u]
        BY <1>5, <2>1, <3>1, <3>5
      <4> QED
        BY <3>1, <4>1 DEF Good, Intact, Creator
    <3> QED
      BY <3>1, <3>4, <3>5 DEF Creator
  <2> QED
    BY <2>2 DEF Creator
<1>7. ASSUME NEW p \in Page PROVE Listed(p)'
  <2>1. Listed(p)
    BY DEF Good, Intact
  <2>2. CASE p \in {t, x}
    <3>1. \E k \in 1..Len(threads) : threads[k] = p
      BY <1>1, <1>3, <2>1, <2>2 DEF Listed
    <3> QED
      BY <1>1, <1>5, <2>2, <3>1 DEF Listed
  <2>3. CASE p \notin {t, x}
    <3>1. op'[p] = op[p]
      BY <1>5, <2>3
    <3>2. (\E v \in Page : op'[v] \in {"link back", "linked"} /\ new'[v] = p)
            <=> \E v \in Page : op[v] \in {"link back", "linked"} /\ new[v] = p
      BY <1>1, <1>3, <1>5, <2>3
    <3> QED
      BY <1>1, <2>1, <3>1, <3>2 DEF Listed
  <2> QED
    BY <2>2, <2>3
<1>8. ASSUME NEW u \in Page PROVE Nameless(u)' /\ Inserted(u)'
  <2>1. Nameless(u)'
    BY <1>5 DEF Good, Intact, Nameless
  <2>2. CASE u \in {t, x}
    <3>1. op'[u] = "run"
      BY <1>5, <2>2
    <3> QED
      BY <2>1, <3>1 DEF Inserted
  <2>3. CASE u \notin {t, x}
    <3>1. op'[u] = op[u] /\ new'[u] = new[u] /\ prev' = prev /\ next' = next
      BY <1>1, <1>5, <2>3
    <3>2. Rear' = Rear
      BY <1>1 DEF Rear, Node
    <3> QED
      BY <2>1, <3>1, <3>2 DEF Good, Intact, Inserted
  <2> QED
    BY <2>1, <2>2, <2>3
<1>9. ASSUME NEW u \in Page PROVE Ahead(u)'
  <2>1. CASE u = x
    BY <1>5, <2>1 DEF Ahead
  <2>2. CASE u # x
    <3>1. \A v \in Page : op[v] \notin {"none", "born"} =>
            op'[v] \notin {"none", "born"} /\ tid'[v] = tid[v]
      BY <1>3, <1>5
    <3>2. op'[u] = "walk" => op[u] = "walk"
      BY <1>5
    <3>3. Len(threads) \in Nat /\ Len(threads) =< Len(threads)
      BY ListLength
    <3>4. threads' = threads /\ cursor' = cursor /\ sought' = sought /\ parent'[u] = parent[u]
      BY <1>1, <1>5, <2>2
    <3> QED
      BY <3>1, <3>2, <3>3, <3>4, AheadKept
  <2> QED
    BY <2>1, <2>2
<1>10. OnceOnly' /\ OneInserts' /\ Chained'
  <2>1. \A u \in Page : /\ u \in Inserting' <=> u \in Inserting
                        /\ op'[u] = "link back" <=> op[u] = "link back"
    BY <1>1, <1>3, <1>5 DEF Inserting
  <2>2. Rear' = Rear /\ \A i : Node(i)' = Node(i)
    BY <1>1 DEF Rear, Node
  <2>3. OnceOnly'
    BY <1>1 DEF Good, Intact, OnceOnly
  <2>4. OneInserts'
    BY <2>1 DEF Good, Intact, OneInserts
  <2>5. Chained'
    BY <1>1, <2>1, <2>2 DEF Good, Intact, Chained
  <2> QED
    BY <2>3, <2>4, <2>5
<1> QED
  BY <1>2, <1>6, <1>7, <1>8, <1>9, <1>10 DEF Intact

\* thread_alive() begins at the first thread: every thread with the name is one on
\* the list.
LEMMA AliveList ==
  ASSUME Good, NEW t \in Page, thread_alive(t)
  PROVE  AllListTypeOK' /\ Intact'
<1>1. /\ op[t] = "run" /\ parent[t] # 0 /\ op' = [op EXCEPT ![t] = "walk"]
      /\ cursor' = [cursor EXCEPT ![t] = next[HEAD]]
      /\ sought' = [sought EXCEPT ![t] = {p \in Page : op[p] # "none" /\ tid[p] = parent[t]}]
      /\ UNCHANGED <<prev, next, threads, broken, tid, parent, new, next_tid>>
  BY DEF thread_alive, At, links
<1> PICK n \in Nat : n = Len(threads)
  BY ListLength
<1>2. AllListTypeOK'
  <2>1. next[HEAD] \in Element
    BY DEF Good, AllListTypeOK, Element
  <2>2. cursor' \in [Page -> Element]
    BY <1>1, <2>1 DEF Good, AllListTypeOK
  <2>3. sought' \in [Page -> SUBSET Page]
    <3>1. {p \in Page : op[p] # "none" /\ tid[p] = parent[t]} \in SUBSET Page
      OBVIOUS
    <3> QED
      BY <1>1, <3>1 DEF Good, AllListTypeOK
  <2>4. op' \in [Page -> {"none", "born", "run", "walk", "astray"} \cup Creating]
    BY <1>1 DEF Good, AllListTypeOK, Creating
  <2> QED
    BY <1>1, <2>2, <2>3, <2>4 DEF Good, AllListTypeOK
<1>3. /\ op'[t] = "walk" /\ cursor'[t] = next[HEAD]
      /\ sought'[t] = {p \in Page : op[p] # "none" /\ tid[p] = parent[t]}
      /\ \A u \in Page \ {t} : op'[u] = op[u] /\ cursor'[u] = cursor[u] /\ sought'[u] = sought[u]
  BY <1>1 DEF Good, AllListTypeOK
<1>4. Ahead(t)'
  <2>1. \E k \in 1..n : threads[k] = t
    BY <1>1 DEF Good, Intact, Listed
  <2>2. 1 \in 1..n /\ 1 - 1 = 0
    BY <2>1
  <2>3. cursor'[t] = threads[1]
    BY <1>3, <2>2 DEF Good, Intact, Chained, Node
  <2>4. ASSUME NEW p \in sought'[t]
        PROVE  /\ tid[p] = parent[t] /\ op'[p] \notin {"none", "born"}
               /\ \E j \in 1..n : threads[j] = p
    <3>1. p \in Page /\ tid[p] = parent[t] /\ op[p] # "none"
      BY <1>3, <2>4
    <3>2. op[p] \notin {"none", "born"}
      BY <1>1, <3>1 DEF Good, Intact, Nameless
    <3>3. \E j \in 1..n : threads[j] = p
      BY <3>1, <3>2 DEF Good, Intact, Listed
    <3> QED
      BY <1>3, <3>1, <3>2, <3>3
  <2> QED
    BY <1>1, <2>2, <2>3, <2>4 DEF Ahead
<1>5. \A u \in Page : /\ u \in Inserting' <=> u \in Inserting
                      /\ op'[u] = "link back" <=> op[u] = "link back"
                      /\ op'[u] = "link prev" <=> op[u] = "link prev"
                      /\ op'[u] = "set next" <=> op[u] = "set next"
  BY <1>1, <1>3 DEF Inserting
<1>6. OneInserts'
  BY <1>5 DEF Good, Intact, OneInserts
<1>7. Rear' = Rear /\ \A i : Node(i)' = Node(i)
  BY <1>1 DEF Rear, Node
<1>8. Chained' /\ \A u \in Page : Inserted(u)'
  BY <1>1, <1>5, <1>7 DEF Good, Intact, Chained, Inserted
<1> QED
  BY <1>1, <1>2, <1>3, <1>4, <1>6, <1>8, OwnStepList DEF Creating

\* The next thread, when this one is not among those looked for.
LEMMA WalkOnList ==
  ASSUME Good, NEW t \in Page, WalkOn(t)
  PROVE  AllListTypeOK' /\ Intact'
<1>1. /\ op[t] = "walk" /\ cursor[t] # TAIL /\ tid[cursor[t]] # parent[t]
      /\ cursor' = [cursor EXCEPT ![t] = next[cursor[t]]]
      /\ UNCHANGED <<prev, next, threads, broken, tid, parent, op, new, next_tid, sought>>
  BY DEF WalkOn, links
<1> PICK n \in Nat : n = Len(threads)
  BY ListLength
<1>2. AllListTypeOK'
  <2>1. next[cursor[t]] \in Element
    BY DEF Good, AllListTypeOK
  <2> QED
    BY <1>1, <2>1 DEF Good, AllListTypeOK
<1>3. cursor'[t] = next[cursor[t]] /\ \A u \in Page \ {t} : cursor'[u] = cursor[u]
  BY <1>1 DEF Good, AllListTypeOK
<1>4. Ahead(t)'
  <2> PICK k \in 1..n :
        /\ cursor[t] = threads[k]
        /\ \A p \in sought[t] : /\ tid[p] = parent[t] /\ op[p] \notin {"none", "born"}
                                /\ \E j \in k..n : threads[j] = p
    BY <1>1 DEF Good, Intact, Ahead
  <2>1. ASSUME NEW p \in sought[t] PROVE \E j \in (k + 1)..n : threads[j] = p
    <3> PICK j \in k..n : threads[j] = p
      OBVIOUS
    <3>1. p # threads[k]
      BY <1>1
    <3>2. j # k
      BY <3>1
    <3>3. j \in (k + 1)..n
      BY <3>2
    <3> QED
      BY <3>3
  <2>2. CASE k = n
    <3>1. \A j : j \notin (k + 1)..n
      BY <2>2
    <3>2. sought[t] = {}
      BY <2>1, <3>1
    <3>3. cursor'[t] = TAIL
      <4>1. Rear = threads[k]
        BY <2>2 DEF Rear, Node
      <4> QED
        BY <1>3, <4>1 DEF Good, Intact, Chained
    <3> QED
      BY <1>1, <3>2, <3>3 DEF Ahead
  <2>3. CASE k # n
    <3>1. k + 1 \in 1..n /\ (k + 1) - 1 = k /\ k # 0
      BY <2>3
    <3>2. cursor'[t] = threads[k + 1]
      <4>1. Node((k + 1) - 1) = threads[k]
        BY <3>1 DEF Node
      <4>2. next[Node((k + 1) - 1)] = threads[k + 1]
        BY <3>1 DEF Good, Intact, Chained
      <4> QED
        BY <1>3, <4>1, <4>2
    <3>3. \A p \in sought[t] : /\ tid[p] = parent[t] /\ op[p] \notin {"none", "born"}
                               /\ \E j \in (k + 1)..n : threads[j] = p
      BY <2>1
    <3> QED
      BY <1>1, <3>1, <3>2, <3>3 DEF Ahead
  <2> QED
    BY <2>2, <2>3
<1>5. OneInserts'
  BY <1>1 DEF Good, Intact, OneInserts, Inserting
<1>6. Chained' /\ \A u \in Page : Inserted(u)'
  BY <1>1 DEF Good, Intact, Chained, Inserted, Rear, Node
<1> QED
  BY <1>1, <1>2, <1>3, <1>4, <1>5, <1>6, OwnStepList DEF Creating

\* thread_alive() returns.
LEMMA AnswerList ==
  ASSUME Good, NEW t \in Page, NEW found \in BOOLEAN, Answer(t, found)
  PROVE  AllListTypeOK' /\ Intact'
<1>1. /\ op[t] = "walk" /\ op' = [op EXCEPT ![t] = "run"]
      /\ cursor' = [cursor EXCEPT ![t] = HEAD] /\ sought' = [sought EXCEPT ![t] = {}]
      /\ UNCHANGED <<prev, next, threads, broken, tid, parent, new, next_tid>>
  BY DEF Answer, At, links
<1>2. AllListTypeOK'
  <2>1. HEAD \in Element
    BY DEF Element
  <2>2. op' \in [Page -> {"none", "born", "run", "walk", "astray"} \cup Creating]
    BY <1>1 DEF Good, AllListTypeOK, Creating
  <2> QED
    BY <1>1, <2>1, <2>2 DEF Good, AllListTypeOK
<1>3. /\ op'[t] = "run"
      /\ \A u \in Page \ {t} : op'[u] = op[u] /\ cursor'[u] = cursor[u] /\ sought'[u] = sought[u]
  BY <1>1 DEF Good, AllListTypeOK
<1>4. Ahead(t)'
  BY <1>3 DEF Ahead
<1>5. \A u \in Page : /\ u \in Inserting' <=> u \in Inserting
                      /\ op'[u] = "link back" <=> op[u] = "link back"
                      /\ op'[u] = "link prev" <=> op[u] = "link prev"
                      /\ op'[u] = "set next" <=> op[u] = "set next"
  BY <1>1, <1>3 DEF Inserting
<1>6. OneInserts'
  BY <1>5 DEF Good, Intact, OneInserts
<1>7. Rear' = Rear /\ \A i : Node(i)' = Node(i)
  BY <1>1 DEF Rear, Node
<1>8. Chained' /\ \A u \in Page : Inserted(u)'
  BY <1>1, <1>5, <1>7 DEF Good, Intact, Chained, Inserted
<1> QED
  BY <1>1, <1>2, <1>3, <1>4, <1>6, <1>8, OwnStepList DEF Creating
\* list_remove() on the sequence: those behind move up by one.
LEMMA TakenOff ==
  ASSUME NEW q \in Seq(Page), NEW k \in 1..Len(q)
  PROVE  /\ RemoveAt(q, k) \in Seq(Page) /\ Len(RemoveAt(q, k)) = Len(q) - 1
         /\ \A j \in 1..(k - 1) : RemoveAt(q, k)[j] = q[j]
         /\ \A j \in k..(Len(q) - 1) : RemoveAt(q, k)[j] = q[j + 1]
<1>1. /\ RemoveAt(q, k) \in Seq(Page) /\ Len(RemoveAt(q, k)) = Len(q) - 1
      /\ \A j \in 1..(Len(q) - 1) : RemoveAt(q, k)[j] = IF j < k THEN q[j] ELSE q[j + 1]
  BY CutOut DEF RemoveAt
<1>2. /\ \A j \in 1..(k - 1) : j \in 1..(Len(q) - 1) /\ j < k
      /\ \A j \in k..(Len(q) - 1) : j \in 1..(Len(q) - 1) /\ ~(j < k)
  OBVIOUS
<1> QED
  BY <1>1, <1>2

\* Thread t, the k-th of n, goes.
Gone(t, n, k) ==
  /\ n \in Nat /\ k \in 1..n /\ n = Len(threads) /\ threads[k] = t
  /\ Len(threads') = n - 1 /\ threads' \in Seq(Page)
  /\ \A j \in 1..(k - 1) : threads'[j] = threads[j]
  /\ \A j \in k..(n - 1) : threads'[j] = threads[j + 1]
  /\ \A i \in 0..(k - 1) : Node(i)' = Node(i)
  /\ \A i \in k..(n - 1) : Node(i)' = Node(i + 1)
  /\ \A i \in 0..n : \A j \in 0..n : Node(i) = Node(j) => i = j
  /\ \A i \in 0..n : Node(i) \in Element \ {TAIL}

\* thread_exit() takes one thread off the sequence.
LEMMA ExitGone ==
  ASSUME Good, NEW t \in Page, thread_exit(t)
  PROVE  \E n \in Nat : \E k \in 1..n : Gone(t, n, k)
<1> PICK q \in Seq(Page), n \in Nat : q = threads /\ n = Len(q)
  BY DEF Good, AllListTypeOK
<1> PICK k \in 1..n : threads[k] = t /\ threads' = RemoveAt(threads, k)
  BY DEF thread_exit
<1>1. /\ threads' \in Seq(Page) /\ Len(threads') = n - 1
      /\ \A j \in 1..(k - 1) : threads'[j] = threads[j]
      /\ \A j \in k..(n - 1) : threads'[j] = threads[j + 1]
  <2>1. threads' = RemoveAt(q, k) /\ k \in 1..Len(q)
    OBVIOUS
  <2>2. /\ RemoveAt(q, k) \in Seq(Page) /\ Len(RemoveAt(q, k)) = n - 1
        /\ \A j \in 1..(k - 1) : RemoveAt(q, k)[j] = q[j]
        /\ \A j \in k..(n - 1) : RemoveAt(q, k)[j] = q[j + 1]
    BY <2>1, TakenOff
  <2> QED
    BY <2>1, <2>2
<1>2. \A i \in 0..(k - 1) : Node(i)' = Node(i)
  <2>1. \A i \in 0..(k - 1) : i = 0 \/ i \in 1..(k - 1)
    OBVIOUS
  <2> QED
    BY <1>1, <2>1 DEF Node
<1>3. \A i \in k..(n - 1) : Node(i)' = Node(i + 1)
  <2>1. \A i \in k..(n - 1) : i # 0 /\ i + 1 # 0
    OBVIOUS
  <2> QED
    BY <1>1, <2>1 DEF Node
<1>4. ASSUME NEW i \in 0..n, NEW j \in 0..n, Node(i) = Node(j) PROVE i = j
  BY <1>4 DEF Node, Good, Intact, OnceOnly, AllListTypeOK, AllListAssumption
<1>5. \A i \in 0..n : Node(i) \in Element \ {TAIL}
  BY DEF Node, Good, AllListTypeOK, AllListAssumption, Element
<1> QED
  BY <1>1, <1>2, <1>3, <1>4, <1>5 DEF Gone

\* What list_remove() does to the links.
LEMMA ExitUnlinks ==
  ASSUME Good, NEW t \in Page, thread_exit(t), NEW n \in Nat, NEW k \in 1..n, Gone(t, n, k)
  PROVE  /\ next' \in [Element -> Element] /\ prev' \in [Element -> Element]
         /\ prev[t] = Node(k - 1) /\ next[t] = IF k = n THEN TAIL ELSE threads[k + 1]
         /\ next[t] # t /\ Node(k - 1) # t /\ next'[Node(k - 1)] = next[t]
         /\ prev'[next[t]] = Node(k - 1)
         /\ \A e \in Element : e \notin {t, Node(k - 1)} => next'[e] = next[e]
         /\ \A e \in Element : e \notin {t, next[t]} => prev'[e] = prev[e]
<1>1. /\ next' = [next EXCEPT ![prev[t]] = next[t], ![t] = TAIL]
      /\ prev' = [prev EXCEPT ![next[t]] = prev[t], ![t] = HEAD]
  BY DEF thread_exit, list_remove
<1>2. /\ k - 1 \in 0..n /\ k \in 0..n /\ k - 1 # k /\ t = Node(k) /\ Node(k - 1) # t
      /\ t \in Element /\ HEAD \in Element /\ TAIL \in Element /\ t # TAIL
  BY DEF Gone, Node, Good, AllListAssumption, Element
<1>3. prev[t] = Node(k - 1)
  BY DEF Gone, Good, Intact, Chained
<1>4. next[t] = IF k = n THEN TAIL ELSE threads[k + 1]
  <2>1. CASE k = n
    BY <1>2, <2>1 DEF Gone, Good, Intact, Chained, Rear
  <2>2. CASE k # n
    <3>1. k + 1 \in 1..n /\ (k + 1) - 1 = k
      BY <2>2
    <3>2. k + 1 \in 1..Len(threads)
      BY <3>1 DEF Gone
    <3>3. next[Node((k + 1) - 1)] = threads[k + 1]
      BY <3>2 DEF Good, Intact, Chained
    <3> QED
      BY <1>2, <2>2, <3>1, <3>3
  <2> QED
    BY <2>1, <2>2
<1>5. next[t] # t
  <2>1. CASE k = n
    BY <1>2, <1>4, <2>1
  <2>2. CASE k # n
    <3>1. k + 1 \in 0..n /\ k + 1 # k /\ Node(k + 1) = threads[k + 1]
      BY <2>2 DEF Node
    <3> QED
      BY <1>2, <1>4, <2>2, <3>1 DEF Gone
  <2> QED
    BY <2>1, <2>2
<1>6. Node(k - 1) \in Element /\ next[t] \in Element
  BY <1>2 DEF Gone, Good, AllListTypeOK
<1>7. /\ next' \in [Element -> Element] /\ next'[Node(k - 1)] = next[t]
      /\ \A e \in Element : e \notin {t, Node(k - 1)} => next'[e] = next[e]
  BY <1>1, <1>2, <1>3, <1>6 DEF Good, AllListTypeOK
<1>8. /\ prev' \in [Element -> Element] /\ prev'[next[t]] = Node(k - 1)
      /\ \A e \in Element : e \notin {t, next[t]} => prev'[e] = prev[e]
  BY <1>1, <1>2, <1>3, <1>5, <1>6 DEF Good, AllListTypeOK
<1> QED
  BY <1>2, <1>3, <1>4, <1>5, <1>7, <1>8

\* The links lead past it.
LEMMA ExitChained ==
  ASSUME Good, NEW t \in Page, thread_exit(t), NEW n \in Nat, NEW k \in 1..n, Gone(t, n, k)
  PROVE  Chained' /\ (k # n => Rear' = Rear)
<1>1. /\ next' \in [Element -> Element] /\ prev' \in [Element -> Element]
      /\ prev[t] = Node(k - 1) /\ next[t] = IF k = n THEN TAIL ELSE threads[k + 1]
      /\ next[t] # t /\ Node(k - 1) # t /\ next'[Node(k - 1)] = next[t]
      /\ prev'[next[t]] = Node(k - 1)
      /\ \A e \in Element : e \notin {t, Node(k - 1)} => next'[e] = next[e]
      /\ \A e \in Element : e \notin {t, next[t]} => prev'[e] = prev[e]
  BY ExitUnlinks
<1>2. /\ n = Len(threads) /\ t = Node(k) /\ Rear = Node(n) /\ Rear' = Node(n - 1)'
      /\ \A i \in 1..n : Node(i) = threads[i] /\ threads[i] \in Element /\ threads[i] # TAIL
      /\ TAIL \in Element
  BY DEF Gone, Rear, Node, Good, AllListTypeOK, AllListAssumption, Element
<1>3. \A i \in 1..n : next[Node(i - 1)] = threads[i] /\ prev[threads[i]] = Node(i - 1)
  BY <1>2 DEF Good, Intact, Chained
<1>4. ASSUME NEW i \in 1..(n - 1)
      PROVE  next'[Node(i - 1)'] = threads'[i] /\ prev'[threads'[i]] = Node(i - 1)'
  <2>1. CASE i < k
    <3>1. /\ i \in 1..(k - 1) /\ i - 1 \in 0..(k - 1) /\ i \in 1..n /\ i - 1 \in 0..n
          /\ i \in 0..n /\ k \in 0..n /\ k - 1 \in 0..n
          /\ i - 1 # k /\ i - 1 # k - 1 /\ i # k
      BY <2>1
    <3>2. threads'[i] = threads[i] /\ Node(i - 1)' = Node(i - 1)
      BY <3>1 DEF Gone
    <3>3. Node(i - 1) \in Element /\ Node(i - 1) # Node(k) /\ Node(i - 1) # Node(k - 1) /\ Node(i) # Node(k)
      BY <3>1 DEF Gone
    <3>4. threads[i] # next[t]
      <4>1. CASE k = n
        BY <1>1, <1>2, <3>1, <4>1
      <4>2. CASE k # n
        <5>1. k + 1 \in 1..n /\ k + 1 \in 0..n /\ i # k + 1
          BY <2>1, <4>2
        <5>2. Node(i) # Node(k + 1)
          BY <3>1, <5>1 DEF Gone
        <5> QED
          BY <1>1, <1>2, <3>1, <4>2, <5>1, <5>2
      <4> QED
        BY <4>1, <4>2
    <3>5. next'[Node(i - 1)'] = threads'[i]
      BY <1>1, <1>2, <1>3, <3>1, <3>2, <3>3
    <3>6. threads[i] \in Element /\ threads[i] # t
      BY <1>2, <3>1, <3>3
    <3>7. prev'[threads'[i]] = Node(i - 1)'
      BY <1>1, <1>3, <3>1, <3>2, <3>4, <3>6
    <3> QED
      BY <3>5, <3>7
  <2>2. CASE i = k
    <3>1. i \in k..(n - 1) /\ k - 1 \in 0..(k - 1) /\ k # n
      BY <2>2
    <3>2. threads'[i] = threads[k + 1] /\ Node(i - 1)' = Node(k - 1)
      BY <2>2, <3>1 DEF Gone
    <3> QED
      BY <1>1, <3>1, <3>2
  <2>3. CASE i > k
    <3>1. /\ i \in k..(n - 1) /\ i - 1 \in k..(n - 1) /\ i + 1 \in 1..n /\ (i + 1) - 1 = i /\ (i - 1) + 1 = i
          /\ i \in 0..n /\ k \in 0..n /\ k - 1 \in 0..n /\ i + 1 \in 0..n /\ k + 1 \in 0..n /\ k + 1 \in 1..n
          /\ i # k - 1 /\ i # k /\ i + 1 # k /\ i + 1 # k + 1 /\ k # n
      BY <2>3
    <3>2. threads'[i] = threads[i + 1] /\ Node(i - 1)' = Node(i)
      BY <3>1 DEF Gone
    <3>3. /\ Node(i) \in Element /\ Node(i) # Node(k - 1) /\ Node(i) # Node(k)
          /\ Node(i + 1) # Node(k) /\ Node(i + 1) # Node(k + 1)
      BY <3>1 DEF Gone
    <3>4. next[Node(i)] = threads[i + 1] /\ prev[threads[i + 1]] = Node(i)
      BY <1>3, <3>1
    <3> QED
      BY <1>1, <1>2, <3>1, <3>2, <3>3, <3>4
  <2> QED
    BY <2>1, <2>2, <2>3
<1>5. next[Rear] = TAIL
  BY DEF Good, Intact, Chained
<1>6. CASE k = n
  <2>1. Rear' = Node(k - 1)
    <3>1. n - 1 \in 0..(k - 1) /\ n - 1 = k - 1
      BY <1>6
    <3> QED
      BY <1>2, <3>1 DEF Gone
  <2>2. next'[Rear'] = TAIL /\ prev'[TAIL] = Rear'
    BY <1>1, <1>6, <2>1
  <2>3. \A i \in 1..Len(threads') : i \in 1..(n - 1)
    BY DEF Gone
  <2> QED
    BY <1>4, <1>6, <2>2, <2>3 DEF Chained, Node
<1>7. CASE k # n
  <2>1. /\ n - 1 \in k..(n - 1) /\ (n - 1) + 1 = n /\ n \in 1..n /\ n \in 0..n /\ k \in 0..n
        /\ k - 1 \in 0..n /\ n # k - 1 /\ k + 1 \in 1..n
    BY <1>7
  <2>2. Rear' = Node(n)
    BY <1>2, <2>1 DEF Gone
  <2>3. Node(n) # Node(k) /\ Node(n) # Node(k - 1) /\ Node(n) \in Element
    BY <1>7, <2>1 DEF Gone
  <2>4. next'[Rear'] = TAIL
    BY <1>1, <1>2, <1>5, <2>2, <2>3
  <2>5. (\A u \in Page : op'[u] # "link back") => prev'[TAIL] = Rear'
    <3>1. SUFFICES ASSUME \A u \in Page : op'[u] # "link back" PROVE prev'[TAIL] = Rear'
      OBVIOUS
    <3>2. op[t] = "run" /\ op' = [u \in Page |-> IF u = t THEN "none"
                           ELSE IF op[u] = "walk" /\ cursor[u] = t THEN "astray" ELSE op[u]]
      BY DEF thread_exit
    <3>3. \A u \in Page : op[u] # "link back"
      BY <3>1, <3>2
    <3>4. prev[TAIL] = Rear
      BY <3>3 DEF Good, Intact, Chained
    <3>5. TAIL # t /\ TAIL # next[t]
      BY <1>1, <1>2, <1>7, <2>1
    <3> QED
      BY <1>1, <1>2, <2>2, <3>4, <3>5
  <2>6. \A i \in 1..Len(threads') : i \in 1..(n - 1)
    BY DEF Gone
  <2> QED
    BY <1>2, <1>4, <2>2, <2>4, <2>5, <2>6 DEF Chained, Node
<1> QED
  BY <1>6, <1>7

\* A walk that does not stand on t goes on.
LEMMA ExitAhead ==
  ASSUME Good, NEW t \in Page, thread_exit(t), NEW n \in Nat, NEW k \in 1..n, Gone(t, n, k),
         NEW u \in Page
  PROVE  Ahead(u)'
<1>1. /\ op' = [v \in Page |-> IF v = t THEN "none"
                           ELSE IF op[v] = "walk" /\ cursor[v] = t THEN "astray" ELSE op[v]]
      /\ sought' = [v \in Page |-> sought[v] \ {t}]
      /\ cursor' = [v \in Page |-> IF cursor[v] = t THEN HEAD ELSE cursor[v]]
      /\ tid' = [tid EXCEPT ![t] = 0] /\ parent' = [parent EXCEPT ![t] = 0]
  BY DEF thread_exit
<1>2. CASE op'[u] = "walk"
  <2>1. op[u] = "walk" /\ u # t /\ cursor[u] # t
    BY <1>1, <1>2
  <2>2. /\ cursor'[u] = cursor[u] /\ sought'[u] = sought[u] \ {t} /\ parent'[u] = parent[u]
        /\ \A p \in sought'[u] : p \in sought[u] /\ p \in Page /\ p # t
    BY <1>1, <2>1 DEF Good, AllListTypeOK
  <2>3. CASE cursor[u] = TAIL /\ sought[u] = {}
    <3>1. cursor'[u] = TAIL /\ sought'[u] = {}
      BY <2>2, <2>3
    <3> QED
      BY <3>1 DEF Ahead
  <2>4. CASE ~(cursor[u] = TAIL /\ sought[u] = {})
    <3> PICK m \in 1..n :
          /\ cursor[u] = threads[m]
          /\ \A p \in sought[u] : /\ tid[p] = parent[u] /\ op[p] \notin {"none", "born"}
                                  /\ \E j \in m..n : threads[j] = p
      BY <2>1, <2>4 DEF Good, Intact, Ahead, Gone
    <3> PICK w \in Nat : w = IF m < k THEN m ELSE m - 1
      OBVIOUS
    <3>1. m # k
      BY <2>1 DEF Gone
    <3>2. w \in 1..(n - 1)
      BY <3>1
    <3>3. threads'[w] = threads[m]
      <4>1. CASE m < k
        <5>1. w = m /\ w \in 1..(k - 1)
          BY <4>1
        <5> QED
          BY <5>1 DEF Gone
      <4>2. CASE ~(m < k)
        <5>1. w + 1 = m /\ w \in k..(n - 1)
          BY <3>1, <4>2
        <5> QED
          BY <5>1 DEF Gone
      <4> QED
        BY <4>1, <4>2
    <3>4. ASSUME NEW p \in sought'[u]
          PROVE  /\ tid'[p] = parent'[u] /\ op'[p] \notin {"none", "born"}
                 /\ \E j \in w..(n - 1) : threads'[j] = p
      <4>1. p \in sought[u] /\ p \in Page /\ p # t
        BY <2>2
      <4>2. tid'[p] = parent'[u] /\ op'[p] \notin {"none", "born"}
        <5>1. tid[p] = parent[u] /\ op[p] \notin {"none", "born"}
          BY <4>1
        <5>2. tid'[p] = tid[p]
          BY <1>1, <4>1 DEF Good, AllListTypeOK
        <5>3. op'[p] = op[p] \/ op'[p] = "astray"
          BY <1>1, <4>1
        <5> QED
          BY <2>2, <5>1, <5>2, <5>3
      <4>3. PICK j \in m..n : threads[j] = p
        BY <4>1
      <4>4. j # k
        BY <4>1, <4>3 DEF Gone
      <4>5. CASE j < k
        <5>1. j \in 1..(k - 1) /\ j \in w..(n - 1)
          BY <4>5
        <5>2. threads'[j] = p
          BY <4>3, <5>1 DEF Gone
        <5> QED
          BY <4>2, <5>1, <5>2
      <4>6. CASE ~(j < k)
        <5>1. j - 1 \in k..(n - 1) /\ j - 1 \in w..(n - 1) /\ (j - 1) + 1 = j
          BY <3>1, <4>4, <4>6
        <5>2. threads'[j - 1] = p
          BY <4>3, <5>1 DEF Gone
        <5> QED
          BY <4>2, <5>1, <5>2
      <4> QED
        BY <4>5, <4>6
    <3>5. cursor'[u] = threads'[w] /\ Len(threads') = n - 1
      BY <2>2, <3>3 DEF Gone
    <3> QED
      BY <3>2, <3>4, <3>5 DEF Ahead
  <2> QED
    BY <2>3, <2>4
<1>3. CASE op'[u] # "walk"
  BY <1>3 DEF Ahead
<1> QED
  BY <1>2, <1>3
\* thread_exit() of one thread, when it breaks nothing.
LEMMA ExitList ==
  ASSUME Good, NEW t \in Page, thread_exit(t)
  PROVE  AllListTypeOK' /\ (~broken' => Intact')
<1> PICK n \in Nat : \E k \in 1..n : Gone(t, n, k)
  BY ExitGone
<1> PICK k \in 1..n : Gone(t, n, k)
  OBVIOUS
<1>1. /\ op[t] = "run"
      /\ op' = [v \in Page |-> IF v = t THEN "none"
                           ELSE IF op[v] = "walk" /\ cursor[v] = t THEN "astray" ELSE op[v]]
      /\ sought' = [v \in Page |-> sought[v] \ {t}]
      /\ cursor' = [v \in Page |-> IF cursor[v] = t THEN HEAD ELSE cursor[v]]
      /\ tid' = [tid EXCEPT ![t] = 0] /\ parent' = [parent EXCEPT ![t] = 0]
      /\ new' = [new EXCEPT ![t] = t]
      /\ broken' = \E u \in Page : op[u] \in {"set next", "link prev"} /\ prev[new[u]] = t
      /\ next_tid' = next_tid
  BY DEF thread_exit
<1>2. /\ next' \in [Element -> Element] /\ prev' \in [Element -> Element]
      /\ next[t] = IF k = n THEN TAIL ELSE threads[k + 1]
      /\ \A e \in Element : e \notin {t, Node(k - 1)} => next'[e] = next[e]
      /\ \A e \in Element : e \notin {t, next[t]} => prev'[e] = prev[e]
  BY ExitUnlinks
<1>3. AllListTypeOK'
  <2>1. op' \in [Page -> {"none", "born", "run", "walk", "astray"} \cup Creating]
    BY <1>1 DEF Good, AllListTypeOK
  <2>2. cursor' \in [Page -> Element] /\ sought' \in [Page -> SUBSET Page]
    BY <1>1 DEF Good, AllListTypeOK, Element
  <2>3. tid' \in [Page -> Nat] /\ parent' \in [Page -> Nat] /\ new' \in [Page -> Page]
    BY <1>1 DEF Good, AllListTypeOK
  <2>4. threads' \in Seq(Page) /\ broken' \in BOOLEAN
    BY <1>1 DEF Gone
  <2> QED
    BY <1>1, <1>2, <2>1, <2>2, <2>3, <2>4 DEF Good, AllListTypeOK
<1>4. /\ op'[t] = "none" /\ tid'[t] = 0
      /\ \A u \in Page \ {t} : /\ op'[u] = op[u] \/ (op[u] = "walk" /\ op'[u] = "astray")
                               /\ new'[u] = new[u] /\ tid'[u] = tid[u]
  BY <1>1 DEF Good, AllListTypeOK
<1>5. \A u \in Page : \A w \in Creating : op'[u] = w <=> op[u] = w
  BY <1>1, <1>4 DEF Creating
<1>6. ASSUME NEW u \in Page PROVE Creator(u)'
  <2>1. CASE op'[u] \in Creating
    <3>1. op[u] \in Creating /\ u # t /\ new'[u] = new[u] /\ new[u] \in Page
      BY <1>1, <1>4, <1>5, <2>1 DEF Good, AllListTypeOK, Creating
    <3>2. op[new[u]] = "born" /\ new[u] # t
      BY <1>1, <3>1 DEF Good, Intact, Creator
    <3>3. op'[new[u]] = "born"
      BY <1>4, <3>1, <3>2
    <3>4. ASSUME NEW v \in Page, op'[v] \in Creating, new'[v] = new'[u] PROVE v = u
      <4>1. op[v] \in Creating /\ new[v] = new[u]
        BY <1>1, <1>4, <1>5, <3>1, <3>4 DEF Creating
      <4> QED
        BY <3>1, <4>1 DEF Good, Intact, Creator
    <3> QED
      BY <3>1, <3>3, <3>4 DEF Creator
  <2> QED
    BY <2>1 DEF Creator
<1>7. ASSUME NEW j \in 1..(n - 1)
      PROVE  threads'[j] = threads[IF j < k THEN j ELSE j + 1]
  <2>1. CASE j < k
    <3>1. j \in 1..(k - 1)
      BY <2>1
    <3> QED
      BY <2>1, <3>1 DEF Gone
  <2>2. CASE ~(j < k)
    <3>1. j \in k..(n - 1)
      BY <2>2
    <3> QED
      BY <2>2, <3>1 DEF Gone
  <2> QED
    BY <2>1, <2>2
<1>8. OnceOnly'
  <2> SUFFICES ASSUME NEW i \in 1..(n - 1), NEW j \in 1..(n - 1), threads'[i] = threads'[j]
               PROVE  i = j
    BY DEF OnceOnly, Gone
  <2>1. PICK a \in 1..n, b \in 1..n :
          /\ a = IF i < k THEN i ELSE i + 1
          /\ b = IF j < k THEN j ELSE j + 1
    OBVIOUS
  <2>2. threads[a] = threads[b]
    BY <1>7, <2>1
  <2>3. a = b
    BY <2>2 DEF Good, Intact, OnceOnly, Gone
  <2> QED
    BY <2>1, <2>3
<1>9. ASSUME NEW p \in Page
      PROVE  (\E j \in 1..(n - 1) : threads'[j] = p) <=> p # t /\ \E j \in 1..n : threads[j] = p
  <2>1. ASSUME NEW j \in 1..(n - 1), threads'[j] = p
        PROVE  p # t /\ \E m \in 1..n : threads[m] = p
    <3>1. PICK m \in 1..n : m = (IF j < k THEN j ELSE j + 1) /\ m # k
      OBVIOUS
    <3>2. threads[m] = p
      BY <1>7, <2>1, <3>1
    <3>3. p # t
      BY <3>1, <3>2 DEF Good, Intact, OnceOnly, Gone
    <3> QED
      BY <3>2, <3>3
  <2>2. ASSUME p # t, NEW m \in 1..n, threads[m] = p PROVE \E j \in 1..(n - 1) : threads'[j] = p
    <3>1. m # k
      BY <2>2 DEF Gone
    <3>2. PICK j \in 1..(n - 1) : m = IF j < k THEN j ELSE j + 1
      <4>1. CASE m < k
        <5>1. m \in 1..(n - 1)
          BY <4>1
        <5> QED
          BY <4>1, <5>1
      <4>2. CASE ~(m < k)
        <5>1. m - 1 \in 1..(n - 1) /\ ~(m - 1 < k) /\ m = (m - 1) + 1
          BY <3>1, <4>2
        <5> QED
          BY <5>1
      <4> QED
        BY <4>1, <4>2
    <3>3. threads'[j] = p
      BY <1>7, <2>2, <3>2
    <3> QED
      BY <3>3
  <2> QED
    BY <2>1, <2>2
<1>10. ASSUME NEW p \in Page PROVE Listed(p)' /\ Nameless(p)'
  <2>1. Listed(p) /\ Nameless(p) /\ \A v \in Page : Creator(v)
    BY DEF Good, Intact
  <2>2. Len(threads) = n /\ Len(threads') = n - 1
    BY DEF Gone
  <2>3. Nameless(p)'
    <3>1. CASE p = t
      BY <1>4, <3>1 DEF Nameless
    <3>2. CASE p # t
      <4>1. op'[p] \in {"none", "born"} => op[p] \in {"none", "born"}
        BY <1>4, <3>2
      <4> QED
        BY <1>4, <2>1, <3>2, <4>1 DEF Nameless
    <3> QED
      BY <3>1, <3>2
  <2>4. \A v \in Page : op[v] \in {"link back", "linked"} => new[v] # t /\ v # t
    BY <1>1, <2>1 DEF Creator, Creating
  <2>5. \A v \in Page : op'[v] \in {"link back", "linked"} <=> op[v] \in {"link back", "linked"}
    BY <1>5 DEF Creating
  <2>6. CASE p = t
    <3>1. ~\E v \in Page : op'[v] \in {"link back", "linked"} /\ new'[v] = p
      BY <1>4, <2>4, <2>5, <2>6
    <3>2. ~\E j \in 1..Len(threads') : threads'[j] = p
      BY <1>9, <2>2, <2>6
    <3> QED
      BY <1>4, <2>3, <2>6, <3>1, <3>2 DEF Listed
  <2>7. CASE p # t
    <3>1. (\E v \in Page : op'[v] \in {"link back", "linked"} /\ new'[v] = p)
            <=> \E v \in Page : op[v] \in {"link back", "linked"} /\ new[v] = p
      BY <1>4, <2>4, <2>5
    <3>2. op'[p] \in {"none", "born"} <=> op[p] \in {"none", "born"}
      BY <1>4, <2>7
    <3>3. (\E j \in 1..Len(threads') : threads'[j] = p) <=> \E j \in 1..Len(threads) : threads[j] = p
      BY <1>9, <2>2, <2>7
    <3> QED
      BY <2>1, <2>3, <3>1, <3>2, <3>3 DEF Listed
  <2> QED
    BY <2>6, <2>7
<1>11. OneInserts'
  <2>1. \A u \in Page : u \in Inserting' <=> u \in Inserting
    BY <1>5 DEF Inserting, Creating
  <2> QED
    BY <2>1 DEF Good, Intact, OneInserts
<1>12. ASSUME ~broken', NEW u \in Page PROVE Inserted(u)'
  <2>1. CASE op'[u] \in {"set next", "link prev", "link back"}
    <3>1. op[u] = op'[u] /\ op[u] \in Creating /\ u # t
      BY <1>1, <1>5, <2>1 DEF Creating
    <3>2. new'[u] = new[u] /\ new[u] \in Page /\ new[u] \in Element /\ new[u] # TAIL
      BY <1>4, <3>1 DEF Good, AllListTypeOK, Element, AllListAssumption
    <3>3. op[new[u]] = "born" /\ new[u] # t
      BY <1>1, <3>1 DEF Good, Intact, Creator
    <3>4. Rear = IF n = 0 THEN HEAD ELSE threads[n]
      BY DEF Rear, Node, Gone
    <3>5. k = n => Rear = t
      BY <3>4 DEF Gone
    <3>6. k # n
      <4>1. CASE op[u] \in {"set next", "link prev"}
        BY <1>1, <1>12, <3>5, <4>1 DEF Good, Intact, Inserted
      <4>2. CASE op[u] = "link back"
        BY <3>3, <3>5, <4>2 DEF Good, Intact, Inserted
      <4> QED
        BY <2>1, <3>1, <4>1, <4>2
    <3>7. Rear' = Rear
      BY <3>6, ExitChained
    <3>8. CASE op[u] = "link back"
      BY <3>1, <3>2, <3>7, <3>8 DEF Good, Intact, Inserted
    <3>9. CASE op[u] \in {"set next", "link prev"}
      <4>1. ~\E v \in Page : op[v] \in {"link back", "linked"} /\ new[v] = new[u]
        BY <3>1, <3>9 DEF Good, Intact, Creator, Creating
      <4>2. ~\E j \in 1..n : threads[j] = new[u]
        <5>1. Listed(new[u])
          BY <3>2 DEF Good, Intact
        <5> QED
          BY <3>3, <4>1, <5>1 DEF Listed, Gone
      <4>3. new[u] # next[t]
        <5>1. k + 1 \in 1..n
          BY <3>6
        <5> QED
          BY <1>2, <3>6, <4>2, <5>1
      <4>4. new[u] # Node(k - 1)
        <5>1. k - 1 = 0 \/ k - 1 \in 1..n
          OBVIOUS
        <5>2. new[u] # HEAD
          BY <3>2 DEF Good, AllListAssumption
        <5> QED
          BY <4>2, <5>1, <5>2 DEF Node
      <4>5. prev'[new[u]] = prev[new[u]] /\ next'[new[u]] = next[new[u]]
        BY <1>2, <3>2, <3>3, <4>3, <4>4
      <4> QED
        BY <3>1, <3>2, <3>7, <3>9, <4>5 DEF Good, Intact, Inserted
    <3> QED
      BY <2>1, <3>1, <3>8, <3>9
  <2> QED
    BY <2>1 DEF Inserted
<1>13. Chained' /\ \A u \in Page : Ahead(u)'
  BY ExitChained, ExitAhead
<1> QED
  BY <1>3, <1>6, <1>8, <1>10, <1>11, <1>12, <1>13 DEF Intact

\* Every step keeps the invariant.
LEMMA AllListStep == AllListAssumption /\ AllListIInv /\ [AllListNext]_all_list => AllListIInv'
<1> SUFFICES ASSUME AllListAssumption, AllListIInv, [AllListNext]_all_list PROVE AllListIInv'
  OBVIOUS
<1>1. CASE AllListNext
  <2>1. Good /\ ~broken
    BY <1>1 DEF AllListNext, AllListIInv, Good
  <2> PICK t \in Page : ThreadStep(t)
    BY <1>1 DEF AllListNext
  <2>2. CASE \E p \in Page : thread_create(t, p)
    BY <2>1, <2>2, CreateList DEF AllListIInv
  <2>3. CASE SetPrev(t)
    BY <2>1, <2>3, SetPrevType, SetPrevList DEF AllListIInv
  <2>4. CASE SetNext(t)
    BY <2>1, <2>4, SetNextList DEF AllListIInv
  <2>5. CASE LinkPrev(t)
    BY <2>1, <2>5, LinkPrevList DEF AllListIInv
  <2>6. CASE LinkBack(t)
    BY <2>1, <2>6, LinkBackList DEF AllListIInv
  <2>7. CASE Start(t)
    BY <2>1, <2>7, StartList DEF AllListIInv
  <2>8. CASE thread_exit(t)
    BY <2>1, <2>8, ExitList DEF AllListIInv
  <2>9. CASE thread_alive(t)
    BY <2>1, <2>9, AliveList DEF AllListIInv
  <2>10. CASE WalkOn(t)
    BY <2>1, <2>10, WalkOnList DEF AllListIInv
  <2>11. CASE \E found \in BOOLEAN : Answer(t, found)
    BY <2>1, <2>11, AnswerList DEF AllListIInv
  <2> QED
    BY <2>2, <2>3, <2>4, <2>5, <2>6, <2>7, <2>8, <2>9, <2>10, <2>11 DEF ThreadStep
<1>2. CASE UNCHANGED all_list
  <2> USE <1>2 DEF all_list
  <2>1. AllListTypeOK' = AllListTypeOK
    BY DEF AllListTypeOK
  <2>2. \A t \in Page : /\ Creator(t)' = Creator(t) /\ Listed(t)' = Listed(t)
                       /\ Nameless(t)' = Nameless(t)
    BY DEF Creator, Listed, Nameless
  <2>3. \A t \in Page : Inserted(t)' = Inserted(t) /\ Ahead(t)' = Ahead(t)
    BY DEF Inserted, Ahead, Rear, Node
  <2>4. OnceOnly' = OnceOnly /\ OneInserts' = OneInserts /\ Chained' = Chained
    BY DEF OnceOnly, OneInserts, Inserting, Chained, Rear, Node
  <2>5. Intact' = Intact
    BY <2>2, <2>3, <2>4 DEF Intact
  <2> QED
    BY <2>1, <2>5 DEF AllListIInv
<1> QED
  BY <1>1, <1>2

\* The inductive invariant holds throughout.
LEMMA AllListInvariant == AllListSpec => []AllListIInv
<1>1. AllListInit => AllListIInv
  BY ListInit, AllListAssumption
<1>2. AllListIInv /\ [AllListNext]_all_list => AllListIInv'
  BY AllListStep, AllListAssumption
<1> QED
  BY <1>1, <1>2, PTL DEF AllListSpec

\* As long as no two insertions have met, and none the exit of the thread it comes
\* after, the links of all_list lead through the threads there are, whatever else
\* threads do between the statements of an insertion.
THEOREM LinksStayWhole == AllListSpec => []LinksWhole
<1>1. AllListIInv => LinksWhole
  <2> SUFFICES ASSUME ~broken, AllListIInv
               PROVE  LET n == Len(threads)
                          node(i) == IF i = 0 THEN HEAD ELSE threads[i]
                      IN  /\ \A i \in 1..n : next[node(i - 1)] = threads[i]
                          /\ next[node(n)] = TAIL
                          /\ prev[TAIL] = node(n) \/ \E t \in Page : op[t] = "link back"
                          /\ \A i \in 1..n : prev[threads[i]] = node(i - 1)
    BY DEF LinksWhole
  <2>1. Chained
    BY DEF AllListIInv, Intact
  <2> QED
    BY <2>1 DEF Chained, Rear, Node
<1> QED
  BY <1>1, AllListInvariant, PTL

\* A walk that reached the end of the list did not pass by a thread that had the name
\* when it began and is still alive.
THEOREM ParentNotMissed == AllListSpec => LiveParentFound
<1>1. AllListIInv /\ [AllListNext]_all_list =>
        [\A t \in Page : op[t] = "walk" /\ Answer(t, FALSE) => sought[t] = {}]_all_list
  <2> SUFFICES ASSUME AllListIInv, AllListNext, NEW t \in Page, op[t] = "walk", Answer(t, FALSE)
               PROVE  sought[t] = {}
    OBVIOUS
  <2>1. Ahead(t) /\ AllListTypeOK
    BY DEF AllListNext, AllListIInv, Intact
  <2>2. cursor[t] = TAIL
    BY DEF Answer
  <2>3. \A k \in 1..Len(threads) : threads[k] # TAIL
    BY <2>1, AllListAssumption DEF AllListTypeOK, AllListAssumption
  <2> QED
    BY <2>1, <2>2, <2>3 DEF Ahead
<1> QED
  BY <1>1, AllListInvariant, PTL DEF AllListSpec, LiveParentFound

-----------------------------------------------------------------------------
(* The queues of the console.                                              *)

ByteNumber == 0..(BYTES - 1)
Pos == 0..(INTQ_BUFSIZE - 1)
Queue(S) == [buf : [Pos -> ByteNumber], head : Pos, tail : Pos, waiter : S \cup {NO_THREAD},
             holder : S \cup {NO_THREAD}, waiters : Seq(S)]
Spots == {"run", "wait", "woken", "lock", "lock again"}

SerialTypeOK ==
  /\ buffer \in Queue(GetThread) /\ txq \in Queue({PutThread})
  /\ where \in [IntqThread -> Spots] /\ where[PutThread] \in {"run", "wait", "woken"}
  /\ rx_ready \in BOOLEAN /\ thr_empty \in BOOLEAN /\ panicking \in BOOLEAN
  /\ received \in ByteNumber /\ taken \in ByteNumber /\ accepted \in ByteNumber /\ sent \in ByteNumber

\* How many bytes are in q, where the i-th of them is, and its number.
Count(m, h, t) == IF h >= t THEN h - t ELSE h + m - t
Spot(m, t, i) == IF t + i < m THEN t + i ELSE t + i - m
Filled(q) == Count(INTQ_BUFSIZE, q.head, q.tail)
Place(q, i) == Spot(INTQ_BUFSIZE, q.tail, i)
Number(out, i) == IF out + i < BYTES THEN out + i ELSE out + i - BYTES

\* Holds() without the division.
InQueue(q, out, in) ==
  /\ \A i \in 0..(Filled(q) - 1) : q.buf[Place(q, i)] = Number(out, i + 1)
  /\ Number(out, Filled(q)) = in

\* The readers at q, where w says where each is.
Readers(q, w) ==
  /\ \A t \in GetThread : t = q.holder <=> w[t] \in {"wait", "woken"}
  /\ \A t \in GetThread : w[t] = "wait" => q.waiter = t
  /\ q.waiter # NO_THREAD => w[q.waiter] = "wait"
  /\ \A t \in GetThread : t \in Range(q.waiters) <=> w[t] = "lock"
  /\ IsInjective(q.waiters)
  /\ q.waiters # <<>> => q.holder # NO_THREAD \/ \E t \in GetThread : w[t] = "lock again"

\* The writer at q, where x says where it is.
Printer(q, x) ==
  /\ q.waiters = <<>>
  /\ q.holder = PutThread <=> x \in {"wait", "woken"}
  /\ q.waiter = PutThread <=> x = "wait"

Console ==
  /\ Readers(buffer, where)
  /\ (\E t \in GetThread : where[t] = "wait") => intq_empty(buffer)
  /\ Printer(txq, where[PutThread])
  /\ where[PutThread] = "wait" => intq_full(txq)
  /\ ier = Enabled(buffer, txq)

SerialIInv ==
  /\ SerialTypeOK
  /\ InQueue(buffer, taken, received) /\ InQueue(txq, sent, accepted)
  /\ ~panicking => Console

-----------------------------------------------------------------------------
(* Going round. *)

\* What is below the modulus stays.
LEMMA ModSmall == ASSUME NEW m \in Nat \ {0}, NEW a \in 0..(m - 1) PROVE a % m = a
OBVIOUS

\* What is not wraps once.
LEMMA ModWrap == ASSUME NEW m \in Nat \ {0}, NEW a \in m..(m + m - 1) PROVE a % m = a - m
OBVIOUS

\* A queue holds a byte, and fewer than there are numbers.
LEMMA SizesAre ==
  ASSUME SerialAssumption
  PROVE  /\ INTQ_BUFSIZE \in Nat \ {0} /\ BYTES \in Nat \ {0} /\ INTQ_BUFSIZE > 1 /\ BYTES > INTQ_BUFSIZE
  BY DEF SerialAssumption

\* next() goes on by one, and from the last place to the first.
LEMMA FollowIs ==
  ASSUME SerialAssumption, NEW p \in Pos
  PROVE  Follow(p) = (IF p = INTQ_BUFSIZE - 1 THEN 0 ELSE p + 1) /\ Follow(p) \in Pos
<1>1. CASE p = INTQ_BUFSIZE - 1
  <2>1. p + 1 \in INTQ_BUFSIZE..(INTQ_BUFSIZE + INTQ_BUFSIZE - 1)
    BY <1>1, SizesAre
  <2> QED
    BY <1>1, <2>1, SizesAre, ModWrap DEF Follow, Pos
<1>2. CASE p # INTQ_BUFSIZE - 1
  <2>1. p + 1 \in 0..(INTQ_BUFSIZE - 1)
    BY <1>2, SizesAre DEF Pos
  <2> QED
    BY <1>2, <2>1, SizesAre, ModSmall DEF Follow, Pos
<1> QED
  BY <1>1, <1>2

\* The number after n.
LEMMA UpIs ==
  ASSUME SerialAssumption, NEW n \in ByteNumber
  PROVE  Up(n) = Number(n, 1) /\ Up(n) \in ByteNumber
<1>1. CASE n = BYTES - 1
  <2>1. n + 1 \in BYTES..(BYTES + BYTES - 1)
    BY <1>1, SizesAre
  <2> QED
    BY <1>1, <2>1, SizesAre, ModWrap DEF Up, Number, ByteNumber
<1>2. CASE n # BYTES - 1
  <2>1. n + 1 \in 0..(BYTES - 1)
    BY <1>2, SizesAre DEF ByteNumber
  <2> QED
    BY <1>2, <2>1, SizesAre, ModSmall DEF Up, Number, ByteNumber
<1> QED
  BY <1>1, <1>2

\* Number() is the division of Holds().
LEMMA NumberIs ==
  ASSUME SerialAssumption, NEW out \in ByteNumber, NEW i \in 0..INTQ_BUFSIZE
  PROVE  (out + i) % BYTES = Number(out, i)
<1>1. CASE out + i < BYTES
  <2>1. out + i \in 0..(BYTES - 1)
    BY <1>1, SizesAre DEF ByteNumber
  <2> QED
    BY <1>1, <2>1, SizesAre, ModSmall DEF Number
<1>2. CASE ~(out + i < BYTES)
  <2>1. out + i \in BYTES..(BYTES + BYTES - 1)
    BY <1>2, SizesAre DEF ByteNumber
  <2>2. (out + i) % BYTES = (out + i) - BYTES
    BY <2>1, SizesAre, ModWrap
  <2> QED
    BY <1>2, <2>2, SizesAre DEF Number, ByteNumber
<1> QED
  BY <1>1, <1>2

\* So are Filled() and Place().
LEMMA PlaceIs ==
  ASSUME SerialAssumption, NEW q, q.head \in Pos, q.tail \in Pos
  PROVE  /\ (q.head + INTQ_BUFSIZE - q.tail) % INTQ_BUFSIZE = Filled(q)
         /\ Filled(q) \in 0..(INTQ_BUFSIZE - 1)
         /\ \A i \in Pos : (q.tail + i) % INTQ_BUFSIZE = Place(q, i)
<1> PICK h \in Pos, t \in Pos : h = q.head /\ t = q.tail
  OBVIOUS
<1>1. (h + INTQ_BUFSIZE - t) % INTQ_BUFSIZE = (IF h >= t THEN h - t ELSE h + INTQ_BUFSIZE - t)
  <2>1. CASE h >= t
    <3>1. h + INTQ_BUFSIZE - t \in INTQ_BUFSIZE..(INTQ_BUFSIZE + INTQ_BUFSIZE - 1)
      BY <2>1, SizesAre DEF Pos
    <3>2. (h + INTQ_BUFSIZE - t) % INTQ_BUFSIZE = (h + INTQ_BUFSIZE - t) - INTQ_BUFSIZE
      BY <3>1, SizesAre, ModWrap
    <3> QED
      BY <2>1, <3>2, SizesAre DEF Pos
  <2>2. CASE ~(h >= t)
    <3>1. h + INTQ_BUFSIZE - t \in 0..(INTQ_BUFSIZE - 1)
      BY <2>2, SizesAre DEF Pos
    <3>2. (h + INTQ_BUFSIZE - t) % INTQ_BUFSIZE = h + INTQ_BUFSIZE - t
      BY <3>1, SizesAre, ModSmall
    <3> QED
      BY <2>2, <3>2
  <2> QED
    BY <2>1, <2>2
<1>2. Filled(q) \in 0..(INTQ_BUFSIZE - 1)
  BY SizesAre DEF Filled, Count, Pos
<1>3. ASSUME NEW i \in Pos PROVE (t + i) % INTQ_BUFSIZE = Place(q, i)
  <2>1. CASE t + i < INTQ_BUFSIZE
    <3>1. t + i \in 0..(INTQ_BUFSIZE - 1)
      BY <2>1, SizesAre DEF Pos
    <3>2. (t + i) % INTQ_BUFSIZE = t + i
      BY <3>1, SizesAre, ModSmall
    <3> QED
      BY <2>1, <3>2 DEF Place, Spot
  <2>2. CASE ~(t + i < INTQ_BUFSIZE)
    <3>1. t + i \in INTQ_BUFSIZE..(INTQ_BUFSIZE + INTQ_BUFSIZE - 1)
      BY <2>2, SizesAre DEF Pos
    <3>2. (t + i) % INTQ_BUFSIZE = (t + i) - INTQ_BUFSIZE
      BY <3>1, SizesAre, ModWrap
    <3> QED
      BY <2>2, <3>2, SizesAre DEF Place, Spot, Pos
  <2> QED
    BY <2>1, <2>2
<1> QED
  BY <1>1, <1>2, <1>3 DEF Filled, Count

\* InQueue() says what Holds() says.
LEMMA InQueueHolds ==
  ASSUME SerialAssumption, NEW q, q.head \in Pos, q.tail \in Pos,
         NEW out \in ByteNumber, NEW in, InQueue(q, out, in)
  PROVE  Holds(q, out, in)
<1> PICK n \in 0..(INTQ_BUFSIZE - 1) :
      n = Filled(q) /\ n = (q.head + INTQ_BUFSIZE - q.tail) % INTQ_BUFSIZE
  BY PlaceIs
<1>1. ASSUME NEW i \in 0..(n - 1)
      PROVE  q.buf[(q.tail + i) % INTQ_BUFSIZE] = (out + i + 1) % BYTES
  <2>1. i \in Pos /\ i + 1 \in 0..INTQ_BUFSIZE /\ out + i + 1 = out + (i + 1)
    BY SizesAre DEF Pos, ByteNumber
  <2>2. (q.tail + i) % INTQ_BUFSIZE = Place(q, i)
    BY <2>1, PlaceIs
  <2>3. (out + i + 1) % BYTES = Number(out, i + 1)
    BY <2>1, NumberIs
  <2> QED
    BY <2>2, <2>3 DEF InQueue
<1>2. (out + n) % BYTES = in
  <2>1. n \in 0..INTQ_BUFSIZE
    BY SizesAre
  <2> QED
    BY <2>1, NumberIs DEF InQueue
<1> QED
  BY <1>1, <1>2 DEF Holds

\* A queue is full with one place left, and empty with none taken.
LEMMA FullIs ==
  ASSUME SerialAssumption, NEW q, q.head \in Pos, q.tail \in Pos
  PROVE  /\ intq_full(q) <=> Filled(q) = INTQ_BUFSIZE - 1
         /\ intq_empty(q) <=> Filled(q) = 0
         /\ ~(intq_full(q) /\ intq_empty(q))
<1>1. Follow(q.head) = (IF q.head = INTQ_BUFSIZE - 1 THEN 0 ELSE q.head + 1)
  BY FollowIs
<1> QED
  BY <1>1, SizesAre DEF intq_full, intq_empty, Filled, Count, Pos

\* Round a ring of m places, from t up to h: how many there are after one more or one
\* fewer, and where they are.
After1(m, p) == IF p = m - 1 THEN 0 ELSE p + 1

\* One more.
LEMMA RingFills ==
  ASSUME NEW m \in Nat, NEW h \in 0..(m - 1), NEW t \in 0..(m - 1), Count(m, h, t) # m - 1
  PROVE  Count(m, After1(m, h), t) = Count(m, h, t) + 1
<1>1. CASE h = m - 1
  BY <1>1 DEF Count, After1
<1>2. CASE h # m - 1
  BY <1>2 DEF Count, After1
<1> QED
  BY <1>1, <1>2

\* The next one goes to h,
LEMMA RingEnds ==
  ASSUME NEW m \in Nat, NEW h \in 0..(m - 1), NEW t \in 0..(m - 1)
  PROVE  Spot(m, t, Count(m, h, t)) = h
  BY DEF Count, Spot

\* where none of those there is.
LEMMA RingBelow ==
  ASSUME NEW m \in Nat, NEW h \in 0..(m - 1), NEW t \in 0..(m - 1), NEW i \in 0..(Count(m, h, t) - 1)
  PROVE  Spot(m, t, i) # h /\ Spot(m, t, i) \in 0..(m - 1)
<1>1. CASE h >= t
  BY <1>1 DEF Count, Spot
<1>2. CASE ~(h >= t)
  BY <1>2 DEF Count, Spot
<1> QED
  BY <1>1, <1>2

\* One fewer.
LEMMA RingEmpties ==
  ASSUME NEW m \in Nat, NEW h \in 0..(m - 1), NEW t \in 0..(m - 1), Count(m, h, t) # 0
  PROVE  Count(m, h, After1(m, t)) = Count(m, h, t) - 1
<1>1. CASE t = m - 1
  BY <1>1 DEF Count, After1
<1>2. CASE t # m - 1
  BY <1>2 DEF Count, After1
<1> QED
  BY <1>1, <1>2

\* The others move up.
LEMMA RingTurns ==
  ASSUME NEW m \in Nat, NEW t \in 0..(m - 1), NEW i \in 0..(m - 2)
  PROVE  Spot(m, After1(m, t), i) = Spot(m, t, i + 1)
<1>1. CASE t = m - 1
  BY <1>1 DEF Spot, After1
<1>2. CASE t # m - 1
  <2>1. After1(m, t) = t + 1
    BY <1>2 DEF After1
  <2>2. (t + 1) + i = t + (i + 1)
    OBVIOUS
  <2> QED
    BY <2>1, <2>2 DEF Spot
<1> QED
  BY <1>1, <1>2

\* next() goes round the ring of a queue.
LEMMA RingIs ==
  ASSUME SerialAssumption, NEW p \in Pos
  PROVE  Follow(p) = After1(INTQ_BUFSIZE, p)
  BY FollowIs DEF After1

\* Numbers go round, too.
LEMMA NumberGoesOn ==
  ASSUME NEW out \in ByteNumber, NEW i \in 0..(BYTES - 2), BYTES \in Nat, BYTES > 1
  PROVE  /\ Number(Number(out, i), 1) = Number(out, i + 1)
         /\ Number(Number(out, 1), i) = Number(out, i + 1)
<1>1. CASE out + i < BYTES
  <2>1. Number(out, i) = out + i
    BY <1>1 DEF Number
  <2> QED
    BY <1>1, <2>1 DEF Number, ByteNumber
<1>2. CASE ~(out + i < BYTES)
  <2>1. Number(out, i) = out + i - BYTES
    BY <1>2 DEF Number
  <2> QED
    BY <1>2, <2>1 DEF Number, ByteNumber
<1> QED
  BY <1>1, <1>2

\* A byte is put behind the others.
LEMMA PutHolds ==
  ASSUME SerialAssumption, NEW q, NEW r, q.head \in Pos, q.tail \in Pos, q.buf \in [Pos -> ByteNumber],
         NEW out \in ByteNumber, NEW in \in ByteNumber, InQueue(q, out, in), ~intq_full(q),
         r.buf = [q.buf EXCEPT ![q.head] = Up(in)], r.head = Follow(q.head), r.tail = q.tail
  PROVE  InQueue(r, out, Up(in)) /\ ~intq_empty(r)
<1> PICK n \in 0..(INTQ_BUFSIZE - 1) : n = Filled(q)
  BY PlaceIs
<1>1. n # INTQ_BUFSIZE - 1 /\ INTQ_BUFSIZE \in Nat /\ BYTES \in Nat /\ BYTES > INTQ_BUFSIZE /\ INTQ_BUFSIZE > 1
  BY FullIs, SizesAre
<1>2. r.head = After1(INTQ_BUFSIZE, q.head) /\ r.head \in Pos
  BY RingIs, FollowIs
<1>3. Filled(r) = n + 1
  BY <1>1, <1>2, RingFills DEF Filled, Pos
<1>4. Place(q, n) = q.head
  BY <1>1, RingEnds DEF Place, Filled, Pos
<1>5. ASSUME NEW i \in 0..(n - 1) PROVE Place(q, i) # q.head /\ Place(q, i) \in Pos
  <2>1. i \in 0..(Count(INTQ_BUFSIZE, q.head, q.tail) - 1)
    BY DEF Filled
  <2> QED
    BY <1>1, <2>1, RingBelow DEF Place, Pos
<1>6. Up(in) = Number(out, n + 1)
  <2>1. Up(in) = Number(in, 1) /\ Number(out, n) = in
    BY UpIs DEF InQueue
  <2>2. n \in 0..(BYTES - 2) /\ BYTES > 1
    BY <1>1
  <2> QED
    BY <1>1, <2>1, <2>2, NumberGoesOn
<1>7. ASSUME NEW i \in 0..n PROVE r.buf[Place(r, i)] = Number(out, i + 1)
  <2>1. Place(r, i) = Place(q, i)
    BY DEF Place
  <2>2. CASE i = n
    BY <1>4, <1>6, <2>1, <2>2
  <2>3. CASE i # n
    <3>1. i \in 0..(n - 1)
      BY <2>3
    <3>2. q.buf[Place(q, i)] = Number(out, i + 1)
      BY <3>1 DEF InQueue
    <3> QED
      BY <1>5, <2>1, <3>1, <3>2
  <2> QED
    BY <2>2, <2>3
<1>8. ~intq_empty(r)
  BY <1>2, <1>3, FullIs
<1> QED
  BY <1>3, <1>6, <1>7, <1>8 DEF InQueue

\* The first byte leaves.
LEMMA DropHolds ==
  ASSUME SerialAssumption, NEW q, NEW r, q.head \in Pos, q.tail \in Pos, q.buf \in [Pos -> ByteNumber],
         NEW out \in ByteNumber, NEW in \in ByteNumber, InQueue(q, out, in), ~intq_empty(q),
         r.buf = q.buf, r.head = q.head, r.tail = Follow(q.tail)
  PROVE  InQueue(r, Up(out), in) /\ q.buf[q.tail] = Up(out) /\ ~intq_full(r)
<1> PICK n \in 0..(INTQ_BUFSIZE - 1) : n = Filled(q)
  BY PlaceIs
<1>1. n # 0 /\ INTQ_BUFSIZE \in Nat /\ BYTES \in Nat /\ BYTES > INTQ_BUFSIZE /\ INTQ_BUFSIZE > 1
  BY FullIs, SizesAre
<1>2. r.tail = After1(INTQ_BUFSIZE, q.tail) /\ r.tail \in Pos
  BY RingIs, FollowIs
<1>3. Filled(r) = n - 1
  BY <1>1, <1>2, RingEmpties DEF Filled, Pos
<1>4. Up(out) = Number(out, 1) /\ Up(out) \in ByteNumber
  BY UpIs
<1>5. q.buf[q.tail] = Up(out)
  <2>1. 0 \in 0..(n - 1) /\ Place(q, 0) = q.tail
    BY <1>1 DEF Place, Spot, Pos
  <2> QED
    BY <1>4, <2>1 DEF InQueue
<1>6. ASSUME NEW i \in 0..(n - 2) PROVE r.buf[Place(r, i)] = Number(Up(out), i + 1)
  <2>1. i + 1 \in 0..(n - 1) /\ i + 1 \in 0..(BYTES - 2) /\ i \in 0..(INTQ_BUFSIZE - 2) /\ BYTES > 1
    BY <1>1
  <2>2. Place(r, i) = Place(q, i + 1)
    BY <1>1, <1>2, <2>1, RingTurns DEF Place, Pos
  <2>3. q.buf[Place(q, i + 1)] = Number(out, (i + 1) + 1)
    BY <2>1 DEF InQueue
  <2>4. Number(Number(out, 1), i + 1) = Number(out, (i + 1) + 1)
    BY <1>1, <2>1, NumberGoesOn
  <2> QED
    BY <1>4, <2>2, <2>3, <2>4
<1>7. Number(Up(out), n - 1) = in
  <2>1. n - 1 \in 0..(BYTES - 2) /\ (n - 1) + 1 = n /\ BYTES > 1
    BY <1>1
  <2>2. Number(Number(out, 1), n - 1) = Number(out, (n - 1) + 1)
    BY <1>1, <2>1, NumberGoesOn
  <2> QED
    BY <1>4, <2>1, <2>2 DEF InQueue
<1>8. ~intq_full(r)
  BY <1>1, <1>2, <1>3, FullIs
<1>9. \A i \in 0..(Filled(r) - 1) : r.buf[Place(r, i)] = Number(Up(out), i + 1)
  <2>1. Filled(r) - 1 = n - 2
    BY <1>1, <1>3
  <2> QED
    BY <1>6, <2>1
<1> QED
  BY <1>3, <1>5, <1>7, <1>8, <1>9 DEF InQueue

-----------------------------------------------------------------------------
(* What the operations do to a queue. *)

\* intq_putc()
LEMMA PutIs ==
  ASSUME SerialAssumption, NEW S, NEW q \in Queue(S), NEW byte \in ByteNumber
  PROVE  /\ Put(q, byte) \in Queue(S)
         /\ Put(q, byte).buf = [q.buf EXCEPT ![q.head] = byte]
         /\ Put(q, byte).head = Follow(q.head) /\ Put(q, byte).tail = q.tail
         /\ Put(q, byte).waiter = NO_THREAD /\ Put(q, byte).holder = q.holder
         /\ Put(q, byte).waiters = q.waiters
<1>1. Follow(q.head) \in Pos
  BY FollowIs DEF Queue
<1>2. [q.buf EXCEPT ![q.head] = byte] \in [Pos -> ByteNumber]
  BY DEF Queue
<1> QED
  BY <1>1, <1>2 DEF Put, Queue

\* intq_getc() that need not wait.
LEMMA DropIs ==
  ASSUME SerialAssumption, NEW S, NEW q \in Queue(S)
  PROVE  /\ Drop(q) \in Queue(S)
         /\ Drop(q).buf = q.buf /\ Drop(q).head = q.head /\ Drop(q).tail = Follow(q.tail)
         /\ Drop(q).waiter = NO_THREAD /\ Drop(q).holder = q.holder
         /\ Drop(q).waiters = q.waiters
<1>1. Follow(q.tail) \in Pos
  BY FollowIs DEF Queue
<1> QED
  BY <1>1 DEF Drop, Queue

\* lock_release()
LEMMA LetGoIs ==
  ASSUME NEW S, NEW q \in Queue(S), NEW t
  PROVE  /\ LetGo(q, t) \in Queue(S)
         /\ LetGo(q, t).buf = q.buf /\ LetGo(q, t).head = q.head /\ LetGo(q, t).tail = q.tail
         /\ LetGo(q, t).waiter = q.waiter
         /\ LetGo(q, t).holder = (IF q.holder = t THEN NO_THREAD ELSE q.holder)
         /\ LetGo(q, t).waiters =
              (IF q.holder = t /\ q.waiters # <<>> THEN Tail(q.waiters) ELSE q.waiters)
<1>1. q.waiters # <<>> => Tail(q.waiters) \in Seq(S)
  BY DEF Queue
<1>2. CASE q.holder = t
  BY <1>1, <1>2 DEF LetGo, Queue
<1>3. CASE q.holder # t
  BY <1>3 DEF LetGo, Queue
<1> QED
  BY <1>2, <1>3

Blocked(q, r, b, t) ==
  /\ r.holder = NO_THREAD =>
       b.holder = t /\ b.waiter = t /\ b.waiters = r.waiters
  /\ r.holder # NO_THREAD =>
       b.holder = r.holder /\ b.waiter = q.waiter /\ b.waiters = Append(r.waiters, t)

\* A thread that cannot go on takes the lock, or stands in line for it.
LEMMA BlocksIs ==
  ASSUME NEW S, NEW q \in Queue(S), NEW t \in S
  PROVE  /\ Blocks(q, t) \in Queue(S)
         /\ Blocks(q, t).buf = q.buf /\ Blocks(q, t).head = q.head /\ Blocks(q, t).tail = q.tail
         /\ Blocked(q, LetGo(q, t), Blocks(q, t), t)
<1> PICK r \in Queue(S) : r = LetGo(q, t) /\ r.buf = q.buf /\ r.head = q.head /\ r.tail = q.tail
                          /\ r.waiter = q.waiter
  BY LetGoIs
<1>1. Append(r.waiters, t) \in Seq(S)
  BY DEF Queue
<1>2. CASE r.holder = NO_THREAD
  BY <1>2 DEF Blocks, Blocked, Queue
<1>3. CASE r.holder # NO_THREAD
  <2>1. Blocks(q, t) = [r EXCEPT !.waiters = Append(r.waiters, t)]
    BY <1>3 DEF Blocks
  <2> QED
    BY <1>1, <1>3, <2>1 DEF Queue, Blocked
<1> QED
  BY <1>2, <1>3

-----------------------------------------------------------------------------
(* What they do to the readers: from q and w to r and v. *)

\* Places where nobody is woken that waits with the lock.
LEMMA PlacesOf ==
  ASSUME NEW S, NEW t, NEW p, NEW u \in IntqThread
  PROVE  Places(S, t, p)[u] = (IF u = t THEN p
                               ELSE IF u \in S /\ where[u] = "wait" THEN "woken"
                               ELSE IF u \in S THEN "lock again" ELSE where[u])
  BY DEF Places

\* A thread is somewhere.
LEMMA PlacesType ==
  ASSUME where \in [IntqThread -> Spots], NEW S, NEW t, NEW p \in Spots
  PROVE  Places(S, t, p) \in [IntqThread -> Spots]
  BY DEF Places, Spots

\* Who is next in line waits for the lock, and is another thread.
LEMMA NextIsLocked ==
  ASSUME NEW q \in Queue(GetThread), NEW w, Readers(q, w), NEW t \in GetThread
  PROVE  \A u \in NextInLine(q, t) : u \in GetThread /\ w[u] = "lock" /\ u # t
<1> SUFFICES ASSUME NEW u \in NextInLine(q, t) PROVE u \in GetThread /\ w[u] = "lock" /\ u # t
  OBVIOUS
<1>1. q.holder = t /\ q.waiters # <<>> /\ u = Head(q.waiters)
  BY DEF NextInLine
<1>2. q.waiters \in Seq(GetThread)
  BY DEF Queue
<1>3. u \in Range(q.waiters)
  BY <1>1, <1>2, PopFront
<1>4. u \in GetThread
  BY <1>2, <1>3, RangeByIndex
<1>5. w[u] = "lock" /\ w[t] \in {"wait", "woken"}
  BY <1>1, <1>3, <1>4 DEF Readers
<1> QED
  BY <1>4, <1>5

\* The lock is let go: who waited for it first asks again.
Freed(q, w, t, r) ==
  /\ r.holder # t
  /\ \A u \in GetThread \ {t} : u = r.holder <=> w[u] \in {"wait", "woken"}
  /\ \A u \in GetThread : u \in Range(r.waiters) <=> w[u] = "lock" /\ u \notin NextInLine(q, t)
  /\ IsInjective(r.waiters)
  /\ r.waiters # <<>> =>
       r.holder # NO_THREAD \/ NextInLine(q, t) # {} \/ \E u \in GetThread : w[u] = "lock again"

\* lock_release() frees the lock for whoever is first in line.
LEMMA LetGoReaders ==
  ASSUME NEW q \in Queue(GetThread), NEW w, Readers(q, w), NO_THREAD \notin GetThread,
         NEW t \in GetThread, w[t] \in {"run", "woken"}
  PROVE  Freed(q, w, t, LetGo(q, t))
<1> PICK r \in Queue(GetThread) : r = LetGo(q, t)
  <2>1. LetGo(q, t) \in Queue(GetThread)
    BY LetGoIs
  <2> QED
    BY <2>1
<1>a. /\ r.holder = (IF q.holder = t THEN NO_THREAD ELSE q.holder)
      /\ r.waiters = (IF q.holder = t /\ q.waiters # <<>> THEN Tail(q.waiters) ELSE q.waiters)
  BY LetGoIs
<1>1. q.waiters \in Seq(GetThread) /\ r.waiters \in Seq(GetThread)
  BY DEF Queue
<1>2. r.holder # t
  BY <1>a
<1>3. ASSUME NEW u \in GetThread \ {t} PROVE u = r.holder <=> w[u] \in {"wait", "woken"}
  BY <1>a DEF Readers
<1>4. CASE q.holder = t /\ q.waiters # <<>>
  <2>1. /\ Range(q.waiters) = Range(Tail(q.waiters)) \cup {Head(q.waiters)}
        /\ IsInjective(Tail(q.waiters)) /\ Head(q.waiters) \notin Range(Tail(q.waiters))
    BY <1>1, <1>4, PopFront DEF Readers
  <2>2. NextInLine(q, t) = {Head(q.waiters)} /\ r.waiters = Tail(q.waiters)
    BY <1>4, <1>a DEF NextInLine
  <2>3. ASSUME NEW u \in GetThread
        PROVE  u \in Range(r.waiters) <=> w[u] = "lock" /\ u \notin NextInLine(q, t)
    BY <2>1, <2>2 DEF Readers
  <2> QED
    BY <1>2, <1>3, <2>1, <2>2, <2>3 DEF Freed
<1>5. CASE ~(q.holder = t /\ q.waiters # <<>>)
  <2>1. NextInLine(q, t) = {} /\ r.waiters = q.waiters
    BY <1>5, <1>a DEF NextInLine
  <2>2. ASSUME NEW u \in GetThread
        PROVE  u \in Range(r.waiters) <=> w[u] = "lock" /\ u \notin NextInLine(q, t)
    BY <2>1 DEF Readers
  <2>3. r.waiters # <<>> => r.holder # NO_THREAD \/ \E u \in GetThread : w[u] = "lock again"
    BY <1>5, <1>a, <2>1 DEF Readers
  <2> QED
    BY <1>2, <1>3, <2>1, <2>2, <2>3 DEF Readers, Freed
<1> QED
  BY <1>4, <1>5

\* t comes to p, and who waited for the lock first asks again.
Moved(q, w, t, p, v) ==
  \A u \in GetThread : v[u] = (IF u = t THEN p
                               ELSE IF u \in NextInLine(q, t) THEN "lock again" ELSE w[u])

\* t goes on with its byte.
LEMMA ReaderGoes ==
  ASSUME NEW q \in Queue(GetThread), NEW w, NEW r, NEW v, Readers(q, w), NO_THREAD \notin GetThread,
         NEW t \in GetThread, w[t] \in {"run", "woken"}, \A u \in GetThread : w[u] # "wait",
         r.holder = LetGo(q, t).holder, r.waiters = LetGo(q, t).waiters, r.waiter = NO_THREAD,
         Moved(q, w, t, "run", v)
  PROVE  Readers(r, v) /\ \A u \in GetThread : v[u] # "wait"
<1>0. \A u \in GetThread : v[u] = (IF u = t THEN "run"
                                    ELSE IF u \in NextInLine(q, t) THEN "lock again" ELSE w[u])
  BY DEF Moved
<1> PICK l \in Queue(GetThread) : l = LetGo(q, t) /\ r.holder = l.holder /\ r.waiters = l.waiters
  <2>1. LetGo(q, t) \in Queue(GetThread)
    BY LetGoIs
  <2> QED
    BY <1>0, <2>1
<1>1. /\ r.holder # t
      /\ \A u \in GetThread \ {t} : u = r.holder <=> w[u] \in {"wait", "woken"}
      /\ \A u \in GetThread : u \in Range(r.waiters) <=> w[u] = "lock" /\ u \notin NextInLine(q, t)
      /\ IsInjective(r.waiters)
      /\ r.waiters # <<>> =>
           r.holder # NO_THREAD \/ NextInLine(q, t) # {} \/ \E u \in GetThread : w[u] = "lock again"
  <2>1. Freed(q, w, t, LetGo(q, t))
    BY LetGoReaders
  <2> QED
    BY <1>0, <2>1 DEF Freed
<1>2. \A u \in NextInLine(q, t) : u \in GetThread /\ w[u] = "lock" /\ u # t
  BY NextIsLocked
<1>3. ASSUME NEW u \in GetThread PROVE u = r.holder <=> v[u] \in {"wait", "woken"}
  BY <1>0, <1>1, <1>2
<1>4. ASSUME NEW u \in GetThread PROVE v[u] # "wait"
  BY <1>0
<1>5. ASSUME NEW u \in GetThread PROVE u \in Range(r.waiters) <=> v[u] = "lock"
  BY <1>0, <1>1, <1>2
<1>6. ASSUME r.waiters # <<>> PROVE r.holder # NO_THREAD \/ \E u \in GetThread : v[u] = "lock again"
  <2>1. CASE r.holder # NO_THREAD
    BY <1>0, <2>1
  <2>2. CASE NextInLine(q, t) # {}
    <3>1. PICK u \in NextInLine(q, t) : u \in GetThread /\ u # t
      BY <1>0, <1>2, <2>2
    <3> QED
      BY <1>0, <3>1
  <2>3. CASE \E u \in GetThread : w[u] = "lock again"
    <3>1. PICK u \in GetThread : w[u] = "lock again"
      BY <1>0, <2>3
    <3>2. v[u] = "lock again"
      BY <1>0, <3>1
    <3> QED
      BY <1>0, <3>2
  <2> QED
    BY <1>0, <1>1, <1>6, <2>1, <2>2, <2>3
<1> QED
  BY <1>0, <1>1, <1>3, <1>4, <1>5, <1>6 DEF Readers

Behind(a, t, b) ==
  /\ Range(b) = Range(a) \cup {t}
  /\ IsInjective(a) /\ t \notin Range(a) => IsInjective(b)

\* A thread that is appended to the line is in it once.
LEMMA LinesUp ==
  ASSUME NEW a \in Seq(GetThread), NEW t \in GetThread
  PROVE  Behind(a, t, Append(a, t))
  BY PushBack DEF Behind

\* t waits: with the lock, as the waiter, or for the lock.
LEMMA ReaderBlocks ==
  ASSUME NEW q \in Queue(GetThread), NEW w, NEW v, Readers(q, w), NO_THREAD \notin GetThread,
         NEW t \in GetThread, w[t] \in {"run", "woken"},
         Moved(q, w, t, IF LetGo(q, t).holder = NO_THREAD THEN "wait" ELSE "lock", v)
  PROVE  Readers(Blocks(q, t), v)
<1>0. \A u \in GetThread : v[u] = (IF u = t THEN IF LetGo(q, t).holder = NO_THREAD THEN "wait" ELSE "lock"
                                    ELSE IF u \in NextInLine(q, t) THEN "lock again" ELSE w[u])
  BY DEF Moved
<1> PICK r \in Queue(GetThread) : r = LetGo(q, t)
  <2>1. LetGo(q, t) \in Queue(GetThread)
    BY LetGoIs
  <2> QED
    BY <1>0, <2>1
<1> PICK b \in Queue(GetThread) :
      /\ b = Blocks(q, t)
      /\ r.holder = NO_THREAD => b.holder = t /\ b.waiter = t /\ b.waiters = r.waiters
      /\ r.holder # NO_THREAD =>
           b.holder = r.holder /\ b.waiter = q.waiter /\ b.waiters = Append(r.waiters, t)
  <2>1. Blocks(q, t) \in Queue(GetThread)
    BY BlocksIs
  <2>2. Blocked(q, r, Blocks(q, t), t)
    BY BlocksIs
  <2> QED
    BY <1>0, <2>1, <2>2 DEF Blocked
<1>1. /\ r.holder # t
      /\ \A u \in GetThread \ {t} : u = r.holder <=> w[u] \in {"wait", "woken"}
      /\ \A u \in GetThread : u \in Range(r.waiters) <=> w[u] = "lock" /\ u \notin NextInLine(q, t)
      /\ IsInjective(r.waiters)
  <2>1. Freed(q, w, t, LetGo(q, t))
    BY LetGoReaders
  <2> QED
    BY <1>0, <2>1 DEF Freed
<1>2. \A u \in NextInLine(q, t) : u \in GetThread /\ w[u] = "lock" /\ u # t
  BY NextIsLocked
<1>3. CASE r.holder = NO_THREAD
  <2>1. b.holder = t /\ b.waiter = t /\ b.waiters = r.waiters /\ v[t] = "wait"
    BY <1>0, <1>3
  <2>2. ASSUME NEW u \in GetThread PROVE u = b.holder <=> v[u] \in {"wait", "woken"}
    BY <1>0, <1>1, <1>2, <1>3, <2>1
  <2>3. ASSUME NEW u \in GetThread PROVE v[u] = "wait" => b.waiter = u
    BY <1>0, <2>1, <2>2
  <2>4. ASSUME NEW u \in GetThread PROVE u \in Range(b.waiters) <=> v[u] = "lock"
    BY <1>0, <1>1, <1>2, <1>3, <2>1
  <2>5. IsInjective(b.waiters) /\ b.holder # NO_THREAD /\ v[b.waiter] = "wait"
    BY <1>1, <2>1
  <2> QED
    BY <2>2, <2>3, <2>4, <2>5 DEF Readers
<1>4. CASE r.holder # NO_THREAD
  <2>1. b.holder = r.holder /\ b.waiter = q.waiter /\ b.waiters = Append(r.waiters, t) /\ v[t] = "lock"
    BY <1>0, <1>4
  <2>2. PICK a \in Seq(GetThread) : a = r.waiters
    BY DEF Queue
  <2>3. /\ Range(b.waiters) = Range(r.waiters) \cup {t}
        /\ t \notin Range(r.waiters) => IsInjective(b.waiters)
    <3>1. Behind(a, t, Append(a, t))
      BY <1>0, <2>2, LinesUp
    <3> QED
      BY <1>0, <1>1, <2>1, <2>2, <3>1 DEF Behind
  <2>4. t \notin Range(r.waiters)
    BY <1>0, <1>1
  <2>5. ASSUME NEW u \in GetThread PROVE u = b.holder <=> v[u] \in {"wait", "woken"}
    BY <1>0, <1>1, <1>2, <2>1
  <2>6. ASSUME NEW u \in GetThread PROVE v[u] = "wait" => b.waiter = u
    BY <1>0, <2>1 DEF Readers
  <2>7. b.waiter # NO_THREAD => v[b.waiter] = "wait"
    <3>1. SUFFICES ASSUME q.waiter # NO_THREAD PROVE v[q.waiter] = "wait"
      BY <1>0, <2>1
    <3>2. q.waiter \in GetThread /\ w[q.waiter] = "wait"
      BY <1>0, <3>1 DEF Readers, Queue
    <3> QED
      BY <1>0, <1>2, <3>2
  <2>8. ASSUME NEW u \in GetThread PROVE u \in Range(b.waiters) <=> v[u] = "lock"
    BY <1>0, <1>1, <1>2, <2>1, <2>3
  <2> QED
    BY <1>0, <1>4, <2>1, <2>3, <2>4, <2>5, <2>6, <2>7, <2>8 DEF Readers
<1> QED
  BY <1>0, <1>3, <1>4

\* signal(): whoever waits is woken and keeps the lock.
LEMMA ReaderWoken ==
  ASSUME NEW q \in Queue(GetThread), NEW w, NEW r, NEW v, Readers(q, w), NO_THREAD \notin GetThread,
         r.holder = q.holder, r.waiters = q.waiters, r.waiter = NO_THREAD,
         \A u \in GetThread : v[u] = IF u = q.waiter THEN "woken" ELSE w[u]
  PROVE  Readers(r, v) /\ \A u \in GetThread : v[u] # "wait"
<1>1. q.waiter # NO_THREAD => q.waiter \in GetThread /\ w[q.waiter] = "wait"
  BY DEF Readers, Queue
<1>2. ASSUME NEW u \in GetThread
      PROVE  /\ u = r.holder <=> v[u] \in {"wait", "woken"}
             /\ v[u] # "wait"
             /\ u \in Range(r.waiters) <=> v[u] = "lock"
             /\ w[u] = "lock again" => v[u] = "lock again"
  BY <1>1 DEF Readers
<1> QED
  BY <1>2 DEF Readers

-----------------------------------------------------------------------------
(* The steps. *)

Before == SerialAssumption /\ SerialIInv /\ ~panicking

\* Queues that differ in their waiters only.
LEMMA SameBytes ==
  ASSUME NEW q, NEW r, r.buf = q.buf, r.head = q.head, r.tail = q.tail
  PROVE  /\ \A out, in : InQueue(q, out, in) => InQueue(r, out, in)
         /\ intq_empty(r) <=> intq_empty(q)
         /\ intq_full(r) <=> intq_full(q)
  BY DEF InQueue, Filled, Place, intq_empty, intq_full

\* What holds before a step.
LEMMA BeforeIs ==
  ASSUME Before
  PROVE  /\ buffer \in Queue(GetThread) /\ buffer.head \in Pos /\ buffer.tail \in Pos
         /\ buffer.buf \in [Pos -> ByteNumber]
         /\ txq \in Queue({PutThread}) /\ txq.head \in Pos /\ txq.tail \in Pos
         /\ txq.buf \in [Pos -> ByteNumber]
         /\ NO_THREAD \notin GetThread /\ PutThread \notin GetThread /\ NO_THREAD # PutThread
         /\ IntqThread = GetThread \cup {PutThread}
         /\ Console
  BY DEF Before, SerialIInv, SerialTypeOK, Queue, SerialAssumption, IntqThread

\* The step of a reader leaves the writer where it is.
LEMMA ReaderMoves ==
  ASSUME Before, NEW t \in GetThread, NEW p \in Spots, Tests(t),
         where' = Places(NextInLine(buffer, t), t, p)
  PROVE  /\ where' \in [IntqThread -> Spots]
         /\ where'[PutThread] = where[PutThread]
         /\ Moved(buffer, where, t, p, where')
<1>1. where' \in [IntqThread -> Spots]
  BY PlacesType DEF Before, SerialIInv, SerialTypeOK
<1>2. \A u \in NextInLine(buffer, t) : u \in GetThread /\ where[u] = "lock" /\ u # t
  BY BeforeIs, NextIsLocked DEF Console
<1>3. where'[PutThread] = where[PutThread]
  BY <1>2, BeforeIs DEF Places
<1>4. ASSUME NEW u \in GetThread
      PROVE  where'[u] = (IF u = t THEN p
                          ELSE IF u \in NextInLine(buffer, t) THEN "lock again" ELSE where[u])
  <2>1. u \in IntqThread
    BY BeforeIs
  <2> QED
    BY <1>2, <2>1 DEF Places
<1> QED
  BY <1>1, <1>3, <1>4 DEF Moved

\* input_getc() gets a byte.
LEMMA GetStep ==
  ASSUME Before, NEW t \in GetThread, input_getc(t)
  PROVE  SerialIInv'
<1> PICK r \in Queue(GetThread) : /\ r = LetGo(buffer, t) /\ r.buf = buffer.buf
                                  /\ r.head = buffer.head /\ r.tail = buffer.tail
  BY BeforeIs, LetGoIs
<1>1. buffer' = Drop(r) /\ ~intq_empty(buffer) /\ ~intq_empty(r)
  BY SameBytes DEF input_getc
<1>2. /\ buffer' \in Queue(GetThread)
      /\ buffer'.buf = r.buf /\ buffer'.head = r.head /\ buffer'.tail = Follow(r.tail)
      /\ buffer'.waiter = NO_THREAD /\ buffer'.holder = r.holder /\ buffer'.waiters = r.waiters
  BY <1>1, DropIs DEF Before
<1>3. /\ where' \in [IntqThread -> Spots]
      /\ where'[PutThread] = where[PutThread]
      /\ Moved(buffer, where, t, "run", where')
  BY ReaderMoves DEF input_getc, Spots
<1>4. taken' = Up(taken) /\ taken' \in ByteNumber
  BY UpIs DEF input_getc, Before, SerialIInv, SerialTypeOK
<1>5. SerialTypeOK'
  BY <1>2, <1>3, <1>4 DEF input_getc, Before, SerialIInv, SerialTypeOK
<1>6. InQueue(buffer', taken', received)
  <2>1. InQueue(r, taken, received)
    BY SameBytes DEF Before, SerialIInv
  <2>2. taken \in ByteNumber /\ received \in ByteNumber /\ r.head \in Pos /\ r.tail \in Pos /\ r.buf \in [Pos -> ByteNumber]
    BY BeforeIs DEF Before, SerialIInv, SerialTypeOK
  <2> QED
    BY <1>1, <1>2, <1>4, <2>1, <2>2, DropHolds DEF Before
<1>7. Readers(buffer', where') /\ \A u \in GetThread : where'[u] # "wait"
  <2>1. where[t] \in {"run", "woken"} /\ \A u \in GetThread : where[u] # "wait"
    BY <1>1, BeforeIs DEF Console, input_getc, Tests
  <2>2. Readers(buffer, where) /\ NO_THREAD \notin GetThread
    BY BeforeIs DEF Console
  <2>3. /\ buffer'.holder = LetGo(buffer, t).holder /\ buffer'.waiters = LetGo(buffer, t).waiters
        /\ buffer'.waiter = NO_THREAD
    BY <1>2
  <2> QED
    BY <1>3, <2>1, <2>2, <2>3, BeforeIs, ReaderGoes
<1>8. Console'
  BY <1>3, <1>7, BeforeIs DEF Console, input_getc
<1> QED
  BY <1>5, <1>6, <1>8 DEF SerialIInv, input_getc, Before

\* input_getc() blocks.
LEMMA GetWaitsStep ==
  ASSUME Before, NEW t \in GetThread, GetWaits(t)
  PROVE  SerialIInv'
<1>1. /\ buffer' = Blocks(buffer, t)
      /\ buffer' \in Queue(GetThread)
      /\ buffer'.buf = buffer.buf /\ buffer'.head = buffer.head /\ buffer'.tail = buffer.tail
  BY BeforeIs, BlocksIs DEF GetWaits
<1> DEFINE p == IF LetGo(buffer, t).holder = NO_THREAD THEN "wait" ELSE "lock"
<1>2. /\ where' \in [IntqThread -> Spots]
      /\ where'[PutThread] = where[PutThread]
      /\ Moved(buffer, where, t, p, where')
  <2>1. p \in Spots /\ where' = Places(NextInLine(buffer, t), t, p) /\ Tests(t)
    BY DEF GetWaits, BlockedOn, Spots
  <2> HIDE DEF p
  <2> QED
    BY <2>1, ReaderMoves
<1>3. SerialTypeOK'
  BY <1>1, <1>2 DEF GetWaits, Before, SerialIInv, SerialTypeOK
<1>4. /\ InQueue(buffer', taken, received)
      /\ intq_empty(buffer')
      /\ intq_full(buffer') <=> intq_full(buffer)
  BY <1>1, SameBytes DEF Before, SerialIInv, GetWaits
<1>5. Readers(buffer', where')
  <2>1. where[t] \in {"run", "woken"}
    BY DEF GetWaits, Tests
  <2>2. Readers(buffer, where) /\ NO_THREAD \notin GetThread /\ buffer \in Queue(GetThread)
    BY BeforeIs DEF Console
  <2>3. Readers(Blocks(buffer, t), where')
    BY <1>2, <2>1, <2>2, ReaderBlocks
  <2> QED
    BY <1>1, <2>3
<1>6. ier' = Enabled(buffer', txq')
  BY <1>4, BeforeIs DEF Console, GetWaits, Enabled
<1>7. Console'
  BY <1>2, <1>4, <1>5, <1>6, BeforeIs DEF Console, GetWaits
<1> QED
  BY <1>3, <1>4, <1>7 DEF SerialIInv, GetWaits, Before

\* The lock is free, or it is not.
LEMMA GetLocksStep ==
  ASSUME Before, NEW t \in GetThread, GetLocks(t)
  PROVE  SerialIInv'
<1>1. where[t] = "lock again" /\ where \in [IntqThread -> Spots] /\ t \in IntqThread /\ t # PutThread
  BY BeforeIs DEF GetLocks, Before, SerialIInv, SerialTypeOK
<1>2. Readers(buffer, where) /\ NO_THREAD \notin GetThread /\ buffer.waiters \in Seq(GetThread)
  BY BeforeIs DEF Console, Queue
<1>3. CASE buffer.holder # NO_THREAD /\ UNCHANGED panicking
           /\ buffer' = [buffer EXCEPT !.waiters = Append(@, t)] /\ where' = [where EXCEPT ![t] = "lock"]
  <2>1. PICK a \in Seq(GetThread) : a = buffer.waiters
    BY <1>2
  <2>2. Append(a, t) \in Seq(GetThread) /\ Behind(a, t, Append(a, t))
    BY LinesUp
  <2>3. /\ buffer' \in Queue(GetThread)
        /\ buffer'.buf = buffer.buf /\ buffer'.head = buffer.head /\ buffer'.tail = buffer.tail
        /\ buffer'.holder = buffer.holder /\ buffer'.waiter = buffer.waiter
        /\ buffer'.waiters = Append(a, t)
    BY <1>3, <2>1, <2>2, BeforeIs DEF Queue
  <2>4. /\ where' \in [IntqThread -> Spots] /\ where'[PutThread] = where[PutThread]
        /\ \A u \in GetThread : where'[u] = IF u = t THEN "lock" ELSE where[u]
    BY <1>1, <1>3, BeforeIs DEF Spots
  <2>5. SerialTypeOK'
    BY <1>3, <2>3, <2>4 DEF GetLocks, Before, SerialIInv, SerialTypeOK
  <2>6. /\ InQueue(buffer', taken, received)
        /\ intq_empty(buffer') <=> intq_empty(buffer)
        /\ intq_full(buffer') <=> intq_full(buffer)
    BY <2>3, SameBytes DEF Before, SerialIInv
  <2>7. Readers(buffer', where')
    <3>1. t \notin Range(a) /\ IsInjective(a)
      BY <1>1, <1>2, <2>1 DEF Readers
    <3>2. Range(buffer'.waiters) = Range(a) \cup {t} /\ IsInjective(buffer'.waiters)
      BY <2>2, <2>3, <3>1 DEF Behind
    <3>3. ASSUME NEW u \in GetThread
          PROVE  /\ u = buffer'.holder <=> where'[u] \in {"wait", "woken"}
                 /\ where'[u] = "wait" => buffer'.waiter = u
                 /\ u \in Range(buffer'.waiters) <=> where'[u] = "lock"
      <4>1. /\ u = buffer.holder <=> where[u] \in {"wait", "woken"}
            /\ where[u] = "wait" => buffer.waiter = u
            /\ u \in Range(buffer.waiters) <=> where[u] = "lock"
        BY <1>2 DEF Readers
      <4> QED
        BY <1>1, <2>1, <2>3, <2>4, <3>2, <4>1
    <3>4. buffer'.waiter # NO_THREAD => where'[buffer'.waiter] = "wait"
      <4>1. SUFFICES ASSUME buffer.waiter # NO_THREAD PROVE where'[buffer.waiter] = "wait"
        BY <2>3
      <4>2. buffer.waiter \in GetThread /\ where[buffer.waiter] = "wait"
        BY <1>2, <4>1, BeforeIs DEF Readers, Queue
      <4> QED
        BY <1>1, <2>4, <4>2
    <3> QED
      BY <1>3, <2>3, <3>2, <3>3, <3>4 DEF Readers
  <2>8. (\E u \in GetThread : where'[u] = "wait") => intq_empty(buffer')
    BY <2>4, <2>6, BeforeIs DEF Console
  <2>9. Console'
    BY <2>4, <2>6, <2>7, <2>8, BeforeIs DEF Console, GetLocks, Enabled
  <2> QED
    BY <1>3, <2>5, <2>6, <2>9 DEF SerialIInv, GetLocks, Before
<1>4. CASE buffer.holder = NO_THREAD /\ panicking' = ~intq_empty(buffer)
           /\ buffer' = [buffer EXCEPT !.holder = t, !.waiter = t] /\ where' = [where EXCEPT ![t] = "wait"]
  <2>1. /\ buffer' \in Queue(GetThread)
        /\ buffer'.buf = buffer.buf /\ buffer'.head = buffer.head /\ buffer'.tail = buffer.tail
        /\ buffer'.holder = t /\ buffer'.waiter = t
        /\ buffer'.waiters = buffer.waiters
    BY <1>4, BeforeIs DEF Queue
  <2>2. /\ where' \in [IntqThread -> Spots] /\ where'[PutThread] = where[PutThread]
        /\ \A u \in GetThread : where'[u] = IF u = t THEN "wait" ELSE where[u]
    BY <1>1, <1>4, BeforeIs DEF Spots
  <2>3. panicking' \in BOOLEAN
    BY <1>4
  <2>4. SerialTypeOK'
    BY <2>1, <2>2, <2>3 DEF GetLocks, Before, SerialIInv, SerialTypeOK
  <2>5. /\ InQueue(buffer', taken, received)
        /\ intq_empty(buffer') <=> intq_empty(buffer)
        /\ intq_full(buffer') <=> intq_full(buffer)
    BY <2>1, SameBytes DEF Before, SerialIInv
  <2>6. Readers(buffer', where')
    <3>1. ASSUME NEW u \in GetThread
          PROVE  /\ u = buffer'.holder <=> where'[u] \in {"wait", "woken"}
                 /\ where'[u] = "wait" => buffer'.waiter = u
                 /\ u \in Range(buffer'.waiters) <=> where'[u] = "lock"
      <4>1. /\ u = buffer.holder <=> where[u] \in {"wait", "woken"}
            /\ u \in Range(buffer.waiters) <=> where[u] = "lock"
        BY <1>2 DEF Readers
      <4> QED
        BY <1>1, <1>2, <1>4, <2>1, <2>2, <4>1
    <3>2. IsInjective(buffer'.waiters) /\ buffer'.holder # NO_THREAD /\ where'[buffer'.waiter] = "wait"
      BY <1>2, <2>1, <2>2 DEF Readers
    <3> QED
      BY <3>1, <3>2 DEF Readers
  <2>7. ~panicking' => Console'
    BY <1>4, <2>2, <2>5, <2>6, BeforeIs DEF Console, GetLocks, Enabled
  <2> QED
    BY <2>4, <2>5, <2>7 DEF SerialIInv, GetLocks, Before
<1> QED
  BY <1>3, <1>4 DEF GetLocks

\* The input buffer and its readers where they are, but for others woken.
LEMMA InputKept ==
  ASSUME Before, UNCHANGED <<buffer, taken, received>>,
         \A u \in GetThread : where'[u] = where[u]
  PROVE  /\ buffer' \in Queue(GetThread) /\ InQueue(buffer', taken', received')
         /\ Readers(buffer', where')
         /\ (\E u \in GetThread : where'[u] = "wait") => intq_empty(buffer')
<1> PICK v : v = where'
  OBVIOUS
<1>1. Readers(buffer, v)
  <2>1. buffer.waiter # NO_THREAD => buffer.waiter \in GetThread
    BY BeforeIs DEF Queue
  <2>2. Readers(buffer, where)
    BY BeforeIs DEF Console
  <2>3. ASSUME NEW u \in GetThread PROVE v[u] = where[u]
    OBVIOUS
  <2> QED
    BY <2>1, <2>2, <2>3 DEF Readers
<1> QED
  BY <1>1, BeforeIs DEF Console, Before, SerialIInv

\* A byte comes into the buffer: signal() wakes who waits for it.
LEMMA InputFills ==
  ASSUME Before, ~intq_full(buffer), received' = Up(received), buffer' = Put(buffer, Up(received)),
         taken' = taken, where' \in [IntqThread -> Spots],
         \A u \in GetThread : where'[u] = IF u = buffer.waiter THEN "woken" ELSE where[u]
  PROVE  /\ buffer' \in Queue(GetThread) /\ InQueue(buffer', taken', received')
         /\ Readers(buffer', where') /\ received' \in ByteNumber
         /\ (\E u \in GetThread : where'[u] = "wait") => intq_empty(buffer')
<1>1. received \in ByteNumber /\ taken \in ByteNumber /\ Up(received) \in ByteNumber /\ SerialAssumption
  BY UpIs DEF Before, SerialIInv, SerialTypeOK
<1>2. /\ buffer' \in Queue(GetThread)
      /\ buffer'.buf = [buffer.buf EXCEPT ![buffer.head] = Up(received)]
      /\ buffer'.head = Follow(buffer.head) /\ buffer'.tail = buffer.tail
      /\ buffer'.waiter = NO_THREAD /\ buffer'.holder = buffer.holder /\ buffer'.waiters = buffer.waiters
  BY <1>1, PutIs, BeforeIs
<1>3. InQueue(buffer', taken, Up(received))
  <2>1. InQueue(buffer, taken, received)
    BY DEF Before, SerialIInv
  <2> QED
    BY <1>1, <1>2, <2>1, BeforeIs, PutHolds
<1>4. Readers(buffer', where') /\ \A u \in GetThread : where'[u] # "wait"
  BY <1>2, BeforeIs, ReaderWoken DEF Console
<1> QED
  BY <1>1, <1>2, <1>3, <1>4

-----------------------------------------------------------------------------
(* The transmit queue and its writer. *)

Writing(q, x) == Printer(q, x) /\ (x = "wait" => intq_full(q))

\* What a step of the input side leaves alone here.
LEMMA OutputKept ==
  ASSUME Before, UNCHANGED <<txq, accepted, sent>>, where'[PutThread] = where[PutThread]
  PROVE  /\ txq' \in Queue({PutThread}) /\ InQueue(txq', sent', accepted')
         /\ Writing(txq', where'[PutThread]) /\ where'[PutThread] \in {"run", "wait", "woken"}
         /\ sent' \in ByteNumber /\ accepted' \in ByteNumber
  BY BeforeIs DEF Console, Writing, Before, SerialIInv, SerialTypeOK

\* A byte has come into q or left it, which makes r of it.
Passed(q, r, out, in) ==
  /\ r \in Queue({PutThread}) /\ InQueue(r, out, in)
  /\ r.waiter = NO_THREAD /\ r.holder = q.holder /\ r.waiters = <<>>

\* serial_putc() puts a byte into a queue that has room.
LEMMA OutputPut ==
  ASSUME SerialAssumption, NEW q \in Queue({PutThread}), NEW out \in ByteNumber, NEW in \in ByteNumber, InQueue(q, out, in),
         ~intq_full(q), q.waiters = <<>>
  PROVE  Passed(q, Put(q, Up(in)), out, Up(in))
<1>1. Up(in) \in ByteNumber
  BY UpIs
<1> PICK r : r = Put(q, Up(in))
  OBVIOUS
<1>2. /\ r \in Queue({PutThread})
      /\ r.buf = [q.buf EXCEPT ![q.head] = Up(in)]
      /\ r.head = Follow(q.head) /\ r.tail = q.tail
      /\ r.waiter = NO_THREAD /\ r.holder = q.holder /\ r.waiters = q.waiters
  BY <1>1, PutIs
<1>3. q.head \in Pos /\ q.tail \in Pos /\ q.buf \in [Pos -> ByteNumber]
  BY DEF Queue
<1>4. InQueue(r, out, Up(in))
  BY <1>2, <1>3, PutHolds
<1> QED
  BY <1>2, <1>4 DEF Passed

\* A byte is sent: the oldest.
LEMMA OutputDrop ==
  ASSUME SerialAssumption, NEW q \in Queue({PutThread}), NEW out \in ByteNumber, NEW in \in ByteNumber, InQueue(q, out, in),
         ~intq_empty(q), q.waiters = <<>>
  PROVE  Passed(q, Drop(q), Oldest(q), in) /\ ~intq_full(Drop(q)) /\ Oldest(q) \in ByteNumber
<1> PICK r : r = Drop(q)
  OBVIOUS
<1>1. /\ r \in Queue({PutThread})
      /\ r.buf = q.buf /\ r.head = q.head /\ r.tail = Follow(q.tail)
      /\ r.waiter = NO_THREAD /\ r.holder = q.holder /\ r.waiters = q.waiters
  BY DropIs
<1>2. q.head \in Pos /\ q.tail \in Pos /\ q.buf \in [Pos -> ByteNumber]
  BY DEF Queue
<1>3. InQueue(r, Up(out), in) /\ q.buf[q.tail] = Up(out) /\ ~intq_full(r)
  BY <1>1, <1>2, DropHolds
<1>4. Up(out) \in ByteNumber
  BY UpIs
<1> QED
  BY <1>1, <1>3, <1>4 DEF Oldest, Passed

\* The writer is woken if it waits.
LEMMA WriterWoken ==
  ASSUME SerialAssumption, NEW q, NEW r, NEW x, Writing(q, x), r.holder = q.holder, r.waiter = NO_THREAD, r.waiters = <<>>
  PROVE  Writing(r, IF x = "wait" THEN "woken" ELSE x)
  BY DEF Writing, Printer, SerialAssumption

\* The steps that fill the transmit queue leave the input side alone.
LEMMA OutputStep ==
  ASSUME Before, UNCHANGED <<buffer, taken, received, panicking>>,
         rx_ready' \in BOOLEAN, thr_empty' \in BOOLEAN,
         where' \in [IntqThread -> Spots], \A u \in GetThread : where'[u] = where[u],
         txq' \in Queue({PutThread}), InQueue(txq', sent', accepted'), sent' \in ByteNumber, accepted' \in ByteNumber,
         Writing(txq', where'[PutThread]), where'[PutThread] \in {"run", "wait", "woken"},
         ier' = Enabled(buffer, txq')
  PROVE  SerialIInv'
<1>1. /\ buffer' \in Queue(GetThread) /\ InQueue(buffer', taken', received')
      /\ Readers(buffer', where')
      /\ (\E u \in GetThread : where'[u] = "wait") => intq_empty(buffer')
  BY InputKept
<1>2. SerialTypeOK'
  BY <1>1 DEF Before, SerialIInv, SerialTypeOK
<1>3. Console'
  BY <1>1 DEF Console, Writing
<1> QED
  BY <1>1, <1>2, <1>3 DEF SerialIInv

\* serial_putc() queues a byte.
LEMMA PutStep ==
  ASSUME Before, serial_putc(PutThread)
  PROVE  SerialIInv'
<1> PICK r \in Queue({PutThread}) : r = LetGo(txq, PutThread)
  <2>1. LetGo(txq, PutThread) \in Queue({PutThread})
    BY BeforeIs, LetGoIs
  <2> QED
    BY <2>1
<1>1. /\ r.buf = txq.buf /\ r.head = txq.head /\ r.tail = txq.tail
      /\ r.holder = (IF txq.holder = PutThread THEN NO_THREAD ELSE txq.holder)
      /\ r.waiters = (IF txq.holder = PutThread /\ txq.waiters # <<>> THEN Tail(txq.waiters) ELSE txq.waiters)
  BY BeforeIs, LetGoIs
<1>2. Printer(txq, where[PutThread]) /\ txq.waiters = <<>> /\ r.waiters = <<>>
  BY <1>1, BeforeIs DEF Console, Printer
<1>3. ~intq_full(r) /\ InQueue(r, sent, accepted)
  BY <1>1, SameBytes DEF serial_putc, Before, SerialIInv
<1>4. accepted' = Up(accepted) /\ accepted' \in ByteNumber /\ accepted \in ByteNumber /\ sent \in ByteNumber /\ SerialAssumption
  BY UpIs DEF serial_putc, Before, SerialIInv, SerialTypeOK
<1>5. /\ txq' \in Queue({PutThread}) /\ InQueue(txq', sent, Up(accepted))
      /\ txq'.waiter = NO_THREAD /\ txq'.holder = r.holder /\ txq'.waiters = <<>>
  <2>1. txq' = Put(r, Up(accepted))
    BY <1>4 DEF serial_putc
  <2> QED
    BY <1>2, <1>3, <1>4, <2>1, OutputPut DEF Passed
<1>6. txq'.holder # PutThread
  BY <1>1, <1>5, BeforeIs
<1>7. /\ where' \in [IntqThread -> Spots] /\ where'[PutThread] = "run"
      /\ \A u \in GetThread : where'[u] = where[u]
  BY BeforeIs DEF serial_putc, Before, SerialIInv, SerialTypeOK, Spots
<1>8. Writing(txq', where'[PutThread])
  BY <1>5, <1>6, <1>7, BeforeIs DEF Writing, Printer
<1> QED
  BY <1>4, <1>5, <1>7, <1>8, OutputStep DEF serial_putc, Before, SerialIInv, SerialTypeOK

\* serial_putc() waits.
LEMMA PutWaitsStep ==
  ASSUME Before, PutWaits(PutThread)
  PROVE  SerialIInv'
<1> PICK r \in Queue({PutThread}) : r = LetGo(txq, PutThread)
  <2>1. LetGo(txq, PutThread) \in Queue({PutThread})
    BY BeforeIs, LetGoIs
  <2> QED
    BY <2>1
<1>1. /\ r.holder = (IF txq.holder = PutThread THEN NO_THREAD ELSE txq.holder)
      /\ r.waiters = (IF txq.holder = PutThread /\ txq.waiters # <<>> THEN Tail(txq.waiters) ELSE txq.waiters)
  BY BeforeIs, LetGoIs
<1>2. txq.waiters = <<>> /\ r.waiters = <<>> /\ r.holder = NO_THREAD
  BY <1>1, BeforeIs DEF Console, Printer, Queue
<1>3. /\ txq' \in Queue({PutThread})
      /\ txq'.buf = txq.buf /\ txq'.head = txq.head /\ txq'.tail = txq.tail
      /\ txq'.holder = PutThread /\ txq'.waiter = PutThread /\ txq'.waiters = <<>>
  <2>1. /\ Blocks(txq, PutThread) \in Queue({PutThread})
        /\ Blocks(txq, PutThread).buf = txq.buf /\ Blocks(txq, PutThread).head = txq.head
        /\ Blocks(txq, PutThread).tail = txq.tail
        /\ Blocked(txq, r, Blocks(txq, PutThread), PutThread)
    BY BeforeIs, BlocksIs
  <2> QED
    BY <1>2, <2>1 DEF PutWaits, Blocked
<1>4. /\ InQueue(txq', sent, accepted)
      /\ intq_empty(txq') <=> intq_empty(txq)
      /\ intq_full(txq') <=> intq_full(txq)
  BY <1>3, SameBytes DEF Before, SerialIInv
<1>5. NextInLine(txq, PutThread) = {}
  BY <1>2 DEF NextInLine
<1>6. /\ where' \in [IntqThread -> Spots] /\ where'[PutThread] = "wait"
      /\ \A u \in GetThread : where'[u] = where[u]
  <2>1. where' = Places({}, PutThread, "wait")
    BY <1>2, <1>5 DEF PutWaits, BlockedOn
  <2>2. where' \in [IntqThread -> Spots]
    BY <2>1, PlacesType DEF Before, SerialIInv, SerialTypeOK, Spots
  <2> QED
    BY <2>1, <2>2, BeforeIs DEF Places
<1>7. Writing(txq', where'[PutThread])
  BY <1>3, <1>4, <1>6 DEF Writing, Printer, PutWaits
<1>8. ier' = Enabled(buffer, txq')
  BY <1>4, BeforeIs DEF Console, PutWaits, Enabled
<1> QED
  BY <1>3, <1>4, <1>6, <1>7, <1>8, OutputStep DEF PutWaits, Before, SerialIInv, SerialTypeOK

\* serial_putc() with interrupts off.
LEMMA PutPollingStep ==
  ASSUME Before, PutPolling
  PROVE  SerialIInv'
<1>1. /\ accepted' = Up(accepted) /\ accepted' \in ByteNumber /\ accepted \in ByteNumber /\ sent \in ByteNumber /\ SerialAssumption
      /\ InQueue(txq, sent, accepted) /\ where \in [IntqThread -> Spots]
      /\ where[PutThread] \in {"run", "wait", "woken"}
  BY UpIs DEF PutPolling, Before, SerialIInv, SerialTypeOK
<1>2. Writing(txq, where[PutThread]) /\ txq.waiters = <<>>
  BY BeforeIs DEF Console, Printer, Writing
<1>3. CASE intq_full(txq)
  <2>1. PICK q \in Queue({PutThread}) : q = Drop(txq) /\ InQueue(q, Oldest(txq), accepted) /\ ~intq_full(q)
                                        /\ q.waiter = NO_THREAD /\ q.holder = txq.holder
                                        /\ q.waiters = <<>> /\ Oldest(txq) \in ByteNumber
    <3>1. ~intq_empty(txq)
      BY <1>3, BeforeIs, FullIs DEF Before
    <3>2. Passed(txq, Drop(txq), Oldest(txq), accepted) /\ ~intq_full(Drop(txq)) /\ Oldest(txq) \in ByteNumber
      BY <1>1, <1>2, <3>1, BeforeIs, OutputDrop
    <3> QED
      BY <3>2 DEF Passed
  <2>2. txq' = Put(q, Up(accepted)) /\ sent' = Oldest(txq)
    BY <1>1, <1>3, <2>1 DEF PutPolling
  <2>3. /\ txq' \in Queue({PutThread}) /\ InQueue(txq', sent', Up(accepted))
        /\ txq'.waiter = NO_THREAD /\ txq'.holder = q.holder /\ txq'.waiters = <<>>
    <3>1. q.waiters = <<>> /\ Oldest(txq) \in ByteNumber /\ ~intq_full(q) /\ InQueue(q, Oldest(txq), accepted)
      BY <2>1
    <3>2. Passed(q, Put(q, Up(accepted)), Oldest(txq), Up(accepted))
      BY <1>1, <3>1, OutputPut
    <3> QED
      BY <2>2, <3>2 DEF Passed
  <2>4. /\ where' \in [IntqThread -> Spots]
        /\ where'[PutThread] = (IF where[PutThread] = "wait" THEN "woken" ELSE where[PutThread])
        /\ \A u \in GetThread : where'[u] = where[u]
    <3>1. where' = Places({txq.waiter}, NO_THREAD, "run")
      BY <1>3 DEF PutPolling
    <3>2. where' \in [IntqThread -> Spots]
      BY <1>1, <3>1, PlacesType DEF Spots
    <3>3. txq.waiter \in {PutThread, NO_THREAD}
      BY BeforeIs DEF Queue
    <3>4. txq.waiter = PutThread <=> where[PutThread] = "wait"
      BY <1>2 DEF Writing, Printer
    <3> QED
      BY <3>1, <3>2, <3>3, <3>4, BeforeIs DEF Places
  <2>5. Writing(txq', where'[PutThread])
    BY <1>1, <1>2, <2>1, <2>3, <2>4, WriterWoken
  <2>6. where'[PutThread] \in {"run", "wait", "woken"}
    BY <1>1, <2>4
  <2> QED
    BY <1>1, <2>1, <2>2, <2>3, <2>4, <2>5, <2>6, OutputStep DEF PutPolling, Before, SerialIInv, SerialTypeOK
<1>4. CASE ~intq_full(txq)
  <2>1. txq' = Put(txq, Up(accepted)) /\ sent' = sent /\ where' = where
    BY <1>1, <1>4 DEF PutPolling
  <2>2. /\ txq' \in Queue({PutThread}) /\ InQueue(txq', sent', Up(accepted))
        /\ txq'.waiter = NO_THREAD /\ txq'.holder = txq.holder /\ txq'.waiters = <<>>
    BY <1>1, <1>2, <1>4, <2>1, BeforeIs, OutputPut DEF Passed
  <2>3. Writing(txq', where'[PutThread])
    BY <1>2, <1>4, <2>1, <2>2, BeforeIs DEF Writing, Printer
  <2> QED
    BY <1>1, <2>1, <2>2, <2>3, OutputStep DEF PutPolling, Before, SerialIInv, SerialTypeOK
<1> QED
  BY <1>3, <1>4

\* Whom an interrupt wakes: the waiter of the buffer if a byte came, that of the
\* transmit queue if one went.
LEMMA InterruptPlaces ==
  ASSUME Before, NEW in \in BOOLEAN, NEW out \in BOOLEAN,
         where' = Places((IF in THEN {buffer.waiter} ELSE {}) \cup (IF out THEN {txq.waiter} ELSE {}),
                         NO_THREAD, "run")
  PROVE  /\ where' \in [IntqThread -> Spots]
         /\ \A u \in GetThread : where'[u] = IF in /\ u = buffer.waiter THEN "woken" ELSE where[u]
         /\ where'[PutThread] = IF out /\ where[PutThread] = "wait" THEN "woken" ELSE where[PutThread]
<1>1. where' \in [IntqThread -> Spots]
  BY PlacesType DEF Before, SerialIInv, SerialTypeOK, Spots
<1>2. /\ txq.waiter \in {PutThread, NO_THREAD}
      /\ txq.waiter = PutThread <=> where[PutThread] = "wait"
      /\ buffer.waiter \in GetThread \cup {NO_THREAD}
      /\ buffer.waiter # NO_THREAD => where[buffer.waiter] = "wait"
  BY BeforeIs DEF Queue, Console, Printer, Readers
<1>3. ASSUME NEW u \in GetThread
      PROVE  where'[u] = IF in /\ u = buffer.waiter THEN "woken" ELSE where[u]
  BY <1>2, BeforeIs DEF Places
<1>4. where'[PutThread] = IF out /\ where[PutThread] = "wait" THEN "woken" ELSE where[PutThread]
  BY <1>2, BeforeIs DEF Places
<1> QED
  BY <1>1, <1>3, <1>4

\* serial_interrupt()
LEMMA InterruptStep ==
  ASSUME Before, serial_interrupt
  PROVE  SerialIInv'
<1> DEFINE in == rx_ready /\ ~intq_full(buffer)
           out == thr_empty /\ ~intq_empty(txq)
<1>1. in \in BOOLEAN /\ out \in BOOLEAN
  OBVIOUS
<1>2. /\ received' = (IF in THEN Up(received) ELSE received) /\ taken' = taken
      /\ buffer' = (IF in THEN Put(buffer, received') ELSE buffer)
      /\ sent' = (IF out THEN Oldest(txq) ELSE sent) /\ accepted' = accepted
      /\ txq' = (IF out THEN Drop(txq) ELSE txq)
      /\ where' = Places((IF in THEN {buffer.waiter} ELSE {}) \cup (IF out THEN {txq.waiter} ELSE {}),
                         NO_THREAD, "run")
      /\ ier' = Enabled(buffer', txq')
      /\ panicking' = panicking
      /\ rx_ready' \in BOOLEAN /\ thr_empty' \in BOOLEAN
  BY DEF serial_interrupt
<1>3. in => ~intq_full(buffer)
  OBVIOUS
<1>4. out => ~intq_empty(txq)
  OBVIOUS
<1> HIDE DEF in, out
<1>5. /\ where' \in [IntqThread -> Spots]
      /\ \A u \in GetThread : where'[u] = IF in /\ u = buffer.waiter THEN "woken" ELSE where[u]
      /\ where'[PutThread] = IF out /\ where[PutThread] = "wait" THEN "woken" ELSE where[PutThread]
  BY <1>1, <1>2, InterruptPlaces
<1>6. /\ accepted \in ByteNumber /\ sent \in ByteNumber /\ received \in ByteNumber /\ taken \in ByteNumber /\ SerialAssumption
      /\ InQueue(txq, sent, accepted) /\ where[PutThread] \in {"run", "wait", "woken"}
  BY DEF Before, SerialIInv, SerialTypeOK
<1>7. /\ buffer' \in Queue(GetThread) /\ InQueue(buffer', taken', received')
      /\ Readers(buffer', where') /\ received' \in ByteNumber
      /\ (\E u \in GetThread : where'[u] = "wait") => intq_empty(buffer')
  <2>1. CASE in
    <3>1. received' = Up(received) /\ buffer' = Put(buffer, Up(received)) /\ ~intq_full(buffer)
      BY <1>2, <1>3, <2>1
    <3>2. \A u \in GetThread : where'[u] = IF u = buffer.waiter THEN "woken" ELSE where[u]
      BY <1>5, <2>1
    <3> QED
      BY <1>2, <1>5, <3>1, <3>2, InputFills
  <2>2. CASE ~in
    <3>1. UNCHANGED <<buffer, taken, received>> /\ \A u \in GetThread : where'[u] = where[u]
      BY <1>2, <1>5, <2>2
    <3> QED
      BY <1>6, <3>1, InputKept
  <2> QED
    BY <2>1, <2>2
<1>8. /\ txq' \in Queue({PutThread}) /\ InQueue(txq', sent', accepted')
      /\ Writing(txq', where'[PutThread]) /\ where'[PutThread] \in {"run", "wait", "woken"}
      /\ sent' \in ByteNumber /\ accepted' \in ByteNumber
  <2>1. Writing(txq, where[PutThread]) /\ txq.waiters = <<>>
    BY BeforeIs DEF Console, Printer, Writing
  <2>2. CASE out
    <3>1. txq' = Drop(txq) /\ sent' = Oldest(txq) /\ ~intq_empty(txq)
      BY <1>2, <1>4, <2>2
    <3>2. /\ txq' \in Queue({PutThread}) /\ InQueue(txq', Oldest(txq), accepted)
          /\ txq'.waiter = NO_THREAD /\ txq'.holder = txq.holder /\ txq'.waiters = <<>>
          /\ Oldest(txq) \in ByteNumber
      BY <1>6, <2>1, <3>1, BeforeIs, OutputDrop DEF Passed
    <3>3. where'[PutThread] = IF where[PutThread] = "wait" THEN "woken" ELSE where[PutThread]
      BY <1>5, <2>2
    <3>4. Writing(txq', where'[PutThread])
      BY <1>6, <2>1, <3>2, <3>3, WriterWoken
    <3> QED
      BY <1>2, <1>6, <3>1, <3>2, <3>3, <3>4
  <2>3. CASE ~out
    BY <1>2, <1>5, <1>6, <2>3, OutputKept
  <2> QED
    BY <2>2, <2>3
<1>9. SerialTypeOK'
  BY <1>2, <1>5, <1>6, <1>7, <1>8 DEF Before, SerialIInv, SerialTypeOK
<1>10. Console'
  BY <1>2, <1>7, <1>8 DEF Console, Writing
<1> QED
  BY <1>7, <1>8, <1>9, <1>10 DEF SerialIInv

\* keyboard_interrupt()
LEMMA KeyboardStep ==
  ASSUME Before, keyboard_interrupt
  PROVE  SerialIInv'
<1>1. /\ where' \in [IntqThread -> Spots]
      /\ \A u \in GetThread : where'[u] = IF u = buffer.waiter THEN "woken" ELSE where[u]
      /\ where'[PutThread] = where[PutThread]
  <2>1. where' = Places({buffer.waiter} \cup {}, NO_THREAD, "run")
    BY DEF keyboard_interrupt
  <2> QED
    BY <2>1, InterruptPlaces, TRUE \in BOOLEAN, FALSE \in BOOLEAN
<1>2. /\ buffer' \in Queue(GetThread) /\ InQueue(buffer', taken', received')
      /\ Readers(buffer', where') /\ received' \in ByteNumber
      /\ (\E u \in GetThread : where'[u] = "wait") => intq_empty(buffer')
  <2>1. ~intq_full(buffer) /\ received' = Up(received) /\ buffer' = Put(buffer, Up(received)) /\ taken' = taken
    BY DEF keyboard_interrupt
  <2> QED
    BY <1>1, <2>1, InputFills
<1>3. /\ txq' \in Queue({PutThread}) /\ InQueue(txq', sent', accepted')
      /\ Writing(txq', where'[PutThread])
  BY <1>1, OutputKept DEF keyboard_interrupt
<1>4. SerialTypeOK'
  BY <1>1, <1>2 DEF keyboard_interrupt, Before, SerialIInv, SerialTypeOK
<1>5. Console'
  BY <1>2, <1>3 DEF Console, Writing, keyboard_interrupt
<1> QED
  BY <1>2, <1>3, <1>4, <1>5 DEF SerialIInv

\* The UART itself.
LEMMA UartStep ==
  ASSUME Before, RxArrives \/ TxDone
  PROVE  SerialIInv'
<1>1. /\ UNCHANGED <<buffer, txq, where, ier, received, taken, accepted, sent, panicking>>
      /\ rx_ready' \in BOOLEAN /\ thr_empty' \in BOOLEAN
  BY DEF RxArrives, TxDone, Before, SerialIInv, SerialTypeOK
<1>2. SerialTypeOK'
  BY <1>1 DEF Before, SerialIInv, SerialTypeOK
<1>3. Console'
  BY <1>1, BeforeIs DEF Console, Readers, Printer, intq_empty, intq_full, Enabled
<1> QED
  BY <1>1, <1>2, <1>3 DEF Before, SerialIInv, InQueue, Filled, Place

\* Every step keeps the invariant.
LEMMA SerialStep == SerialAssumption /\ SerialIInv /\ [SerialNext]_serial => SerialIInv'
<1> SUFFICES ASSUME SerialAssumption, SerialIInv, [SerialNext]_serial PROVE SerialIInv'
  OBVIOUS
<1>1. CASE UNCHANGED serial
  <2>1. UNCHANGED <<buffer, txq, where, ier, rx_ready, thr_empty, received, taken, accepted, sent, panicking>>
    BY <1>1 DEF serial
  <2> QED
    BY <2>1 DEF SerialIInv, SerialTypeOK, Console, Readers, Printer, intq_empty, intq_full, Enabled,
                InQueue, Filled, Place
<1>2. CASE SerialNext
  <2>1. Before
    BY <1>2 DEF SerialNext, Before
  <2>2. ASSUME NEW t \in GetThread, input_getc(t) \/ GetWaits(t) \/ GetLocks(t) PROVE SerialIInv'
    BY <2>1, <2>2, GetStep, GetWaitsStep, GetLocksStep
  <2>3. ASSUME serial_putc(PutThread) \/ PutWaits(PutThread) \/ PutPolling PROVE SerialIInv'
    BY <2>1, <2>3, PutStep, PutWaitsStep, PutPollingStep
  <2>4. ASSUME serial_interrupt \/ keyboard_interrupt \/ RxArrives \/ TxDone PROVE SerialIInv'
    BY <2>1, <2>4, InterruptStep, KeyboardStep, UartStep
  <2> QED
    BY <1>2, <2>2, <2>3, <2>4 DEF SerialNext
<1> QED
  BY <1>1, <1>2

\* At the start both queues are empty.
LEMMA SerialInitially == SerialAssumption /\ SerialInit => SerialIInv
<1> SUFFICES ASSUME SerialAssumption, SerialInit PROVE SerialIInv
  OBVIOUS
<1>1. 0 \in Pos /\ 0 \in ByteNumber
  BY SizesAre DEF Pos, ByteNumber
<1>2. /\ buffer \in Queue(GetThread) /\ txq \in Queue({PutThread})
      /\ buffer.head = 0 /\ buffer.tail = 0 /\ txq.head = 0 /\ txq.tail = 0
      /\ buffer.waiter = NO_THREAD /\ buffer.holder = NO_THREAD /\ buffer.waiters = <<>>
      /\ txq.waiter = NO_THREAD /\ txq.holder = NO_THREAD /\ txq.waiters = <<>>
  BY <1>1 DEF SerialInit, intq_init, Queue, Pos
<1>3. PutThread \in IntqThread /\ NO_THREAD \notin GetThread /\ NO_THREAD # PutThread /\ GetThread \subseteq IntqThread
  BY DEF SerialAssumption, IntqThread
<1>4. SerialTypeOK
  BY <1>1, <1>2, <1>3 DEF SerialInit, SerialTypeOK, Spots
<1>5. intq_empty(buffer) /\ intq_empty(txq) /\ ~intq_full(buffer) /\ ~intq_full(txq)
  <2>1. Filled(buffer) = 0 /\ Filled(txq) = 0
    BY <1>2, SizesAre DEF Filled, Count
  <2> QED
    BY <1>1, <1>2, <2>1, FullIs, SizesAre
<1>6. InQueue(buffer, taken, received) /\ InQueue(txq, sent, accepted)
  BY <1>2, SizesAre DEF SerialInit, InQueue, Filled, Count, Number
<1>7. Console
  <2>1. Range(buffer.waiters) = {} /\ IsInjective(buffer.waiters)
    BY <1>2 DEF Range, IsInjective
  <2> QED
    BY <1>2, <1>3, <1>5, <2>1 DEF SerialInit, Console, Readers, Printer, Enabled
<1> QED
  BY <1>4, <1>6, <1>7 DEF SerialIInv

\* The consequences: the queues hold what Holds() says.
LEMMA ConsoleFollows == SerialAssumption /\ SerialIInv => ConsoleKept
<1> SUFFICES ASSUME SerialAssumption, SerialIInv PROVE ConsoleKept
  OBVIOUS
<1>1. BytesInOrder
  <2>1. /\ buffer.head \in Pos /\ buffer.tail \in Pos /\ txq.head \in Pos /\ txq.tail \in Pos
        /\ taken \in ByteNumber /\ sent \in ByteNumber
    BY DEF SerialIInv, SerialTypeOK, Queue
  <2> QED
    BY <2>1, InQueueHolds DEF SerialIInv, BytesInOrder
<1>2. ASSUME ~panicking PROVE NobodyForgotten
  <2>1. Before
    BY <1>2 DEF Before
  <2>2. Readers(buffer, where) /\ Printer(txq, where[PutThread])
    BY <2>1, BeforeIs DEF Console
  <2>3. ASSUME NEW t \in GetThread, where[t] = "lock"
        PROVE  \E u \in GetThread : u = buffer.holder \/ where[u] = "lock again"
    <3>1. t \in Range(buffer.waiters)
      BY <2>2, <2>3 DEF Readers
    <3>2. buffer.waiters # <<>>
      BY <3>1 DEF Range
    <3>3. buffer.holder # NO_THREAD \/ \E u \in GetThread : where[u] = "lock again"
      BY <2>2, <3>2 DEF Readers
    <3>4. buffer.holder \in GetThread \cup {NO_THREAD}
      BY <2>1, BeforeIs DEF Queue
    <3> QED
      BY <3>3, <3>4
  <2> QED
    BY <2>1, <2>2, <2>3, BeforeIs DEF NobodyForgotten, Console, Readers, Printer
<1> QED
  BY <1>1, <1>2 DEF ConsoleKept, NobodyForgotten

\* Bytes pass both queues in the order they come, none lost or doubled, and nobody
\* waits for one that is there or is forgotten while it waits: for any number of
\* readers and any size of the queues.
THEOREM ConsoleCorrect == SerialSpec => []ConsoleKept
<1>1. SerialIInv => ConsoleKept
  BY SerialAssumption, ConsoleFollows
<1>2. SerialInit => SerialIInv
  BY SerialAssumption, SerialInitially
<1>3. SerialIInv /\ [SerialNext]_serial => SerialIInv'
  BY SerialAssumption, SerialStep
<1> QED
  BY <1>1, <1>2, <1>3, PTL DEF SerialSpec

-----------------------------------------------------------------------------
(* The page and block allocators.                                          *)

\* A set of numbers that is not empty has a least one.
LEMMA FirstNat ==
  ASSUME NEW T, T \subseteq Nat, T # {}
  PROVE  \E m \in T : \A k \in T : m =< k
<1> DEFINE R == OpToRel(<, Nat)
<1>1. IsWellFoundedOn(R, Nat)
  BY NatLessThanWellFounded, Zenon
<1>2. \A k, m \in Nat : k < m => <<k, m>> \in R
  BY DEF OpToRel
<1> HIDE DEF R
<1>3. PICK m \in T : \A k \in T : ~(<<k, m>> \in R)
  BY <1>1, WFMin, Zenon
<1>4. \A k \in T : ~(k < m)
  BY <1>2, <1>3
<1> QED
  BY <1>4

BlockId == Pg \X Nat

\* One turn of the loop of list_remove()s that WithoutArena() stands for, and all of
\* them up to n.
Left(list, a, k, r) == IF list[k][1] = a THEN r ELSE Append(r, list[k])
Turns(list, a, n, f) ==
  f = [k \in 0..n |-> IF k = 0 THEN <<>> ELSE Left(list, a, k, f[k - 1])]

\* WithoutArena() is defined by turns,
LEMMA TurnsExist ==
  ASSUME NEW list, NEW a, NEW n \in Nat
  PROVE  \E f : Turns(list, a, n, f)
<1> DEFINE bad == {m \in Nat : ~\E f : Turns(list, a, m, f)}
<1>1. ASSUME bad # {} PROVE FALSE
  <2>1. PICK m \in bad : \A k \in bad : m =< k
    BY <1>1, FirstNat
  <2>2. m # 0
    <3>1. Turns(list, a, 0, [k \in 0..0 |-> <<>>])
      BY DEF Turns
    <3> QED
      BY <2>1, <3>1
  <2>3. m - 1 \in Nat /\ ~(m - 1 \in bad)
    BY <2>1, <2>2
  <2>4. PICK g : Turns(list, a, m - 1, g)
    BY <2>3
  <2> DEFINE f == [k \in 0..m |-> IF k = 0 THEN <<>> ELSE Left(list, a, k, g[k - 1])]
  <2>5. \A k \in 0..(m - 1) : g[k] = IF k = 0 THEN <<>> ELSE Left(list, a, k, g[k - 1])
    BY <2>4 DEF Turns
  <2>6. \A k \in 0..(m - 1) : f[k] = g[k]
    BY <2>1, <2>5
  <2>7. ASSUME NEW k \in 0..m
        PROVE  f[k] = IF k = 0 THEN <<>> ELSE Left(list, a, k, f[k - 1])
    <3>1. k # 0 => k - 1 \in 0..(m - 1)
      BY <2>1
    <3>2. f[k] = IF k = 0 THEN <<>> ELSE Left(list, a, k, g[k - 1])
      OBVIOUS
    <3> HIDE DEF f
    <3> QED
      BY <2>6, <3>1, <3>2
  <2>8. f = [k \in 0..m |-> IF k = 0 THEN <<>> ELSE Left(list, a, k, f[k - 1])]
    <3>1. f = [k \in 0..m |-> f[k]]
      OBVIOUS
    <3> HIDE DEF f
    <3> QED
      BY <2>7, <3>1
  <2>9. Turns(list, a, m, f)
    BY <2>8 DEF Turns
  <2> QED
    BY <2>1, <2>9
<1> QED
  BY <1>1

\* What is left after k turns: the blocks up to there that are not of the arena, once
\* each.
Filtered(list, a, k, r) ==
  /\ r \in Seq(BlockId)
  /\ Range(r) = {list[i] : i \in {j \in 1..k : list[j][1] # a}}
  /\ IsInjective(list) => IsInjective(r)

\* each of which keeps or drops one block.
LEMMA OneTurn ==
  ASSUME NEW list \in Seq(BlockId), NEW a, NEW k \in 1..Len(list), NEW r, Filtered(list, a, k - 1, r)
  PROVE  Filtered(list, a, k, Left(list, a, k, r))
<1>1. list[k] \in BlockId
  OBVIOUS
<1>2. CASE list[k][1] = a
  <2>1. {j \in 1..k : list[j][1] # a} = {j \in 1..(k - 1) : list[j][1] # a}
    BY <1>2
  <2> QED
    BY <1>2, <2>1 DEF Filtered, Left
<1>3. CASE list[k][1] # a
  <2>1. Left(list, a, k, r) = Append(r, list[k])
    BY <1>3 DEF Left
  <2>2. {j \in 1..k : list[j][1] # a} = {j \in 1..(k - 1) : list[j][1] # a} \cup {k}
    BY <1>3
  <2>3. /\ Append(r, list[k]) \in Seq(BlockId)
        /\ Range(Append(r, list[k])) = Range(r) \cup {list[k]}
        /\ IsInjective(r) /\ list[k] \notin Range(r) => IsInjective(Append(r, list[k]))
    <3>1. r \in Seq(BlockId)
      BY DEF Filtered
    <3> QED
      BY <1>1, <3>1, PushBack
  <2>4. ASSUME IsInjective(list) PROVE list[k] \notin Range(r)
    <3>1. \A i, j \in 1..Len(list) : list[i] = list[j] => i = j
      BY <2>4, RangeByIndex
    <3>2. \A i \in 1..(k - 1) : list[i] # list[k]
      BY <3>1
    <3> QED
      BY <3>2 DEF Filtered
  <2>5. Range(Append(r, list[k])) = {list[i] : i \in {j \in 1..k : list[j][1] # a}}
    BY <2>2, <2>3 DEF Filtered
  <2> QED
    BY <2>1, <2>3, <2>4, <2>5 DEF Filtered
<1> QED
  BY <1>2, <1>3

\* WithoutArena() leaves the other blocks.
LEMMA WithoutIs ==
  ASSUME NEW list \in Seq(BlockId), NEW a
  PROVE  /\ WithoutArena(list, a) \in Seq(BlockId)
         /\ Range(WithoutArena(list, a)) = {b \in Range(list) : b[1] # a}
         /\ IsInjective(list) => IsInjective(WithoutArena(list, a))
<1> PICK n \in Nat : n = Len(list)
  OBVIOUS
<1> DEFINE rest == CHOOSE f : Turns(list, a, n, f)
<1>1. Turns(list, a, n, rest)
  BY TurnsExist
<1>2. WithoutArena(list, a) = rest[n]
  BY DEF WithoutArena, Turns, Left
<1> HIDE DEF rest
<1>3. \A k \in 0..n : rest[k] = IF k = 0 THEN <<>> ELSE Left(list, a, k, rest[k - 1])
  BY <1>1 DEF Turns
<1> DEFINE bad == {k \in 0..n : ~Filtered(list, a, k, rest[k])}
<1>4. ASSUME bad # {} PROVE FALSE
  <2>1. PICK m \in bad : \A k \in bad : m =< k
    <3>1. bad \subseteq Nat
      OBVIOUS
    <3> QED
      BY <1>4, <3>1, FirstNat
  <2>2. m # 0
    <3>1. Filtered(list, a, 0, <<>>)
      BY DEF Filtered, Range, IsInjective
    <3> QED
      BY <1>3, <2>1, <3>1
  <2>3. m \in 1..Len(list) /\ m - 1 \in 0..n /\ ~(m - 1 \in bad)
    BY <2>1, <2>2
  <2>4. Filtered(list, a, m - 1, rest[m - 1])
    BY <2>3
  <2>5. Filtered(list, a, m, rest[m])
    BY <1>3, <2>2, <2>3, <2>4, OneTurn
  <2> QED
    BY <2>1, <2>5
<1>5. Filtered(list, a, n, rest[n])
  BY <1>4
<1>6. {list[i] : i \in {j \in 1..n : list[j][1] # a}} = {b \in Range(list) : b[1] # a}
  BY RangeByIndex
<1> QED
  BY <1>2, <1>5, <1>6 DEF Filtered

-----------------------------------------------------------------------------
(* The inductive invariant. *)

MallocTypeOK ==
  /\ used_map \subseteq Pg /\ pool_lock \in Client \cup {NOBODY}
  /\ free_list \in [Desc -> Seq(BlockId)]
  /\ arena \in [Pg -> [desc : Desc \cup {NOBODY}, free_cnt : Nat]]
  /\ held \in [Client -> SUBSET BlockId]
  /\ mpc \in [Client -> {"idle", "pool", "scan", "mark", "got", "reset"}]
  /\ desc \in [Client -> Desc \cup {NOBODY}]
  /\ page \in [Client -> Nat] /\ cnt \in [Client -> Nat] /\ done \in [Client -> Nat]

\* What a client is about: the pages it found were free one by one, and nobody else
\* marks a page while it has the pool's lock.
Working(t) ==
  /\ mpc[t] \in {"idle", "pool"} => page[t] = 0 /\ done[t] = 0
  /\ mpc[t] = "idle" => desc[t] = NOBODY
  /\ mpc[t] # "idle" => cnt[t] > 0
  /\ desc[t] \in Desc => cnt[t] = 1
  /\ pool_lock = t <=> mpc[t] \in {"scan", "mark"}
  /\ done[t] =< cnt[t]
  /\ mpc[t] \in {"mark", "got", "reset"} => page[t] + cnt[t] =< PAGE_CNT
  /\ mpc[t] = "scan" => /\ done[t] > 0 => page[t] + cnt[t] =< PAGE_CNT
                        /\ \A x \in used_map : ~(page[t] =< x /\ x < page[t] + done[t])
  /\ mpc[t] = "mark" => /\ done[t] < cnt[t]
                        /\ \A x \in used_map : ~(page[t] + done[t] =< x /\ x < page[t] + cnt[t])
  /\ mpc[t] = "got" => done[t] = cnt[t]

\* x is a page of the arena or big block at p, or one that t is about to use or
\* give back.
Occupies(p, x) == arena[p] # NoArena /\ p =< x /\ x < p + Size(p)
Has(t, x) ==
  \/ mpc[t] \in {"mark", "got"} /\ page[t] =< x /\ x < page[t] + done[t]
  \/ mpc[t] = "reset" /\ page[t] + done[t] =< x /\ x < page[t] + cnt[t]

OwnedOnce(x) ==
  /\ \A p, q \in Pg : Occupies(p, x) /\ Occupies(q, x) => p = q
  /\ \A t, u \in Client : Has(t, x) /\ Has(u, x) => t = u
  /\ \A p \in Pg : \A t \in Client : ~(Occupies(p, x) /\ Has(t, x))
  /\ x \in used_map <=> (\E p \in Pg : Occupies(p, x)) \/ \E t \in Client : Has(t, x)
PagesInv ==
  /\ \A p \in Pg : arena[p] # NoArena => p + Size(p) =< PAGE_CNT
  /\ \A x \in Pg : OwnedOnce(x)

\* The blocks at p, those of them on a free list, and those that somebody uses.
BlocksAt(p) == IF arena[p].desc = NOBODY THEN 1 ELSE blocks_per_arena[arena[p].desc]
OnList(d, p) == {b \in Range(free_list[d]) : b[1] = p}
OnFreeList(p, i) == \E d \in Desc : d = arena[p].desc /\ <<p, i>> \in OnList(d, p)
InUse(p, i) == \E t \in Client : <<p, i>> \in held[t]

\* A block in use is one of an arena or a big block, and has one user; a block on a
\* free list is one of that descriptor, and has none.
HeldInv ==
  /\ \A t \in Client : \A b \in held[t] : arena[b[1]] # NoArena /\ b[2] < BlocksAt(b[1])
  /\ \A t, u \in Client : \A b \in held[t] : b \in held[u] => t = u
FreeOK(d) ==
  /\ IsInjective(free_list[d])
  /\ \A b \in Range(free_list[d]) : /\ arena[b[1]].desc = d /\ b[2] < blocks_per_arena[d]
                                    /\ \A t \in Client : b \notin held[t]
FreeInv == \A d \in Desc : FreeOK(d)

\* Every block is one or the other; not all are free.
ArenaOK(p) ==
  arena[p] # NoArena =>
    /\ \A i \in Nat : i < BlocksAt(p) => OnFreeList(p, i) \/ InUse(p, i)
    /\ \A d \in Desc : arena[p].desc = d =>
         arena[p].free_cnt = Cardinality(OnList(d, p)) /\ arena[p].free_cnt < blocks_per_arena[d]
ArenaInv == \A p \in Pg : ArenaOK(p)

MallocIInv == /\ MallocTypeOK /\ \A t \in Client : Working(t)
              /\ PagesInv /\ HeldInv /\ FreeInv /\ ArenaInv

-----------------------------------------------------------------------------
(* What a step of one client leaves alone. *)

Ready == MallocAssumption /\ MallocIInv

\* The other clients are where they were.
Apart(t) ==
  \A u \in Client \ {t} :
    /\ mpc'[u] = mpc[u] /\ desc'[u] = desc[u]
    /\ page'[u] = page[u] /\ cnt'[u] = cnt[u] /\ done'[u] = done[u]
    /\ pool_lock' = u <=> pool_lock = u

\* The others have the pages they had.
LEMMA OthersHave ==
  ASSUME NEW t \in Client, Apart(t), NEW u \in Client \ {t}, NEW x
  PROVE  Has(u, x)' <=> Has(u, x)
  BY DEF Apart, Has

\* They go on as they were if no page is marked, or by t with the pool's lock.
LEMMA OthersWork ==
  ASSUME Ready, NEW t \in Client, Apart(t), used_map' \subseteq used_map \/ pool_lock = t, Working(t)'
  PROVE  \A u \in Client : Working(u)'
<1> SUFFICES ASSUME NEW u \in Client \ {t} PROVE Working(u)'
  OBVIOUS
<1>1. Working(u)
  BY DEF Ready, MallocIInv
<1>2. /\ mpc'[u] = mpc[u] /\ desc'[u] = desc[u]
      /\ page'[u] = page[u] /\ cnt'[u] = cnt[u] /\ done'[u] = done[u]
      /\ pool_lock' = u <=> pool_lock = u
  BY DEF Apart
<1>3. CASE used_map' \subseteq used_map
  BY <1>1, <1>2, <1>3 DEF Working
<1>4. CASE pool_lock = t
  <2>1. mpc[u] \notin {"scan", "mark"}
    BY <1>1, <1>4 DEF Working
  <2> QED
    BY <1>1, <1>2, <2>1 DEF Working
<1> QED
  BY <1>3, <1>4

\* Nothing changes about the blocks.
LEMMA BlocksKept ==
  ASSUME Ready, UNCHANGED heap
  PROVE  HeldInv' /\ FreeInv' /\ ArenaInv'
<1>1. UNCHANGED <<free_list, arena, held>>
  BY DEF heap
<1> QED
  BY <1>1 DEF Ready, MallocIInv, HeldInv, FreeInv, FreeOK, ArenaInv, ArenaOK, BlocksAt, InUse, OnFreeList, OnList

\* Nor about whose the pages are.
LEMMA PagesKept ==
  ASSUME Ready, NEW t \in Client, Apart(t), UNCHANGED <<arena, used_map>>,
         \A x \in Pg : Has(t, x)' <=> Has(t, x)
  PROVE  PagesInv'
<1>1. ASSUME NEW x \in Pg PROVE OwnedOnce(x)'
  <2>1. OwnedOnce(x)
    BY DEF Ready, MallocIInv, PagesInv
  <2>2. ASSUME NEW u \in Client PROVE Has(u, x)' <=> Has(u, x)
    BY OthersHave
  <2>3. ASSUME NEW p \in Pg PROVE Occupies(p, x)' <=> Occupies(p, x)
    BY DEF Occupies, Size
  <2> HIDE DEF Occupies, Has
  <2> QED
    BY <2>1, <2>2, <2>3 DEF OwnedOnce
<1>2. ASSUME NEW p \in Pg, arena'[p] # NoArena PROVE p + Size(p)' =< PAGE_CNT
  BY <1>2 DEF Ready, MallocIInv, PagesInv, Size
<1> QED
  BY <1>1, <1>2 DEF PagesInv

-----------------------------------------------------------------------------
(* The steps of palloc.c. *)

\* palloc_get_multiple() gets the lock.
LEMMA LockPoolStep ==
  ASSUME Ready, NEW t \in Client, LockPool(t)
  PROVE  MallocIInv'
<1>1. Working(t) /\ MallocTypeOK /\ t # NOBODY
  BY DEF Ready, MallocIInv, MallocAssumption
<1>2. /\ mpc' = [mpc EXCEPT ![t] = "scan"] /\ pool_lock' = t /\ pool_lock = NOBODY /\ mpc[t] = "pool"
      /\ UNCHANGED <<used_map, free_list, arena, held, desc, page, cnt, done>>
  BY DEF LockPool, Goes, heap
<1>3. MallocTypeOK'
  BY <1>1, <1>2 DEF MallocTypeOK
<1>4. Apart(t)
  BY <1>1, <1>2 DEF Apart, MallocTypeOK, Ready, MallocAssumption
<1>5. /\ mpc'[t] = "scan" /\ page[t] = 0 /\ done[t] = 0 /\ cnt[t] \in Nat /\ cnt[t] > 0
      /\ used_map \subseteq Int
      /\ desc[t] \in Desc => cnt[t] = 1
  BY <1>1, <1>2 DEF Working, MallocTypeOK, Pg
<1>6. Working(t)'
  <2>1. ASSUME NEW x \in used_map PROVE ~(page[t] =< x /\ x < page[t] + done[t])
    <3>1. x \in Int /\ page[t] + done[t] = 0
      BY <1>5
    <3> QED
      BY <1>5, <3>1
  <2> QED
    BY <1>1, <1>2, <1>5, <2>1 DEF Working
<1>7. \A x \in Pg : Has(t, x)' <=> Has(t, x)
  BY <1>2, <1>5 DEF Has
<1>8. PagesInv'
  BY <1>2, <1>4, <1>7, PagesKept
<1>9. \A u \in Client : Working(u)'
  BY <1>2, <1>4, <1>6, OthersWork
<1> QED
  BY <1>2, <1>3, <1>8, <1>9, BlocksKept DEF MallocIInv, heap

\* bitmap_scan() tests a bit.
LEMMA ScanStep ==
  ASSUME Ready, NEW t \in Client, Scan(t)
  PROVE  MallocIInv'
<1>1. Working(t) /\ MallocTypeOK /\ used_map \subseteq Int
  <2>1. Working(t) /\ MallocTypeOK
    BY DEF Ready, MallocIInv
  <2>2. used_map \subseteq Pg /\ Pg \subseteq Int
    BY <2>1 DEF MallocTypeOK, Pg
  <2> QED
    BY <2>1, <2>2
<1>2. /\ mpc[t] = "scan" /\ page[t] + cnt[t] =< PAGE_CNT /\ done[t] < cnt[t]
      /\ UNCHANGED <<used_map, pool_lock, free_list, arena, held, mpc, desc, cnt>>
      /\ \/ page' = [page EXCEPT ![t] = page[t] + 1] /\ done' = [done EXCEPT ![t] = 0]
         \/ /\ page[t] + done[t] \notin used_map
            /\ done' = [done EXCEPT ![t] = done[t] + 1] /\ page' = page
  BY DEF Scan, heap
<1>3. page' \in [Client -> Nat] /\ done' \in [Client -> Nat]
  <2>1. page \in [Client -> Nat] /\ done \in [Client -> Nat]
    BY <1>1 DEF MallocTypeOK
  <2>2. page[t] + 1 \in Nat /\ done[t] + 1 \in Nat
    BY <2>1
  <2> QED
    BY <1>2, <2>1, <2>2
<1>4. MallocTypeOK'
  BY <1>1, <1>2, <1>3 DEF MallocTypeOK
<1>5. Apart(t)
  BY <1>1, <1>2 DEF Apart, MallocTypeOK
<1>6. Working(t)'
  <2>1. page[t] \in Nat /\ cnt[t] \in Nat /\ done[t] \in Nat
    BY <1>1 DEF MallocTypeOK
  <2>2. CASE page' = [page EXCEPT ![t] = page[t] + 1] /\ done' = [done EXCEPT ![t] = 0]
    <3>1. page'[t] = page[t] + 1 /\ done'[t] = 0
      BY <1>1, <2>2 DEF MallocTypeOK
    <3> QED
      BY <1>1, <1>2, <2>1, <3>1 DEF Working
  <2>3. CASE page[t] + done[t] \notin used_map
             /\ done' = [done EXCEPT ![t] = done[t] + 1] /\ page' = page
    <3>1. done'[t] = done[t] + 1
      BY <1>1, <2>3 DEF MallocTypeOK
    <3>2. \A x \in used_map : ~(page[t] =< x /\ x < page[t] + (done[t] + 1))
      <4>1. \A x \in used_map : ~(page[t] =< x /\ x < page[t] + done[t])
        BY <1>1, <1>2 DEF Working
      <4>2. PICK p \in Nat, d \in Nat : p = page[t] /\ d = done[t]
        BY <2>1
      <4>3. ASSUME NEW x \in used_map, p =< x, x < p + (d + 1) PROVE FALSE
        <5>1. x \in Int /\ x # p + d
          BY <1>1, <2>3, <4>2
        <5>2. x < p + d
          BY <4>3, <5>1
        <5> QED
          BY <4>1, <4>2, <4>3, <5>2
      <4> QED
        BY <4>2, <4>3
    <3> QED
      BY <1>1, <1>2, <2>1, <2>3, <3>1, <3>2 DEF Working
  <2> QED
    BY <1>2, <2>2, <2>3
<1>7. \A x \in Pg : Has(t, x)' <=> Has(t, x)
  BY <1>2 DEF Has
<1>8. PagesInv'
  BY <1>2, <1>5, <1>7, PagesKept
<1>9. \A u \in Client : Working(u)'
  BY <1>2, <1>5, <1>6, OthersWork
<1> QED
  BY <1>2, <1>4, <1>8, <1>9, BlocksKept DEF MallocIInv, heap

\* It has found a group.
LEMMA ScanFindsStep ==
  ASSUME Ready, NEW t \in Client, ScanFinds(t)
  PROVE  MallocIInv'
<1>1. Working(t) /\ MallocTypeOK
  BY DEF Ready, MallocIInv
<1>2. /\ mpc[t] = "scan" /\ done[t] = cnt[t] /\ mpc' = [mpc EXCEPT ![t] = "mark"]
      /\ done' = [done EXCEPT ![t] = 0]
      /\ UNCHANGED <<used_map, pool_lock, free_list, arena, held, desc, page, cnt>>
  BY DEF ScanFinds, Goes, heap
<1>3. MallocTypeOK'
  BY <1>1, <1>2 DEF MallocTypeOK
<1>4. Apart(t)
  BY <1>1, <1>2 DEF Apart, MallocTypeOK
<1>5. /\ mpc'[t] = "mark" /\ done'[t] = 0
      /\ page[t] \in Nat /\ cnt[t] \in Nat
  BY <1>1, <1>2 DEF MallocTypeOK
<1>6. Working(t)'
  BY <1>1, <1>2, <1>5 DEF Working
<1>7. \A x \in Pg : Has(t, x)' <=> Has(t, x)
  BY <1>2, <1>5 DEF Has, Pg
<1>8. PagesInv'
  BY <1>2, <1>4, <1>7, PagesKept
<1>9. \A u \in Client : Working(u)'
  BY <1>2, <1>4, <1>6, OthersWork
<1> QED
  BY <1>2, <1>3, <1>8, <1>9, BlocksKept DEF MallocIInv, heap

\* The thread is back where malloc() began, or free() ends.
LEMMA BackToIdle ==
  ASSUME Ready, NEW t \in Client, mpc[t] = "scan" \/ (mpc[t] = "reset" /\ done[t] = cnt[t]),
         mpc' = [mpc EXCEPT ![t] = "idle"], desc' = [desc EXCEPT ![t] = NOBODY],
         page' = [page EXCEPT ![t] = 0], cnt' = [cnt EXCEPT ![t] = 0], done' = [done EXCEPT ![t] = 0],
         pool_lock' = IF mpc[t] = "scan" THEN NOBODY ELSE pool_lock,
         UNCHANGED <<used_map, free_list, arena, held>>
  PROVE  MallocIInv'
<1>1. Working(t) /\ MallocTypeOK /\ NOBODY \notin Client \cup Desc
  BY DEF Ready, MallocIInv, MallocAssumption
<1>2. MallocTypeOK'
  BY <1>1 DEF MallocTypeOK
<1>3. pool_lock = t <=> mpc[t] = "scan"
  BY <1>1 DEF Working
<1>4. Apart(t)
  BY <1>1, <1>3 DEF Apart, MallocTypeOK
<1>5. /\ mpc'[t] = "idle" /\ desc'[t] = NOBODY /\ page'[t] = 0 /\ cnt'[t] = 0 /\ done'[t] = 0
      /\ pool_lock' # t
  BY <1>1, <1>3 DEF MallocTypeOK
<1>6. Working(t)'
  BY <1>1, <1>5 DEF Working
<1>7. \A x \in Pg : Has(t, x)' <=> Has(t, x)
  BY <1>1, <1>5 DEF Has, Pg, MallocTypeOK
<1>8. PagesInv'
  BY <1>4, <1>7, PagesKept
<1>9. \A u \in Client : Working(u)'
  BY <1>4, <1>6, OthersWork
<1> QED
  BY <1>2, <1>8, <1>9, BlocksKept DEF MallocIInv, heap

\* There is no group.
LEMMA ScanFailsStep ==
  ASSUME Ready, NEW t \in Client, ScanFails(t)
  PROVE  MallocIInv'
  BY BackToIdle DEF ScanFails, Goes, heap

\* ... and has cleared them all.
LEMMA ResetEndsStep ==
  ASSUME Ready, NEW t \in Client, ResetEnds(t)
  PROVE  MallocIInv'
  BY BackToIdle DEF ResetEnds, Goes, heap

\* t marks or clears the bit of page y, and y goes to it or leaves it; the arenas
\* and big blocks stay.
LEMMA PageMoves ==
  ASSUME Ready, NEW t \in Client, Apart(t), UNCHANGED arena, NEW y \in Pg,
         \A x \in Pg \ {y} : (Has(t, x)' <=> Has(t, x)) /\ (x \in used_map' <=> x \in used_map),
         \/ ~Has(t, y) /\ y \notin used_map /\ Has(t, y)' /\ y \in used_map'
         \/ Has(t, y) /\ ~Has(t, y)' /\ y \notin used_map'
  PROVE  PagesInv'
<1>1. ASSUME NEW x \in Pg PROVE OwnedOnce(x)'
  <2>1. OwnedOnce(x)
    BY DEF Ready, MallocIInv, PagesInv
  <2>2. ASSUME NEW u \in Client, u # t PROVE Has(u, x)' <=> Has(u, x)
    BY <2>2, OthersHave
  <2>3. ASSUME NEW p \in Pg PROVE Occupies(p, x)' <=> Occupies(p, x)
    BY DEF Occupies, Size
  <2> HIDE DEF Occupies, Has
  <2>4. CASE x # y
    <3>1. (Has(t, x)' <=> Has(t, x)) /\ (x \in used_map' <=> x \in used_map)
      BY <2>4
    <3> QED
      BY <2>1, <2>2, <2>3, <3>1 DEF OwnedOnce
  <2>5. CASE x = y
    BY <2>1, <2>2, <2>3, <2>5 DEF OwnedOnce
  <2> QED
    BY <2>4, <2>5
<1>2. ASSUME NEW p \in Pg, arena'[p] # NoArena PROVE p + Size(p)' =< PAGE_CNT
  BY <1>2 DEF Ready, MallocIInv, PagesInv, Size
<1> QED
  BY <1>1, <1>2 DEF PagesInv

\* bitmap_set_multiple() marks a page.
LEMMA MarkStep ==
  ASSUME Ready, NEW t \in Client, Mark(t)
  PROVE  MallocIInv'
<1>1. Working(t) /\ MallocTypeOK /\ NOBODY \notin Client \cup Desc /\ PAGE_CNT \in Nat
  BY DEF Ready, MallocIInv, MallocAssumption
<1>2. /\ mpc[t] = "mark" /\ used_map' = used_map \cup {page[t] + done[t]}
      /\ done' = [done EXCEPT ![t] = done[t] + 1]
      /\ IF done[t] + 1 < cnt[t] THEN pool_lock' = pool_lock /\ mpc' = mpc
           ELSE pool_lock' = NOBODY /\ mpc' = [mpc EXCEPT ![t] = "got"]
      /\ UNCHANGED <<free_list, arena, held, desc, page, cnt>>
  BY DEF Mark, Goes, heap
<1>3. /\ page[t] \in Nat /\ cnt[t] \in Nat /\ done[t] \in Nat /\ done[t] < cnt[t]
      /\ page[t] + cnt[t] =< PAGE_CNT /\ pool_lock = t /\ used_map \subseteq Pg
      /\ \A x \in used_map : ~(page[t] + done[t] =< x /\ x < page[t] + cnt[t])
  BY <1>1, <1>2 DEF Working, MallocTypeOK
<1>4. PICK y \in Pg : y = page[t] + done[t] /\ y \notin used_map
  BY <1>1, <1>3 DEF Pg
<1>5. /\ done'[t] = done[t] + 1
      /\ IF done[t] + 1 < cnt[t] THEN pool_lock' = t /\ mpc'[t] = "mark"
           ELSE pool_lock' = NOBODY /\ mpc'[t] = "got"
  BY <1>1, <1>2, <1>3 DEF MallocTypeOK
<1>6. MallocTypeOK'
  <2>1. used_map' \subseteq Pg /\ pool_lock' \in Client \cup {NOBODY}
    BY <1>1, <1>2, <1>3, <1>4
  <2>2. done' \in [Client -> Nat]
    BY <1>1, <1>2, <1>3 DEF MallocTypeOK
  <2>3. mpc' \in [Client -> {"idle", "pool", "scan", "mark", "got", "reset"}]
    BY <1>1, <1>2 DEF MallocTypeOK
  <2> QED
    BY <1>1, <1>2, <2>1, <2>2, <2>3 DEF MallocTypeOK
<1>7. Apart(t)
  BY <1>1, <1>2, <1>3 DEF Apart, MallocTypeOK
<1>8. Working(t)'
  <2>1. \A x \in used_map' : x \in Int /\ ~(page[t] + (done[t] + 1) =< x /\ x < page[t] + cnt[t])
    BY <1>2, <1>3 DEF Pg
  <2>2. (desc[t] \in Desc => cnt[t] = 1) /\ t # NOBODY
    BY <1>1 DEF Working
  <2>3. CASE done[t] + 1 < cnt[t]
    BY <1>2, <1>3, <1>5, <2>1, <2>2, <2>3 DEF Working
  <2>4. CASE ~(done[t] + 1 < cnt[t])
    BY <1>2, <1>3, <1>5, <2>2, <2>4 DEF Working
  <2> QED
    BY <2>3, <2>4
<1>9. PagesInv'
  <2>1. ~Has(t, y) /\ Has(t, y)'
    BY <1>2, <1>3, <1>4, <1>5 DEF Has
  <2>2. \A x \in Pg \ {y} : Has(t, x)' <=> Has(t, x)
    BY <1>1, <1>2, <1>3, <1>4, <1>5 DEF Has, Pg
  <2> QED
    BY <1>2, <1>4, <1>7, <2>1, <2>2, PageMoves
<1>10. \A u \in Client : Working(u)'
  BY <1>3, <1>7, <1>8, OthersWork
<1> QED
  BY <1>2, <1>6, <1>9, <1>10, BlocksKept DEF MallocIInv, heap

\* palloc_free_multiple() clears the bit of a page.
LEMMA ResetStep ==
  ASSUME Ready, NEW t \in Client, Reset(t)
  PROVE  MallocIInv'
<1>1. Working(t) /\ MallocTypeOK /\ PAGE_CNT \in Nat
  BY DEF Ready, MallocIInv, MallocAssumption
<1>2. /\ mpc[t] = "reset" /\ done[t] < cnt[t] /\ used_map' = used_map \ {page[t] + done[t]}
      /\ done' = [done EXCEPT ![t] = done[t] + 1]
      /\ UNCHANGED <<pool_lock, free_list, arena, held, mpc, desc, page, cnt>>
  BY DEF Reset, heap
<1>3. /\ page[t] \in Nat /\ cnt[t] \in Nat /\ done[t] \in Nat /\ page[t] + cnt[t] =< PAGE_CNT
      /\ done'[t] = done[t] + 1
  BY <1>1, <1>2 DEF Working, MallocTypeOK
<1>4. PICK y \in Pg : y = page[t] + done[t]
  BY <1>1, <1>2, <1>3 DEF Pg
<1>5. MallocTypeOK'
  <2>1. used_map' \subseteq Pg
    BY <1>1, <1>2 DEF MallocTypeOK
  <2>2. done' \in [Client -> Nat]
    BY <1>1, <1>2, <1>3 DEF MallocTypeOK
  <2> QED
    BY <1>1, <1>2, <2>1, <2>2 DEF MallocTypeOK
<1>6. Apart(t)
  BY <1>1, <1>2 DEF Apart, MallocTypeOK
<1>7. Working(t)'
  BY <1>1, <1>2, <1>3 DEF Working
<1>8. PagesInv'
  <2>1. Has(t, y) /\ ~Has(t, y)'
    BY <1>2, <1>3, <1>4 DEF Has
  <2>2. \A x \in Pg \ {y} : Has(t, x)' <=> Has(t, x)
    BY <1>1, <1>2, <1>3, <1>4 DEF Has, Pg
  <2> QED
    BY <1>2, <1>4, <1>6, <2>1, <2>2, PageMoves
<1>9. \A u \in Client : Working(u)'
  BY <1>2, <1>6, <1>7, OthersWork
<1> QED
  BY <1>2, <1>5, <1>8, <1>9, BlocksKept DEF MallocIInv, heap

\* palloc_get_multiple() is called from malloc().
LEMMA CallPalloc ==
  ASSUME Ready, NEW t \in Client, NEW n \in Nat \ {0}, NEW d \in Desc \cup {NOBODY},
         d \in Desc => n = 1, mpc[t] = "idle", palloc_get_multiple(t, n),
         desc' = [desc EXCEPT ![t] = d], UNCHANGED <<used_map, pool_lock, heap, page, done>>
  PROVE  MallocIInv'
<1>1. Working(t) /\ MallocTypeOK
  BY DEF Ready, MallocIInv
<1>2. /\ mpc' = [mpc EXCEPT ![t] = "pool"] /\ cnt' = [cnt EXCEPT ![t] = n]
      /\ UNCHANGED <<free_list, arena, held>>
  BY DEF palloc_get_multiple, Goes, heap
<1>3. MallocTypeOK'
  BY <1>1, <1>2 DEF MallocTypeOK
<1>4. Apart(t)
  BY <1>1, <1>2 DEF Apart, MallocTypeOK
<1>5. mpc'[t] = "pool" /\ desc'[t] = d /\ cnt'[t] = n /\ page[t] = 0 /\ done[t] = 0
  BY <1>1, <1>2 DEF MallocTypeOK, Working
<1>6. Working(t)'
  BY <1>1, <1>5 DEF Working
<1>7. \A x \in Pg : Has(t, x)' <=> Has(t, x)
  BY <1>5 DEF Has
<1>8. PagesInv'
  BY <1>2, <1>4, <1>7, PagesKept
<1>9. \A u \in Client : Working(u)'
  BY <1>4, <1>6, OthersWork
<1> QED
  BY <1>2, <1>3, <1>8, <1>9, BlocksKept DEF MallocIInv

\* malloc() asks for a page for an arena,
LEMMA MallocArenaStep ==
  ASSUME Ready, NEW t \in Client, NEW d \in Desc, MallocArena(t, d)
  PROVE  MallocIInv'
<1>1. /\ mpc[t] = "idle" /\ palloc_get_multiple(t, 1) /\ desc' = [desc EXCEPT ![t] = d]
      /\ UNCHANGED <<used_map, pool_lock, heap, page, done>>
  BY DEF MallocArena, CanMalloc
<1>2. 1 \in Nat \ {0} /\ d \in Desc \cup {NOBODY}
  OBVIOUS
<1> QED
  BY <1>1, <1>2, CallPalloc

\* ... or for those of a big block.
LEMMA MallocBigStep ==
  ASSUME Ready, NEW t \in Client, NEW n \in Big, MallocBig(t, n)
  PROVE  MallocIInv'
<1>1. n \in Nat \ {0} /\ MallocTypeOK /\ Working(t) /\ mpc[t] = "idle"
  BY DEF Ready, MallocIInv, MallocAssumption, MallocBig, CanMalloc
<1>2. desc' = [desc EXCEPT ![t] = NOBODY]
  BY <1>1 DEF MallocBig, Working, MallocTypeOK
<1> QED
  BY <1>1, <1>2, CallPalloc DEF MallocBig, Ready, MallocAssumption

-----------------------------------------------------------------------------
(* The steps of malloc.c. *)

\* What is at p.
LEMMA WhatIsAt ==
  ASSUME Ready, NEW p \in Pg
  PROVE  /\ p \in Nat /\ arena[p].desc \in Desc \cup {NOBODY} /\ arena[p].free_cnt \in Nat
         /\ Size(p) \in Nat /\ BlocksAt(p) \in Nat /\ BlocksAt(p) > 0
         /\ arena[p] # NoArena => Size(p) > 0 /\ Occupies(p, p)
         /\ arena[p].desc \in Desc => arena[p] # NoArena
<1>1. /\ p \in Nat /\ arena[p] \in [desc : Desc \cup {NOBODY}, free_cnt : Nat]
      /\ blocks_per_arena \in [Desc -> Nat \ {0}] /\ NOBODY \notin Desc
  BY DEF Ready, MallocIInv, MallocTypeOK, MallocAssumption, Pg
<1>2. arena[p].desc \in Desc \cup {NOBODY} /\ arena[p].free_cnt \in Nat
  BY <1>1
<1>3. Size(p) \in Nat /\ BlocksAt(p) \in Nat /\ BlocksAt(p) > 0
  BY <1>1, <1>2 DEF Size, BlocksAt
<1>4. arena[p].desc = NOBODY /\ arena[p].free_cnt = 0 => arena[p] = NoArena
  BY <1>1 DEF NoArena
<1>5. arena[p].desc \in Desc => arena[p] # NoArena
  BY <1>1 DEF NoArena
<1>6. arena[p] # NoArena => Size(p) > 0
  BY <1>2, <1>4 DEF Size
<1> QED
  BY <1>1, <1>2, <1>3, <1>5, <1>6 DEF Occupies

\* A free list has finitely many blocks.
LEMMA ListFinite ==
  ASSUME Ready, NEW d \in Desc, NEW p
  PROVE  IsFiniteSet(OnList(d, p)) /\ Cardinality(OnList(d, p)) \in Nat
<1>1. PICK q \in Seq(BlockId) : q = free_list[d]
  BY DEF Ready, MallocIInv, MallocTypeOK
<1>2. q \in [1..Len(q) -> Range(q)] /\ \A x \in Range(q) : \E i \in 1..Len(q) : q[i] = x
  BY RangeByIndex DEF Range
<1>3. q \in Surjection(1..Len(q), Range(q))
  BY <1>2 DEF Surjection
<1>4. IsFiniteSet(1..Len(q))
  BY FS_Interval
<1>5. IsFiniteSet(Range(q))
  BY <1>3, <1>4, FS_Surjection
<1> QED
  BY <1>1, <1>5, FS_Subset, FS_CardinalityType DEF OnList

\* Pages go from t to an arena or big block at p, or from there to t, or stay.
LEMMA ClaimMoves ==
  ASSUME Ready, NEW t \in Client, Apart(t), NEW p \in Pg, UNCHANGED used_map,
         \A q \in Pg \ {p} : arena'[q] = arena[q],
         \A x \in Pg : (Occupies(p, x)' \/ Has(t, x)') <=> (Occupies(p, x) \/ Has(t, x)),
         \A x \in Pg : ~(Occupies(p, x)' /\ Has(t, x)'),
         arena'[p] # NoArena => p + Size(p)' =< PAGE_CNT
  PROVE  PagesInv'
<1>1. ASSUME NEW x \in Pg PROVE OwnedOnce(x)'
  <2>1. OwnedOnce(x)
    BY DEF Ready, MallocIInv, PagesInv
  <2>2. ASSUME NEW u \in Client, u # t PROVE Has(u, x)' <=> Has(u, x)
    BY <2>2, OthersHave
  <2>3. ASSUME NEW q \in Pg, q # p PROVE Occupies(q, x)' <=> Occupies(q, x)
    BY <2>3 DEF Occupies, Size
  <2>4. /\ (Occupies(p, x)' \/ Has(t, x)') <=> (Occupies(p, x) \/ Has(t, x))
        /\ ~(Occupies(p, x)' /\ Has(t, x)')
    OBVIOUS
  <2> HIDE DEF Occupies, Has
  <2>5. (\A q, r \in Pg : Occupies(q, x) /\ Occupies(r, x) => q = r)'
    BY <2>1, <2>3, <2>4 DEF OwnedOnce
  <2>6. (\A u, v \in Client : Has(u, x) /\ Has(v, x) => u = v)'
    BY <2>1, <2>2, <2>4 DEF OwnedOnce
  <2>7. (\A q \in Pg : \A u \in Client : ~(Occupies(q, x) /\ Has(u, x)))'
    BY <2>1, <2>2, <2>3, <2>4 DEF OwnedOnce
  <2>8. (x \in used_map <=> (\E q \in Pg : Occupies(q, x)) \/ \E u \in Client : Has(u, x))'
    BY <2>1, <2>2, <2>3, <2>4 DEF OwnedOnce
  <2> QED
    BY <2>5, <2>6, <2>7, <2>8 DEF OwnedOnce
<1>2. ASSUME NEW q \in Pg, arena'[q] # NoArena PROVE q + Size(q)' =< PAGE_CNT
  BY <1>2 DEF Ready, MallocIInv, PagesInv, Size
<1> QED
  BY <1>1, <1>2 DEF PagesInv

\* An arena of which no block is taken or given back.
LEMMA ArenaKept ==
  ASSUME Ready, NEW p \in Pg, arena'[p] = arena[p],
         \A d \in Desc : OnList(d, p)' = OnList(d, p),
         \A i \in Nat : InUse(p, i)' <=> InUse(p, i)
  PROVE  ArenaOK(p)'
<1>1. ArenaOK(p)
  BY DEF Ready, MallocIInv, ArenaInv
<1>2. \A i \in Nat : OnFreeList(p, i)' <=> OnFreeList(p, i)
  BY DEF OnFreeList
<1>3. BlocksAt(p)' = BlocksAt(p)
  BY DEF BlocksAt
<1> HIDE DEF InUse, OnFreeList, OnList
<1> QED
  BY <1>1, <1>2, <1>3 DEF ArenaOK

\* A descriptor's arena p, of which free_cnt changes: it still has its page.
LEMMA SamePages ==
  ASSUME Ready, NEW t \in Client, Apart(t), NEW p \in Pg, UNCHANGED <<used_map, mpc, page, cnt, done>>,
         \A q \in Pg \ {p} : arena'[q] = arena[q],
         arena[p].desc \in Desc, arena'[p] # NoArena, arena'[p].desc = arena[p].desc
  PROVE  PagesInv'
<1>1. arena[p] # NoArena /\ NOBODY \notin Desc
  BY WhatIsAt DEF Ready, MallocAssumption
<1>2. Size(p) = 1 /\ Size(p)' = 1
  BY <1>1 DEF Size
<1>3. \A x \in Pg : (Occupies(p, x)' <=> Occupies(p, x)) /\ (Has(t, x)' <=> Has(t, x))
  BY <1>1, <1>2 DEF Occupies, Has
<1>4. \A x \in Pg : ~(Occupies(p, x) /\ Has(t, x))
  BY DEF Ready, MallocIInv, PagesInv, OwnedOnce
<1>5. p + Size(p)' =< PAGE_CNT
  BY <1>1, <1>2 DEF Ready, MallocIInv, PagesInv
<1> HIDE DEF Occupies, Has
<1> QED
  BY <1>3, <1>4, <1>5, ClaimMoves

\* With a block more, or less, on its descriptor's list, everything else is as it was.
OtherBlocksKept(t, b) ==
  /\ \A q \in Pg \ {b[1]} : arena'[q] = arena[q]
  /\ \A e \in Desc : \A c \in BlockId : c # b => (c \in Range(free_list'[e]) <=> c \in Range(free_list[e]))
  /\ \A u \in Client : \A c \in BlockId : c # b => (c \in held'[u] <=> c \in held[u])

\* Another arena keeps what holds of it.
LEMMA OtherArenas ==
  ASSUME Ready, MallocTypeOK', NEW t \in Client, NEW b \in BlockId, OtherBlocksKept(t, b),
         NEW p \in Pg, p # b[1]
  PROVE  ArenaOK(p)'
<1>1. \A i : <<p, i>> # b
  OBVIOUS
<1>2. ASSUME NEW d \in Desc
      PROVE  Range(free_list[d]) \subseteq BlockId /\ Range(free_list'[d]) \subseteq BlockId
  <2>1. free_list[d] \in Seq(BlockId) /\ free_list'[d] \in Seq(BlockId)
    BY DEF Ready, MallocIInv, MallocTypeOK
  <2> QED
    BY <2>1, RangeByIndex
<1>3. \A d \in Desc : OnList(d, p)' = OnList(d, p)
  BY <1>1, <1>2 DEF OnList, OtherBlocksKept
<1>4. \A i \in Nat : <<p, i>> \in BlockId
  BY DEF BlockId
<1>5. \A i \in Nat : InUse(p, i)' <=> InUse(p, i)
  BY <1>1, <1>4 DEF InUse, OtherBlocksKept
<1> QED
  BY <1>3, <1>5, ArenaKept DEF OtherBlocksKept

\* malloc() of a block from the free list.
LEMMA mallocStep ==
  ASSUME Ready, NEW t \in Client, NEW d \in Desc, malloc(t, d)
  PROVE  MallocIInv'
<1>1. Working(t) /\ MallocTypeOK /\ NOBODY \notin Desc /\ blocks_per_arena[d] \in Nat
  BY DEF Ready, MallocIInv, MallocAssumption
<1>2. PICK b : b = Head(free_list[d])
  OBVIOUS
<1>3. /\ free_list' = [free_list EXCEPT ![d] = Tail(free_list[d])]
      /\ arena' = [arena EXCEPT ![b[1]].free_cnt = @ - 1]
      /\ held' = [held EXCEPT ![t] = held[t] \cup {b}]
      /\ free_list[d] # <<>> /\ mpc[t] = "idle"
      /\ UNCHANGED <<used_map, pool_lock, mpc, desc, page, cnt, done>>
  BY <1>2 DEF malloc, CanMalloc
<1>4. PICK q \in Seq(BlockId) : q = free_list[d]
  BY <1>1 DEF MallocTypeOK
<1>5. /\ b \in Range(q) /\ Tail(q) \in Seq(BlockId) /\ Range(q) = Range(Tail(q)) \cup {b}
      /\ IsInjective(q) => IsInjective(Tail(q)) /\ b \notin Range(Tail(q))
  BY <1>2, <1>3, <1>4, PopFront
<1>6. b \in BlockId /\ b[1] \in Pg /\ b[2] \in Nat /\ b = <<b[1], b[2]>>
  <2>1. Range(q) \subseteq BlockId
    BY RangeByIndex
  <2>2. b \in BlockId
    BY <1>5, <2>1
  <2> QED
    BY <2>2 DEF BlockId
<1>7. PICK p \in Pg : p = b[1]
  BY <1>6
<1>8. FreeOK(d) /\ \A e \in Desc : FreeOK(e)
  BY DEF Ready, MallocIInv, FreeInv
<1>9. /\ arena[p].desc = d /\ b[2] < blocks_per_arena[d] /\ (\A u \in Client : b \notin held[u])
      /\ IsInjective(Tail(q)) /\ b \notin Range(Tail(q))
  BY <1>4, <1>5, <1>7, <1>8 DEF FreeOK
<1>10. /\ arena[p] # NoArena /\ arena[p].free_cnt \in Nat /\ BlocksAt(p) = blocks_per_arena[d]
       /\ arena[p] \in [desc : Desc \cup {NOBODY}, free_cnt : Nat]
  BY <1>1, <1>9, WhatIsAt DEF BlocksAt, MallocTypeOK
<1>11. \A e \in Desc : e # d => b \notin Range(free_list[e])
  BY <1>7, <1>8, <1>9 DEF FreeOK
<1>12. /\ free_list'[d] = Tail(q) /\ \A e \in Desc : e # d => free_list'[e] = free_list[e]
  BY <1>1, <1>3, <1>4 DEF MallocTypeOK
<1>13. \A e \in Desc : Range(free_list'[e]) = Range(free_list[e]) \ {b}
  <2>1. Range(free_list'[d]) = Range(free_list[d]) \ {b}
    BY <1>4, <1>5, <1>9, <1>12
  <2> QED
    BY <1>11, <1>12, <2>1
<1>14. /\ arena'[p].desc = d /\ arena'[p].free_cnt = arena[p].free_cnt - 1
       /\ \A r \in Pg \ {p} : arena'[r] = arena[r]
  BY <1>1, <1>3, <1>7, <1>9, <1>10 DEF MallocTypeOK
<1>15. held'[t] = held[t] \cup {b} /\ \A u \in Client : u # t => held'[u] = held[u]
  BY <1>1, <1>3 DEF MallocTypeOK
<1>16. OtherBlocksKept(t, b)
  BY <1>7, <1>13, <1>14, <1>15 DEF OtherBlocksKept
<1>17. ArenaOK(p)
  BY DEF Ready, MallocIInv, ArenaInv
<1>18. /\ OnList(d, p)' = OnList(d, p) \ {b} /\ b \in OnList(d, p)
  BY <1>4, <1>5, <1>7, <1>13 DEF OnList
<1>19. /\ arena[p].free_cnt = Cardinality(OnList(d, p)) /\ arena[p].free_cnt < blocks_per_arena[d]
       /\ arena'[p].free_cnt = Cardinality(OnList(d, p)') /\ arena'[p].free_cnt \in Nat
  <2>1. arena[p].free_cnt = Cardinality(OnList(d, p)) /\ arena[p].free_cnt < blocks_per_arena[d]
    BY <1>9, <1>10, <1>17 DEF ArenaOK
  <2>2. IsFiniteSet(OnList(d, p))
    BY ListFinite
  <2>3. /\ Cardinality(OnList(d, p) \ {b}) = Cardinality(OnList(d, p)) - 1
        /\ IsFiniteSet(OnList(d, p) \ {b})
    BY <1>18, <2>2, FS_RemoveElement
  <2>4. Cardinality(OnList(d, p) \ {b}) \in Nat
    BY <2>3, FS_CardinalityType
  <2> QED
    BY <1>14, <1>18, <2>1, <2>3, <2>4
<1>20. MallocTypeOK'
  <2>1. free_list' \in [Desc -> Seq(BlockId)]
    BY <1>1, <1>3, <1>4, <1>5 DEF MallocTypeOK
  <2>2. held' \in [Client -> SUBSET BlockId]
    BY <1>1, <1>3, <1>6 DEF MallocTypeOK
  <2>3. arena' \in [Pg -> [desc : Desc \cup {NOBODY}, free_cnt : Nat]]
    <3>1. arena[p].free_cnt - 1 \in Nat
      BY <1>14, <1>19
    <3>2. [arena[p] EXCEPT !.free_cnt = @ - 1] \in [desc : Desc \cup {NOBODY}, free_cnt : Nat]
      BY <1>10, <3>1
    <3>3. arena' = [arena EXCEPT ![p] = [arena[p] EXCEPT !.free_cnt = @ - 1]]
      BY <1>3, <1>7
    <3> QED
      BY <1>1, <3>2, <3>3 DEF MallocTypeOK
  <2> QED
    BY <1>1, <1>3, <2>1, <2>2, <2>3 DEF MallocTypeOK
<1>21. Apart(t)
  BY <1>3 DEF Apart
<1>22. \A u \in Client : Working(u)'
  <2>1. Working(t)'
    BY <1>1, <1>3 DEF Working
  <2> QED
    BY <1>3, <1>21, <2>1, OthersWork
<1>23. arena'[p] # NoArena
  BY <1>1, <1>14 DEF NoArena
<1>24. PagesInv'
  BY <1>3, <1>9, <1>14, <1>21, <1>23, SamePages
<1>25. \A r \in Pg : /\ BlocksAt(r)' = BlocksAt(r)
                     /\ arena[r] # NoArena => arena'[r] # NoArena
                     /\ arena'[r].desc = arena[r].desc
  BY <1>1, <1>9, <1>14, <1>23 DEF BlocksAt
<1>26. HeldInv'
  <2>1. HeldInv /\ held \in [Client -> SUBSET BlockId]
    BY <1>1 DEF Ready, MallocIInv, MallocTypeOK
  <2>2. ASSUME NEW u \in Client, NEW c \in held'[u]
        PROVE  arena'[c[1]] # NoArena /\ c[2] < BlocksAt(c[1])'
    <3>1. CASE c = b
      BY <1>7, <1>9, <1>10, <1>23, <1>25, <3>1
    <3>2. CASE c # b
      <4>1. c \in held[u] /\ c[1] \in Pg
        BY <1>15, <2>1, <2>2, <3>2 DEF BlockId
      <4> QED
        BY <1>25, <2>1, <4>1 DEF HeldInv
    <3> QED
      BY <3>1, <3>2
  <2>3. ASSUME NEW u \in Client, NEW v \in Client, NEW c \in held'[u], c \in held'[v] PROVE u = v
    BY <1>9, <1>15, <2>1, <2>3 DEF HeldInv
  <2> QED
    BY <2>2, <2>3 DEF HeldInv
<1>27. FreeInv'
  <2>1. ASSUME NEW e \in Desc PROVE FreeOK(e)'
    <3>1. IsInjective(free_list'[e])
      BY <1>8, <1>9, <1>12 DEF FreeOK
    <3>2. ASSUME NEW c \in Range(free_list'[e])
          PROVE  /\ arena'[c[1]].desc = e /\ c[2] < blocks_per_arena[e]
                 /\ \A u \in Client : c \notin held'[u]
      <4>1. c \in Range(free_list[e]) /\ c # b
        BY <1>13, <3>2
      <4>2. c[1] \in Pg
        BY <1>1, <4>1, RangeByIndex DEF MallocTypeOK, BlockId
      <4> QED
        BY <1>8, <1>15, <1>25, <4>1, <4>2 DEF FreeOK
    <3> QED
      BY <3>1, <3>2 DEF FreeOK
  <2> QED
    BY <2>1 DEF FreeInv
<1>28. ArenaInv'
  <2>1. ArenaOK(p)'
    <3>1. ASSUME NEW i \in Nat, i < BlocksAt(p)' PROVE OnFreeList(p, i)' \/ InUse(p, i)'
      <4>1. OnFreeList(p, i) \/ InUse(p, i)
        BY <1>10, <1>17, <1>25, <3>1 DEF ArenaOK
      <4>2. CASE <<p, i>> = b
        BY <1>15, <4>2 DEF InUse
      <4>3. CASE <<p, i>> # b
        <5>1. OnFreeList(p, i) => OnFreeList(p, i)'
          BY <1>13, <1>25, <4>3 DEF OnFreeList, OnList
        <5>2. InUse(p, i) => InUse(p, i)'
          BY <1>15 DEF InUse
        <5> QED
          BY <4>1, <5>1, <5>2
      <4> QED
        BY <4>2, <4>3
    <3>2. ASSUME NEW e \in Desc, arena'[p].desc = e
          PROVE  arena'[p].free_cnt = Cardinality(OnList(e, p)') /\ arena'[p].free_cnt < blocks_per_arena[e]
      BY <1>1, <1>10, <1>14, <1>19, <3>2
    <3> QED
      BY <3>1, <3>2 DEF ArenaOK
  <2> QED
    BY <1>6, <1>7, <1>16, <1>20, <2>1, OtherArenas DEF ArenaInv
<1> QED
  BY <1>20, <1>22, <1>24, <1>26, <1>27, <1>28 DEF MallocIInv

\* list_push_front()
LEMMA PushFront ==
  ASSUME NEW S, NEW q \in Seq(S), NEW x \in S, IsInjective(q), x \notin Range(q)
  PROVE  /\ <<x>> \o q \in Seq(S)
         /\ Range(<<x>> \o q) = Range(q) \cup {x}
         /\ IsInjective(<<x>> \o q)
<1>1. PICK p \in Seq(S) : p = <<x>>
  <2>1. <<x>> \in Seq(S)
    OBVIOUS
  <2> QED
    BY <2>1
<1>2. Len(p) = 1 /\ p[1] = x
  BY <1>1
<1>3. Range(p) = {x} /\ IsInjective(p)
  <2>1. /\ \A y : y \in Range(p) <=> \E i \in 1..Len(p) : p[i] = y
        /\ IsInjective(p) <=> \A i, j \in 1..Len(p) : p[i] = p[j] => i = j
    BY RangeByIndex
  <2> QED
    BY <1>2, <2>1
<1>4. Range(p) \cap Range(q) = {}
  BY <1>3
<1>5. p \o q \in Seq(S) /\ Range(p \o q) = Range(p) \cup Range(q) /\ IsInjective(p \o q)
  BY <1>3, <1>4, Splice
<1> QED
  BY <1>1, <1>3, <1>5

\* What a thread gives back.
LEMMA GivenBack ==
  ASSUME Ready, NEW t \in Client, NEW b \in held[t]
  PROVE  /\ b \in BlockId /\ b[1] \in Pg /\ b[2] \in Nat /\ b = <<b[1], b[2]>>
         /\ arena[b[1]] # NoArena /\ b[2] < BlocksAt(b[1])
         /\ arena[b[1]] \in [desc : Desc \cup {NOBODY}, free_cnt : Nat]
         /\ \A u \in Client : b \in held[u] => u = t
         /\ \A d \in Desc : b \notin Range(free_list[d])
<1>1. held \in [Client -> SUBSET BlockId] /\ arena \in [Pg -> [desc : Desc \cup {NOBODY}, free_cnt : Nat]]
  BY DEF Ready, MallocIInv, MallocTypeOK
<1>2. b \in BlockId
  BY <1>1
<1>3. b[1] \in Pg /\ b[2] \in Nat /\ b = <<b[1], b[2]>>
  BY <1>2 DEF BlockId
<1> QED
  BY <1>1, <1>2, <1>3 DEF Ready, MallocIInv, HeldInv, FreeInv, FreeOK

\* free() of a block of an arena in use.
LEMMA freeStep ==
  ASSUME Ready, NEW t \in Client, NEW b \in held[t], free(t, b)
  PROVE  MallocIInv'
<1>1. Working(t) /\ MallocTypeOK /\ NOBODY \notin Desc
  BY DEF Ready, MallocIInv, MallocAssumption
<1>2. /\ b \in BlockId /\ b[2] \in Nat /\ b = <<b[1], b[2]>>
      /\ (\A u \in Client : b \in held[u] => u = t) /\ \A e \in Desc : b \notin Range(free_list[e])
  BY GivenBack
<1>3. PICK p \in Pg : p = b[1]
  BY GivenBack
<1>4. PICK d : d = arena[p].desc
  OBVIOUS
<1>5. /\ free_list' = [free_list EXCEPT ![d] = <<b>> \o free_list[d]]
      /\ arena' = [arena EXCEPT ![p] = [arena[p] EXCEPT !.free_cnt = @ + 1]]
      /\ held' = [held EXCEPT ![t] = held[t] \ {b}]
      /\ mpc[t] = "idle" /\ d # NOBODY /\ ~Unused(p, d)
      /\ UNCHANGED <<used_map, pool_lock, mpc, desc, page, cnt, done>>
  BY <1>3, <1>4 DEF free
<1>6. arena[p] # NoArena /\ b[2] < BlocksAt(p) /\ arena[p] \in [desc : Desc \cup {NOBODY}, free_cnt : Nat]
  BY <1>3, GivenBack
<1>7. /\ d \in Desc /\ blocks_per_arena[d] \in Nat /\ BlocksAt(p) = blocks_per_arena[d]
      /\ arena[p].free_cnt \in Nat /\ arena[p].free_cnt + 1 < blocks_per_arena[d]
  BY <1>4, <1>5, <1>6 DEF BlocksAt, Unused, Ready, MallocAssumption
<1>8. PICK q \in Seq(BlockId) : q = free_list[d]
  BY <1>1, <1>7 DEF MallocTypeOK
<1>9. \A e \in Desc : FreeOK(e)
  BY DEF Ready, MallocIInv, FreeInv
<1>10. /\ <<b>> \o q \in Seq(BlockId) /\ Range(<<b>> \o q) = Range(q) \cup {b} /\ IsInjective(<<b>> \o q)
  <2>1. IsInjective(q) /\ b \notin Range(q)
    BY <1>2, <1>7, <1>8, <1>9 DEF FreeOK
  <2> QED
    BY <1>2, <2>1, PushFront
<1>11. free_list'[d] = <<b>> \o q /\ \A e \in Desc : e # d => free_list'[e] = free_list[e]
  BY <1>1, <1>5, <1>7, <1>8 DEF MallocTypeOK
<1>12. \A e \in Desc : Range(free_list'[e]) = IF e = d THEN Range(free_list[e]) \cup {b} ELSE Range(free_list[e])
  BY <1>8, <1>10, <1>11
<1>13. /\ arena'[p].desc = d /\ arena'[p].free_cnt = arena[p].free_cnt + 1
       /\ \A r \in Pg \ {p} : arena'[r] = arena[r]
  BY <1>1, <1>4, <1>5, <1>6 DEF MallocTypeOK
<1>14. held'[t] = held[t] \ {b} /\ \A u \in Client : u # t => held'[u] = held[u]
  BY <1>1, <1>5 DEF MallocTypeOK
<1>15. \A u \in Client : held'[u] = held[u] \ {b}
  BY <1>2, <1>14
<1>16. OtherBlocksKept(t, b)
  BY <1>3, <1>12, <1>13, <1>15 DEF OtherBlocksKept
<1>17. ArenaOK(p)
  BY DEF Ready, MallocIInv, ArenaInv
<1>18. arena'[p].free_cnt = Cardinality(OnList(d, p)') /\ arena'[p].free_cnt < blocks_per_arena[d]
  <2>1. OnList(d, p)' = OnList(d, p) \cup {b} /\ b \notin OnList(d, p)
    BY <1>2, <1>3, <1>7, <1>12 DEF OnList
  <2>2. IsFiniteSet(OnList(d, p))
    BY <1>7, ListFinite
  <2>3. Cardinality(OnList(d, p) \cup {b}) = Cardinality(OnList(d, p)) + 1
    BY <2>1, <2>2, FS_AddElement
  <2>4. arena[p].free_cnt = Cardinality(OnList(d, p))
    BY <1>4, <1>6, <1>7, <1>17 DEF ArenaOK
  <2> QED
    BY <1>7, <1>13, <2>1, <2>3, <2>4
<1>19. MallocTypeOK'
  <2>1. free_list' \in [Desc -> Seq(BlockId)]
    BY <1>1, <1>5, <1>8, <1>10 DEF MallocTypeOK
  <2>2. held' \in [Client -> SUBSET BlockId]
    BY <1>1, <1>5 DEF MallocTypeOK
  <2>3. arena' \in [Pg -> [desc : Desc \cup {NOBODY}, free_cnt : Nat]]
    <3>1. [arena[p] EXCEPT !.free_cnt = @ + 1] \in [desc : Desc \cup {NOBODY}, free_cnt : Nat]
      BY <1>6
    <3> QED
      BY <1>1, <1>5, <3>1 DEF MallocTypeOK
  <2> QED
    BY <1>1, <1>5, <2>1, <2>2, <2>3 DEF MallocTypeOK
<1>20. Apart(t)
  BY <1>5 DEF Apart
<1>21. \A u \in Client : Working(u)'
  <2>1. Working(t)'
    BY <1>1, <1>5 DEF Working
  <2> QED
    BY <1>5, <1>20, <2>1, OthersWork
<1>22. arena'[p] # NoArena
  BY <1>5, <1>13 DEF NoArena
<1>23. PagesInv'
  BY <1>4, <1>5, <1>7, <1>13, <1>20, <1>22, SamePages
<1>24. \A r \in Pg : /\ BlocksAt(r)' = BlocksAt(r)
                     /\ arena[r] # NoArena => arena'[r] # NoArena
                     /\ arena'[r].desc = arena[r].desc
  BY <1>4, <1>13, <1>22 DEF BlocksAt
<1>25. HeldInv'
  <2>1. HeldInv /\ held \in [Client -> SUBSET BlockId]
    BY <1>1 DEF Ready, MallocIInv, MallocTypeOK
  <2>2. ASSUME NEW u \in Client, NEW c \in held'[u]
        PROVE  arena'[c[1]] # NoArena /\ c[2] < BlocksAt(c[1])'
    <3>1. c \in held[u] /\ c[1] \in Pg
      BY <1>15, <2>1, <2>2 DEF BlockId
    <3> QED
      BY <1>24, <2>1, <3>1 DEF HeldInv
  <2>3. ASSUME NEW u \in Client, NEW v \in Client, NEW c \in held'[u], c \in held'[v] PROVE u = v
    BY <1>15, <2>1, <2>3 DEF HeldInv
  <2> QED
    BY <2>2, <2>3 DEF HeldInv
<1>26. FreeInv'
  <2>1. ASSUME NEW e \in Desc PROVE FreeOK(e)'
    <3>1. IsInjective(free_list'[e])
      BY <1>9, <1>10, <1>11 DEF FreeOK
    <3>2. ASSUME NEW c \in Range(free_list'[e])
          PROVE  /\ arena'[c[1]].desc = e /\ c[2] < blocks_per_arena[e]
                 /\ \A u \in Client : c \notin held'[u]
      <4>1. CASE c = b
        <5>1. e = d
          BY <1>2, <1>12, <3>2, <4>1
        <5> QED
          BY <1>3, <1>6, <1>7, <1>13, <1>15, <4>1, <5>1
      <4>2. CASE c # b
        <5>1. c \in Range(free_list[e])
          BY <1>12, <3>2, <4>2
        <5>2. c[1] \in Pg
          BY <1>1, <5>1, RangeByIndex DEF MallocTypeOK, BlockId
        <5> QED
          BY <1>9, <1>15, <1>24, <5>1, <5>2 DEF FreeOK
      <4> QED
        BY <4>1, <4>2
    <3> QED
      BY <3>1, <3>2 DEF FreeOK
  <2> QED
    BY <2>1 DEF FreeInv
<1>27. ArenaInv'
  <2>1. ArenaOK(p)'
    <3>1. ASSUME NEW i \in Nat, i < BlocksAt(p)' PROVE OnFreeList(p, i)' \/ InUse(p, i)'
      <4>1. OnFreeList(p, i) \/ InUse(p, i)
        BY <1>6, <1>17, <1>24, <3>1 DEF ArenaOK
      <4>2. CASE <<p, i>> = b
        <5>1. <<p, i>> \in OnList(d, p)'
          BY <1>3, <1>7, <1>12, <4>2 DEF OnList
        <5> QED
          BY <1>7, <1>13, <5>1 DEF OnFreeList
      <4>3. CASE <<p, i>> # b
        <5>1. OnFreeList(p, i) => OnFreeList(p, i)'
          BY <1>12, <1>24 DEF OnFreeList, OnList
        <5>2. InUse(p, i) => InUse(p, i)'
          BY <1>15, <4>3 DEF InUse
        <5> QED
          BY <4>1, <5>1, <5>2
      <4> QED
        BY <4>2, <4>3
    <3>2. ASSUME NEW e \in Desc, arena'[p].desc = e
          PROVE  arena'[p].free_cnt = Cardinality(OnList(e, p)') /\ arena'[p].free_cnt < blocks_per_arena[e]
      BY <1>13, <1>18, <3>2
    <3> QED
      BY <3>1, <3>2 DEF ArenaOK
  <2> QED
    BY <1>2, <1>3, <1>16, <1>19, <2>1, OtherArenas DEF ArenaInv
<1> QED
  BY <1>19, <1>21, <1>23, <1>25, <1>26, <1>27 DEF MallocIInv

\* Nobody uses another block where b is; none at p stays on a free list.
OnlyUse(b) == \A u \in Client : \A c \in held[u] : c[1] = b[1] => c = b
ListsWithout(p) ==
  /\ free_list' \in [Desc -> Seq(BlockId)]
  /\ \A e \in Desc : /\ Range(free_list'[e]) = {c \in Range(free_list[e]) : c[1] # p}
                     /\ IsInjective(free_list'[e])

\* free() then gives back all of p's pages.
LEMMA GivesBack ==
  ASSUME Ready, NEW t \in Client, NEW b \in held[t], NEW p \in Pg, p = b[1], NEW n, n = Size(p),
         NEW d \in Desc \cup {NOBODY}, d \in Desc => n = 1, mpc[t] = "idle",
         palloc_free_multiple(t, p, n), desc' = [desc EXCEPT ![t] = d],
         held' = [held EXCEPT ![t] = held[t] \ {b}], UNCHANGED <<used_map, pool_lock, done>>,
         OnlyUse(b), ListsWithout(p)
  PROVE  MallocIInv'
<1>1. Working(t) /\ MallocTypeOK /\ NOBODY \notin Desc
  BY DEF Ready, MallocIInv, MallocAssumption
<1>2. /\ mpc' = [mpc EXCEPT ![t] = "reset"] /\ page' = [page EXCEPT ![t] = p]
      /\ cnt' = [cnt EXCEPT ![t] = n] /\ arena' = [arena EXCEPT ![p] = NoArena]
  BY DEF palloc_free_multiple, Goes
<1>3. /\ arena[p] # NoArena /\ n \in Nat /\ n > 0 /\ p \in Nat /\ p + n =< PAGE_CNT
      /\ \A u \in Client : b \in held[u] => u = t
  BY GivenBack, WhatIsAt DEF Ready, MallocIInv, PagesInv
<1>4. MallocTypeOK'
  <2>1. NoArena \in [desc : Desc \cup {NOBODY}, free_cnt : Nat]
    BY DEF NoArena
  <2>2. arena' \in [Pg -> [desc : Desc \cup {NOBODY}, free_cnt : Nat]]
    BY <1>1, <1>2, <2>1 DEF MallocTypeOK
  <2>3. held' \in [Client -> SUBSET BlockId]
    BY <1>1 DEF MallocTypeOK
  <2>4. /\ mpc' \in [Client -> {"idle", "pool", "scan", "mark", "got", "reset"}]
        /\ desc' \in [Client -> Desc \cup {NOBODY}]
        /\ page' \in [Client -> Nat] /\ cnt' \in [Client -> Nat]
    BY <1>1, <1>2, <1>3 DEF MallocTypeOK
  <2> QED
    BY <1>1, <2>2, <2>3, <2>4 DEF MallocTypeOK, ListsWithout
<1>5. Apart(t)
  BY <1>1, <1>2 DEF Apart, MallocTypeOK
<1>6. /\ mpc'[t] = "reset" /\ page'[t] = p /\ cnt'[t] = n /\ desc'[t] = d
      /\ done'[t] = 0 /\ pool_lock' # t
  BY <1>1, <1>2 DEF MallocTypeOK, Working
<1>7. \A u \in Client : Working(u)'
  <2>1. Working(t)'
    BY <1>3, <1>6 DEF Working
  <2> QED
    BY <1>5, <2>1, OthersWork
<1>8. arena'[p] = NoArena /\ \A r \in Pg \ {p} : arena'[r] = arena[r]
  BY <1>1, <1>2 DEF MallocTypeOK
<1>9. PagesInv'
  <2>1. ASSUME NEW x \in Pg
        PROVE  /\ ~Occupies(p, x)' /\ ~Has(t, x)
               /\ Occupies(p, x) <=> Has(t, x)'
    <3>1. x \in Nat
      BY DEF Pg
    <3>2. ~Occupies(p, x)'
      BY <1>8 DEF Occupies
    <3>3. ~Has(t, x)
      BY DEF Has
    <3>4. Occupies(p, x) <=> Has(t, x)'
      BY <1>3, <1>6, <3>1 DEF Occupies, Has
    <3> QED
      BY <3>2, <3>3, <3>4
  <2> HIDE DEF Occupies, Has
  <2> QED
    BY <1>5, <1>8, <2>1, ClaimMoves
<1>10. \A u \in Client : held'[u] = {c \in held[u] : c[1] # p}
  <2>1. held'[t] = held[t] \ {b} /\ \A u \in Client : u # t => held'[u] = held[u]
    BY <1>1 DEF MallocTypeOK
  <2> QED
    BY <1>3, <2>1 DEF OnlyUse
<1>11. \A r \in Pg \ {p} : BlocksAt(r)' = BlocksAt(r)
  BY <1>8 DEF BlocksAt
<1>12. HeldInv'
  <2>1. HeldInv /\ held \in [Client -> SUBSET BlockId]
    BY <1>1 DEF Ready, MallocIInv, MallocTypeOK
  <2>2. ASSUME NEW u \in Client, NEW c \in held'[u]
        PROVE  arena'[c[1]] # NoArena /\ c[2] < BlocksAt(c[1])'
    <3>1. c \in held[u] /\ c[1] \in Pg \ {p}
      BY <1>10, <2>1, <2>2 DEF BlockId
    <3> QED
      BY <1>8, <1>11, <2>1, <3>1 DEF HeldInv
  <2>3. ASSUME NEW u \in Client, NEW v \in Client, NEW c \in held'[u], c \in held'[v] PROVE u = v
    BY <1>10, <2>1, <2>3 DEF HeldInv
  <2> QED
    BY <2>2, <2>3 DEF HeldInv
<1>13. FreeInv'
  <2>1. ASSUME NEW e \in Desc PROVE FreeOK(e)'
    <3>1. FreeOK(e)
      BY DEF Ready, MallocIInv, FreeInv
    <3>2. ASSUME NEW c \in Range(free_list'[e])
          PROVE  /\ arena'[c[1]].desc = e /\ c[2] < blocks_per_arena[e]
                 /\ \A u \in Client : c \notin held'[u]
      <4>1. c \in Range(free_list[e]) /\ c[1] # p
        BY <3>2 DEF ListsWithout
      <4>2. c[1] \in Pg
        BY <1>1, <4>1, RangeByIndex DEF MallocTypeOK, BlockId
      <4> QED
        BY <1>8, <1>10, <3>1, <4>1, <4>2 DEF FreeOK
    <3> QED
      BY <3>2 DEF FreeOK, ListsWithout
  <2> QED
    BY <2>1 DEF FreeInv
<1>14. ArenaInv'
  <2>1. ASSUME NEW r \in Pg PROVE ArenaOK(r)'
    <3>1. CASE r = p
      BY <1>8, <3>1 DEF ArenaOK
    <3>2. CASE r # p
      <4>1. \A e \in Desc : OnList(e, r)' = OnList(e, r)
        BY <3>2 DEF OnList, ListsWithout
      <4>2. \A i \in Nat : InUse(r, i)' <=> InUse(r, i)
        BY <1>10, <3>2 DEF InUse
      <4> QED
        BY <1>8, <3>2, <4>1, <4>2, ArenaKept
    <3> QED
      BY <3>1, <3>2
  <2> QED
    BY <2>1 DEF ArenaInv
<1> QED
  BY <1>4, <1>7, <1>9, <1>12, <1>13, <1>14 DEF MallocIInv

\* What is on the free list of another descriptor is not of arena p.
LEMMA NotOfArena ==
  ASSUME Ready, NEW p \in Pg, NEW e \in Desc, arena[p].desc # e
  PROVE  Range(free_list[e]) = {c \in Range(free_list[e]) : c[1] # p}
  BY DEF Ready, MallocIInv, FreeInv, FreeOK

\* free() of a big block.
LEMMA FreeBigStep ==
  ASSUME Ready, NEW t \in Client, NEW b \in held[t], FreeBig(t, b)
  PROVE  MallocIInv'
<1>1. Working(t) /\ MallocTypeOK /\ NOBODY \notin Desc
  BY DEF Ready, MallocIInv, MallocAssumption
<1>2. PICK p \in Pg : p = b[1]
  BY GivenBack
<1>3. /\ palloc_free_multiple(t, p, Size(p)) /\ held' = [held EXCEPT ![t] = held[t] \ {b}]
      /\ mpc[t] = "idle" /\ UNCHANGED <<used_map, pool_lock, free_list, desc, done>>
      /\ arena[p].desc = NOBODY
  BY <1>2 DEF FreeBig, Size
<1>4. desc' = [desc EXCEPT ![t] = NOBODY]
  BY <1>1, <1>3 DEF Working, MallocTypeOK
<1>5. ASSUME NEW u \in Client, NEW c \in held[u], c[1] = p PROVE c = b
  <2>1. BlocksAt(p) = 1
    BY <1>3 DEF BlocksAt
  <2>2. c[2] \in Nat /\ c = <<c[1], c[2]>> /\ c[2] < BlocksAt(p)
    BY <1>5, GivenBack
  <2>3. b[2] \in Nat /\ b = <<b[1], b[2]>> /\ b[2] < BlocksAt(p)
    BY <1>2, GivenBack
  <2>4. b[2] = 0 /\ c[2] = 0
    BY <2>1, <2>2, <2>3
  <2> QED
    BY <1>2, <1>5, <2>2, <2>3, <2>4
<1>6. \A e \in Desc : /\ Range(free_list'[e]) = {c \in Range(free_list[e]) : c[1] # p}
                      /\ IsInjective(free_list'[e])
  BY <1>1, <1>3, NotOfArena DEF Ready, MallocIInv, FreeInv, FreeOK
<1>7. free_list' \in [Desc -> Seq(BlockId)]
  BY <1>1, <1>3 DEF MallocTypeOK
<1>8. OnlyUse(b) /\ ListsWithout(p)
  BY <1>2, <1>5, <1>6, <1>7 DEF OnlyUse, ListsWithout
<1> QED
  BY <1>1, <1>2, <1>3, <1>4, <1>8, GivesBack

\* The blocks of an arena, but one.
LEMMA AllButOne ==
  ASSUME NEW p, NEW n \in Nat, NEW i \in Nat, i < n,
         NEW S, S = ({p} \X (0..(n - 1))) \ {<<p, i>>}
  PROVE  IsFiniteSet(S) /\ Cardinality(S) = n - 1
<1>1. IsFiniteSet({p}) /\ Cardinality({p}) = 1
  BY FS_Singleton
<1>2. IsFiniteSet(0..(n - 1)) /\ Cardinality(0..(n - 1)) = n
  <2>1. n - 1 \in Int /\ ~(0 > n - 1) /\ (n - 1) - 0 + 1 = n
    OBVIOUS
  <2> QED
    BY <2>1, FS_Interval
<1>3. IsFiniteSet({p} \X (0..(n - 1))) /\ Cardinality({p} \X (0..(n - 1))) = 1 * n
  BY <1>1, <1>2, FS_Product
<1>4. <<p, i>> \in {p} \X (0..(n - 1))
  OBVIOUS
<1>5. 1 * n = n
  OBVIOUS
<1> QED
  BY <1>3, <1>4, <1>5, FS_RemoveElement

\* free() of the last block in use of an arena.
LEMMA FreeArenaStep ==
  ASSUME Ready, NEW t \in Client, NEW b \in held[t], FreeArena(t, b)
  PROVE  MallocIInv'
<1>1. Working(t) /\ MallocTypeOK /\ NOBODY \notin Desc
  BY DEF Ready, MallocIInv, MallocAssumption
<1>2. PICK p \in Pg : p = b[1]
  BY GivenBack
<1>3. PICK d : d = arena[p].desc
  OBVIOUS
<1>4. /\ palloc_free_multiple(t, p, 1) /\ held' = [held EXCEPT ![t] = held[t] \ {b}]
      /\ free_list' = [free_list EXCEPT ![d] = WithoutArena(free_list[d], p)]
      /\ desc' = [desc EXCEPT ![t] = d] /\ d # NOBODY /\ Unused(p, d)
      /\ mpc[t] = "idle" /\ UNCHANGED <<used_map, pool_lock, done>>
  BY <1>2, <1>3 DEF FreeArena
<1>5. /\ arena[p] # NoArena /\ arena[p] \in [desc : Desc \cup {NOBODY}, free_cnt : Nat]
      /\ b = <<p, b[2]>> /\ b[2] \in Nat /\ b[2] < BlocksAt(p)
  BY <1>2, GivenBack
<1>6. /\ d \in Desc /\ BlocksAt(p) = blocks_per_arena[d] /\ Size(p) = 1
      /\ blocks_per_arena[d] \in Nat /\ arena[p].free_cnt \in Nat
      /\ arena[p].free_cnt + 1 >= blocks_per_arena[d]
  BY <1>3, <1>4, <1>5 DEF BlocksAt, Size, Unused, Ready, MallocAssumption
<1>7. FreeOK(d)
  BY <1>6 DEF Ready, MallocIInv, FreeInv
<1>8. OnList(d, p) = ({p} \X (0..(blocks_per_arena[d] - 1))) \ {b}
  <2>1. PICK S : S = ({p} \X (0..(blocks_per_arena[d] - 1))) \ {b}
    OBVIOUS
  <2>2. IsFiniteSet(S) /\ Cardinality(S) = blocks_per_arena[d] - 1
    <3>1. PICK n \in Nat, i \in Nat : n = blocks_per_arena[d] /\ b = <<p, i>> /\ i < n
      BY <1>5, <1>6
    <3>2. S = ({p} \X (0..(n - 1))) \ {<<p, i>>}
      BY <2>1, <3>1
    <3> QED
      BY <3>1, <3>2, AllButOne
  <2>3. OnList(d, p) \in SUBSET S
    <3>1. ASSUME NEW c \in OnList(d, p) PROVE c \in S
      <4>1. c \in Range(free_list[d]) /\ c[1] = p
        BY DEF OnList
      <4>2. c \in BlockId
        BY <1>1, <1>6, <4>1, RangeByIndex DEF MallocTypeOK
      <4>3. c = <<p, c[2]>> /\ c[2] \in Nat
        BY <4>1, <4>2 DEF BlockId
      <4>4. c[2] < blocks_per_arena[d] /\ c # b
        BY <1>7, <4>1 DEF FreeOK
      <4> QED
        BY <1>6, <2>1, <4>3, <4>4
    <3> QED
      BY <3>1
  <2>4. arena[p].free_cnt = Cardinality(OnList(d, p)) /\ arena[p].free_cnt < blocks_per_arena[d]
    BY <1>3, <1>5, <1>6 DEF Ready, MallocIInv, ArenaInv, ArenaOK
  <2>5. Cardinality(S) = Cardinality(OnList(d, p))
    BY <1>6, <2>2, <2>4
  <2> QED
    BY <2>1, <2>2, <2>3, <2>5, FS_Subset
<1>9. ASSUME NEW u \in Client, NEW c \in held[u], c[1] = p PROVE c = b
  <2>1. c[2] \in Nat /\ c = <<p, c[2]>> /\ c[2] < blocks_per_arena[d]
    BY <1>6, <1>9, GivenBack
  <2>2. c \in {p} \X (0..(blocks_per_arena[d] - 1))
    BY <1>6, <2>1
  <2>3. c \notin OnList(d, p)
    BY <1>7 DEF FreeOK, OnList
  <2> QED
    BY <1>8, <2>2, <2>3
<1>10. PICK q \in Seq(BlockId) : q = free_list[d]
  BY <1>1, <1>6 DEF MallocTypeOK
<1>11. /\ WithoutArena(q, p) \in Seq(BlockId)
       /\ Range(WithoutArena(q, p)) = {c \in Range(q) : c[1] # p}
       /\ IsInjective(WithoutArena(q, p))
  BY <1>7, <1>10, WithoutIs DEF FreeOK
<1>12. free_list'[d] = WithoutArena(q, p) /\ \A e \in Desc : e # d => free_list'[e] = free_list[e]
  BY <1>1, <1>4, <1>6, <1>10 DEF MallocTypeOK
<1>13. \A e \in Desc : /\ Range(free_list'[e]) = {c \in Range(free_list[e]) : c[1] # p}
                       /\ IsInjective(free_list'[e])
  BY <1>3, <1>10, <1>11, <1>12, NotOfArena DEF Ready, MallocIInv, FreeInv, FreeOK
<1>14. free_list' \in [Desc -> Seq(BlockId)]
  BY <1>1, <1>4, <1>10, <1>11 DEF MallocTypeOK
<1>15. OnlyUse(b) /\ ListsWithout(p)
  BY <1>2, <1>9, <1>13, <1>14 DEF OnlyUse, ListsWithout
<1> QED
  BY <1>1, <1>2, <1>4, <1>6, <1>15, GivesBack

\* The blocks but the first of a new arena at p are on its descriptor's list.
ListsWith(p) ==
  /\ free_list' \in [Desc -> Seq(BlockId)]
  /\ \A e \in Desc :
       /\ IsInjective(free_list'[e])
       /\ \A c : c \in Range(free_list'[e]) <=>
                   c \in Range(free_list[e])
                     \/ (arena'[p].desc = e /\ \E i \in 1..(blocks_per_arena[e] - 1) : c = <<p, i>>)

\* Nobody has a block where there is no arena, and none is on a free list.
LEMMA NoneThere ==
  ASSUME Ready, NEW p \in Pg, arena[p] = NoArena
  PROVE  /\ \A u \in Client : \A c \in held[u] : c[1] # p
         /\ \A e \in Desc : \A c \in Range(free_list[e]) : c[1] # p
<1>1. arena[p].desc \notin Desc
  BY DEF NoArena, Ready, MallocAssumption
<1> QED
  BY <1>1 DEF Ready, MallocIInv, HeldInv, FreeInv, FreeOK

\* The blocks of a new arena go to its free list.
LEMMA NewBlocks ==
  ASSUME Ready, NEW p \in Pg, arena[p] = NoArena, NEW d \in Desc, NEW n \in Nat, n = blocks_per_arena[d],
         free_list' = [free_list EXCEPT ![d] = @ \o [i \in 1..(n - 1) |-> <<p, i>>]],
         arena'[p].desc = d
  PROVE  ListsWith(p)
<1>1. free_list \in [Desc -> Seq(BlockId)] /\ \A e \in Desc : IsInjective(free_list[e])
  BY DEF Ready, MallocIInv, MallocTypeOK, FreeInv, FreeOK
<1>2. PICK q \in Seq(BlockId) : q = free_list[d]
  BY <1>1
<1>3. PICK m \in Nat : m = n - 1
  BY DEF Ready, MallocAssumption
<1>4. PICK r : r = [i \in 1..m |-> <<p, i>>]
  OBVIOUS
<1>5. r \in Seq(BlockId) /\ Len(r) = m /\ \A i \in 1..m : r[i] = <<p, i>>
  <2>1. \A i \in 1..m : <<p, i>> \in BlockId
    BY DEF BlockId
  <2>2. r \in [1..m -> BlockId]
    BY <1>4, <2>1
  <2> QED
    BY <1>4, <2>2
<1>6. /\ \A c : c \in Range(r) <=> \E i \in 1..m : c = <<p, i>>
      /\ IsInjective(r)
  <2>1. /\ \A c : c \in Range(r) <=> \E i \in 1..Len(r) : r[i] = c
        /\ IsInjective(r) <=> \A i, j \in 1..Len(r) : r[i] = r[j] => i = j
    BY <1>5, RangeByIndex
  <2>2. \A i, j \in 1..m : r[i] = r[j] => i = j
    <3>1. \A i, j \in 1..m : <<p, i>> = <<p, j>> => i = j
      OBVIOUS
    <3> QED
      BY <1>5, <3>1
  <2>3. \A c : c \in Range(r) <=> \E i \in 1..m : c = <<p, i>>
    BY <1>5, <2>1
  <2> QED
    BY <1>5, <2>1, <2>2, <2>3
<1>7. Range(q) \cap Range(r) = {}
  BY <1>2, <1>6, NoneThere
<1>8. /\ q \o r \in Seq(BlockId)
      /\ Range(q \o r) = Range(q) \cup Range(r)
      /\ IsInjective(q) /\ IsInjective(r) /\ Range(q) \cap Range(r) = {} => IsInjective(q \o r)
  BY <1>5, Splice
<1>9. IsInjective(q \o r)
  BY <1>1, <1>2, <1>6, <1>7, <1>8
<1>10. free_list' = [free_list EXCEPT ![d] = q \o r]
  BY <1>2, <1>3, <1>4
<1>11. /\ free_list' \in [Desc -> Seq(BlockId)] /\ free_list'[d] = q \o r
       /\ \A e \in Desc : e # d => free_list'[e] = free_list[e]
  <2>1. q \o r \in Seq(BlockId)
    BY <1>8
  <2>2. free_list' \in [Desc -> Seq(BlockId)]
    BY <1>1, <1>10, <2>1
  <2>3. DOMAIN free_list = Desc
    BY <1>1
  <2>4. free_list'[d] = q \o r
    BY <1>10, <2>3
  <2>5. \A e \in Desc : e # d => free_list'[e] = free_list[e]
    BY <1>10, <2>3
  <2> QED
    BY <2>2, <2>4, <2>5
<1>12. ASSUME NEW e \in Desc
       PROVE  /\ IsInjective(free_list'[e])
              /\ \A c : c \in Range(free_list'[e]) <=>
                   c \in Range(free_list[e])
                     \/ (arena'[p].desc = e /\ \E i \in 1..(blocks_per_arena[e] - 1) : c = <<p, i>>)
  <2>1. CASE e = d
    BY <1>2, <1>3, <1>6, <1>8, <1>9, <1>11, <2>1
  <2>2. CASE e # d
    BY <1>1, <1>11, <2>2
  <2> QED
    BY <2>1, <2>2
<1> QED
  BY <1>11, <1>12 DEF ListsWith

\* The pages go to a new arena or big block at p, of which t has the first block.
LEMMA Takes ==
  ASSUME Ready, NEW t \in Client, mpc[t] = "got", NEW p \in Pg, p = page[t], arena[p] = NoArena,
         NEW a \in [desc : Desc \cup {NOBODY}, free_cnt : Nat],
         arena' = [arena EXCEPT ![p] = a],
         IF a.desc = NOBODY THEN a.free_cnt = cnt[t]
           ELSE a.free_cnt = blocks_per_arena[a.desc] - 1 /\ cnt[t] = 1,
         held' = [held EXCEPT ![t] = @ \cup {<<p, 0>>}],
         mpc' = [mpc EXCEPT ![t] = "idle"], desc' = [desc EXCEPT ![t] = NOBODY],
         page' = [page EXCEPT ![t] = 0], cnt' = [cnt EXCEPT ![t] = 0], done' = [done EXCEPT ![t] = 0],
         UNCHANGED <<used_map, pool_lock>>, ListsWith(p)
  PROVE  MallocIInv'
<1>1. Working(t) /\ MallocTypeOK /\ NOBODY \notin Desc /\ blocks_per_arena \in [Desc -> Nat \ {0}]
  BY DEF Ready, MallocIInv, MallocAssumption
<1>2. /\ cnt[t] \in Nat /\ cnt[t] > 0 /\ done[t] = cnt[t] /\ p \in Nat /\ p + cnt[t] =< PAGE_CNT
      /\ pool_lock # t
  BY <1>1 DEF Working, MallocTypeOK, Pg
<1>3. arena'[p] = a /\ \A r \in Pg \ {p} : arena'[r] = arena[r]
  BY <1>1 DEF MallocTypeOK
<1>4. a # NoArena /\ Size(p)' = cnt[t]
  BY <1>1, <1>2, <1>3 DEF NoArena, Size
<1>5. <<p, 0>> \in BlockId
  BY DEF BlockId
<1>6. held'[t] = held[t] \cup {<<p, 0>>} /\ \A u \in Client : u # t => held'[u] = held[u]
  BY <1>1 DEF MallocTypeOK
<1>7. MallocTypeOK'
  <2>1. arena' \in [Pg -> [desc : Desc \cup {NOBODY}, free_cnt : Nat]]
    BY <1>1 DEF MallocTypeOK
  <2>2. held' \in [Client -> SUBSET BlockId]
    BY <1>1, <1>5 DEF MallocTypeOK
  <2> QED
    BY <1>1, <2>1, <2>2 DEF MallocTypeOK, ListsWith
<1>8. Apart(t)
  BY <1>1 DEF Apart, MallocTypeOK
<1>9. mpc'[t] = "idle" /\ desc'[t] = NOBODY /\ page'[t] = 0 /\ cnt'[t] = 0 /\ done'[t] = 0
  BY <1>1 DEF MallocTypeOK
<1>10. \A u \in Client : Working(u)'
  <2>1. Working(t)'
    BY <1>1, <1>2, <1>9 DEF Working
  <2> QED
    BY <1>8, <2>1, OthersWork
<1>11. PagesInv'
  <2>1. ASSUME NEW x \in Pg
        PROVE  /\ ~Occupies(p, x) /\ ~Has(t, x)'
               /\ Occupies(p, x)' <=> Has(t, x)
    <3>1. x \in Nat
      BY DEF Pg
    <3>2. ~Occupies(p, x)
      BY DEF Occupies
    <3>3. ~Has(t, x)'
      BY <1>9 DEF Has
    <3>4. Occupies(p, x)' <=> Has(t, x)
      BY <1>2, <1>3, <1>4, <3>1 DEF Occupies, Has
    <3> QED
      BY <3>2, <3>3, <3>4
  <2> HIDE DEF Occupies, Has
  <2> QED
    BY <1>2, <1>3, <1>4, <1>8, <2>1, ClaimMoves
<1>12. /\ \A u \in Client : \A c \in held[u] : c[1] # p
       /\ \A e \in Desc : \A c \in Range(free_list[e]) : c[1] # p
  BY NoneThere
<1>13. /\ BlocksAt(p)' \in Nat /\ BlocksAt(p)' > 0
       /\ BlocksAt(p)' = IF a.desc = NOBODY THEN 1 ELSE blocks_per_arena[a.desc]
       /\ \A r \in Pg \ {p} : BlocksAt(r)' = BlocksAt(r)
  BY <1>1, <1>3 DEF BlocksAt
<1>14. HeldInv'
  <2>1. HeldInv /\ held \in [Client -> SUBSET BlockId]
    BY <1>1 DEF Ready, MallocIInv, MallocTypeOK
  <2>2. ASSUME NEW u \in Client, NEW c \in held'[u]
        PROVE  arena'[c[1]] # NoArena /\ c[2] < BlocksAt(c[1])'
    <3>1. CASE c = <<p, 0>>
      BY <1>3, <1>4, <1>13, <3>1
    <3>2. CASE c # <<p, 0>>
      <4>1. c \in held[u] /\ c[1] \in Pg \ {p}
        BY <1>6, <1>12, <2>1, <2>2, <3>2 DEF BlockId
      <4> QED
        BY <1>3, <1>13, <2>1, <4>1 DEF HeldInv
    <3> QED
      BY <3>1, <3>2
  <2>3. ASSUME NEW u \in Client, NEW v \in Client, NEW c \in held'[u], c \in held'[v] PROVE u = v
    <3>1. CASE c = <<p, 0>>
      BY <1>6, <1>12, <2>3, <3>1
    <3>2. CASE c # <<p, 0>>
      BY <1>6, <2>1, <2>3, <3>2 DEF HeldInv
    <3> QED
      BY <3>1, <3>2
  <2> QED
    BY <2>2, <2>3 DEF HeldInv
<1>15. FreeInv'
  <2>1. ASSUME NEW e \in Desc PROVE FreeOK(e)'
    <3>1. FreeOK(e) /\ IsInjective(free_list'[e])
      BY DEF Ready, MallocIInv, FreeInv, ListsWith
    <3>2. ASSUME NEW c \in Range(free_list'[e])
          PROVE  /\ arena'[c[1]].desc = e /\ c[2] < blocks_per_arena[e]
                 /\ \A u \in Client : c \notin held'[u]
      <4>1. CASE c \in Range(free_list[e])
        <5>1. c[1] \in Pg /\ c[1] # p
          BY <1>1, <1>12, <4>1, RangeByIndex DEF MallocTypeOK, BlockId
        <5> QED
          BY <1>3, <1>6, <3>1, <4>1, <5>1 DEF FreeOK
      <4>2. CASE c \notin Range(free_list[e])
        <5>1. PICK i \in 1..(blocks_per_arena[e] - 1) : c = <<p, i>>
          BY <3>2, <4>2 DEF ListsWith
        <5>2. arena'[p].desc = e
          BY <3>2, <4>2 DEF ListsWith
        <5>3. c[1] = p /\ c[2] < blocks_per_arena[e] /\ c # <<p, 0>>
          BY <1>1, <5>1
        <5> QED
          BY <1>6, <1>12, <5>2, <5>3
      <4> QED
        BY <4>1, <4>2
    <3> QED
      BY <3>1, <3>2 DEF FreeOK
  <2> QED
    BY <2>1 DEF FreeInv
<1>16. ArenaOK(p)'
  <2>1. ASSUME NEW i \in Nat, i < BlocksAt(p)' PROVE OnFreeList(p, i)' \/ InUse(p, i)'
    <3>1. CASE i = 0
      BY <1>6, <3>1 DEF InUse
    <3>2. CASE i # 0
      <4>1. a.desc \in Desc /\ i \in 1..(blocks_per_arena[a.desc] - 1)
        BY <1>1, <1>13, <2>1, <3>2
      <4>2. <<p, i>> \in Range(free_list'[a.desc])
        BY <1>3, <4>1 DEF ListsWith
      <4> QED
        BY <1>3, <4>1, <4>2 DEF OnFreeList, OnList
    <3> QED
      BY <3>1, <3>2
  <2>2. ASSUME NEW e \in Desc, arena'[p].desc = e
        PROVE  arena'[p].free_cnt = Cardinality(OnList(e, p)') /\ arena'[p].free_cnt < blocks_per_arena[e]
    <3>1. PICK n \in Nat : n = blocks_per_arena[e] /\ n > 0
      BY <1>1
    <3>2. PICK S : S = ({p} \X (0..(n - 1))) \ {<<p, 0>>}
      OBVIOUS
    <3>3. Cardinality(S) = n - 1
      <4>1. PICK i \in Nat : i = 0
        OBVIOUS
      <4>2. i < n /\ S = ({p} \X (0..(n - 1))) \ {<<p, i>>}
        BY <3>1, <3>2, <4>1
      <4> QED
        BY <4>2, AllButOne
    <3>4. OnList(e, p)' = S
      <4>1. \A c : c \in OnList(e, p)' <=> c \in Range(free_list'[e]) /\ c[1] = p
        BY DEF OnList
      <4>2. \A c : c \in OnList(e, p)' <=> \E i \in 1..(n - 1) : c = <<p, i>>
        BY <1>12, <2>2, <3>1, <4>1 DEF ListsWith
      <4>3. \A c : c \in S <=> \E i \in 1..(n - 1) : c = <<p, i>>
        BY <3>1, <3>2
      <4> QED
        BY <4>2, <4>3
    <3>5. arena'[p].free_cnt = n - 1
      BY <1>1, <1>3, <2>2, <3>1
    <3> QED
      BY <3>1, <3>3, <3>4, <3>5
  <2> QED
    BY <2>1, <2>2 DEF ArenaOK
<1>17. ArenaInv'
  <2>1. ASSUME NEW r \in Pg, r # p PROVE ArenaOK(r)'
    <3>1. ASSUME NEW e \in Desc PROVE OnList(e, r)' = OnList(e, r)
      <4>1. \A c : c \in OnList(e, r)' <=> c \in OnList(e, r)
        BY <2>1 DEF OnList, ListsWith
      <4> QED
        BY <4>1 DEF OnList
    <3>2. \A i \in Nat : InUse(r, i)' <=> InUse(r, i)
      BY <1>6, <2>1 DEF InUse
    <3> QED
      BY <1>3, <2>1, <3>1, <3>2, ArenaKept
  <2> QED
    BY <1>16, <2>1 DEF ArenaInv
<1> QED
  BY <1>7, <1>10, <1>11, <1>14, <1>15, <1>17 DEF MallocIInv

\* malloc() has its pages.
LEMMA GotStep ==
  ASSUME Ready, NEW t \in Client, Got(t)
  PROVE  MallocIInv'
<1>1. Working(t) /\ MallocTypeOK /\ NOBODY \notin Desc /\ blocks_per_arena \in [Desc -> Nat \ {0}]
      /\ PAGE_CNT \in Nat
  BY DEF Ready, MallocIInv, MallocAssumption
<1>2. /\ mpc[t] = "got" /\ held' = [held EXCEPT ![t] = held[t] \cup {<<page[t], 0>>}]
      /\ mpc' = [mpc EXCEPT ![t] = "idle"] /\ desc' = [desc EXCEPT ![t] = NOBODY]
      /\ page' = [page EXCEPT ![t] = 0] /\ cnt' = [cnt EXCEPT ![t] = 0] /\ done' = [done EXCEPT ![t] = 0]
      /\ UNCHANGED <<used_map, pool_lock>>
  BY DEF Got, Goes
<1>3. /\ page[t] \in Nat /\ cnt[t] \in Nat /\ cnt[t] > 0 /\ done[t] = cnt[t] /\ page[t] + cnt[t] =< PAGE_CNT
      /\ desc[t] \in Desc => cnt[t] = 1
  BY <1>1, <1>2 DEF Working, MallocTypeOK
<1>4. PICK p \in Pg : p = page[t]
  BY <1>1, <1>3 DEF Pg
<1>5. arena[p] = NoArena
  <2>1. Has(t, p)
    BY <1>2, <1>3, <1>4 DEF Has
  <2>2. ~Occupies(p, p)
    BY <2>1 DEF Ready, MallocIInv, PagesInv, OwnedOnce
  <2> QED
    BY <2>2, WhatIsAt
<1>6. CASE desc[t] \in Desc
  <2>1. PICK d \in Desc : d = desc[t]
    BY <1>6
  <2>2. PICK n \in Nat : n = blocks_per_arena[d] /\ n > 0
    BY <1>1
  <2>3. /\ arena' = [arena EXCEPT ![p] = [desc |-> d, free_cnt |-> n - 1]]
        /\ free_list' = [free_list EXCEPT ![d] = @ \o [i \in 1..(n - 1) |-> <<p, i>>]]
    BY <1>1, <1>4, <2>1, <2>2 DEF Got
  <2>4. PICK a : a = [desc |-> d, free_cnt |-> n - 1]
    OBVIOUS
  <2>5. /\ a \in [desc : Desc \cup {NOBODY}, free_cnt : Nat] /\ a.desc = d /\ a.free_cnt = n - 1
        /\ arena' = [arena EXCEPT ![p] = a] /\ d # NOBODY
    BY <1>1, <2>2, <2>3, <2>4
  <2>6. arena'[p].desc = d
    BY <1>1, <2>5 DEF MallocTypeOK
  <2>7. ListsWith(p)
    BY <1>5, <2>2, <2>3, <2>6, NewBlocks
  <2> QED
    BY <1>2, <1>3, <1>4, <1>5, <2>1, <2>2, <2>5, <2>7, Takes
<1>7. CASE desc[t] \notin Desc
  <2>1. desc[t] = NOBODY
    BY <1>1, <1>7 DEF MallocTypeOK
  <2>2. PICK a : a = [desc |-> NOBODY, free_cnt |-> cnt[t]]
    OBVIOUS
  <2>3. arena' = [arena EXCEPT ![p] = a] /\ free_list' = free_list
    BY <1>1, <1>4, <2>1, <2>2 DEF Got
  <2>4. a \in [desc : Desc \cup {NOBODY}, free_cnt : Nat] /\ a.desc = NOBODY /\ a.free_cnt = cnt[t]
    BY <1>3, <2>2
  <2>5. arena'[p].desc \notin Desc
    BY <1>1, <2>3, <2>4 DEF MallocTypeOK
  <2>6. ListsWith(p)
    BY <1>1, <2>3, <2>5 DEF ListsWith, MallocTypeOK, Ready, MallocIInv, FreeInv, FreeOK
  <2> QED
    BY <1>2, <1>3, <1>4, <1>5, <2>3, <2>4, <2>6, Takes
<1> QED
  BY <1>6, <1>7

\* At the start no memory is in use.
LEMMA MallocInitInv ==
  ASSUME MallocAssumption, MallocInit
  PROVE  MallocIInv
<1>1. /\ NOBODY \notin Client \cup Desc /\ NoArena.desc = NOBODY
      /\ NoArena \in [desc : Desc \cup {NOBODY}, free_cnt : Nat]
  BY DEF MallocAssumption, NoArena
<1>2. /\ \A p \in Pg : arena[p] = NoArena
      /\ \A t \in Client : held[t] = {} /\ mpc[t] = "idle" /\ desc[t] = NOBODY
                           /\ page[t] = 0 /\ cnt[t] = 0 /\ done[t] = 0
      /\ \A d \in Desc : free_list[d] = <<>>
      /\ used_map = {} /\ pool_lock = NOBODY
  BY DEF MallocInit
<1>3. MallocTypeOK
  BY <1>1 DEF MallocInit, MallocTypeOK
<1>4. \A t \in Client : Working(t)
  BY <1>1, <1>2 DEF Working
<1>5. PagesInv
  BY <1>2 DEF PagesInv, OwnedOnce, Occupies, Has
<1>6. HeldInv
  BY <1>2 DEF HeldInv
<1>7. FreeInv
  BY <1>2 DEF FreeInv, FreeOK, Range, IsInjective
<1>8. ArenaInv
  BY <1>2 DEF ArenaInv, ArenaOK
<1> QED
  BY <1>3, <1>4, <1>5, <1>6, <1>7, <1>8 DEF MallocIInv

\* Every step keeps the invariant.
LEMMA MallocNextInv ==
  ASSUME Ready, [MallocNext]_memory
  PROVE  MallocIInv'
<1>1. CASE UNCHANGED memory
  <2>1. /\ UNCHANGED <<used_map, pool_lock, free_list, arena, held, mpc, desc, page, cnt, done>>
        /\ UNCHANGED heap
    BY <1>1 DEF memory, heap
  <2>2. MallocTypeOK' /\ \A t \in Client : Working(t)'
    BY <2>1 DEF Ready, MallocIInv, MallocTypeOK, Working
  <2>3. PagesInv'
    BY <2>1 DEF Ready, MallocIInv, PagesInv, OwnedOnce, Occupies, Has, Size
  <2> QED
    BY <2>1, <2>2, <2>3, BlocksKept DEF MallocIInv
<1>2. CASE MallocNext
  <2>1. PICK t \in Client : ClientStep(t)
    BY <1>2 DEF MallocNext
  <2>2. CASE LockPool(t) \/ Scan(t) \/ ScanFinds(t) \/ ScanFails(t) \/ Mark(t) \/ Reset(t) \/ ResetEnds(t)
    BY <2>2, LockPoolStep, ScanStep, ScanFindsStep, ScanFailsStep, MarkStep, ResetStep, ResetEndsStep
  <2>3. CASE \E d \in Desc : malloc(t, d) \/ MallocArena(t, d)
    BY <2>3, mallocStep, MallocArenaStep
  <2>4. CASE \E n \in Big : MallocBig(t, n)
    BY <2>4, MallocBigStep
  <2>5. CASE Got(t)
    BY <2>5, GotStep
  <2>6. CASE \E b \in held[t] : free(t, b) \/ FreeArena(t, b) \/ FreeBig(t, b)
    BY <2>6, freeStep, FreeArenaStep, FreeBigStep
  <2> QED
    BY <2>1, <2>2, <2>3, <2>4, <2>5, <2>6 DEF ClientStep
<1> QED
  BY <1>1, <1>2

\* The pages of a claim are those its arena or big block takes up, or its thread has.
LEMMA ClaimIs ==
  ASSUME Ready, NEW c
  PROVE  c \in Claims <=>
           \/ \E p \in Pg : /\ arena[p] # NoArena
                            /\ c = [by |-> p, pages |-> {x \in Pg : Occupies(p, x)}]
           \/ \E t \in Client : /\ mpc[t] \in {"mark", "got", "reset"}
                                /\ c = [by |-> t, pages |-> {x \in Pg : Has(t, x)}]
<1> DEFINE P(t) == IF mpc[t] = "reset" THEN Pages(page[t] + done[t], cnt[t] - done[t])
                     ELSE Pages(page[t], done[t])
<1>1. ASSUME NEW p \in Pg, arena[p] # NoArena
      PROVE  Pages(p, Size(p)) = {x \in Pg : Occupies(p, x)}
  <2>1. p \in Nat /\ Size(p) \in Nat /\ p + Size(p) =< PAGE_CNT /\ PAGE_CNT \in Nat
    BY <1>1, WhatIsAt DEF Ready, MallocIInv, PagesInv, MallocAssumption
  <2>2. \A x : x \in Pages(p, Size(p)) <=> x \in Pg /\ Occupies(p, x)
    BY <1>1, <2>1 DEF Pages, Occupies, Pg
  <2> QED
    BY <2>2
<1>2. ASSUME NEW t \in Client, mpc[t] \in {"mark", "got", "reset"}
      PROVE  P(t) = {x \in Pg : Has(t, x)}
  <2>1. /\ page[t] \in Nat /\ cnt[t] \in Nat /\ done[t] \in Nat /\ done[t] =< cnt[t]
        /\ page[t] + cnt[t] =< PAGE_CNT /\ PAGE_CNT \in Nat
    BY <1>2 DEF Ready, MallocIInv, Working, MallocTypeOK, MallocAssumption
  <2>2. \A x : x \in P(t) <=> x \in Pg /\ Has(t, x)
    BY <1>2, <2>1 DEF Pages, Has, Pg
  <2> QED
    BY <2>2
<1>3. c \in Claims <=>
        \/ \E p \in Pg : arena[p] # NoArena /\ c = [by |-> p, pages |-> Pages(p, Size(p))]
        \/ \E t \in Client : mpc[t] \in {"mark", "got", "reset"} /\ c = [by |-> t, pages |-> P(t)]
  BY DEF Claims
<1> HIDE DEF P
<1> QED
  BY <1>1, <1>2, <1>3

\* No page has two owners.
LEMMA PagesOwned ==
  ASSUME Ready
  PROVE  PagesOwnedOnce
<1>1. ASSUME NEW c \in Claims, NEW e \in Claims, c # e PROVE c.pages \cap e.pages = {}
  <2>1. SUFFICES ASSUME NEW x \in c.pages, x \in e.pages PROVE FALSE
    OBVIOUS
  <2>2. x \in Pg
    BY ClaimIs
  <2>3. OwnedOnce(x)
    BY <2>2 DEF Ready, MallocIInv, PagesInv
  <2>4. \/ \E p \in Pg : c = [by |-> p, pages |-> {y \in Pg : Occupies(p, y)}] /\ Occupies(p, x)
        \/ \E t \in Client : c = [by |-> t, pages |-> {y \in Pg : Has(t, y)}] /\ Has(t, x)
    BY ClaimIs
  <2>5. \/ \E p \in Pg : e = [by |-> p, pages |-> {y \in Pg : Occupies(p, y)}] /\ Occupies(p, x)
        \/ \E t \in Client : e = [by |-> t, pages |-> {y \in Pg : Has(t, y)}] /\ Has(t, x)
    BY <2>1, ClaimIs
  <2> HIDE DEF Occupies, Has
  <2> QED
    BY <1>1, <2>3, <2>4, <2>5 DEF OwnedOnce
<1>2. used_map = UNION {c.pages : c \in Claims}
  <2>1. used_map \subseteq Pg /\ \A x \in Pg : OwnedOnce(x)
    BY DEF Ready, MallocIInv, MallocTypeOK, PagesInv
  <2>2. ASSUME NEW x \in used_map PROVE \E c \in Claims : x \in c.pages
    <3>1. x \in Pg /\ OwnedOnce(x)
      BY <2>1
    <3>2. CASE \E p \in Pg : Occupies(p, x)
      <4>1. PICK p \in Pg : Occupies(p, x)
        BY <3>2
      <4>2. arena[p] # NoArena
        BY <4>1 DEF Occupies
      <4>3. [by |-> p, pages |-> {y \in Pg : Occupies(p, y)}] \in Claims
        BY <4>2, ClaimIs
      <4> QED
        BY <3>1, <4>1, <4>3
    <3>3. CASE \E t \in Client : Has(t, x)
      <4>1. PICK t \in Client : Has(t, x)
        BY <3>3
      <4>2. mpc[t] \in {"mark", "got", "reset"}
        BY <4>1 DEF Has
      <4>3. [by |-> t, pages |-> {y \in Pg : Has(t, y)}] \in Claims
        BY <4>2, ClaimIs
      <4> QED
        BY <3>1, <4>1, <4>3
    <3> QED
      BY <3>1, <3>2, <3>3 DEF OwnedOnce
  <2>3. ASSUME NEW c \in Claims, NEW x \in c.pages PROVE x \in used_map
    <3>1. x \in Pg /\ ((\E p \in Pg : Occupies(p, x)) \/ \E t \in Client : Has(t, x))
      BY ClaimIs
    <3> QED
      BY <2>1, <3>1 DEF OwnedOnce
  <2> QED
    BY <2>2, <2>3
<1>3. ASSUME NEW t \in Client PROVE ResetAsserts(t)
  <2>1. SUFFICES ASSUME mpc[t] = "reset", done[t] = 0, NEW x \in page[t]..(page[t] + cnt[t] - 1)
                 PROVE  x \in used_map
    BY DEF ResetAsserts
  <2>2. page[t] \in Nat /\ cnt[t] \in Nat /\ page[t] + cnt[t] =< PAGE_CNT /\ PAGE_CNT \in Nat
    BY <2>1 DEF Ready, MallocIInv, Working, MallocTypeOK, MallocAssumption
  <2>3. x \in Pg /\ Has(t, x)
    BY <2>1, <2>2 DEF Has, Pg
  <2> QED
    BY <2>3 DEF Ready, MallocIInv, PagesInv, OwnedOnce
<1> QED
  BY <1>1, <1>2, <1>3 DEF PagesOwnedOnce

\* No block has two, and none is lost.
LEMMA BlocksOwned ==
  ASSUME Ready
  PROVE  BlocksAccounted
<1> SUFFICES ASSUME NEW d \in Desc
             PROVE  /\ IsInjective(free_list[d])
                    /\ \A b \in ToSet(free_list[d]) : arena[b[1]].desc = d
                    /\ \A p \in Pg : arena[p].desc = d =>
                         LET onlist == {b \in ToSet(free_list[d]) : b[1] = p}
                             holders(i) == {t \in Client : <<p, i>> \in held[t]}
                         IN  /\ arena[p].free_cnt = Cardinality(onlist)
                             /\ arena[p].free_cnt < blocks_per_arena[d]
                             /\ \A i \in 0..(blocks_per_arena[d] - 1) :
                                  Cardinality(holders(i)) = IF <<p, i>> \in onlist THEN 0 ELSE 1
  BY DEF BlocksAccounted
<1>1. ToSet(free_list[d]) = Range(free_list[d])
  BY DEF ToSet, Range
<1>2. FreeOK(d)
  BY DEF Ready, MallocIInv, FreeInv
<1>3. ASSUME NEW p \in Pg, arena[p].desc = d
      PROVE  /\ arena[p].free_cnt = Cardinality(OnList(d, p))
             /\ arena[p].free_cnt < blocks_per_arena[d]
             /\ \A i \in 0..(blocks_per_arena[d] - 1) :
                  Cardinality({t \in Client : <<p, i>> \in held[t]})
                    = IF <<p, i>> \in OnList(d, p) THEN 0 ELSE 1
  <2>1. ArenaOK(p) /\ arena[p] # NoArena /\ BlocksAt(p) = blocks_per_arena[d]
        /\ blocks_per_arena[d] \in Nat
    BY <1>3, WhatIsAt DEF Ready, MallocIInv, ArenaInv, BlocksAt, MallocAssumption
  <2>2. arena[p].free_cnt = Cardinality(OnList(d, p)) /\ arena[p].free_cnt < blocks_per_arena[d]
    BY <1>3, <2>1 DEF ArenaOK
  <2>3. ASSUME NEW i \in 0..(blocks_per_arena[d] - 1)
        PROVE  Cardinality({t \in Client : <<p, i>> \in held[t]}) = IF <<p, i>> \in OnList(d, p) THEN 0 ELSE 1
    <3>1. PICK H : H = {t \in Client : <<p, i>> \in held[t]}
      OBVIOUS
    <3>2. CASE <<p, i>> \in OnList(d, p)
      <4>1. H = {}
        BY <1>2, <3>1, <3>2 DEF FreeOK, OnList
      <4> QED
        BY <3>1, <3>2, <4>1, FS_EmptySet
    <3>3. CASE <<p, i>> \notin OnList(d, p)
      <4>1. i \in Nat /\ i < BlocksAt(p) /\ ~OnFreeList(p, i)
        BY <1>3, <2>1, <3>3 DEF OnFreeList
      <4>2. PICK t \in Client : <<p, i>> \in held[t]
        BY <2>1, <4>1 DEF ArenaOK, InUse
      <4>3. H = {t}
        BY <3>1, <4>2 DEF Ready, MallocIInv, HeldInv
      <4> QED
        BY <3>1, <3>3, <4>3, FS_Singleton
    <3> QED
      BY <3>2, <3>3
  <2> QED
    BY <2>2, <2>3
<1>4. \A p : {b \in ToSet(free_list[d]) : b[1] = p} = OnList(d, p)
  BY <1>1 DEF OnList
<1> QED
  BY <1>1, <1>2, <1>3, <1>4 DEF FreeOK

\* No page and no block has two owners, and none is lost to the allocators, for any
\* number of threads, any block sizes, any big blocks and any size of the pool,
\* though palloc_free_multiple() clears the map without the lock.
THEOREM MemoryCorrect == MallocSpec => []MemoryOwnedOnce
<1>1. MallocInit => MallocIInv
  BY MallocAssumption, MallocInitInv
<1>2. MallocIInv /\ [MallocNext]_memory => MallocIInv'
  BY MallocAssumption, MallocNextInv DEF Ready
<1>3. MallocIInv => MemoryOwnedOnce
  BY MallocAssumption, PagesOwned, BlocksOwned DEF Ready, MemoryOwnedOnce
<1> QED
  BY <1>1, <1>2, <1>3, PTL DEF MallocSpec

-----------------------------------------------------------------------------
(* A file that grows.                                                      *)

B == BLOCK_SECTOR_SIZE
sectors(n) == bytes_to_data_sectors(n)

-----------------------------------------------------------------------------
(* The inductive invariant. *)

\* Who has the inode's lock.
Owning ==
  /\ \A w \in Writer : pc[w] = "expand" \/ (isdir /\ pc[w] # "idle") => owner = w
  /\ owner \in Reader => isdir
  /\ \A w \in Writer : pc[w] # "read"
  /\ \A r \in Reader : pc[r] \in {"idle", "read"}

\* What a writer was called with, and why it expands the file.
AskedFor ==
  \A w \in Writer :
    /\ pc[w] # "idle" => end[w] > 0 /\ offset[w] + size[w] = end[w]
    /\ pc[w] \in {"lock", "expand"} => end[w] > tested[w]

\* new_data_sectors is what is missing, wrapped where it is less than nothing.
Reckoned ==
  \A w \in Writer : pc[w] = "expand" => need[w] = Wrap(sectors(end[w]) - blocks)

\* Calls that never overlapped: one at a time, and what it appends is hidden.
OneCall ==
  /\ ~shared => \A v, w \in Busy : v = w
  /\ shared => ~isdir

\* Nobody else makes the file longer for the only writer.
Unmapped == ~shared => \A w \in Writer : pc[w] = "unmapped" => offset[w] >= length

Hidden ==
  ~shared /\ ~shrunk =>
    /\ read_length =< length
    /\ \A r \in Reader : known[r] =< read_length
    /\ \A w \in Busy : read_length =< tested[w]

FileIInv ==
  /\ Mapped
  /\ Owning
  /\ AskedFor
  /\ Reckoned
  /\ AllocatedOnce
  /\ OneCall
  /\ Unmapped
  /\ Hidden
  /\ NoZeroReadAlone

-----------------------------------------------------------------------------
(* Arithmetic. *)

\* A product grows with its first factor.
LEMMA TimesMonotone ==
  ASSUME NEW d \in Nat \ {0}, NEW m \in Int, NEW n \in Int
  PROVE  /\ m * d \in Int
         /\ m =< n => m * d =< n * d
         /\ m < n => m * d + d =< n * d
         /\ (m + n) * d = m * d + n * d /\ (m - n) * d = m * d - n * d
         /\ (m - 1) * d = m * d - d /\ (m + 1) * d = m * d + d
<1>1. m * d \in Int /\ n * d \in Int
  OBVIOUS
<1>2. (m + n) * d = m * d + n * d /\ (m - n) * d = m * d - n * d
  OBVIOUS
<1>3. (m - 1) * d = m * d - d /\ (m + 1) * d = m * d + d
  OBVIOUS
<1>4. ASSUME NEW k \in Nat PROVE k * d >= 0
  OBVIOUS
<1>5. m =< n => m * d =< n * d
  <2>1. ASSUME m =< n PROVE m * d =< n * d
    <3>1. n - m \in Nat /\ (n - m) * d = n * d - m * d
      BY <2>1
    <3> QED
      BY <1>1, <1>4, <3>1
  <2> QED
    BY <2>1
<1>6. m < n => m * d + d =< n * d
  <2>1. ASSUME m < n PROVE m * d + d =< n * d
    <3>1. n - m - 1 \in Nat /\ (n - m - 1) * d = n * d - m * d - d
      BY <2>1
    <3> QED
      BY <1>1, <1>4, <3>1
  <2> QED
    BY <2>1
<1> QED
  BY <1>1, <1>2, <1>3, <1>5, <1>6

\* bytes_to_data_sectors() is the one number of sectors that n bytes fill but for
\* a part of the last.
LEMMA SectorsOf ==
  ASSUME FileAssumption, NEW n \in Int
  PROVE  /\ sectors(n) \in Int
         /\ (sectors(n) - 1) * B < n /\ n =< sectors(n) * B
         /\ n >= 0 => sectors(n) >= 0
         /\ n > 0 => sectors(n) > 0
         /\ \A k \in Int : (k - 1) * B < n /\ n =< k * B => sectors(n) = k
<1>1. B \in Nat \ {0}
  BY DEF B, FileAssumption
<1> DEFINE q == sectors(n)
<1>2. q \in Int /\ B * q =< n + B - 1 /\ n + B - 1 < B * q + B
  <2>1. \A m \in Int : m \div B \in Int /\ B * (m \div B) =< m /\ m < B * (m \div B) + B
    BY <1>1
  <2> QED
    BY <1>1, <2>1 DEF sectors, bytes_to_data_sectors, B
<1> HIDE DEF q
<1>3. q * B = B * q /\ q * B \in Int
  BY <1>1, <1>2
<1>4. (q - 1) * B < n /\ n =< q * B
  BY <1>1, <1>2, <1>3, TimesMonotone
<1>5. n >= 0 => q >= 0
  <2>1. q < 0 => q * B + B =< 0 * B
    BY <1>1, <1>2, TimesMonotone
  <2> QED
    BY <1>1, <1>2, <1>3, <1>4, <2>1
<1>6. n > 0 => q > 0
  <2>1. q =< 0 => q * B =< 0 * B
    BY <1>1, <1>2, TimesMonotone
  <2> QED
    BY <1>1, <1>2, <1>3, <1>4, <2>1
<1>7. ASSUME NEW k \in Int, (k - 1) * B < n, n =< k * B PROVE q = k
  <2>1. k * B \in Int /\ (k - 1) * B = k * B - B /\ (q - 1) * B = q * B - B
    BY <1>1, <1>2, TimesMonotone
  <2>2. q < k => q * B + B =< k * B
    BY <1>1, <1>2, TimesMonotone
  <2>3. k < q => k * B + B =< q * B
    BY <1>1, <1>2, TimesMonotone
  <2> QED
    BY <1>1, <1>2, <1>3, <1>4, <1>7, <2>1, <2>2, <2>3
<1> QED
  BY <1>2, <1>4, <1>5, <1>6, <1>7 DEF q

\* size_t arithmetic is right where the result fits, whatever wrapped before.
LEMMA WrapTwice ==
  ASSUME FileAssumption, NEW n \in Int, NEW d \in Int, n - d * B \in 0..(SIZE_T - 1)
  PROVE  /\ Wrap(d) \in 0..(SIZE_T - 1)
         /\ Wrap(n - Wrap(d) * B) = n - d * B
<1>1. SIZE_T \in Nat \ {0} /\ B \in Nat \ {0}
  <2>1. MaxEnd \in Nat /\ MaxEnd < SIZE_T /\ SIZE_T \in Nat
    BY DEF FileAssumption
  <2> QED
    BY <2>1 DEF FileAssumption, B
<1>2. \A m \in Int : /\ m % SIZE_T \in 0..(SIZE_T - 1) /\ m \div SIZE_T \in Int
                     /\ m = (m \div SIZE_T) * SIZE_T + (m % SIZE_T)
  <2>1. ASSUME NEW m \in Int
        PROVE  /\ m % SIZE_T \in 0..(SIZE_T - 1) /\ m \div SIZE_T \in Int
               /\ m = (m \div SIZE_T) * SIZE_T + (m % SIZE_T)
    BY <1>1
  <2> QED
    BY <2>1
<1>3. PICK p \in Int : d = p * SIZE_T + Wrap(d)
  BY <1>2 DEF Wrap
<1>4. Wrap(d) \in 0..(SIZE_T - 1)
  BY <1>2 DEF Wrap
<1> DEFINE r == Wrap(d)
           x == n - r * B
<1>5. r \in Int /\ r * B \in Int /\ x \in Int
  BY <1>1, <1>4
<1>6. d * B = (p * B) * SIZE_T + r * B
  <2>1. d = p * SIZE_T + r
    BY <1>3
  <2> HIDE DEF r, x
  <2>2. (p * SIZE_T + r) * B = (p * SIZE_T) * B + r * B
    BY <1>1, <1>5
  <2>3. (p * SIZE_T) * B = (p * B) * SIZE_T
    BY <1>1
  <2> QED
    BY <2>1, <2>2, <2>3
<1> DEFINE e == n - d * B
<1>7. e \in 0..(SIZE_T - 1) /\ x = e + (p * B) * SIZE_T
  BY <1>1, <1>5, <1>6
<1>8. PICK c \in Int : x = c * SIZE_T + Wrap(x)
  BY <1>2, <1>5 DEF Wrap
<1>9. Wrap(x) \in 0..(SIZE_T - 1)
  BY <1>2, <1>5 DEF Wrap
<1> HIDE DEF r, x, e
<1>10. Wrap(x) = e
  <2> DEFINE y == Wrap(x)
             g == p * B
  <2>1. y \in 0..(SIZE_T - 1) /\ g \in Int /\ e + g * SIZE_T = c * SIZE_T + y
    BY <1>1, <1>7, <1>8, <1>9
  <2> HIDE DEF y, g
  <2>2. c * SIZE_T \in Int /\ g * SIZE_T \in Int
    BY <1>1, <2>1
  <2>3. c < g => c * SIZE_T + SIZE_T =< g * SIZE_T
    BY <1>1, <2>1, TimesMonotone
  <2>4. g < c => g * SIZE_T + SIZE_T =< c * SIZE_T
    BY <1>1, <2>1, TimesMonotone
  <2>5. c = g
    BY <1>1, <1>7, <2>1, <2>2, <2>3, <2>4
  <2> QED
    BY <1>7, <2>1, <2>2, <2>5 DEF y
<1> QED
  BY <1>4, <1>10 DEF x, e, r


\* One sector less to go.
LEMMA WrapLess ==
  ASSUME FileAssumption, NEW d \in Int, Wrap(d) > 0
  PROVE  Wrap(d - 1) = Wrap(d) - 1
<1>1. SIZE_T \in Nat \ {0}
  <2>1. MaxEnd \in Nat /\ MaxEnd < SIZE_T /\ SIZE_T \in Nat
    BY DEF FileAssumption
  <2> QED
    BY <2>1
<1>2. ASSUME NEW m \in Int
      PROVE  /\ m % SIZE_T \in 0..(SIZE_T - 1) /\ m \div SIZE_T \in Int
             /\ m = (m \div SIZE_T) * SIZE_T + (m % SIZE_T)
  BY <1>1
<1>3. PICK p \in Int : d = p * SIZE_T + Wrap(d)
  BY <1>2 DEF Wrap
<1>4. PICK c \in Int : d - 1 = c * SIZE_T + Wrap(d - 1)
  BY d - 1 \in Int, <1>2 DEF Wrap
<1> DEFINE x == Wrap(d)
           y == Wrap(d - 1)
<1>5. x \in 0..(SIZE_T - 1) /\ y \in 0..(SIZE_T - 1)
  BY <1>2 DEF Wrap
<1> HIDE DEF x, y
<1>6. d = p * SIZE_T + x /\ d - 1 = c * SIZE_T + y /\ x > 0
  BY <1>3, <1>4 DEF x, y
<1>7. c * SIZE_T \in Int /\ p * SIZE_T \in Int
  BY <1>1
<1>8. c < p => c * SIZE_T + SIZE_T =< p * SIZE_T
  BY <1>1, TimesMonotone
<1>9. p < c => p * SIZE_T + SIZE_T =< c * SIZE_T
  BY <1>1, TimesMonotone
<1>10. c = p
  BY <1>1, <1>5, <1>6, <1>7, <1>8, <1>9
<1> QED
  BY <1>5, <1>6, <1>7, <1>10 DEF x, y

\* What does not wrap stays what it is.
LEMMA WrapFits ==
  ASSUME FileAssumption, NEW d \in Int, -SIZE_T < d, d < SIZE_T
  PROVE  (Wrap(d) = 0 => d = 0) /\ (d >= 0 => Wrap(d) = d)
<1>1. SIZE_T \in Nat \ {0}
  <2>1. MaxEnd \in Nat /\ MaxEnd < SIZE_T /\ SIZE_T \in Nat
    BY DEF FileAssumption
  <2> QED
    BY <2>1
<1>2. /\ d % SIZE_T \in 0..(SIZE_T - 1) /\ d \div SIZE_T \in Int
      /\ d = (d \div SIZE_T) * SIZE_T + (d % SIZE_T)
  BY <1>1
<1>3. PICK p \in Int : d = p * SIZE_T + Wrap(d)
  BY <1>2 DEF Wrap
<1> DEFINE x == Wrap(d)
<1>4. x \in 0..(SIZE_T - 1)
  BY <1>2 DEF Wrap
<1> HIDE DEF x
<1>5. d = p * SIZE_T + x /\ p * SIZE_T \in Int
  BY <1>1, <1>3 DEF x
<1>6. 0 < p => 0 * SIZE_T + SIZE_T =< p * SIZE_T
  BY <1>1, TimesMonotone
<1>7. p < -1 => p * SIZE_T + SIZE_T =< (-1) * SIZE_T
  BY <1>1, TimesMonotone
<1>8. p = 0 \/ p = -1
  BY <1>1, <1>4, <1>5, <1>6, <1>7
<1> QED
  BY <1>1, <1>4, <1>5, <1>8 DEF x

\* The result of inode_expand(): the length asked for, and where the index is
\* full whole sectors less - or, of a stale request, more - so that the sectors
\* there are hold it exactly.
LEMMA Expanded ==
  ASSUME FileAssumption, NEW n \in 1..MaxEnd, NEW b \in 0..MaxBlocks,
         Wrap(sectors(n) - b) = 0 \/ b = MaxBlocks
  PROVE  LET e == Wrap(n - Wrap(sectors(n) - b) * B)
         IN  /\ e \in 0..Capacity
             /\ e =< b * B
             /\ sectors(e) = b
             /\ e >= n \/ (b = MaxBlocks /\ n > Capacity)
<1>1. /\ B \in Nat \ {0} /\ MaxBlocks \in Nat \ {0} /\ SIZE_T \in Nat /\ MaxEnd \in Nat
      /\ MaxBlocks * B < SIZE_T /\ MaxEnd < SIZE_T
  BY DEF FileAssumption, B
<1>2. n \in Int /\ b \in Int /\ n > 0 /\ n < SIZE_T /\ b >= 0 /\ b =< MaxBlocks
  BY <1>1
<1> DEFINE q == sectors(n)
           d == q - b
           e == n - d * B
<1>3. q \in Int /\ (q - 1) * B < n /\ n =< q * B /\ q > 0
  BY <1>2, SectorsOf
<1> HIDE DEF q
<1>4. d * B = q * B - b * B /\ q * B \in Int /\ b * B \in Int /\ (q - 1) * B = q * B - B
      /\ (b - 1) * B = b * B - B
  BY <1>1, <1>2, <1>3, TimesMonotone
<1>5. e \in Int /\ e =< b * B /\ (b - 1) * B < e
  BY <1>1, <1>2, <1>3, <1>4
<1>6. b * B =< MaxBlocks * B /\ MaxBlocks * B \in Nat
  BY <1>1, <1>2, TimesMonotone
<1>7. q < SIZE_T
  <2>1. q - 1 < (q - 1) * B \/ q = 1 \/ B = 1
    <3>1. CASE q # 1 /\ B # 1
      <4>1. q - 1 \in Nat \ {0} /\ B >= 2 /\ (q - 1) * B >= (q - 1) * 2
        BY <1>1, <1>3, <3>1
      <4>2. q - 1 < (q - 1) * 2 /\ (q - 1) * B \in Int /\ (q - 1) * 2 \in Int /\ q - 1 \in Int
        BY <1>1, <1>3, <4>1
      <4> QED
        BY <4>1, <4>2
    <3> QED
      BY <3>1
  <2> QED
    BY <1>1, <1>2, <1>3, <2>1
<1>8. b < SIZE_T
  <2>1. b =< b * B
    BY <1>1, <1>2
  <2> QED
    BY <1>1, <1>2, <1>4, <1>6, <2>1
<1>9. Wrap(d) = 0 => d = 0
  BY <1>1, <1>2, <1>3, <1>7, <1>8, WrapFits
<1>10. d \in Int
  BY <1>2, <1>3
<1>11. CASE Wrap(d) = 0
  <2>1. d = 0 /\ q = b
    BY <1>2, <1>3, <1>9, <1>11
  <2>2. e = n
    BY <1>2, <1>4, <2>1
  <2>3. n \in 0..(SIZE_T - 1)
    BY <1>1, <1>2
  <2>4. Wrap(n - Wrap(d) * B) = n
    BY <1>10, <2>2, <2>3, WrapTwice
  <2>5. n =< b * B /\ n \in 0..Capacity
    BY <1>1, <1>2, <1>3, <1>6, <2>1 DEF Capacity, B
  <2> QED
    BY <1>2, <2>1, <2>4, <2>5 DEF q
<1>12. CASE b = MaxBlocks
  <2>1. (b - 1) * B >= 0
    BY <1>1, <1>12
  <2>2. e \in 0..(MaxBlocks * B) /\ e \in 0..(SIZE_T - 1)
    <3>1. e > 0 /\ e =< MaxBlocks * B
      <4>1. (b - 1) * B \in Int
        BY <1>1, <1>2, TimesMonotone
      <4> HIDE DEF e
      <4> QED
        BY <1>4, <1>5, <1>12, <2>1, <4>1
    <3> QED
      BY <1>1, <1>5, <1>6, <3>1
  <2>3. Wrap(n - Wrap(d) * B) = e
    BY <1>2, <1>10, <2>2, WrapTwice
  <2>4. sectors(e) = b
    BY <1>2, <1>5, SectorsOf
  <2>5. e >= n \/ n > MaxBlocks * B
    <3>1. CASE q =< b
      <4>1. q * B =< b * B
        BY <1>1, <1>2, <1>3, <3>1, TimesMonotone
      <4> QED
        BY <1>2, <1>4, <4>1
    <3>2. CASE b < q
      <4>1. b * B + B =< q * B
        BY <1>1, <1>2, <1>3, <3>2, TimesMonotone
      <4> QED
        BY <1>1, <1>2, <1>3, <1>4, <1>12, <4>1
    <3> QED
      BY <1>2, <1>3, <3>1, <3>2
  <2> QED
    BY <1>5, <1>12, <2>2, <2>3, <2>4, <2>5 DEF q, Capacity, B
<1> QED
  BY <1>11, <1>12 DEF q


\* What fits in a sector is no more than is left to write, or left of the file.
LEMMA ChunkFits ==
  ASSUME FileAssumption, NEW from \in Nat, NEW n \in Nat, NEW len \in Nat
  PROVE  /\ Chunk(from, n, len) \in Int
         /\ Chunk(from, n, len) =< n /\ Chunk(from, n, len) =< len - from
<1> DEFINE left == B - (from % B)
           S == {n, len - from, left}
<1>1. left \in Int
  <2>1. B \in Nat \ {0}
    BY DEF FileAssumption, B
  <2> QED
    BY <2>1
<1> HIDE DEF left
<1>2. \E x \in S : \A y \in S : x =< y
  <2>1. n \in Int /\ len - from \in Int
    OBVIOUS
  <2> QED
    BY <1>1, <2>1
<1>3. Chunk(from, n, len) \in S /\ \A y \in S : Chunk(from, n, len) =< y
  <2> DEFINE c == CHOOSE x \in S : \A y \in S : x =< y
  <2>1. c \in S /\ \A y \in S : c =< y
    BY <1>2
  <2>2. Chunk(from, n, len) = c
    BY DEF Chunk, Least, left, B
  <2> QED
    BY <2>1, <2>2
<1> QED
  BY <1>1, <1>3

-----------------------------------------------------------------------------
(* Each step keeps the invariant. *)

\* What is the same for the other threads.
Others(t) ==
  /\ \A u \in (Writer \cup Reader) \ {t} : pc'[u] = pc[u]
  /\ \A w \in Writer \ {t} : /\ offset'[w] = offset[w] /\ size'[w] = size[w] /\ end'[w] = end[w]
                             /\ need'[w] = need[w] /\ tested'[w] = tested[w]
  /\ \A r \in Reader \ {t} : known'[r] = known[r]

\* The lock changes hands only through its holder.
LEMMA OwningStep ==
  ASSUME FileAssumption, FileIInv, NEW t \in Writer \cup Reader, Others(t),
         isdir' = isdir, owner' = owner \/ owner \in {t, NULL}, owner' \in {owner, t, NULL},
         t \in Writer => /\ pc'[t] = "expand" \/ (isdir /\ pc'[t] # "idle") => owner' = t
                         /\ pc'[t] # "read",
         t \in Reader => /\ owner' = t => isdir
                         /\ pc'[t] \in {"idle", "read"}
  PROVE  Owning'
<1>1. \A w \in Writer \ {t} : pc'[w] = pc[w] /\ w # NULL
  BY DEF Others, FileAssumption
<1>2. \A r \in Reader \ {t} : pc'[r] = pc[r] /\ r # NULL
  BY DEF Others, FileAssumption
<1>3. \A w \in Writer : pc'[w] = "expand" \/ (isdir' /\ pc'[w] # "idle") => owner' = w
  BY <1>1 DEF FileIInv, Owning
<1>4. owner' \in Reader => isdir'
  BY DEF FileIInv, Owning, FileAssumption
<1>5. (\A w \in Writer : pc'[w] # "read") /\ \A r \in Reader : pc'[r] \in {"idle", "read"}
  BY <1>1, <1>2 DEF FileIInv, Owning
<1> QED
  BY <1>3, <1>4, <1>5 DEF Owning

\* A step of a writer that writes what the file has.
LEMMA LockStays ==
  ASSUME FileAssumption, FileIInv, NEW w \in Writer, Others(w), pc[w] # "idle",
         pc'[w] \in {"copy", "mapped", "unmapped"}, isdir' = isdir, owner' = owner
  PROVE  Owning'
<1>1. isdir => owner' = w
  BY DEF FileIInv, Owning
<1>2. w \notin Reader
  BY DEF FileAssumption
<1> QED
  BY <1>1, <1>2, OwningStep

\* inode_write_at() is called.
LEMMA WriteStepKeeps ==
  ASSUME FileAssumption, FileIInv, NEW w \in Writer, Write(w)
  PROVE  FileIInv'
<1>1. TypeOK /\ MaxEnd \in Nat /\ Capacity \in Nat
  BY DEF FileIInv, Mapped, FileAssumption, Capacity
<1>2. PICK o \in 0..MaxEnd, n \in 1..MaxSize :
        /\ o + n =< MaxEnd
        /\ offset' = [offset EXCEPT ![w] = o]
        /\ size' = [size EXCEPT ![w] = n]
        /\ end' = [end EXCEPT ![w] = o + n]
        /\ Goto(w, IF o + n > length THEN "lock" ELSE "copy")
  BY DEF Write
<1>3. PICK label \in {"lock", "copy"} :
        /\ pc' = [pc EXCEPT ![w] = label]
        /\ label = "lock" => o + n > length
  BY <1>2 DEF Goto
<1>4. /\ pc[w] = "idle"
      /\ IF isdir THEN owner = NULL /\ owner' = w ELSE UNCHANGED owner
      /\ tested' = [tested EXCEPT ![w] = length]
      /\ shared' = (shared \/ Busy # {})
      /\ UNCHANGED <<length, read_length, isdir, blocks, content>>
      /\ UNCHANGED <<deny_write_cnt, need, known, zero, shrunk, panicked>>
  BY DEF Write, file
<1>5. /\ pc'[w] = label /\ offset'[w] = o /\ size'[w] = n /\ end'[w] = o + n /\ tested'[w] = length
      /\ Others(w)
  BY <1>1, <1>2, <1>3, <1>4 DEF TypeOK, Others
<1>6. o + n \in 0..MaxEnd /\ o + n > 0 /\ n \in 0..MaxEnd
  <2>1. MaxSize \in Nat
    BY DEF FileAssumption
  <2> QED
    BY <1>1, <1>2, <2>1
<1>7. TypeOK'
  <2>1. /\ offset' \in [Writer -> 0..MaxEnd] /\ size' \in [Writer -> 0..MaxEnd]
        /\ end' \in [Writer -> 0..MaxEnd] /\ tested' \in [Writer -> 0..Capacity]
    BY <1>1, <1>2, <1>4, <1>6 DEF TypeOK
  <2>2. pc' \in [Writer \cup Reader -> Labels]
    BY <1>1, <1>3 DEF TypeOK, Labels
  <2>3. owner' \in Writer \cup Reader \cup {NULL} /\ shared' \in BOOLEAN
    BY <1>1, <1>4 DEF TypeOK
  <2> QED
    BY <1>1, <1>4, <2>1, <2>2, <2>3 DEF TypeOK
<1>8. Mapped'
  BY <1>4, <1>7 DEF FileIInv, Mapped
<1>9. Owning'
  <2>1. (owner' = owner \/ owner \in {w, NULL}) /\ owner' \in {owner, w}
    BY <1>4
  <2>2. isdir => owner' = w
    BY <1>4
  <2>3. w \notin Reader
    BY DEF FileAssumption
  <2> QED
    BY <1>4, <1>5, <2>1, <2>2, <2>3, OwningStep
<1>10. AskedFor'
  <2>1. ASSUME NEW v \in Writer \ {w}
        PROVE  /\ pc'[v] # "idle" => end'[v] > 0 /\ offset'[v] + size'[v] = end'[v]
               /\ pc'[v] \in {"lock", "expand"} => end'[v] > tested'[v]
    BY <1>5 DEF FileIInv, AskedFor, Others
  <2>2. end'[w] > 0 /\ offset'[w] + size'[w] = end'[w] /\ (pc'[w] = "lock" => end'[w] > tested'[w])
    BY <1>3, <1>5, <1>6
  <2>3. pc'[w] # "expand"
    BY <1>5
  <2> QED
    BY <2>1, <2>2, <2>3 DEF AskedFor
<1>11. Reckoned'
  <2>1. ASSUME NEW v \in Writer, pc'[v] = "expand" PROVE need'[v] = Wrap(sectors(end'[v]) - blocks')
    <3>1. v # w
      BY <1>5, <2>1
    <3> QED
      BY <1>4, <1>5, <2>1, <3>1 DEF FileIInv, Reckoned, Others
  <2> QED
    BY <2>1 DEF Reckoned, sectors, bytes_to_data_sectors
<1>12. AllocatedOnce'
  BY <1>4, <1>5 DEF FileIInv, AllocatedOnce, Others, bytes_to_data_sectors
<1>13. OneCall' /\ Hidden'
  <2>1. CASE shared'
    <3>1. ~isdir
      <4>1. isdir => \A v \in Writer : pc[v] = "idle"
        BY <1>4 DEF FileIInv, Owning, FileAssumption
      <4> QED
        BY <1>4, <2>1, <4>1 DEF FileIInv, OneCall, Busy
    <3> QED
      BY <1>4, <2>1, <3>1 DEF OneCall, Hidden
  <2>2. CASE ~shared'
    <3>1. ~shared /\ \A v \in Writer : pc[v] = "idle"
      BY <1>4, <2>2 DEF Busy
    <3>2. \A v \in Writer : v \in Busy' => v = w
      BY <1>5, <3>1 DEF Busy, Others
    <3>3. Busy' \subseteq Writer
      BY DEF Busy
    <3>4. OneCall'
      BY <2>2, <3>2, <3>3 DEF OneCall
    <3>5. Hidden'
      BY <1>4, <1>5, <3>1, <3>2, <3>3 DEF FileIInv, Hidden
    <3> QED
      BY <3>4, <3>5
  <2> QED
    BY <2>1, <2>2
<1>14. NoZeroReadAlone'
  BY <1>4 DEF FileIInv, NoZeroReadAlone
<1>15. Unmapped'
  BY <1>4, <1>5 DEF FileIInv, Unmapped, Others
<1> QED
  BY <1>8, <1>9, <1>10, <1>11, <1>12, <1>13, <1>14, <1>15 DEF FileIInv

\* inode_expand() reckons what it needs, under the lock.
LEMMA ExpandStep ==
  ASSUME FileAssumption, FileIInv, NEW w \in Writer, Expand(w)
  PROVE  FileIInv'
<1>1. TypeOK /\ MaxEnd \in Nat /\ MaxBlocks \in Nat
  BY DEF FileIInv, Mapped, FileAssumption
<1>2. /\ pc[w] = "lock" /\ pc' = [pc EXCEPT ![w] = "expand"]
      /\ IF isdir THEN UNCHANGED owner ELSE owner = NULL /\ owner' = w
      /\ need' = [need EXCEPT ![w] = Wrap(sectors(end[w]) - sectors(length))]
      /\ UNCHANGED <<length, read_length, isdir, blocks, content>>
      /\ UNCHANGED <<deny_write_cnt, offset, size, end, tested, known, zero, shared, shrunk, panicked>>
  BY DEF Expand, Goto, file, history, sectors
<1>3. pc'[w] = "expand" /\ Others(w) /\ need'[w] = Wrap(sectors(end[w]) - sectors(length))
  BY <1>1, <1>2 DEF TypeOK, Others
<1>4. \A v \in Writer : pc[v] # "expand"
  <2>1. ASSUME NEW v \in Writer, pc[v] = "expand" PROVE FALSE
    <3>1. owner = v /\ v # NULL /\ v # w
      BY <1>2, <2>1 DEF FileIInv, Owning, FileAssumption
    <3>2. isdir => owner = w
      BY <1>2 DEF FileIInv, Owning
    <3> QED
      BY <1>2, <3>1, <3>2
  <2> QED
    BY <2>1
<1>5. blocks = sectors(length)
  BY <1>4 DEF FileIInv, AllocatedOnce, sectors
<1>6. need'[w] \in 0..(SIZE_T - 1)
  <2>1. end[w] \in Int /\ length \in Int /\ blocks \in Int
    BY <1>1 DEF TypeOK, Capacity, FileAssumption
  <2>2. sectors(end[w]) - sectors(length) \in Int
    BY <2>1, SectorsOf
  <2>3. SIZE_T \in Nat \ {0}
    <3>1. MaxEnd \in Nat /\ MaxEnd < SIZE_T /\ SIZE_T \in Nat
      BY DEF FileAssumption
    <3> QED
      BY <3>1
  <2>4. \A m \in Int : m % SIZE_T \in 0..(SIZE_T - 1)
    BY <2>3
  <2> QED
    BY <1>3, <2>2, <2>4 DEF Wrap
<1>7. TypeOK'
  <2>1. /\ pc' \in [Writer \cup Reader -> Labels]
        /\ owner' \in Writer \cup Reader \cup {NULL}
    BY <1>1, <1>2 DEF TypeOK, Labels
  <2>2. need' \in [Writer -> 0..(SIZE_T - 1)]
    BY <1>1, <1>2, <1>3, <1>6 DEF TypeOK
  <2> QED
    BY <1>1, <1>2, <2>1, <2>2 DEF TypeOK
<1>8. Mapped'
  BY <1>2, <1>7 DEF FileIInv, Mapped
<1>9. Owning'
  <2>1. (owner' = owner \/ owner \in {w, NULL}) /\ owner' \in {owner, w}
    BY <1>2
  <2>2. owner' = w
    BY <1>2 DEF FileIInv, Owning
  <2>3. w \notin Reader
    BY DEF FileAssumption
  <2> QED
    BY <1>2, <1>3, <2>1, <2>2, <2>3, OwningStep
<1>10. AskedFor'
  BY <1>2, <1>3 DEF FileIInv, AskedFor, Others
<1>11. Reckoned'
  <2>1. ASSUME NEW v \in Writer, pc'[v] = "expand" PROVE need'[v] = Wrap(sectors(end'[v]) - blocks')
    <3>1. v = w
      BY <1>3, <1>4, <2>1 DEF Others
    <3> QED
      BY <1>2, <1>3, <1>5, <3>1
  <2> QED
    BY <2>1 DEF Reckoned, sectors, bytes_to_data_sectors
<1>12. AllocatedOnce'
  BY <1>3 DEF AllocatedOnce
<1>13. OneCall' /\ Hidden'
  <2>1. Busy' = Busy
    BY <1>2, <1>3 DEF Busy, Others
  <2> QED
    BY <1>2, <2>1 DEF FileIInv, OneCall, Hidden
<1>14. NoZeroReadAlone'
  BY <1>2 DEF FileIInv, NoZeroReadAlone
<1>15. Unmapped'
  BY <1>2, <1>3 DEF FileIInv, Unmapped, Others
<1> QED
  BY <1>8, <1>9, <1>10, <1>11, <1>12, <1>13, <1>14, <1>15 DEF FileIInv


\* What an expanding writer knows.
LEMMA Expander ==
  ASSUME FileAssumption, FileIInv, NEW w \in Writer, pc[w] = "expand"
  PROVE  /\ owner = w
         /\ \A v \in Writer : pc[v] = "expand" => v = w
         /\ need[w] = Wrap(sectors(end[w]) - blocks) /\ need[w] \in 0..(SIZE_T - 1)
         /\ end[w] \in 1..MaxEnd /\ blocks \in 0..MaxBlocks /\ sectors(end[w]) \in Int
         /\ end[w] > tested[w]
<1>1. TypeOK /\ MaxEnd \in Nat /\ MaxBlocks \in Nat
  BY DEF FileIInv, Mapped, FileAssumption
<1>2. end[w] \in 1..MaxEnd /\ end[w] > tested[w]
  BY <1>1 DEF FileIInv, AskedFor, TypeOK
<1>3. sectors(end[w]) \in Int
  BY <1>1, <1>2, SectorsOf
<1>4. /\ owner = w
      /\ \A v \in Writer : pc[v] = "expand" => v = w
      /\ need[w] = Wrap(sectors(end[w]) - blocks)
  BY DEF FileIInv, Owning, Reckoned
<1> QED
  BY <1>1, <1>2, <1>3, <1>4 DEF TypeOK

\* One sector is added.
LEMMA ExpandBlockStep ==
  ASSUME FileAssumption, FileIInv, NEW w \in Writer, ExpandBlock(w)
  PROVE  FileIInv'
<1>1. TypeOK /\ MaxEnd \in Nat /\ MaxBlocks \in Nat /\ SIZE_T \in Nat /\ B \in Nat \ {0}
  BY DEF FileIInv, Mapped, FileAssumption, B
<1>2. /\ pc[w] = "expand" /\ need[w] > 0 /\ blocks < MaxBlocks
      /\ blocks' = blocks + 1
      /\ need' = [need EXCEPT ![w] = @ - 1]
      /\ UNCHANGED <<length, read_length, isdir, content, deny_write_cnt, owner, pc, offset, size, end>>
      /\ UNCHANGED <<tested, known, zero, shared, shrunk, panicked>>
  BY DEF ExpandBlock, history
<1>3. /\ \A v \in Writer : pc[v] = "expand" => v = w
      /\ need[w] = Wrap(sectors(end[w]) - blocks) /\ need[w] \in 0..(SIZE_T - 1)
      /\ blocks \in 0..MaxBlocks /\ sectors(end[w]) \in Int
  BY <1>2, Expander
<1>4. need'[w] = need[w] - 1 /\ need'[w] \in 0..(SIZE_T - 1) /\ blocks' \in 0..MaxBlocks
  BY <1>1, <1>2, <1>3 DEF TypeOK
<1>5. TypeOK'
  <2>1. need' \in [Writer -> 0..(SIZE_T - 1)]
    BY <1>1, <1>2, <1>4 DEF TypeOK
  <2> QED
    BY <1>1, <1>2, <1>4, <2>1 DEF TypeOK
<1>6. Mapped'
  <2>1. blocks * B \in Int /\ blocks' * B = blocks * B + B
    BY <1>1, <1>2, <1>3, TimesMonotone
  <2>2. /\ length =< blocks * B /\ read_length =< blocks * B
        /\ \A r \in Reader : known[r] =< blocks * B
    BY DEF FileIInv, Mapped, B
  <2>3. length \in Int /\ read_length \in Int /\ \A r \in Reader : known[r] \in Int
    BY <1>1 DEF TypeOK, Capacity, FileAssumption
  <2>4. length =< blocks' * B /\ read_length =< blocks' * B
    BY <1>1, <2>1, <2>2, <2>3
  <2>5. \A r \in Reader : known[r] =< blocks' * B
    BY <1>1, <2>1, <2>2, <2>3
  <2>6. panicked => shared /\ ~isdir
    BY DEF FileIInv, Mapped
  <2>7. length' =< blocks' * B /\ read_length' =< blocks' * B /\ \A r \in Reader : known'[r] =< blocks' * B
    BY <1>2, <2>4, <2>5
  <2>8. panicked' => shared' /\ ~isdir'
    BY <1>2, <2>6
  <2>9. B = BLOCK_SECTOR_SIZE
    BY DEF B
  <2> QED
    BY <1>5, <2>7, <2>8, <2>9 DEF Mapped
<1>7. Owning'
  BY <1>2 DEF FileIInv, Owning
<1>8. AskedFor'
  BY <1>2 DEF FileIInv, AskedFor
<1>9. Reckoned'
  <2>1. Wrap((sectors(end[w]) - blocks) - 1) = Wrap(sectors(end[w]) - blocks) - 1
    BY <1>2, <1>3, WrapLess
  <2>2. (sectors(end[w]) - blocks) - 1 = sectors(end[w]) - (blocks + 1)
    BY <1>3
  <2>3. need'[w] = Wrap(sectors(end[w]) - blocks')
    BY <1>2, <1>3, <1>4, <2>1, <2>2
  <2> QED
    BY <1>2, <1>3, <2>3 DEF Reckoned, sectors, bytes_to_data_sectors
<1>10. AllocatedOnce'
  BY <1>2 DEF AllocatedOnce
<1>11. OneCall' /\ Unmapped' /\ Hidden' /\ NoZeroReadAlone'
  BY <1>2 DEF FileIInv, OneCall, Unmapped, Hidden, NoZeroReadAlone, Busy
<1> QED
  BY <1>5, <1>6, <1>7, <1>8, <1>9, <1>10, <1>11 DEF FileIInv

\* The length inode_expand() returns.
LEMMA NewLength ==
  ASSUME FileAssumption, FileIInv, NEW w \in Writer, ExpandEnds(w)
  PROVE  /\ length' \in 0..Capacity
         /\ length' =< blocks * B
         /\ sectors(length') = blocks
         /\ length' >= end[w] \/ end[w] > Capacity
<1>1. /\ need[w] = Wrap(sectors(end[w]) - blocks)
      /\ end[w] \in 1..MaxEnd /\ blocks \in 0..MaxBlocks
  BY Expander DEF ExpandEnds
<1>2. need[w] = 0 \/ blocks = MaxBlocks
  BY DEF ExpandEnds
<1>3. length' = Wrap(end[w] - Wrap(sectors(end[w]) - blocks) * B)
  BY <1>1 DEF ExpandEnds, B
<1> QED
  BY <1>1, <1>2, <1>3, Expanded

\* inode_expand() returns, and the lock is let go.
LEMMA ExpandEndsStep ==
  ASSUME FileAssumption, FileIInv, NEW w \in Writer, ExpandEnds(w)
  PROVE  FileIInv'
<1>1. TypeOK
  BY DEF FileIInv, Mapped
<1>2. /\ pc[w] = "expand" /\ pc' = [pc EXCEPT ![w] = "copy"]
      /\ owner' = (IF isdir THEN owner ELSE NULL)
      /\ shrunk' = (shrunk \/ length' < length)
      /\ UNCHANGED <<read_length, isdir, blocks, content, deny_write_cnt, offset, size, end, need>>
      /\ UNCHANGED <<tested, known, zero, shared, panicked>>
  BY DEF ExpandEnds, Goto, Unlock
<1>3. owner = w /\ \A v \in Writer : pc[v] = "expand" => v = w
  BY <1>2, Expander
<1>4. length' \in 0..Capacity /\ length' =< blocks * B /\ sectors(length') = blocks
  BY NewLength
<1>5. pc'[w] = "copy" /\ Others(w)
  BY <1>1, <1>2 DEF TypeOK, Others
<1>6. TypeOK'
  <2>1. /\ pc' \in [Writer \cup Reader -> Labels]
        /\ owner' \in Writer \cup Reader \cup {NULL} /\ shrunk' \in BOOLEAN
    BY <1>1, <1>2 DEF TypeOK, Labels
  <2> QED
    BY <1>1, <1>2, <1>4, <2>1 DEF TypeOK
<1>7. Mapped'
  BY <1>2, <1>4, <1>6 DEF FileIInv, Mapped, B
<1>8. Owning'
  <2>1. isdir => owner' = w
    BY <1>2, <1>3
  <2>2. w \notin Reader
    BY DEF FileAssumption
  <2> QED
    BY <1>2, <1>3, <1>5, <2>1, <2>2, OwningStep
<1>9. AskedFor'
  BY <1>2, <1>5 DEF FileIInv, AskedFor, Others
<1>10. \A v \in Writer : pc'[v] # "expand"
  BY <1>3, <1>5 DEF Others
<1>11. Reckoned'
  BY <1>10 DEF Reckoned
<1>12. AllocatedOnce'
  BY <1>2, <1>4 DEF AllocatedOnce, sectors, bytes_to_data_sectors
<1>13. Busy' = Busy
  BY <1>2, <1>5 DEF Busy, Others
<1>14. OneCall' /\ NoZeroReadAlone'
  BY <1>2, <1>13 DEF FileIInv, OneCall, NoZeroReadAlone
<1>16. Unmapped'
  <2>1. ASSUME ~shared, NEW v \in Writer, pc'[v] = "unmapped" PROVE FALSE
    <3>1. v # w /\ pc[v] = "unmapped"
      BY <1>5, <2>1 DEF Others
    <3>2. v \in Busy /\ w \in Busy
      BY <1>2, <3>1 DEF Busy
    <3> QED
      BY <2>1, <3>1, <3>2 DEF FileIInv, OneCall
  <2> QED
    BY <1>2, <2>1 DEF Unmapped
<1>15. Hidden'
  <2>1. ASSUME ~shared, ~shrunk, ~(length' < length) PROVE read_length =< length'
    <3>1. read_length =< length /\ read_length \in Int /\ length \in Int /\ length' \in Int
      BY <1>1, <1>4, <2>1 DEF FileIInv, Hidden, TypeOK, Capacity, FileAssumption
    <3> QED
      BY <2>1, <3>1
  <2> QED
    BY <1>2, <1>13, <2>1 DEF FileIInv, Hidden
<1> QED
  BY <1>7, <1>8, <1>9, <1>11, <1>12, <1>14, <1>15, <1>16 DEF FileIInv

\* A sector's worth of bytes is written.
LEMMA CopyStep ==
  ASSUME FileAssumption, FileIInv, NEW w \in Writer, Copy(w)
  PROVE  FileIInv'
<1>1. TypeOK /\ MaxEnd \in Nat /\ Capacity \in Nat
  BY DEF FileIInv, Mapped, FileAssumption, Capacity
<1>2. PICK chunk : chunk = Chunk(offset[w], size[w], length)
  OBVIOUS
<1>3. /\ pc[w] = "mapped" /\ pc' = [pc EXCEPT ![w] = "copy"] /\ chunk > 0
      /\ content' = [b \in Byte |-> content[b] \/ b \in offset[w]..(offset[w] + chunk - 1)]
      /\ offset' = [offset EXCEPT ![w] = @ + chunk]
      /\ size' = [size EXCEPT ![w] = @ - chunk]
      /\ UNCHANGED <<length, read_length, isdir, blocks, deny_write_cnt, owner, end, need, tested>>
      /\ UNCHANGED <<known, zero, shared, shrunk, panicked>>
  BY <1>2 DEF Copy, Goto, history
<1>4. offset[w] \in Nat /\ size[w] \in Nat /\ length \in Nat /\ end[w] \in 0..MaxEnd
  BY <1>1 DEF TypeOK
<1>5. chunk \in Int /\ chunk =< size[w]
  BY <1>2, <1>4, ChunkFits
<1>6. offset[w] + size[w] = end[w]
  BY <1>3 DEF FileIInv, AskedFor
<1>7. /\ offset'[w] = offset[w] + chunk /\ size'[w] = size[w] - chunk
      /\ offset'[w] \in 0..MaxEnd /\ size'[w] \in 0..MaxEnd
      /\ offset'[w] + size'[w] = end[w]
  BY <1>1, <1>3, <1>4, <1>5, <1>6 DEF TypeOK
<1>8. pc'[w] = "copy" /\ Others(w)
  BY <1>1, <1>3 DEF TypeOK, Others
<1>9. TypeOK'
  <2>1. offset' \in [Writer -> 0..MaxEnd] /\ size' \in [Writer -> 0..MaxEnd]
    BY <1>1, <1>3, <1>7 DEF TypeOK
  <2>2. content' \in [Byte -> BOOLEAN]
    <3>1. \A b \in Byte : (content[b] \/ b \in offset[w]..(offset[w] + chunk - 1)) \in BOOLEAN
      OBVIOUS
    <3> QED
      BY <1>3, <3>1, Zenon
  <2>3. pc' \in [Writer \cup Reader -> Labels]
    BY <1>1, <1>3 DEF TypeOK, Labels
  <2> QED
    BY <1>1, <1>3, <2>1, <2>2, <2>3 DEF TypeOK
<1>10. Mapped' /\ AllocatedOnce'
  BY <1>3, <1>8, <1>9 DEF FileIInv, Mapped, AllocatedOnce, Others, bytes_to_data_sectors
<1>11. AskedFor'
  BY <1>3, <1>7, <1>8 DEF FileIInv, AskedFor, Others
<1>12. Reckoned'
  BY <1>3, <1>8 DEF FileIInv, Reckoned, Others, sectors, bytes_to_data_sectors
<1>13. Busy' = Busy
  BY <1>3, <1>8 DEF Busy, Others
<1>14. OneCall' /\ Hidden' /\ NoZeroReadAlone'
  BY <1>3, <1>13 DEF FileIInv, OneCall, Hidden, NoZeroReadAlone
<1>15. Unmapped'
  BY <1>3, <1>8 DEF FileIInv, Unmapped, Others
<1>16. Owning'
  BY <1>3, <1>8, LockStays
<1> QED
  BY <1>10, <1>11, <1>12, <1>14, <1>15, <1>16 DEF FileIInv

\* byte_to_sector() has a sector, or has none.
LEMMA FindStep ==
  ASSUME FileAssumption, FileIInv, NEW w \in Writer, Find(w)
  PROVE  FileIInv'
<1>1. TypeOK
  BY DEF FileIInv, Mapped
<1>2. PICK label \in {"mapped", "unmapped"} :
        /\ pc' = [pc EXCEPT ![w] = label]
        /\ label = "unmapped" => ~(offset[w] < length)
  BY DEF Find, Goto
<1>3. /\ pc[w] = "copy"
      /\ UNCHANGED <<length, read_length, isdir, blocks, content, deny_write_cnt, owner, offset>>
      /\ UNCHANGED <<size, end, need, tested, known, zero, shared, shrunk, panicked>>
  BY DEF Find, file, history
<1>4. pc'[w] = label /\ Others(w)
  BY <1>1, <1>2, <1>3 DEF TypeOK, Others
<1>5. TypeOK'
  <2>1. pc' \in [Writer \cup Reader -> Labels]
    BY <1>1, <1>2 DEF TypeOK, Labels
  <2> QED
    BY <1>1, <1>3, <2>1 DEF TypeOK
<1>6. Mapped' /\ AllocatedOnce'
  BY <1>3, <1>4, <1>5 DEF FileIInv, Mapped, AllocatedOnce, Others, bytes_to_data_sectors
<1>7. AskedFor'
  BY <1>3, <1>4 DEF FileIInv, AskedFor, Others
<1>8. Reckoned'
  BY <1>3, <1>4 DEF FileIInv, Reckoned, Others, sectors, bytes_to_data_sectors
<1>9. Busy' = Busy
  BY <1>3, <1>4 DEF Busy, Others
<1>10. OneCall' /\ Hidden' /\ NoZeroReadAlone'
  BY <1>3, <1>9 DEF FileIInv, OneCall, Hidden, NoZeroReadAlone
<1>11. Unmapped'
  <2>1. label = "unmapped" => offset[w] >= length
    <3>1. offset[w] \in Int /\ length \in Int
      BY <1>1 DEF TypeOK
    <3> QED
      BY <1>2, <3>1
  <2> QED
    BY <1>3, <1>4, <2>1 DEF FileIInv, Unmapped, Others
<1>12. Owning'
  BY <1>3, <1>4, LockStays
<1> QED
  BY <1>6, <1>7, <1>8, <1>10, <1>11, <1>12 DEF FileIInv

\* The kernel panics: another call has made the file longer in between.
LEMMA PanicStep ==
  ASSUME FileAssumption, FileIInv, NEW w \in Writer, Panic(w)
  PROVE  FileIInv'
<1>1. TypeOK
  BY DEF FileIInv, Mapped
<1>2. /\ pc[w] = "unmapped" /\ Chunk(offset[w], size[w], length) > 0 /\ panicked' = TRUE
      /\ UNCHANGED <<length, read_length, isdir, blocks, content, deny_write_cnt, owner, pc, offset>>
      /\ UNCHANGED <<size, end, need, tested, known, zero, shared, shrunk>>
  BY DEF Panic, file, history
<1>3. PICK chunk : chunk = Chunk(offset[w], size[w], length)
  OBVIOUS
<1>4. offset[w] \in Nat /\ size[w] \in Nat /\ length \in Nat
  BY <1>1 DEF TypeOK
<1>5. chunk \in Int /\ chunk =< length - offset[w] /\ chunk > 0
  BY <1>2, <1>3, <1>4, ChunkFits
<1>6. ~(offset[w] >= length)
  BY <1>4, <1>5
<1>7. shared /\ ~isdir
  BY <1>1, <1>2, <1>6 DEF FileIInv, Unmapped, OneCall
<1>8. TypeOK'
  BY <1>1, <1>2 DEF TypeOK
<1>9. Mapped'
  BY <1>2, <1>7, <1>8 DEF FileIInv, Mapped
<1>10. Owning' /\ AskedFor' /\ AllocatedOnce'
  BY <1>2 DEF FileIInv, Owning, AskedFor, AllocatedOnce, bytes_to_data_sectors
<1>11. Reckoned'
  BY <1>2 DEF FileIInv, Reckoned, sectors, bytes_to_data_sectors
<1>12. OneCall' /\ Unmapped' /\ Hidden' /\ NoZeroReadAlone'
  BY <1>2 DEF FileIInv, OneCall, Unmapped, Hidden, NoZeroReadAlone, Busy
<1> QED
  BY <1>9, <1>10, <1>11, <1>12 DEF FileIInv

\* inode_write_at() publishes the length and returns.
LEMMA WriteEndsStep ==
  ASSUME FileAssumption, FileIInv, NEW w \in Writer, WriteEnds(w)
  PROVE  FileIInv'
<1>1. TypeOK /\ MaxEnd \in Nat /\ Capacity \in Nat /\ SIZE_T \in Nat /\ 0 \in 0..(SIZE_T - 1)
  <2>1. MaxEnd \in Nat /\ MaxEnd < SIZE_T /\ SIZE_T \in Nat
    BY DEF FileAssumption
  <2> QED
    BY <2>1 DEF FileIInv, Mapped, FileAssumption, Capacity
<1>2. /\ pc[w] \in {"copy", "mapped", "unmapped"} /\ pc' = [pc EXCEPT ![w] = "idle"]
      /\ read_length' = length
      /\ owner' = (IF isdir THEN NULL ELSE owner)
      /\ UNCHANGED <<length, isdir, blocks, content, deny_write_cnt, known, zero, shared, shrunk>>
      /\ UNCHANGED panicked
  BY DEF WriteEnds, Goto, history
<1>3. /\ offset' = [offset EXCEPT ![w] = 0] /\ size' = [size EXCEPT ![w] = 0]
      /\ end' = [end EXCEPT ![w] = 0] /\ need' = [need EXCEPT ![w] = 0]
      /\ tested' = [tested EXCEPT ![w] = 0]
  BY DEF WriteEnds
<1>4. pc'[w] = "idle" /\ Others(w)
  BY <1>1, <1>2, <1>3 DEF TypeOK, Others
<1>5. TypeOK'
  <2>1. /\ pc' \in [Writer \cup Reader -> Labels]
        /\ owner' \in Writer \cup Reader \cup {NULL}
    BY <1>1, <1>2 DEF TypeOK, Labels
  <2>2. /\ offset' \in [Writer -> 0..MaxEnd] /\ size' \in [Writer -> 0..MaxEnd]
        /\ end' \in [Writer -> 0..MaxEnd] /\ tested' \in [Writer -> 0..Capacity]
        /\ need' \in [Writer -> 0..(SIZE_T - 1)]
    BY <1>1, <1>3 DEF TypeOK
  <2> QED
    BY <1>1, <1>2, <2>1, <2>2 DEF TypeOK
<1>6. Mapped'
  BY <1>2, <1>5 DEF FileIInv, Mapped
<1>7. Owning'
  <2>1. isdir => owner = w
    BY <1>2 DEF FileIInv, Owning
  <2>2. w \notin Reader
    BY DEF FileAssumption
  <2>3. owner' = owner \/ owner = w
    BY <1>2, <2>1
  <2>4. owner' \in {owner, NULL}
    BY <1>2
  <2> QED
    BY <1>2, <1>4, <2>2, <2>3, <2>4, OwningStep
<1>8. AskedFor'
  BY <1>4 DEF FileIInv, AskedFor, Others
<1>9. Reckoned'
  <2>1. \A v \in Writer : pc'[v] = "expand" => v # w
    BY <1>4
  <2> QED
    BY <1>2, <1>4, <2>1 DEF FileIInv, Reckoned, Others, sectors, bytes_to_data_sectors
<1>10. AllocatedOnce'
  <2>1. \A v \in Writer : pc[v] = "expand" => pc'[v] = "expand"
    BY <1>2, <1>4 DEF Others
  <2> QED
    BY <1>2, <2>1 DEF FileIInv, AllocatedOnce, bytes_to_data_sectors
<1>11. Busy' = Busy \ {w} /\ w \in Busy
  BY <1>2, <1>4 DEF Busy, Others
<1>12. OneCall' /\ NoZeroReadAlone'
  BY <1>2, <1>11 DEF FileIInv, OneCall, NoZeroReadAlone
<1>14. Unmapped'
  BY <1>2, <1>3, <1>4 DEF FileIInv, Unmapped, Others
<1>13. Hidden'
  <2>1. ASSUME ~shared, ~shrunk
        PROVE  /\ read_length' =< length'
               /\ \A r \in Reader : known'[r] =< read_length'
               /\ Busy' = {}
    <3>1. read_length =< length /\ \A r \in Reader : known[r] =< read_length
      BY <2>1 DEF FileIInv, Hidden
    <3>2. /\ read_length \in Int /\ length \in Int /\ \A r \in Reader : known[r] \in Int
      BY <1>1 DEF TypeOK
    <3>3. Busy' = {}
      BY <1>11, <2>1 DEF FileIInv, OneCall
    <3> QED
      BY <1>2, <3>1, <3>2, <3>3
  <2> QED
    BY <1>2, <2>1 DEF Hidden
<1> QED
  BY <1>6, <1>7, <1>8, <1>9, <1>10, <1>12, <1>13, <1>14 DEF FileIInv

\* inode_read_at() is called.
LEMMA ReadStep ==
  ASSUME FileAssumption, FileIInv, NEW r \in Reader, Read(r)
  PROVE  FileIInv'
<1>1. TypeOK
  BY DEF FileIInv, Mapped
<1>2. /\ pc[r] = "idle" /\ pc' = [pc EXCEPT ![r] = "read"]
      /\ (isdir /\ owner = NULL /\ owner' = r) \/ owner' = owner
      /\ known' = [known EXCEPT ![r] = read_length]
      /\ UNCHANGED <<length, read_length, isdir, blocks, content, deny_write_cnt, offset, size, end>>
      /\ UNCHANGED <<need, tested, zero, shared, shrunk, panicked>>
  BY DEF Read, Goto, file, history
<1>3. pc'[r] = "read" /\ known'[r] = read_length /\ Others(r) /\ r \notin Writer
  BY <1>1, <1>2 DEF TypeOK, Others, FileAssumption
<1>4. \A w \in Writer : pc'[w] = pc[w]
  BY <1>3 DEF Others
<1>5. TypeOK'
  <2>1. /\ pc' \in [Writer \cup Reader -> Labels]
        /\ owner' \in Writer \cup Reader \cup {NULL} /\ known' \in [Reader -> 0..Capacity]
    BY <1>1, <1>2 DEF TypeOK, Labels
  <2> QED
    BY <1>1, <1>2, <2>1 DEF TypeOK
<1>6. \A q \in Reader : known'[q] = known[q] \/ known'[q] = read_length
  BY <1>3 DEF Others
<1>7. Mapped'
  BY <1>2, <1>5, <1>6 DEF FileIInv, Mapped
<1>8. Owning'
  <2>1. (owner' = owner \/ owner \in {r, NULL}) /\ owner' \in {owner, r}
    BY <1>2
  <2>2. owner' = r => isdir
    BY <1>2 DEF FileIInv, Owning
  <2> QED
    BY <1>2, <1>3, <2>1, <2>2, OwningStep
<1>9. AskedFor' /\ AllocatedOnce'
  BY <1>2, <1>4 DEF FileIInv, AskedFor, AllocatedOnce, bytes_to_data_sectors
<1>10. Reckoned'
  BY <1>2, <1>4 DEF FileIInv, Reckoned, sectors, bytes_to_data_sectors
<1>11. Busy' = Busy
  BY <1>4 DEF Busy
<1>12. OneCall' /\ Unmapped' /\ NoZeroReadAlone'
  BY <1>2, <1>4, <1>11 DEF FileIInv, OneCall, Unmapped, NoZeroReadAlone
<1>13. Hidden'
  <2>1. read_length \in Int
    BY <1>1 DEF TypeOK
  <2> QED
    BY <1>2, <1>6, <1>11, <2>1 DEF FileIInv, Hidden
<1> QED
  BY <1>7, <1>8, <1>9, <1>10, <1>12, <1>13 DEF FileIInv

\* No byte a reader may read is being appended, to a directory it has locked or by
\* the only writer.
LEMMA NothingPending ==
  ASSUME FileAssumption, FileIInv, NEW r \in Reader, owner = r \/ (~shared /\ ~shrunk),
         NEW b \in Byte, b < known[r]
  PROVE  b \notin Pending
<1>1. TypeOK /\ MaxEnd \in Nat /\ Capacity \in Nat
  BY DEF FileIInv, Mapped, FileAssumption, Capacity
<1>2. CASE owner = r
  <2>1. \A w \in Writer : pc[w] = "idle"
    BY <1>2 DEF FileIInv, Owning, FileAssumption
  <2> QED
    BY <2>1 DEF Pending, Busy
<1>3. CASE ~shared /\ ~shrunk
  <2>1. ASSUME NEW w \in Busy PROVE b < tested[w]
    <3>1. known[r] =< read_length /\ read_length =< tested[w]
      BY <1>3 DEF FileIInv, Hidden
    <3>2. known[r] \in Int /\ read_length \in Int /\ tested[w] \in Int /\ b \in Int
      BY <1>1 DEF TypeOK, Byte, Busy
    <3> QED
      BY <3>1, <3>2
  <2>2. \A w \in Busy : ~(b >= tested[w])
    <3>1. \A w \in Busy : tested[w] \in Int /\ b \in Int
      BY <1>1 DEF TypeOK, Byte, Busy
    <3> QED
      BY <2>1, <3>1
  <2> QED
    BY <2>2 DEF Pending
<1> QED
  BY <1>2, <1>3

\* inode_read_at() reads a byte and returns.
LEMMA ReadByteStep ==
  ASSUME FileAssumption, FileIInv, NEW r \in Reader, ReadByte(r)
  PROVE  FileIInv'
<1>1. TypeOK /\ Capacity \in Nat
  BY DEF FileIInv, Mapped, FileAssumption, Capacity
<1>2. /\ pc[r] = "read" /\ pc' = [pc EXCEPT ![r] = "idle"]
      /\ known' = [known EXCEPT ![r] = 0]
      /\ owner' = (IF owner = r THEN NULL ELSE owner)
      /\ UNCHANGED <<length, read_length, isdir, blocks, content, deny_write_cnt, offset, size, end>>
      /\ UNCHANGED <<need, tested, shared, shrunk, panicked>>
  BY DEF ReadByte, Goto, file
<1> DEFINE what == IF owner = r THEN "locked" ELSE "unlocked"
<1>3. PICK b \in Byte :
        /\ b < known[r]
        /\ zero' = zero \cup (IF b \in Pending /\ ~content[b] THEN {what} ELSE {})
  BY DEF ReadByte
<1>17. zero' = zero \/ (b \in Pending /\ zero' = zero \cup {what})
  BY <1>3
<1>4. pc'[r] = "idle" /\ known'[r] = 0 /\ Others(r) /\ r \notin Writer
  BY <1>1, <1>2 DEF TypeOK, Others, FileAssumption
<1>5. \A w \in Writer : pc'[w] = pc[w]
  BY <1>4 DEF Others
<1>6. TypeOK'
  <2>1. /\ pc' \in [Writer \cup Reader -> Labels]
        /\ owner' \in Writer \cup Reader \cup {NULL} /\ known' \in [Reader -> 0..Capacity]
    BY <1>1, <1>2 DEF TypeOK, Labels
  <2>2. zero' \subseteq {"locked", "unlocked"}
    BY <1>1, <1>17 DEF TypeOK
  <2> QED
    BY <1>1, <1>2, <2>1, <2>2 DEF TypeOK
<1>7. \A q \in Reader : known'[q] = known[q] \/ known'[q] = 0
  BY <1>4 DEF Others
<1>8. \A q \in Reader : known[q] \in Nat
  BY <1>1 DEF TypeOK
<1>9. Mapped'
  <2>1. 0 =< blocks * B
    BY <1>1 DEF TypeOK, FileAssumption, B
  <2> QED
    BY <1>2, <1>6, <1>7, <2>1 DEF FileIInv, Mapped, B
<1>10. Owning'
  <2>1. (owner' = owner \/ owner = r) /\ owner' \in {owner, NULL} /\ r # NULL
    BY <1>2 DEF FileAssumption
  <2>2. owner' = r => isdir
    BY <1>2 DEF FileIInv, Owning
  <2> QED
    BY <1>2, <1>4, <2>1, <2>2, OwningStep
<1>11. AskedFor' /\ AllocatedOnce'
  BY <1>2, <1>5 DEF FileIInv, AskedFor, AllocatedOnce, bytes_to_data_sectors
<1>12. Reckoned'
  BY <1>2, <1>5 DEF FileIInv, Reckoned, sectors, bytes_to_data_sectors
<1>13. Busy' = Busy
  BY <1>5 DEF Busy
<1>14. OneCall' /\ Unmapped'
  BY <1>2, <1>5, <1>13 DEF FileIInv, OneCall, Unmapped
<1>15. NoZeroReadAlone'
  <2>1. CASE owner = r \/ (~shared /\ ~shrunk)
    <3>1. b \notin Pending
      BY <1>3, <2>1, NothingPending
    <3> QED
      BY <1>2, <1>17, <3>1 DEF FileIInv, NoZeroReadAlone
  <2>2. CASE owner # r /\ (shared \/ shrunk)
    <3>1. zero' = zero \/ zero' = zero \cup {"unlocked"}
      BY <1>17, <2>2
    <3> QED
      BY <1>2, <2>2, <3>1 DEF FileIInv, NoZeroReadAlone
  <2> QED
    BY <1>1, <2>1, <2>2 DEF TypeOK
<1>16. Hidden'
  <2>1. read_length >= 0
    BY <1>1 DEF TypeOK
  <2> QED
    BY <1>2, <1>7, <1>13, <2>1 DEF FileIInv, Hidden
<1> QED
  BY <1>9, <1>10, <1>11, <1>12, <1>14, <1>15, <1>16 DEF FileIInv

\* Writes are denied or allowed again.
LEMMA DenyStep ==
  ASSUME FileAssumption, FileIInv, inode_deny_write \/ inode_allow_write
  PROVE  FileIInv'
<1>1. /\ UNCHANGED <<length, read_length, isdir, blocks, content, owner, pc, offset, size, end, need>>
      /\ UNCHANGED <<tested, known, zero, shared, shrunk, panicked>>
  BY DEF inode_deny_write, inode_allow_write, file, history
<1>2. deny_write_cnt' \in 0..1
  BY DEF inode_deny_write, inode_allow_write, FileIInv, Mapped, TypeOK
<1>3. Mapped' /\ Owning' /\ AskedFor' /\ AllocatedOnce'
  BY <1>1, <1>2 DEF FileIInv, Mapped, TypeOK, Owning, AskedFor, AllocatedOnce, bytes_to_data_sectors
<1>4. Reckoned'
  BY <1>1 DEF FileIInv, Reckoned, sectors, bytes_to_data_sectors
<1>5. OneCall' /\ Unmapped' /\ Hidden' /\ NoZeroReadAlone'
  BY <1>1 DEF FileIInv, OneCall, Unmapped, Hidden, NoZeroReadAlone, Busy
<1> QED
  BY <1>3, <1>4, <1>5 DEF FileIInv

-----------------------------------------------------------------------------
(* The theorems. *)

\* The file is empty to begin with, and nobody is at it.
LEMMA InitFileIInv == FileAssumption /\ Init => FileIInv
<1> SUFFICES ASSUME FileAssumption, Init PROVE FileIInv
  OBVIOUS
<1>1. /\ B \in Nat \ {0} /\ MaxBlocks \in Nat /\ MaxEnd \in Nat /\ Capacity \in Nat
      /\ SIZE_T \in Nat /\ MaxEnd < SIZE_T
  BY DEF FileAssumption, B, Capacity
<1>2. TypeOK
  <2>1. 0 \in 0..(SIZE_T - 1) /\ 0 \in 0..MaxEnd /\ 0 \in 0..Capacity
    BY <1>1
  <2>2. pc \in [Writer \cup Reader -> Labels]
    BY DEF Init, Labels
  <2>3. content \in [Byte -> BOOLEAN]
    BY DEF Init
  <2>4. /\ offset \in [Writer -> 0..MaxEnd] /\ size \in [Writer -> 0..MaxEnd]
        /\ end \in [Writer -> 0..MaxEnd] /\ tested \in [Writer -> 0..Capacity]
        /\ need \in [Writer -> 0..(SIZE_T - 1)] /\ known \in [Reader -> 0..Capacity]
    BY <2>1 DEF Init
  <2>5. /\ length \in 0..Capacity /\ read_length \in 0..Capacity
        /\ blocks \in 0..MaxBlocks /\ deny_write_cnt \in 0..1
    BY <1>1, <2>1 DEF Init
  <2>6. /\ owner \in Writer \cup Reader \cup {NULL}
        /\ zero = {} /\ shared \in BOOLEAN /\ shrunk \in BOOLEAN /\ panicked \in BOOLEAN
    BY DEF Init
  <2> QED
    BY <2>2, <2>3, <2>4, <2>5, <2>6 DEF TypeOK
<1>3. Mapped
  BY <1>1, <1>2 DEF Init, Mapped, B
<1>4. \A t \in Writer \cup Reader : pc[t] = "idle"
  BY DEF Init
<1>5. Owning /\ AskedFor /\ Reckoned /\ Unmapped
  BY <1>4 DEF Init, FileAssumption, Owning, AskedFor, Reckoned, Unmapped
<1>6. sectors(0) = 0
  <2>1. (0 - 1) * B < 0 /\ 0 =< 0 * B
    BY <1>1
  <2> QED
    BY <2>1, SectorsOf
<1>7. AllocatedOnce
  BY <1>6 DEF Init, AllocatedOnce, sectors
<1>8. Busy = {}
  BY <1>4 DEF Busy
<1>9. OneCall /\ Hidden /\ NoZeroReadAlone
  BY <1>1, <1>8 DEF Init, OneCall, Hidden, NoZeroReadAlone
<1> QED
  BY <1>3, <1>5, <1>7, <1>9 DEF FileIInv

\* Each step keeps the invariant.
LEMMA NextFileIInv == FileAssumption /\ FileIInv /\ [Next]_vars => FileIInv'
<1> SUFFICES ASSUME FileAssumption, FileIInv, [Next]_vars PROVE FileIInv'
  OBVIOUS
<1>1. CASE UNCHANGED vars
  <2>1. /\ UNCHANGED <<length, read_length, isdir, blocks, content, owner, pc, offset, size, end, need>>
        /\ UNCHANGED <<deny_write_cnt, tested, known, zero, shared, shrunk, panicked>>
    BY <1>1 DEF vars
  <2>2. Mapped' /\ Owning' /\ AskedFor' /\ AllocatedOnce'
    BY <2>1 DEF FileIInv, Mapped, TypeOK, Owning, AskedFor, AllocatedOnce, bytes_to_data_sectors
  <2>3. Reckoned'
    BY <2>1 DEF FileIInv, Reckoned, sectors, bytes_to_data_sectors
  <2>4. OneCall' /\ Unmapped' /\ Hidden' /\ NoZeroReadAlone'
    BY <2>1 DEF FileIInv, OneCall, Unmapped, Hidden, NoZeroReadAlone, Busy
  <2> QED
    BY <2>2, <2>3, <2>4 DEF FileIInv
<1>2. ASSUME NEW w \in Writer, Write(w) \/ WriteStep(w) PROVE FileIInv'
  BY <1>2, WriteStepKeeps, ExpandStep, ExpandBlockStep, ExpandEndsStep, FindStep, CopyStep,
     PanicStep, WriteEndsStep
     DEF WriteStep
<1>3. ASSUME NEW r \in Reader, Read(r) \/ ReadByte(r) PROVE FileIInv'
  BY <1>3, ReadStep, ReadByteStep
<1>4. CASE inode_deny_write \/ inode_allow_write
  BY <1>4, DenyStep
<1> QED
  BY <1>1, <1>2, <1>3, <1>4 DEF Next, Halted

\* The invariant holds in every state.
LEMMA FileSafe == Spec => []FileIInv
  BY FileAssumption, InitFileIInv, NextFileIInv, PTL DEF Spec

\* Every byte anyone may go by has a sector, for every size of a file, of its
\* index and of a sector, and any number of readers and writers.
THEOREM GrowthMapped == Spec => []Mapped
<1>1. FileIInv => Mapped
  BY DEF FileIInv
<1> QED
  BY <1>1, FileSafe, PTL

\* A file has no sector more than its bytes need when nobody extends it.
THEOREM GrowthAllocatesOnce == Spec => []AllocatedOnce
<1>1. FileIInv => AllocatedOnce
  BY DEF FileIInv
<1> QED
  BY <1>1, FileSafe, PTL

\* A reader gets a zero for a byte still being appended only where calls of
\* inode_write_at() overlapped or the file got smaller, and never of a directory it
\* has locked.
THEOREM GrowthHidesZeros == Spec => []NoZeroReadAlone
<1>1. FileIInv => NoZeroReadAlone
  BY DEF FileIInv
<1> QED
  BY <1>1, FileSafe, PTL

\* What the step that makes a file smaller must be.
ShrinkIsStale ==
  length' < length =>
    \E w \in Writer : /\ pc[w] = "expand" /\ pc'[w] = "copy"
                      /\ tested[w] # length \/ end[w] > Capacity

\* The end of inode_expand() is the only step that changes the length, and it
\* returns less than there was only for a length compared with too early, or an
\* end that no index can hold.
LEMMA ExpandShrinksStale ==
  ASSUME FileAssumption, FileIInv, [Next]_vars
  PROVE  ShrinkIsStale
<1>1. CASE UNCHANGED vars
  <2>1. length' = length /\ length \in Int
    BY <1>1 DEF vars, FileIInv, Mapped, TypeOK, Capacity
  <2> QED
    BY <2>1 DEF ShrinkIsStale
<1>2. ASSUME NEW w \in Writer, ExpandEnds(w) PROVE ShrinkIsStale
  <2>1. pc[w] = "expand" /\ pc'[w] = "copy"
    BY <1>2 DEF ExpandEnds, Goto, FileIInv, Mapped, TypeOK
  <2>2. CASE end[w] > Capacity
    BY <2>1, <2>2 DEF ShrinkIsStale
  <2>3. CASE tested[w] # length
    BY <2>1, <2>3 DEF ShrinkIsStale
  <2>4. CASE ~(end[w] > Capacity) /\ tested[w] = length
    <3>1. length' >= end[w]
      BY <1>2, <2>4, NewLength
    <3>2. end[w] > tested[w]
      BY <2>1, Expander
    <3>3. length \in Int /\ end[w] \in Int /\ length' \in Int
      BY <1>2, NewLength DEF FileIInv, Mapped, TypeOK
    <3> QED
      BY <2>4, <3>1, <3>2, <3>3 DEF ShrinkIsStale
  <2> QED
    BY <2>2, <2>3, <2>4
<1>3. CASE UNCHANGED length
  <2>1. length \in Int
    BY DEF FileIInv, Mapped, TypeOK, Capacity
  <2> QED
    BY <1>3, <2>1 DEF ShrinkIsStale
<1>4. ASSUME NEW w \in Writer,
             \/ Write(w) \/ Expand(w) \/ ExpandBlock(w) \/ Find(w) \/ Copy(w)
             \/ Panic(w) \/ WriteEnds(w)
      PROVE  UNCHANGED length
  BY <1>4 DEF Write, Expand, ExpandBlock, Find, Copy, Panic, WriteEnds, file
<1>5. ASSUME NEW r \in Reader, Read(r) \/ ReadByte(r) PROVE UNCHANGED length
  BY <1>5 DEF Read, ReadByte, file
<1>6. CASE inode_deny_write \/ inode_allow_write
  BY <1>3, <1>6 DEF inode_deny_write, inode_allow_write, file
<1> QED
  BY <1>1, <1>2, <1>3, <1>4, <1>5, <1>6 DEF Next, WriteStep, Halted

\* A file gets smaller only by a writer whose test is out of date, or that asks
\* for more than an index can hold.
THEOREM GrowthShrinksOnlyIfStale == Spec => ShrinksOnlyIfStale
<1>1. FileAssumption /\ FileIInv /\ [Next]_vars => [ShrinkIsStale]_vars
  BY ExpandShrinksStale
<1> QED
  BY <1>1, FileAssumption, FileSafe, PTL DEF Spec, ShrinksOnlyIfStale, ShrinkIsStale
===============================================================================
