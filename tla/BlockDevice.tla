----------------------------- MODULE BlockDevice -----------------------------
(***************************************************************************)
(* What devices/block.h promises the file system: block_read() returns and *)
(* block_write() stores a sector as a whole, at one moment between the     *)
(* call and the return, whoever else uses the disk.                        *)
(***************************************************************************)
CONSTANTS Thread, Address, Contents, Blank

VARIABLES sectors,  \* the content of each sector
          calls     \* what each thread asks for, and its result

NoCall == [op |-> "none", addr |-> Blank, data |-> Blank]
BlockCalls == {[op |-> "read", addr |-> a, data |-> Blank] : a \in Address}
              \cup {[op |-> "write", addr |-> a, data |-> c] : a \in Address, c \in Contents}

BlockInit == sectors = [a \in Address |-> Blank] /\ calls = [t \in Thread |-> NoCall]

Call(t) == /\ calls[t] = NoCall
           /\ \E c \in BlockCalls : calls' = [calls EXCEPT ![t] = c]
           /\ UNCHANGED sectors

Read(t) == /\ calls[t].op = "read"
           /\ calls' = [calls EXCEPT ![t] = [op |-> "done", addr |-> @.addr, data |-> sectors[@.addr]]]
           /\ UNCHANGED sectors

Write(t) == /\ calls[t].op = "write"
            /\ sectors' = [sectors EXCEPT ![calls[t].addr] = calls[t].data]
            /\ calls' = [calls EXCEPT ![t] = [op |-> "done", addr |-> @.addr, data |-> @.data]]

Return(t) == /\ calls[t].op = "done"
             /\ calls' = [calls EXCEPT ![t] = NoCall]
             /\ UNCHANGED sectors

BlockNext == \E t \in Thread : Call(t) \/ Read(t) \/ Write(t) \/ Return(t)

BlockSpec == BlockInit /\ [][BlockNext]_<<sectors, calls>>
===============================================================================
