------------------------------ MODULE MCServices ------------------------------
(* Instances of the kernel's smaller parts for TLC, in one run. *)
EXTENDS AllList, Malloc, Serial, Ide, Descriptors, Library

CONSTANTS small, large, shell, program

\* Descriptors of malloc(): two blocks in an arena, or one.
Arenas == [d \in Desc |-> IF d = small THEN 2 ELSE 1]
\* Two disks, one with two sectors.
Disks == {<<0, 0>>, <<1, 0>>, <<1, 1>>}
Fds == [x \in Process |-> IF x = shell THEN 3 ELSE 2]
NoJob == [call |-> "none"]

\* Which part a behaviour is of: the others stay as they begin.
VARIABLE part

Stay(other, vars) == part # other => UNCHANGED vars

ServicesInit ==
  /\ part \in {"threads", "memory", "console", "disks", "files", "library"}
  /\ AllListInit /\ MallocInit /\ SerialInit /\ IdeInit /\ DescriptorsInit
  /\ part # "disks" => controller.addr = <<0, 0>>
  /\ IF part = "library" THEN LibraryInit ELSE job = NoJob /\ result = Pending

ServicesNext ==
  /\ UNCHANGED part
  /\ \/ part = "threads" /\ AllListNext
     \/ part = "memory" /\ MallocNext
     \/ part = "console" /\ SerialNext
     \/ part = "disks" /\ IdeNext
     \/ part = "files" /\ DescriptorsNext
     \/ part = "library" /\ LibraryNext
  /\ Stay("threads", all_list) /\ Stay("memory", memory) /\ Stay("console", serial)
  /\ Stay("disks", ide) /\ Stay("files", descriptors) /\ Stay("library", library)

ServicesSpec ==
  ServicesInit /\ [][ServicesNext]_<<part, all_list, memory, serial, ide, descriptors, library>>
===============================================================================
