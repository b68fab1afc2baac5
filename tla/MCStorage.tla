------------------------------ MODULE MCStorage ------------------------------
(* Instances of InodeIndex, SectorLife and FreeMap for TLC, in one run. *)
EXTENDS InodeIndex, SectorLife, FreeMap

CONSTANTS long, short

OneLong == [f \in File |-> IF f = long THEN 8 ELSE 1]
Budgets == {[f \in File |-> IF f = long THEN 9 ELSE 0], [f \in File |-> IF f = long THEN 2 ELSE 1]}

\* Which of the three a behaviour is of: the other two stay as they begin.
VARIABLE part

StorageInit == part \in {"index", "life", "map"} /\ IndexInit /\ LifeInit /\ FreeMapInit
StorageNext ==
  /\ UNCHANGED part
  /\ \/ part = "index" /\ IndexNext /\ UNCHANGED <<life, free_map_vars>>
     \/ part = "life" /\ LifeNext /\ UNCHANGED <<index_vars, free_map_vars>>
     \/ part = "map" /\ FreeMapNext /\ UNCHANGED <<index_vars, life>>
StorageSpec == StorageInit /\ [][StorageNext]_<<part, index_vars, life, free_map_vars>>
===============================================================================
