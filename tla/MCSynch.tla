------------------------------- MODULE MCSynch -------------------------------
(* Instances of Synch for TLC. *)
EXTENDS Synch, TLC

CONSTANTS l1, c1

NoCondLock == <<>>
OneCondLock == c1 :> l1
=============================================================================
