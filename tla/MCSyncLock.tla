----------------------------- MODULE MCSyncLock -----------------------------
(* Values for the constants of SyncLock. *)
EXTENDS SyncLock, TLC

EveryFault == FaultKind
SomeFaults == {"client", "redis", "database", "worker"}
Slots == Permutations(Job)
=============================================================================
