--------------------------- MODULE MCSyncPipeline ---------------------------
(* Values for the constants of SyncPipeline. *)
EXTENDS SyncPipeline, TLC

Extremes  == {"healthy", "critical"}
AllFaults == {"worker", "database", "redis"}
NoDeath   == {"redis"}
=============================================================================
