---------------------------- MODULE MCFleetPolicy ----------------------------
(* Every event, for the constant Events of FleetPolicy. *)
EXTENDS FleetPolicy

AnyEvent == EventKind
=============================================================================
