------------------------- MODULE MCEnvironmentDetail -------------------------
(* Values for the constants of EnvironmentDetail. *)
EXTENDS EnvironmentDetail

Inventory == {"activation", "execution"}
=============================================================================
