------------------------------ MODULE MCFleetLink ------------------------------
(***************************************************************************)
(* Instances of FleetLink for TLC.                                         *)
(***************************************************************************)
EXTENDS FleetLink
=============================================================================
