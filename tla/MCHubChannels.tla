----------------------------- MODULE MCHubChannels -----------------------------
(***************************************************************************)
(* Instances of HubChannels for TLC.                                       *)
(***************************************************************************)
EXTENDS HubChannels
=============================================================================
