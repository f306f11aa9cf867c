------------------------------ MODULE MCSelfUpdate ------------------------------
(***************************************************************************)
(* Instances of SelfUpdate for TLC.  Three items stand for the nine of      *)
(* SWAP_ITEMS; the handbook is the one rollback-update.sh does not know,   *)
(* and that the first version did not ship.                                *)
(***************************************************************************)
EXTENDS SelfUpdate
SwapItems == <<"server.js", "lib", "HANDBOOK.html">>
Script    == {"server.js", "lib"}
Packages  == [v \in {"1", "2"} |-> IF v = "1" THEN Script ELSE Script \union {"HANDBOOK.html"}]
=============================================================================
