------------------------------ MODULE MCAdminPages ------------------------------
(***************************************************************************)
(* Instances of AdminPages for TLC, which start as AdminAccounts' do.      *)
(***************************************************************************)
EXTENDS MCAdminAccounts, AdminPages
=============================================================================
