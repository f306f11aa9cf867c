----------------------------- MODULE MCTftpSend -----------------------------
(***************************************************************************)
(* An instance of TftpSend for TLC: as few numbers on the wire as the      *)
(* assumption allows, and a file that uses each of them more than once.    *)
(***************************************************************************)
EXTENDS TftpSend
=============================================================================
