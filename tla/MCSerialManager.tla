-------------------------- MODULE MCSerialManager --------------------------
(***************************************************************************)
(* An instance of SerialManager for TLC.  A session that captured each of  *)
(* the four modes can meet a session of each other mode on one port, and   *)
(* with four sessions the queue has a middle.                              *)
(***************************************************************************)
EXTENDS SerialManager

AllModes == AccessModes
============================================================================
