--------------------------- MODULE MCBatchRunner ---------------------------
(***************************************************************************)
(* Instances of BatchRunner for TLC.  The long script has a step of each   *)
(* behaviour: one that types and goes on, one that types and leaves the    *)
(* waiting to the next, one that only waits, one that types and waits.     *)
(***************************************************************************)
EXTENDS BatchRunner

LongScript == <<"send-raw", "send", "expect", "send">>
SendOnly   == <<"send">>
AnyRun     == Permutations(Runs)
=============================================================================
