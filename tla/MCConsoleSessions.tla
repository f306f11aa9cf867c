------------------------- MODULE MCConsoleSessions -------------------------
(***************************************************************************)
(* Instances of ConsoleSessions for TLC: who connects, over what, and what *)
(* the configuration says of them.                                         *)
(***************************************************************************)
EXTENDS ConsoleSessions

CONSTANTS ssh1, ssh2, web1, tun1, bat1, p1

OwnsP1(D)     == [s \in D |-> p1]
NobodyOwnsOne == OwnsP1({})
Ssh2OwnsP1    == OwnsP1({ssh2})
ExclusiveOrFirst == {"exclusive", "first-write"}
AllButShared     == {"exclusive", "first-write", "shared-ro"}
FirstOnly        == {"first-write"}
=============================================================================
