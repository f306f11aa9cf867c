---------------------------- MODULE MCAdminAccounts ----------------------------
(***************************************************************************)
(* Instances of AdminAccounts for TLC: a new box, one in use, with two     *)
(* administrators, a second factor and a policy that wants it, one with an *)
(* administrator and a user, and one whose accounts were deleted in        *)
(* config.json, as the handbook says for who is locked out.                *)
(***************************************************************************)
EXTENDS AdminAccounts, TLC
CONSTANTS i1, i2, i3
NewBox  == [admins |-> "admin" :> newAdmin(i1, TRUE), user |-> None, requireTotp |-> FALSE]
UsedBox == [admins |-> ("admin" :> newAdmin(i1, FALSE))
                         @@ ("ann" :> [newAdmin(i2, FALSE) EXCEPT !.totp = TRUE]),
            user |-> newUser(i3, "read-write"), requireTotp |-> TRUE]
OneAdmin == [admins |-> "admin" :> [newAdmin(i1, FALSE) EXCEPT !.totp = TRUE],
             user |-> [newUser(i3, "read-write") EXCEPT !.totp = TRUE], requireTotp |-> TRUE]
EditedBox == [admins |-> <<>>, user |-> None, requireTotp |-> FALSE]
Boxes == {UsedBox, OneAdmin, EditedBox}
SmallBoxes == {NewBox, OneAdmin, EditedBox}
=============================================================================
