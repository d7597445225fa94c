---------------------------- MODULE MCUserBinds ----------------------------
(* Instances of UserBinds for TLC.                                         *)
EXTENDS UserBinds

CONSTANTS d1, ann, bob, p1

\* Two accounts exist.
TwoAccounts ==
    {[u \in Users |-> CASE u = 1 -> [name |-> ann, pw |-> p1, enabled |-> TRUE]
                        [] u = 2 -> [name |-> bob, pw |-> p1, enabled |-> TRUE]
                        [] OTHER -> NoRow]}

\* Two claims race the administrator, who gives the device out, takes it back and deletes
\* it, while accounts are opened, edited and deleted and their passwords changed.
ClaimSends ==
    [q \in Reqs |->
        CASE q = 1 -> {"registerAndBind", "addUser", "updateUser", "changePassword", "login"}
          [] q = 2 -> {"bindExisting", "selfPassword", "resetPassword", "deleteUser"}
          [] q = 3 -> {"distribute", "recycle", "deleteDevice"}]
=============================================================================
