----------------------------- MODULE UserBinds -----------------------------
(***************************************************************************)
(* The `users` and `binds` tables of the backend and the REST handlers     *)
(* that write them (api/user_api/user_info.go, and Distribute, Recycle and *)
(* Delete of api/devices_api/device_info.go).  gin runs every request in a *)
(* goroutine of its own and no handler opens a transaction, so each SQL    *)
(* statement is a step and the steps of all requests interleave.           *)
(*                                                                         *)
(* A bind carries the primary key of a device and of a user.  Of the       *)
(* `devices` table only the primary keys of rows with an address matter    *)
(* here; DeviceRegistry models the rest of it.                             *)
(***************************************************************************)
EXTENDS Naturals, FiniteSets

CONSTANTS
    Users, Binds,   \* primary keys of the two tables; First() orders by them
    Devices,        \* primary keys of devices
    Names,          \* user names
    Passwords,
    Reqs,           \* requests served at once (bound)
    Sends,          \* [Reqs -> SUBSET Ops]: which requests they may be
    MayRestart,     \* whether the backend process may die (BOOLEAN)
    FirstUsers,     \* users tables the backend may find when it starts
    NoRow, Nobody

User == [name : Names, pw : Passwords, enabled : BOOLEAN]
Bind == [device : Devices, user : Users]

Ops == {"addUser", "registerAndBind", "bindExisting", "distribute", "recycle",
        "deleteDevice", "deleteUser", "updateUser", "resetPassword",
        "selfPassword", "changePassword", "login"}

ASSUME NamesAssumption == Names # {} /\ Passwords # {}
ASSUME KeyAssumption == Users \subseteq Nat /\ Binds \subseteq Nat
ASSUME NullAssumption ==
    /\ NoRow \notin User /\ NoRow \notin Bind /\ NoRow \notin Binds
    /\ Nobody \notin Users /\ Nobody \notin Devices
ASSUME SendsAssumption == Sends \in [Reqs -> SUBSET Ops]
ASSUME FirstAssumption == FirstUsers \subseteq [Users -> User \cup {NoRow}]

VARIABLES
    users, binds,   \* the two tables
    devices,        \* devices stored with an address
    reqs            \* the goroutine behind each request

vars == <<users, binds, devices, reqs>>

-----------------------------------------------------------------------------
(* What a handler keeps in its locals.  `at` is the statement it runs next. *)

Steps == {"idle", "name", "bind", "createUser", "createBind", "saveBind",
          "deleteDevice", "deleteBind", "binds", "deleteUser", "deleteBinds",
          "update", "lookup", "done"}

Req == [ at     : Steps,
         op     : Ops,
         name   : Names,
         pw     : Passwords,            \* the password the request presents
         edit   : [pw : Passwords, enabled : BOOLEAN],   \* what it writes
         device : Devices \cup {Nobody},
         user   : Users \cup {Nobody},
         bind   : Binds \cup {NoRow},
         left   : SUBSET Devices,       \* login: bound devices to look up
         found  : SUBSET Devices,       \* login: devices it will answer
         answer : {"OK", "ERROR", "NONE"} ]

Idle == [ at |-> "idle", op |-> "login", name |-> CHOOSE n \in Names : TRUE,
          pw |-> CHOOSE p \in Passwords : TRUE,
          edit |-> [pw |-> CHOOSE p \in Passwords : TRUE, enabled |-> TRUE],
          device |-> Nobody, user |-> Nobody, bind |-> NoRow,
          left |-> {}, found |-> {}, answer |-> "NONE" ]

At(q, step, ops) == reqs[q].at = step /\ reqs[q].op \in ops
Become(q, k) == reqs' = [reqs EXCEPT ![q] = k]
GoTo(q, step) == Become(q, [reqs[q] EXCEPT !.at = step])
Answered(k, answer) ==
    [Idle EXCEPT !.at = "done", !.op = k.op, !.found = k.found, !.answer = answer]
Finish(q, answer) == Become(q, Answered(reqs[q], answer))

-----------------------------------------------------------------------------
(* The database, through gorm.                                             *)

LiveUsers == {u \in Users : users[u] # NoRow}
LiveBinds == {b \in Binds : binds[b] # NoRow}
Named(name)  == {u \in LiveUsers : users[u].name = name}
BindsOf(d)   == {b \in LiveBinds : binds[b].device = d}
BindsFor(u)  == {b \in LiveBinds : binds[b].user = u}

\* First(): the match with the smallest primary key.
IsFirst(r, matches) == r \in matches /\ \A s \in matches : r <= s

\* A UUID no row and no goroutine holds.
FreshUsers == {u \in Users \ LiveUsers : /\ \A q \in Reqs : reqs[q].user # u
                                         /\ BindsFor(u) = {}}
FreshBinds == {b \in Binds \ LiveBinds : \A q \in Reqs : reqs[q].bind # b}

\* Mutant: the unique index was never created.
RefusedNoIndex(b, d) == FALSE

\* CREATE UNIQUE INDEX idx_bind_device_id ON binds(device_id).
Refused(b, d) == BindsOf(d) \ {b} # {}

Init ==
    /\ users \in FirstUsers
    /\ binds = [b \in Binds |-> NoRow]
    /\ devices = {}
    /\ reqs = [q \in Reqs |-> Idle]

ReadOnly == UNCHANGED <<users, binds, devices>>

MayStart(q, op) == reqs[q].at = "idle" /\ op \in Sends[q]

-----------------------------------------------------------------------------
(* UserAdd and SunshineRegister: look the name up, then create the user.   *)
(* The administrator's own account is left out: it is not one of Names.    *)

AddUser(q) ==
    /\ MayStart(q, "addUser")
    /\ \E name \in Names, pw \in Passwords, enabled \in BOOLEAN :
          LET k == [Idle EXCEPT !.op = "addUser", !.name = name, !.pw = pw,
                                !.edit.enabled = enabled] IN
          Become(q, IF Named(name) = {} THEN [k EXCEPT !.at = "createUser"]
                    ELSE Answered(k, "ERROR"))
    /\ ReadOnly

\* The administrator may open a disabled account; one that registers is enabled.
NewUser(k) == [name |-> k.name, pw |-> k.pw, enabled |-> k.edit.enabled]

CreateUser(q) ==
    /\ At(q, "createUser", {"addUser", "registerAndBind"})
    /\ \E u \in FreshUsers :
          /\ users' = [users EXCEPT ![u] = NewUser(reqs[q])]
          /\ Become(q, IF reqs[q].op = "addUser"
                       THEN Answered(reqs[q], "OK")
                       ELSE [reqs[q] EXCEPT !.at = "bind", !.user = u])
    /\ UNCHANGED <<binds, devices>>

-----------------------------------------------------------------------------
(* RegisterAndBind and BindExistingUser: device, user, then the bind.      *)

Claiming == {"registerAndBind", "bindExisting"}

ClaimArrives(q) ==
    /\ \E op \in Claiming, name \in Names, pw \in Passwords, d \in Devices :
          LET k == [Idle EXCEPT !.op = op, !.name = name, !.pw = pw, !.device = d] IN
          /\ MayStart(q, op)
          /\ Become(q, IF d \in devices THEN [k EXCEPT !.at = "name"]
                       ELSE Answered(k, "ERROR"))
    /\ ReadOnly

RegisterByName(q) ==
    /\ At(q, "name", {"registerAndBind"})
    /\ IF Named(reqs[q].name) = {} THEN GoTo(q, "createUser") ELSE Finish(q, "ERROR")
    /\ ReadOnly

BindByName(q) ==
    /\ At(q, "name", {"bindExisting"})
    /\ \/ Named(reqs[q].name) = {} /\ Finish(q, "ERROR")
       \/ \E u \in Users :
             /\ IsFirst(u, Named(reqs[q].name))
             /\ IF users[u].pw = reqs[q].pw
                THEN Become(q, [reqs[q] EXCEPT !.at = "bind", !.user = u])
                ELSE Finish(q, "ERROR")
    /\ ReadOnly

\* Mutant: a bound device is reported as bound to the caller, whoever owns it.
ClaimReadsAnyOwner(q) ==
    /\ At(q, "bind", Claiming)
    /\ IF BindsOf(reqs[q].device) = {} THEN GoTo(q, "createBind") ELSE Finish(q, "OK")
    /\ ReadOnly

ClaimReadsBind(q) ==
    /\ At(q, "bind", Claiming)
    /\ \/ BindsOf(reqs[q].device) = {} /\ GoTo(q, "createBind")
       \/ \E b \in BindsOf(reqs[q].device) :
             IF binds[b].user = reqs[q].user
             THEN Finish(q, "OK")
             ELSE Become(q, [reqs[q] EXCEPT !.at = "saveBind", !.bind = b])
    /\ ReadOnly

\* Mutant: the two columns are swapped.
NewBindSwapped(k) == [device |-> k.user, user |-> k.device]

\* The bind a request writes.
NewBind(k) == [device |-> k.device, user |-> k.user]

\* Create() or Save() of a bind: refused by the index, and reported.
StoreBind(q, b) ==
    IF Refused(b, reqs[q].device)
    THEN UNCHANGED binds /\ Finish(q, "ERROR")
    ELSE binds' = [binds EXCEPT ![b] = NewBind(reqs[q])] /\ Finish(q, "OK")

ClaimCreatesBind(q) ==
    /\ At(q, "createBind", Claiming)
    /\ \E b \in FreshBinds : StoreBind(q, b)
    /\ UNCHANGED <<users, devices>>

\* Save() inserts the row again when it is gone.
ClaimSavesBind(q) ==
    /\ At(q, "saveBind", Claiming)
    /\ StoreBind(q, reqs[q].bind)
    /\ UNCHANGED <<users, devices>>

-----------------------------------------------------------------------------
(* DistributeDevice, RecycleDevice and DeleteSunshine, for administrators. *)

\* The browser sends keys it listed before: either row may be gone.
Distribute(q) ==
    /\ MayStart(q, "distribute")
    /\ \E d \in Devices, u \in Users :
          LET k == [Idle EXCEPT !.op = "distribute", !.device = d, !.user = u] IN
          Become(q, IF BindsOf(d) = {} THEN [k EXCEPT !.at = "createBind"]
                    ELSE Answered(k, "ERROR"))
    /\ ReadOnly

\* Mutant: an existing bind is overwritten.
DistributeOverwrites(q) ==
    /\ At(q, "createBind", {"distribute"})
    /\ \E b \in FreshBinds \cup BindsOf(reqs[q].device) :
          binds' = IF Refused(b, reqs[q].device) THEN binds
                   ELSE [binds EXCEPT ![b] = NewBind(reqs[q])]
    /\ Finish(q, "OK")
    /\ UNCHANGED <<users, devices>>

\* The result of Create() is not looked at.
DistributeCreatesBind(q) ==
    /\ At(q, "createBind", {"distribute"})
    /\ \E b \in FreshBinds :
          binds' = IF Refused(b, reqs[q].device) THEN binds
                   ELSE [binds EXCEPT ![b] = NewBind(reqs[q])]
    /\ Finish(q, "OK")
    /\ UNCHANGED <<users, devices>>

Recycle(q) ==
    /\ MayStart(q, "recycle")
    /\ \E d \in Devices :
          LET k == [Idle EXCEPT !.op = "recycle", !.device = d] IN
          \/ /\ BindsOf(d) = {}
             /\ Become(q, Answered(k, "ERROR"))
          \/ \E b \in BindsOf(d) :
                Become(q, [k EXCEPT !.at = "deleteBind", !.bind = b])
    /\ ReadOnly

DeleteDevice(q) ==
    /\ MayStart(q, "deleteDevice")
    /\ \E d \in Devices :
          LET k == [Idle EXCEPT !.op = "deleteDevice", !.device = d] IN
          Become(q, IF d \in devices THEN [k EXCEPT !.at = "bind"]
                    ELSE Answered(k, "ERROR"))
    /\ ReadOnly

DeleteDeviceReadsBind(q) ==
    /\ At(q, "bind", {"deleteDevice"})
    /\ \/ BindsOf(reqs[q].device) = {} /\ GoTo(q, "deleteDevice")
       \/ \E b \in BindsOf(reqs[q].device) :
             Become(q, [reqs[q] EXCEPT !.at = "deleteDevice", !.bind = b])
    /\ ReadOnly

DeleteDeviceRow(q) ==
    /\ At(q, "deleteDevice", {"deleteDevice"})
    /\ devices' = devices \ {reqs[q].device}
    /\ IF reqs[q].bind = NoRow THEN Finish(q, "OK") ELSE GoTo(q, "deleteBind")
    /\ UNCHANGED <<users, binds>>

\* DELETE by primary key, whoever the bind belongs to by now.
DeleteBind(q) ==
    /\ At(q, "deleteBind", {"recycle", "deleteDevice"})
    /\ binds' = [binds EXCEPT ![reqs[q].bind] = NoRow]
    /\ Finish(q, "OK")
    /\ UNCHANGED <<users, devices>>

-----------------------------------------------------------------------------
(* UserDel *)

DeleteUser(q) ==
    /\ MayStart(q, "deleteUser")
    /\ \E u \in Users :
          LET k == [Idle EXCEPT !.op = "deleteUser", !.user = u] IN
          Become(q, IF u \in LiveUsers THEN [k EXCEPT !.at = "binds"]
                    ELSE Answered(k, "ERROR"))
    /\ ReadOnly

DeleteUserReadsBinds(q) ==
    /\ At(q, "binds", {"deleteUser"})
    /\ IF BindsFor(reqs[q].user) = {} THEN GoTo(q, "deleteUser") ELSE Finish(q, "ERROR")
    /\ ReadOnly

DeleteUserRow(q) ==
    /\ At(q, "deleteUser", {"deleteUser"})
    /\ users' = [users EXCEPT ![reqs[q].user] = NoRow]
    /\ GoTo(q, "deleteBinds")
    /\ UNCHANGED <<binds, devices>>

DeleteBindsOfUser(q) ==
    /\ At(q, "deleteBinds", {"deleteUser"})
    /\ binds' = [b \in Binds |->
                    IF b \in BindsFor(reqs[q].user) THEN NoRow ELSE binds[b]]
    /\ Finish(q, "OK")
    /\ UNCHANGED <<users, devices>>

-----------------------------------------------------------------------------
(* UserUpdate, UserUpdateSelfPassword, AndroidResetPassword and            *)
(* ChangePasswordByDevice.  Updates() writes the columns that are set and  *)
(* hits no row that is gone.                                               *)

UpdateUser(q) ==
    /\ MayStart(q, "updateUser")
    /\ \E u \in Users, edit \in [pw : Passwords, enabled : BOOLEAN] :
          LET k == [Idle EXCEPT !.op = "updateUser", !.user = u, !.edit = edit] IN
          Become(q, IF u \in LiveUsers THEN [k EXCEPT !.at = "update"]
                    ELSE Answered(k, "ERROR"))
    /\ ReadOnly

\* The account the cookie names, which may be disabled or gone.
UpdateSelfPassword(q) ==
    /\ MayStart(q, "selfPassword")
    /\ \E u \in Users, pw \in Passwords :
          LET k == [Idle EXCEPT !.op = "selfPassword", !.user = u, !.edit.pw = pw] IN
          Become(q, IF u \in LiveUsers
                    THEN [k EXCEPT !.at = "update", !.edit.enabled = users[u].enabled]
                    ELSE Answered(k, "ERROR"))
    /\ ReadOnly

ResetPassword(q) ==
    /\ MayStart(q, "resetPassword")
    /\ \E name \in Names, pw, new \in Passwords :
          LET k == [Idle EXCEPT !.op = "resetPassword", !.name = name, !.pw = pw,
                                !.edit.pw = new]
              failed == Answered(k, "ERROR") IN
          \/ Named(name) = {} /\ Become(q, failed)
          \/ \E u \in Users :
                /\ IsFirst(u, Named(name))
                /\ Become(q, IF users[u].enabled /\ users[u].pw = pw
                             THEN [k EXCEPT !.at = "update", !.user = u,
                                            !.edit.enabled = users[u].enabled]
                             ELSE failed)
    /\ ReadOnly

ChangePassword(q) ==
    /\ MayStart(q, "changePassword")
    /\ \E name \in Names, d \in Devices, new \in Passwords :
          LET k == [Idle EXCEPT !.op = "changePassword", !.name = name,
                                !.device = d, !.edit.pw = new] IN
          Become(q, IF d \in devices THEN [k EXCEPT !.at = "name"]
                    ELSE Answered(k, "ERROR"))
    /\ ReadOnly

ChangePasswordByName(q) ==
    /\ At(q, "name", {"changePassword"})
    /\ \/ Named(reqs[q].name) = {} /\ Finish(q, "ERROR")
       \/ \E u \in Users :
             /\ IsFirst(u, Named(reqs[q].name))
             /\ Become(q, [reqs[q] EXCEPT !.at = "bind", !.user = u,
                                          !.edit.enabled = users[u].enabled])
    /\ ReadOnly

ChangePasswordReadsBind(q) ==
    /\ At(q, "bind", {"changePassword"})
    /\ IF BindsOf(reqs[q].device) \cap BindsFor(reqs[q].user) # {}
       THEN GoTo(q, "update") ELSE Finish(q, "ERROR")
    /\ ReadOnly

\* Mutant: the whole row read before is written back.
EditedWhole(k, row) == [row EXCEPT !.pw = k.edit.pw, !.enabled = k.edit.enabled]

Edited(k, row) ==
    [row EXCEPT !.pw = k.edit.pw,
                !.enabled = IF k.op = "updateUser" THEN k.edit.enabled ELSE @]

WriteUser(q) ==
    /\ At(q, "update", {"updateUser", "selfPassword", "resetPassword", "changePassword"})
    /\ LET u == reqs[q].user IN
       users' = IF u \in LiveUsers
                THEN [users EXCEPT ![u] = Edited(reqs[q], users[u])] ELSE users
    /\ Finish(q, "OK")
    /\ UNCHANGED <<binds, devices>>

-----------------------------------------------------------------------------
(* UserClientLogin: the user, his binds, then the device of each bind.     *)

Login(q) ==
    /\ MayStart(q, "login")
    /\ \E name \in Names, pw \in Passwords :
          LET k == [Idle EXCEPT !.op = "login", !.name = name, !.pw = pw]
              failed == Answered(k, "ERROR") IN
          \/ Named(name) = {} /\ Become(q, failed)
          \/ \E u \in Users :
                /\ IsFirst(u, Named(name))
                /\ Become(q, IF users[u].pw = pw /\ users[u].enabled
                             THEN [k EXCEPT !.at = "binds", !.user = u] ELSE failed)
    /\ ReadOnly

LoginReadsBinds(q) ==
    /\ At(q, "binds", {"login"})
    /\ Become(q, [reqs[q] EXCEPT
                    !.at = "lookup",
                    !.left = {binds[b].device : b \in BindsFor(reqs[q].user)}])
    /\ ReadOnly

LoginReadsDevice(q) ==
    /\ At(q, "lookup", {"login"})
    /\ \E d \in reqs[q].left :
          Become(q, [reqs[q] EXCEPT !.left = @ \ {d}, !.found = @ \cup ({d} \cap devices)])
    /\ ReadOnly

LoginAnswers(q) ==
    /\ At(q, "lookup", {"login"})
    /\ reqs[q].left = {}
    /\ Finish(q, "OK")
    /\ ReadOnly

-----------------------------------------------------------------------------
Close(q) ==
    /\ reqs[q].at = "done"
    /\ Become(q, Idle)
    /\ ReadOnly

\* A row of `devices` with this key is stored: a new machine registers, or a
\* late handler of DeviceRegistry writes a deleted row back.
DeviceStored(d) ==
    /\ d \notin devices
    /\ devices' = devices \cup {d}
    /\ UNCHANGED <<users, binds, reqs>>

\* The process dies and starts again: only the SQLite file survives.
Restart ==
    /\ MayRestart
    /\ reqs' = [q \in Reqs |-> Idle]
    /\ ReadOnly

Start(q) ==
    \/ AddUser(q) \/ ClaimArrives(q) \/ Distribute(q) \/ Recycle(q)
    \/ DeleteDevice(q) \/ DeleteUser(q) \/ UpdateUser(q) \/ UpdateSelfPassword(q)
    \/ ResetPassword(q) \/ ChangePassword(q) \/ Login(q)

Step(q) ==
    \/ CreateUser(q)
    \/ RegisterByName(q) \/ BindByName(q) \/ ClaimReadsBind(q)
    \/ ClaimCreatesBind(q) \/ ClaimSavesBind(q)
    \/ DistributeCreatesBind(q)
    \/ DeleteDeviceReadsBind(q) \/ DeleteDeviceRow(q) \/ DeleteBind(q)
    \/ DeleteUserReadsBinds(q) \/ DeleteUserRow(q) \/ DeleteBindsOfUser(q)
    \/ ChangePasswordByName(q) \/ ChangePasswordReadsBind(q) \/ WriteUser(q)
    \/ LoginReadsBinds(q) \/ LoginReadsDevice(q) \/ LoginAnswers(q)
    \/ Close(q)

Next ==
    \/ \E q \in Reqs : Start(q) \/ Step(q)
    \/ \E d \in Devices : DeviceStored(d)
    \/ Restart

Spec == Init /\ [][Next]_vars

-----------------------------------------------------------------------------
(* Properties.                                                             *)

TypeOK ==
    /\ users \in [Users -> User \cup {NoRow}]
    /\ binds \in [Binds -> Bind \cup {NoRow}]
    /\ devices \subseteq Devices
    /\ reqs \in [Reqs -> Req]

\* gorm.go:67: a device has at most one bind, whatever the handlers create,
\* save and delete at the same time.
OneOwner ==
    \A b, c \in LiveBinds : binds[b].device = binds[c].device => b = c

\* RegisterAndBind and BindExistingUser answer success only in a state where
\* the device is bound to that user: a lost race is reported, not hidden.
SuccessMeansOwner ==
    [][\A q \in Reqs :
          (/\ reqs[q].op \in Claiming /\ reqs[q].at # "idle"
           /\ reqs[q].answer = "NONE" /\ reqs'[q].answer = "OK")
              => \E b \in Binds :
                    binds'[b] = [device |-> reqs[q].device, user |-> reqs[q].user]]_vars

\* An account the administrator disabled is enabled again by UserUpdate only:
\* a password change that read the row before does not undo it.
DisabledStaysDisabled ==
    [][\A u \in Users :
          (/\ users[u] # NoRow /\ ~users[u].enabled
           /\ users'[u] # NoRow /\ users'[u].enabled)
              => \E q \in Reqs : At(q, "update", {"updateUser"})
                                 /\ reqs[q].user = u /\ reqs[q].edit.enabled]_vars

OwnerOf(d) == IF BindsOf(d) = {} THEN Nobody
              ELSE binds[CHOOSE b \in BindsOf(d) : TRUE].user

\* A claim that has found its device and its user and not yet ended.
Pending(k) == k.op \in Claiming /\ k.at \in {"bind", "createBind", "saveBind"}

\* The tables implement the ownership DeviceOwner promises (gorm.go:67): a
\* device changes hands by a claim or when it is free, and in no other way.
Owner == INSTANCE DeviceOwner WITH
    owner <- [d \in Devices |-> OwnerOf(d)],
    accounts <- LiveUsers,
    claims <- {<<reqs[q].device, reqs[q].user>> :
                 q \in {p \in Reqs : Pending(reqs[p])}}

OwnershipIsKept == Owner!Spec
=============================================================================
