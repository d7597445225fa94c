-------------------------- MODULE UserBinds_proofs --------------------------
(***************************************************************************)
(* Proofs about UserBinds: no device is bound twice, and the tables with   *)
(* their handlers implement DeviceOwner.                                   *)
(*                                                                         *)
(* OneOwner is not inductive: Save() writes back a row that may be gone or *)
(* may have changed.  What keeps it harmless is that a primary key, once   *)
(* drawn for a device, is never used for another one: HeldRows says so of  *)
(* the row a request holds, HoldersAgree of two requests that hold one key.*)
(***************************************************************************)
EXTENDS UserBinds, TLAPS

Sound(k) ==
    /\ (k.op \in Claiming /\ k.at \in {"name", "createUser", "bind"})
          => k.device \in Devices
    /\ Pending(k) => k.user \in Users
    /\ k.at \in {"createBind", "saveBind"} => k.device \in Devices /\ k.user \in Users
    /\ k.at = "saveBind" => k.bind \in Binds

AllSound == \A q \in Reqs : Sound(reqs[q])

HeldRows ==
    \A q \in Reqs :
        (reqs[q].at = "saveBind" /\ binds[reqs[q].bind] # NoRow)
            => binds[reqs[q].bind].device = reqs[q].device

HoldersAgree ==
    \A p, q \in Reqs :
        (/\ reqs[p].at = "saveBind" /\ reqs[q].at = "saveBind"
         /\ reqs[p].bind = reqs[q].bind)
            => reqs[p].device = reqs[q].device

IndInv == TypeOK /\ OneOwner /\ AllSound /\ HeldRows /\ HoldersAgree

-----------------------------------------------------------------------------
(* Requests.                                                               *)

\* A request nobody has made yet is well typed.
LEMMA IdleType == Idle \in Req /\ Sound(Idle)
<1>1. (CHOOSE n \in Names : TRUE) \in Names /\ (CHOOSE p \in Passwords : TRUE) \in Passwords
  BY NamesAssumption
<1> DEFINE n == CHOOSE x \in Names : TRUE
           p == CHOOSE x \in Passwords : TRUE
<1>2. n \in Names /\ p \in Passwords
  BY <1>1
<1>3. Idle = [ at |-> "idle", op |-> "login", name |-> n, pw |-> p,
               edit |-> [pw |-> p, enabled |-> TRUE],
               device |-> Nobody, user |-> Nobody, bind |-> NoRow,
               left |-> {}, found |-> {}, answer |-> "NONE" ]
  BY DEF Idle
<1> HIDE DEF n, p
<1> QED BY <1>2, <1>3 DEF Req, Steps, Ops, Sound, Pending, Claiming

\* An answered request is well typed.
LEMMA AnsweredType ==
  ASSUME NEW k \in Req, NEW a \in {"OK", "ERROR", "NONE"}
  PROVE  /\ Answered(k, a) \in Req
         /\ Answered(k, a).at = "done"
         /\ Sound(Answered(k, a)) /\ ~Pending(Answered(k, a))
<1>1. Answered(k, a) \in Req /\ Answered(k, a).at = "done"
  BY IdleType, ZenonT(60) DEF Answered, Req, Steps
<1> QED BY <1>1 DEF Sound, Pending

\* An action that turns one request into a sound one holding no row, and at
\* most deletes rows of binds, keeps the invariant.
LEMMA QuietStep ==
  ASSUME IndInv,
         NEW q \in Reqs, NEW k \in Req, Become(q, k), Sound(k), k.at # "saveBind",
         users' \in [Users -> User \cup {NoRow}], devices' \subseteq Devices,
         binds' \in [Binds -> Bind \cup {NoRow}],
         \A b \in Binds : binds'[b] = binds[b] \/ binds'[b] = NoRow
  PROVE  IndInv'
<1>1. \A p \in Reqs : reqs'[p] = IF p = q THEN k ELSE reqs[p]
  BY DEF Become, IndInv, TypeOK
<1>2. TypeOK'
  BY DEF Become, IndInv, TypeOK
<1>3. OneOwner'
  BY DEF IndInv, OneOwner, LiveBinds
<1>4. AllSound'
  <2>1. SUFFICES ASSUME NEW p \in Reqs PROVE Sound(reqs'[p])
    BY DEF AllSound, Sound, Pending
  <2> QED BY <1>1 DEF IndInv, AllSound
<1>5. HeldRows'
  <2>1. SUFFICES ASSUME NEW p \in Reqs, reqs'[p].at = "saveBind",
                        binds'[reqs'[p].bind] # NoRow
                 PROVE  binds'[reqs'[p].bind].device = reqs'[p].device
    BY DEF HeldRows
  <2>2. p # q /\ reqs'[p] = reqs[p]
    BY <1>1, <2>1
  <2>3. reqs[p].bind \in Binds
    BY <2>1, <2>2 DEF IndInv, AllSound, Sound
  <2>4. binds'[reqs[p].bind] = binds[reqs[p].bind]
    BY <2>1, <2>2, <2>3
  <2> QED BY <2>1, <2>2, <2>4 DEF IndInv, HeldRows
<1>6. HoldersAgree'
  BY <1>1 DEF IndInv, HoldersAgree
<1> QED BY <1>2, <1>3, <1>4, <1>5, <1>6 DEF IndInv

\* k may follow in request q: sound, and claiming only what q claimed.
Follows(q, k) ==
    /\ k \in Req /\ Sound(k) /\ k.at # "saveBind"
    /\ Pending(k) => /\ Pending(reqs[q])
                     /\ k.device = reqs[q].device /\ k.user = reqs[q].user

\* The later statements that only read, and the end of the request.
Reads(q) ==
    \/ RegisterByName(q) \/ DeleteDeviceReadsBind(q) \/ DeleteUserReadsBinds(q)
    \/ ChangePasswordByName(q) \/ ChangePasswordReadsBind(q)
    \/ LoginReadsBinds(q) \/ LoginReadsDevice(q) \/ LoginAnswers(q) \/ Close(q)

\* A first statement leaves a sound request that claims nothing yet.
LEMMA StartStep ==
  ASSUME IndInv, NEW q \in Reqs, Start(q)
  PROVE  ReadOnly /\ \E k : Become(q, k) /\ Follows(q, k) /\ ~Pending(k)
<1>1. Idle \in Req
  BY IdleType
<1>2. CASE AddUser(q)
  <2>1. ReadOnly
    BY <1>2 DEF AddUser
  <2>2. PICK name \in Names, pw \in Passwords, enabled \in BOOLEAN :
           LET k == [Idle EXCEPT !.op = "addUser", !.name = name, !.pw = pw,
                                 !.edit.enabled = enabled] IN
           \/ Become(q, [k EXCEPT !.at = "createUser"])
           \/ Become(q, Answered(k, "ERROR"))
    BY <1>2 DEF AddUser
  <2> DEFINE k == [Idle EXCEPT !.op = "addUser", !.name = name, !.pw = pw,
                               !.edit.enabled = enabled]
             j == [k EXCEPT !.at = "createUser"]
  <2>3. k \in Req
    BY <1>1 DEF Req, Ops
  <2>4. j \in Req /\ j.op = "addUser" /\ j.at = "createUser"
    BY <1>1, ZenonT(60) DEF Req, Ops, Steps
  <2>5. Follows(q, j) /\ ~Pending(j)
    <3> HIDE DEF j
    <3> QED BY <2>4 DEF Follows, Sound, Pending, Claiming
  <2>6. Follows(q, Answered(k, "ERROR")) /\ ~Pending(Answered(k, "ERROR"))
    <3> HIDE DEF k
    <3> QED BY <2>3, AnsweredType DEF Follows
  <2>7. Become(q, j) \/ Become(q, Answered(k, "ERROR"))
    BY <2>2
  <2> HIDE DEF k, j
  <2> QED BY <2>1, <2>5, <2>6, <2>7
<1>3. CASE ClaimArrives(q)
  <2>1. ReadOnly
    BY <1>3 DEF ClaimArrives
  <2>2. PICK op \in Claiming, name \in Names, pw \in Passwords, d \in Devices :
           LET k == [Idle EXCEPT !.op = op, !.name = name, !.pw = pw, !.device = d] IN
           \/ Become(q, [k EXCEPT !.at = "name"])
           \/ Become(q, Answered(k, "ERROR"))
    BY <1>3 DEF ClaimArrives
  <2> DEFINE k == [Idle EXCEPT !.op = op, !.name = name, !.pw = pw, !.device = d]
             j == [k EXCEPT !.at = "name"]
  <2>3. k \in Req
    BY <1>1 DEF Req, Ops, Claiming
  <2>4. j \in Req /\ j.device \in Devices /\ j.at = "name"
    BY <1>1, ZenonT(60) DEF Req, Ops, Steps, Claiming
  <2>5. Follows(q, j) /\ ~Pending(j)
    <3> HIDE DEF j
    <3> QED BY <2>4 DEF Follows, Sound, Pending, Claiming
  <2>6. Follows(q, Answered(k, "ERROR")) /\ ~Pending(Answered(k, "ERROR"))
    <3> HIDE DEF k
    <3> QED BY <2>3, AnsweredType DEF Follows
  <2>7. Become(q, j) \/ Become(q, Answered(k, "ERROR"))
    BY <2>2
  <2> HIDE DEF k, j
  <2> QED BY <2>1, <2>5, <2>6, <2>7
<1>4. CASE Distribute(q)
  <2>1. ReadOnly
    BY <1>4 DEF Distribute
  <2>2. PICK d \in Devices, u \in Users :
           LET k == [Idle EXCEPT !.op = "distribute", !.device = d, !.user = u] IN
           \/ Become(q, [k EXCEPT !.at = "createBind"])
           \/ Become(q, Answered(k, "ERROR"))
    BY <1>4 DEF Distribute
  <2> DEFINE k == [Idle EXCEPT !.op = "distribute", !.device = d, !.user = u]
             j == [k EXCEPT !.at = "createBind"]
  <2>3. k \in Req
    BY <1>1 DEF Req, Ops
  <2>4. j \in Req /\ j.op = "distribute" /\ j.at = "createBind" /\ j.device \in Devices /\ j.user \in Users
    BY <1>1 DEF Req, Ops, Steps
  <2>5. Follows(q, j) /\ ~Pending(j)
    <3> HIDE DEF j
    <3> QED BY <2>4 DEF Follows, Sound, Pending, Claiming
  <2>6. Follows(q, Answered(k, "ERROR")) /\ ~Pending(Answered(k, "ERROR"))
    <3> HIDE DEF k
    <3> QED BY <2>3, AnsweredType DEF Follows
  <2>7. Become(q, j) \/ Become(q, Answered(k, "ERROR"))
    BY <2>2
  <2> HIDE DEF k, j
  <2> QED BY <2>1, <2>5, <2>6, <2>7
<1>5. CASE Recycle(q)
  <2>1. ReadOnly
    BY <1>5 DEF Recycle
  <2>2. PICK d \in Devices :
           LET k == [Idle EXCEPT !.op = "recycle", !.device = d] IN
           \/ Become(q, Answered(k, "ERROR"))
           \/ \E b \in BindsOf(d) :
                 Become(q, [k EXCEPT !.at = "deleteBind", !.bind = b])
    BY <1>5 DEF Recycle
  <2> DEFINE k == [Idle EXCEPT !.op = "recycle", !.device = d]
  <2>3. k \in Req /\ k.op = "recycle"
    BY <1>1 DEF Req, Ops
  <2>4. CASE Become(q, Answered(k, "ERROR"))
    <3> HIDE DEF k
    <3> QED BY <2>1, <2>3, <2>4, AnsweredType DEF Follows
  <2>5. ASSUME NEW b \in BindsOf(d),
               Become(q, [k EXCEPT !.at = "deleteBind", !.bind = b])
        PROVE  \E i : Become(q, i) /\ Follows(q, i) /\ ~Pending(i)
    <3> DEFINE j == [k EXCEPT !.at = "deleteBind", !.bind = b]
    <3>1. b \in Binds
      BY DEF BindsOf, LiveBinds
    <3> HIDE DEF k
    <3>2. j \in Req /\ j.op = "recycle" /\ j.at = "deleteBind"
      BY <2>3, <3>1 DEF Req, Steps
    <3>3. Become(q, j)
      BY <2>5
    <3> HIDE DEF j
    <3> QED BY <3>2, <3>3 DEF Follows, Sound, Pending, Claiming
  <2>6. Become(q, Answered(k, "ERROR"))
          \/ \E b \in BindsOf(d) : Become(q, [k EXCEPT !.at = "deleteBind", !.bind = b])
    BY <2>2
  <2> HIDE DEF k
  <2> QED BY <2>1, <2>4, <2>5, <2>6
<1>6. CASE DeleteDevice(q)
  <2>1. ReadOnly
    BY <1>6 DEF DeleteDevice
  <2>2. PICK d \in Devices :
           LET k == [Idle EXCEPT !.op = "deleteDevice", !.device = d] IN
           \/ Become(q, [k EXCEPT !.at = "bind"])
           \/ Become(q, Answered(k, "ERROR"))
    BY <1>6 DEF DeleteDevice
  <2> DEFINE k == [Idle EXCEPT !.op = "deleteDevice", !.device = d]
             j == [k EXCEPT !.at = "bind"]
  <2>3. k \in Req
    BY <1>1 DEF Req, Ops
  <2>4. j \in Req /\ j.op = "deleteDevice" /\ j.at = "bind"
    BY <1>1, ZenonT(60) DEF Req, Ops, Steps
  <2>5. Follows(q, j) /\ ~Pending(j)
    <3> HIDE DEF j
    <3> QED BY <2>4 DEF Follows, Sound, Pending, Claiming
  <2>6. Follows(q, Answered(k, "ERROR")) /\ ~Pending(Answered(k, "ERROR"))
    <3> HIDE DEF k
    <3> QED BY <2>3, AnsweredType DEF Follows
  <2>7. Become(q, j) \/ Become(q, Answered(k, "ERROR"))
    BY <2>2
  <2> HIDE DEF k, j
  <2> QED BY <2>1, <2>5, <2>6, <2>7
<1>7. CASE DeleteUser(q)
  <2>1. ReadOnly
    BY <1>7 DEF DeleteUser
  <2>2. PICK u \in Users :
           LET k == [Idle EXCEPT !.op = "deleteUser", !.user = u] IN
           \/ Become(q, [k EXCEPT !.at = "binds"])
           \/ Become(q, Answered(k, "ERROR"))
    BY <1>7 DEF DeleteUser
  <2> DEFINE k == [Idle EXCEPT !.op = "deleteUser", !.user = u]
             j == [k EXCEPT !.at = "binds"]
  <2>3. k \in Req
    BY <1>1 DEF Req, Ops
  <2>4. j \in Req /\ j.op = "deleteUser" /\ j.at = "binds"
    BY <1>1, ZenonT(60) DEF Req, Ops, Steps
  <2>5. Follows(q, j) /\ ~Pending(j)
    <3> HIDE DEF j
    <3> QED BY <2>4 DEF Follows, Sound, Pending, Claiming
  <2>6. Follows(q, Answered(k, "ERROR")) /\ ~Pending(Answered(k, "ERROR"))
    <3> HIDE DEF k
    <3> QED BY <2>3, AnsweredType DEF Follows
  <2>7. Become(q, j) \/ Become(q, Answered(k, "ERROR"))
    BY <2>2
  <2> HIDE DEF k, j
  <2> QED BY <2>1, <2>5, <2>6, <2>7
<1>8. CASE UpdateUser(q)
  <2>1. ReadOnly
    BY <1>8 DEF UpdateUser
  <2>2. PICK u \in Users, edit \in [pw : Passwords, enabled : BOOLEAN] :
           LET k == [Idle EXCEPT !.op = "updateUser", !.user = u, !.edit = edit] IN
           \/ Become(q, [k EXCEPT !.at = "update"])
           \/ Become(q, Answered(k, "ERROR"))
    BY <1>8 DEF UpdateUser
  <2> DEFINE k == [Idle EXCEPT !.op = "updateUser", !.user = u, !.edit = edit]
             j == [k EXCEPT !.at = "update"]
  <2>3. k \in Req
    BY <1>1 DEF Req, Ops
  <2>4. j \in Req /\ j.op = "updateUser" /\ j.at = "update"
    BY <1>1, ZenonT(60) DEF Req, Ops, Steps
  <2>5. Follows(q, j) /\ ~Pending(j)
    <3> HIDE DEF j
    <3> QED BY <2>4 DEF Follows, Sound, Pending, Claiming
  <2>6. Follows(q, Answered(k, "ERROR")) /\ ~Pending(Answered(k, "ERROR"))
    <3> HIDE DEF k
    <3> QED BY <2>3, AnsweredType DEF Follows
  <2>7. Become(q, j) \/ Become(q, Answered(k, "ERROR"))
    BY <2>2
  <2> HIDE DEF k, j
  <2> QED BY <2>1, <2>5, <2>6, <2>7
<1>12. CASE UpdateSelfPassword(q)
  <2>1. ReadOnly
    BY <1>12 DEF UpdateSelfPassword
  <2>2. PICK u \in Users, pw \in Passwords :
           LET k == [Idle EXCEPT !.op = "selfPassword", !.user = u, !.edit.pw = pw] IN
           IF u \in LiveUsers
           THEN Become(q, [k EXCEPT !.at = "update", !.edit.enabled = users[u].enabled])
           ELSE Become(q, Answered(k, "ERROR"))
    BY <1>12 DEF UpdateSelfPassword
  <2> DEFINE k == [Idle EXCEPT !.op = "selfPassword", !.user = u, !.edit.pw = pw]
             j == [k EXCEPT !.at = "update", !.edit.enabled = users[u].enabled]
  <2>3. k \in Req /\ k.op = "selfPassword"
    BY <1>1 DEF Req, Ops
  <2>4. CASE Become(q, Answered(k, "ERROR"))
    <3> HIDE DEF k
    <3> QED BY <2>1, <2>3, <2>4, AnsweredType DEF Follows
  <2>5. CASE u \in LiveUsers /\ Become(q, j)
    <3>1. users[u] \in User
      BY <2>5 DEF LiveUsers, IndInv, TypeOK
    <3>2. users[u].enabled \in BOOLEAN
      BY <3>1 DEF User
    <3> HIDE DEF k
    <3>3. j \in Req /\ j.op = "selfPassword" /\ j.at = "update"
      BY <2>3, <3>2 DEF Req, Steps
    <3> HIDE DEF j
    <3> QED BY <2>1, <2>5, <3>3 DEF Follows, Sound, Pending, Claiming
  <2>6. Become(q, Answered(k, "ERROR")) \/ (u \in LiveUsers /\ Become(q, j))
    BY <2>2
  <2> QED BY <2>4, <2>5, <2>6
<1>9. CASE ChangePassword(q)
  <2>1. ReadOnly
    BY <1>9 DEF ChangePassword
  <2>2. PICK name \in Names, d \in Devices, new \in Passwords :
           LET k == [Idle EXCEPT !.op = "changePassword", !.name = name, !.device = d, !.edit.pw = new] IN
           \/ Become(q, [k EXCEPT !.at = "name"])
           \/ Become(q, Answered(k, "ERROR"))
    BY <1>9 DEF ChangePassword
  <2> DEFINE k == [Idle EXCEPT !.op = "changePassword", !.name = name, !.device = d, !.edit.pw = new]
             j == [k EXCEPT !.at = "name"]
  <2>3. k \in Req
    BY <1>1 DEF Req, Ops
  <2>4. j \in Req /\ j.op = "changePassword" /\ j.at = "name"
    BY <1>1, ZenonT(60) DEF Req, Ops, Steps
  <2>5. Follows(q, j) /\ ~Pending(j)
    <3> HIDE DEF j
    <3> QED BY <2>4 DEF Follows, Sound, Pending, Claiming
  <2>6. Follows(q, Answered(k, "ERROR")) /\ ~Pending(Answered(k, "ERROR"))
    <3> HIDE DEF k
    <3> QED BY <2>3, AnsweredType DEF Follows
  <2>7. Become(q, j) \/ Become(q, Answered(k, "ERROR"))
    BY <2>2
  <2> HIDE DEF k, j
  <2> QED BY <2>1, <2>5, <2>6, <2>7
<1>10. CASE ResetPassword(q)
  <2>1. ReadOnly
    BY <1>10, Zenon DEF ResetPassword
  <2>2. PICK name \in Names, pw \in Passwords, new \in Passwords :
           LET k == [Idle EXCEPT !.op = "resetPassword", !.name = name, !.pw = pw,
                                 !.edit.pw = new]
               failed == Answered(k, "ERROR") IN
           \/ Named(name) = {} /\ Become(q, failed)
           \/ \E u \in Users :
                 /\ IsFirst(u, Named(name))
                 /\ Become(q, IF users[u].enabled /\ users[u].pw = pw
                              THEN [k EXCEPT !.at = "update", !.user = u,
                                             !.edit.enabled = users[u].enabled]
                              ELSE failed)
    BY <1>10, Zenon DEF ResetPassword
  <2> DEFINE k == [Idle EXCEPT !.op = "resetPassword", !.name = name, !.pw = pw, !.edit.pw = new]
  <2>3. k \in Req /\ k.op = "resetPassword"
    BY <1>1 DEF Req, Ops
  <2>4. CASE Become(q, Answered(k, "ERROR"))
    <3> HIDE DEF k
    <3> QED BY <2>1, <2>3, <2>4, AnsweredType DEF Follows
  <2>5. ASSUME NEW u \in Users, IsFirst(u, Named(name)), Become(q, [k EXCEPT !.at = "update", !.user = u, !.edit.enabled = users[u].enabled])
        PROVE  \E i : Become(q, i) /\ Follows(q, i) /\ ~Pending(i)
    <3> DEFINE j == [k EXCEPT !.at = "update", !.user = u, !.edit.enabled = users[u].enabled]
    <3>1. users[u] \in User
      BY <2>5 DEF IsFirst, Named, LiveUsers, IndInv, TypeOK
    <3>2. users[u].enabled \in BOOLEAN
      BY <3>1 DEF User
    <3> HIDE DEF k
    <3>3. j \in Req /\ j.op = "resetPassword" /\ j.at = "update"
      BY <2>3, <3>2 DEF Req, Steps
    <3>4. Become(q, j)
      BY <2>5
    <3> HIDE DEF j
    <3> QED BY <3>3, <3>4 DEF Follows, Sound, Pending, Claiming
  <2>6. Become(q, Answered(k, "ERROR"))
          \/ \E u \in Users : IsFirst(u, Named(name)) /\ Become(q, [k EXCEPT !.at = "update", !.user = u, !.edit.enabled = users[u].enabled])
    <3> DEFINE j(u) == [k EXCEPT !.at = "update", !.user = u, !.edit.enabled = users[u].enabled]
    <3>1. \/ Become(q, Answered(k, "ERROR"))
          \/ \E u \in Users :
                /\ IsFirst(u, Named(name))
                /\ Become(q, IF users[u].enabled /\ users[u].pw = pw
                             THEN j(u) ELSE Answered(k, "ERROR"))
      BY <2>2, Zenon
    <3> HIDE DEF j
    <3>2. Become(q, Answered(k, "ERROR")) \/ \E u \in Users : IsFirst(u, Named(name)) /\ Become(q, j(u))
      <4>1. CASE Become(q, Answered(k, "ERROR"))
        BY <4>1
      <4>2. ASSUME NEW u \in Users, IsFirst(u, Named(name)),
                   Become(q, IF users[u].enabled /\ users[u].pw = pw
                             THEN j(u) ELSE Answered(k, "ERROR"))
            PROVE  Become(q, Answered(k, "ERROR")) \/ Become(q, j(u))
        <5>1. CASE users[u].enabled /\ users[u].pw = pw
          BY <4>2, <5>1, Zenon
        <5>2. CASE ~(users[u].enabled /\ users[u].pw = pw)
          BY <4>2, <5>2, Zenon
        <5> QED BY <5>1, <5>2, Zenon
      <4> QED BY <3>1, <4>1, <4>2, Zenon
    <3> QED BY <3>2, Zenon DEF j
  <2> HIDE DEF k
  <2> QED BY <2>1, <2>4, <2>5, <2>6
<1>11. CASE Login(q)
  <2>1. ReadOnly
    BY <1>11, Zenon DEF Login
  <2>2. PICK name \in Names, pw \in Passwords :
           LET k == [Idle EXCEPT !.op = "login", !.name = name, !.pw = pw]
               failed == Answered(k, "ERROR") IN
           \/ Named(name) = {} /\ Become(q, failed)
           \/ \E u \in Users :
                 /\ IsFirst(u, Named(name))
                 /\ Become(q, IF users[u].pw = pw /\ users[u].enabled
                              THEN [k EXCEPT !.at = "binds", !.user = u] ELSE failed)
    BY <1>11, Zenon DEF Login
  <2> DEFINE k == [Idle EXCEPT !.op = "login", !.name = name, !.pw = pw]
  <2>3. k \in Req /\ k.op = "login"
    BY <1>1 DEF Req, Ops
  <2>4. CASE Become(q, Answered(k, "ERROR"))
    <3> HIDE DEF k
    <3> QED BY <2>1, <2>3, <2>4, AnsweredType DEF Follows
  <2>5. ASSUME NEW u \in Users, IsFirst(u, Named(name)), Become(q, [k EXCEPT !.at = "binds", !.user = u])
        PROVE  \E i : Become(q, i) /\ Follows(q, i) /\ ~Pending(i)
    <3> DEFINE j == [k EXCEPT !.at = "binds", !.user = u]
    <3>1. users[u] \in User
      BY <2>5 DEF IsFirst, Named, LiveUsers, IndInv, TypeOK
    <3>2. users[u].enabled \in BOOLEAN
      BY <3>1 DEF User
    <3> HIDE DEF k
    <3>3. j \in Req /\ j.op = "login" /\ j.at = "binds"
      BY <2>3, <3>2 DEF Req, Steps
    <3>4. Become(q, j)
      BY <2>5
    <3> HIDE DEF j
    <3> QED BY <3>3, <3>4 DEF Follows, Sound, Pending, Claiming
  <2>6. Become(q, Answered(k, "ERROR"))
          \/ \E u \in Users : IsFirst(u, Named(name)) /\ Become(q, [k EXCEPT !.at = "binds", !.user = u])
    <3> DEFINE j(u) == [k EXCEPT !.at = "binds", !.user = u]
    <3>1. \/ Become(q, Answered(k, "ERROR"))
          \/ \E u \in Users :
                /\ IsFirst(u, Named(name))
                /\ Become(q, IF users[u].pw = pw /\ users[u].enabled
                             THEN j(u) ELSE Answered(k, "ERROR"))
      BY <2>2, Zenon
    <3> HIDE DEF j
    <3>2. Become(q, Answered(k, "ERROR")) \/ \E u \in Users : IsFirst(u, Named(name)) /\ Become(q, j(u))
      <4>1. CASE Become(q, Answered(k, "ERROR"))
        BY <4>1
      <4>2. ASSUME NEW u \in Users, IsFirst(u, Named(name)),
                   Become(q, IF users[u].pw = pw /\ users[u].enabled
                             THEN j(u) ELSE Answered(k, "ERROR"))
            PROVE  Become(q, Answered(k, "ERROR")) \/ Become(q, j(u))
        <5>1. CASE users[u].pw = pw /\ users[u].enabled
          BY <4>2, <5>1, Zenon
        <5>2. CASE ~(users[u].pw = pw /\ users[u].enabled)
          BY <4>2, <5>2, Zenon
        <5> QED BY <5>1, <5>2, Zenon
      <4> QED BY <3>1, <4>1, <4>2, Zenon
    <3> QED BY <3>2, Zenon DEF j
  <2> HIDE DEF k
  <2> QED BY <2>1, <2>4, <2>5, <2>6
<1> QED BY <1>2, <1>3, <1>4, <1>5, <1>6, <1>7, <1>8, <1>9, <1>10, <1>11, <1>12 DEF Start

\* A later read leaves a sound request that claims nothing new.
LEMMA ReadStep ==
  ASSUME IndInv, NEW q \in Reqs, Reads(q)
  PROVE  ReadOnly /\ \E k : Become(q, k) /\ Follows(q, k)
<1>0. reqs[q] \in Req /\ Sound(reqs[q])
  BY DEF IndInv, TypeOK, AllSound
<1>00. /\ Follows(q, Answered(reqs[q], "OK"))
       /\ Follows(q, Answered(reqs[q], "ERROR"))
  BY <1>0, AnsweredType DEF Follows
<1>1. CASE RegisterByName(q)
  <2> DEFINE j == [reqs[q] EXCEPT !.at = "createUser"]
  <2>1. Become(q, j) \/ Become(q, Answered(reqs[q], "ERROR"))
    BY <1>1 DEF RegisterByName, GoTo, Finish
  <2>2. j \in Req /\ j.at = "createUser" /\ (j.op \in Claiming => j.device \in Devices)
    BY <1>0, <1>1 DEF RegisterByName, At, Req, Steps, IndInv, AllSound, Sound, Claiming
  <2>3. Follows(q, j) /\ ~Pending(j)
    <3> HIDE DEF j
    <3> QED BY <2>2, <1>0 DEF Follows, Sound, Pending, Claiming
  <2> HIDE DEF j
  <2> QED BY <2>1, <2>3, <1>00, <1>1 DEF RegisterByName
<1>2. CASE DeleteUserReadsBinds(q)
  <2> DEFINE j == [reqs[q] EXCEPT !.at = "deleteUser"]
  <2>1. Become(q, j) \/ Become(q, Answered(reqs[q], "ERROR"))
    BY <1>2 DEF DeleteUserReadsBinds, GoTo, Finish
  <2>2. j \in Req /\ j.at = "deleteUser"
    BY <1>0, <1>2 DEF DeleteUserReadsBinds, At, Req, Steps
  <2>3. Follows(q, j) /\ ~Pending(j)
    <3> HIDE DEF j
    <3> QED BY <2>2, <1>0 DEF Follows, Sound, Pending, Claiming
  <2> HIDE DEF j
  <2> QED BY <2>1, <2>3, <1>00, <1>2 DEF DeleteUserReadsBinds
<1>3. CASE ChangePasswordReadsBind(q)
  <2> DEFINE j == [reqs[q] EXCEPT !.at = "update"]
  <2>1. Become(q, j) \/ Become(q, Answered(reqs[q], "ERROR"))
    BY <1>3 DEF ChangePasswordReadsBind, GoTo, Finish
  <2>2. j \in Req /\ j.at = "update"
    BY <1>0, <1>3 DEF ChangePasswordReadsBind, At, Req, Steps
  <2>3. Follows(q, j) /\ ~Pending(j)
    <3> HIDE DEF j
    <3> QED BY <2>2, <1>0 DEF Follows, Sound, Pending, Claiming
  <2> HIDE DEF j
  <2> QED BY <2>1, <2>3, <1>00, <1>3 DEF ChangePasswordReadsBind
<1>4. CASE DeleteDeviceReadsBind(q)
  <2>1. PICK b \in Binds \cup {NoRow} :
           Become(q, [reqs[q] EXCEPT !.at = "deleteDevice", !.bind = b])
    <3>1. CASE GoTo(q, "deleteDevice")
      <4>1. [reqs[q] EXCEPT !.at = "deleteDevice"]
              = [reqs[q] EXCEPT !.at = "deleteDevice", !.bind = reqs[q].bind]
        BY <1>0 DEF Req
      <4>2. reqs[q].bind \in Binds \cup {NoRow}
        BY <1>0 DEF Req
      <4> QED BY <3>1, <4>1, <4>2 DEF GoTo
    <3> QED BY <1>4, <3>1 DEF DeleteDeviceReadsBind, BindsOf, LiveBinds
  <2> DEFINE j == [reqs[q] EXCEPT !.at = "deleteDevice", !.bind = b]
  <2>2. j \in Req /\ j.at = "deleteDevice"
    BY <1>0 DEF Req, Steps
  <2>3. Become(q, j)
    BY <2>1
  <2> HIDE DEF j
  <2>4. Follows(q, j)
    BY <2>2 DEF Follows, Sound, Pending
  <2> QED BY <2>3, <2>4, <1>4 DEF DeleteDeviceReadsBind
<1>5. CASE ChangePasswordByName(q)
  <2>1. CASE Finish(q, "ERROR")
    BY <2>1, <1>00, <1>5 DEF Finish, ChangePasswordByName
  <2>2. ASSUME NEW u \in Users, IsFirst(u, Named(reqs[q].name)),
               Become(q, [reqs[q] EXCEPT !.at = "bind", !.user = u,
                                         !.edit.enabled = users[u].enabled])
        PROVE  \E k : Become(q, k) /\ Follows(q, k)
    <3> DEFINE j == [reqs[q] EXCEPT !.at = "bind", !.user = u,
                                    !.edit.enabled = users[u].enabled]
    <3>1. users[u].enabled \in BOOLEAN
      BY <2>2 DEF IsFirst, Named, LiveUsers, IndInv, TypeOK, User
    <3>2. j \in Req /\ j.at = "bind" /\ j.op = "changePassword"
      BY <1>0, <1>5, <3>1 DEF ChangePasswordByName, At, Req, Steps
    <3>3. Become(q, j)
      BY <2>2
    <3> HIDE DEF j
    <3> QED BY <3>2, <3>3 DEF Follows, Sound, Pending, Claiming
  <2> QED BY <2>1, <2>2, <1>5 DEF ChangePasswordByName
<1>6. CASE LoginReadsBinds(q)
  <2> DEFINE left == {binds[b].device : b \in BindsFor(reqs[q].user)}
             j == [reqs[q] EXCEPT !.at = "lookup", !.left = left]
  <2>1. left \subseteq Devices
    BY DEF BindsFor, LiveBinds, IndInv, TypeOK, Bind
  <2> HIDE DEF left
  <2>2. j \in Req /\ j.at = "lookup"
    BY <1>0, <2>1 DEF Req, Steps
  <2>3. Become(q, j)
    BY <1>6 DEF LoginReadsBinds, left
  <2> HIDE DEF j
  <2>4. Follows(q, j)
    BY <2>2 DEF Follows, Sound, Pending
  <2> QED BY <2>3, <2>4, <1>6 DEF LoginReadsBinds
<1>7. CASE LoginReadsDevice(q)
  <2>1. PICK d \in reqs[q].left :
           Become(q, [reqs[q] EXCEPT !.left = @ \ {d}, !.found = @ \cup ({d} \cap devices)])
    BY <1>7 DEF LoginReadsDevice
  <2> DEFINE j == [reqs[q] EXCEPT !.left = @ \ {d}, !.found = @ \cup ({d} \cap devices)]
  <2>2. devices \subseteq Devices
    BY DEF IndInv, TypeOK
  <2>3. j \in Req /\ j.at = "lookup"
    BY <1>0, <2>2, <1>7 DEF LoginReadsDevice, At, Req
  <2>4. Become(q, j)
    BY <2>1
  <2> HIDE DEF j
  <2>5. Follows(q, j)
    BY <2>3 DEF Follows, Sound, Pending
  <2> QED BY <2>4, <2>5, <1>7 DEF LoginReadsDevice
<1>8. CASE LoginAnswers(q)
  BY <1>00, <1>8 DEF LoginAnswers, Finish
<1>9. CASE Close(q)
  <2>1. Follows(q, Idle)
    <3>1. Idle.at = "idle"
      BY DEF Idle
    <3> QED BY <3>1, IdleType DEF Follows, Pending
  <2> QED BY <2>1, <1>9 DEF Close
<1> QED BY <1>1, <1>2, <1>3, <1>4, <1>5, <1>6, <1>7, <1>8, <1>9 DEF Reads

-----------------------------------------------------------------------------
(* Statements that write.                                                  *)

\* Row b may be stored for device d: the index does not refuse it, and the
\* key b has never stood for another device.
MayStore(b, d) ==
    /\ b \in Binds
    /\ BindsOf(d) \ {b} = {}
    /\ binds[b] # NoRow => binds[b].device = d
    /\ \A p \in Reqs : (reqs[p].at = "saveBind" /\ reqs[p].bind = b)
                         => reqs[p].device = d

\* Storing such a row keeps the invariant.
LEMMA StoreStep ==
  ASSUME IndInv,
         NEW q \in Reqs, NEW k \in Req, Become(q, k), Sound(k), k.at # "saveBind",
         NEW b, NEW d \in Devices, NEW u \in Users, MayStore(b, d),
         binds' = [binds EXCEPT ![b] = [device |-> d, user |-> u]],
         UNCHANGED <<users, devices>>
  PROVE  IndInv'
<1> DEFINE new == [device |-> d, user |-> u]
<1>1. new \in Bind /\ new.device = d /\ new # NoRow
  BY NullAssumption DEF Bind
<1>2. binds' = [binds EXCEPT ![b] = new]
  OBVIOUS
<1> HIDE DEF new
<1>3. \A c \in Binds : binds'[c] = IF c = b THEN new ELSE binds[c]
  BY <1>2 DEF IndInv, TypeOK
<1>4. \A p \in Reqs : reqs'[p] = IF p = q THEN k ELSE reqs[p]
  BY DEF Become, IndInv, TypeOK
<1>5. TypeOK'
  BY <1>1, <1>2 DEF Become, IndInv, TypeOK, MayStore
<1>6. OneOwner'
  <2>1. SUFFICES ASSUME NEW c \in Binds, NEW e \in Binds,
                        binds'[c] # NoRow, binds'[e] # NoRow,
                        binds'[c].device = binds'[e].device, c # e
                 PROVE  FALSE
    BY DEF OneOwner, LiveBinds
  <2>2. \A x \in Binds \ {b} : binds[x] # NoRow => binds[x].device # d
    BY DEF MayStore, BindsOf, LiveBinds
  <2>3. CASE c = b
    BY <1>1, <1>3, <2>1, <2>2, <2>3
  <2>4. CASE e = b
    BY <1>1, <1>3, <2>1, <2>2, <2>4
  <2>5. CASE c # b /\ e # b
    BY <1>3, <2>1, <2>5 DEF IndInv, OneOwner, LiveBinds
  <2> QED BY <2>3, <2>4, <2>5
<1>7. AllSound'
  <2>1. SUFFICES ASSUME NEW p \in Reqs PROVE Sound(reqs'[p])
    BY DEF AllSound, Sound, Pending
  <2> QED BY <1>4 DEF IndInv, AllSound
<1>8. HeldRows'
  <2>1. SUFFICES ASSUME NEW p \in Reqs, reqs'[p].at = "saveBind",
                        binds'[reqs'[p].bind] # NoRow
                 PROVE  binds'[reqs'[p].bind].device = reqs'[p].device
    BY DEF HeldRows
  <2>2. p # q /\ reqs'[p] = reqs[p]
    BY <1>4, <2>1
  <2>3. reqs[p].bind \in Binds
    BY <2>1, <2>2 DEF IndInv, AllSound, Sound
  <2>4. CASE reqs[p].bind = b
    BY <1>1, <1>3, <2>1, <2>2, <2>3, <2>4 DEF MayStore
  <2>5. CASE reqs[p].bind # b
    BY <1>3, <2>1, <2>2, <2>3, <2>5 DEF IndInv, HeldRows
  <2> QED BY <2>4, <2>5
<1>9. HoldersAgree'
  BY <1>4 DEF IndInv, HoldersAgree
<1> QED BY <1>5, <1>6, <1>7, <1>8, <1>9 DEF IndInv

\* A key just drawn may be stored for any device the index admits.
LEMMA FreshMayStore ==
  ASSUME NEW b \in FreshBinds, NEW d, ~Refused(b, d)
  PROVE  MayStore(b, d)
BY DEF FreshBinds, LiveBinds, MayStore, Refused

\* So may the key a request has held since it read the row.
LEMMA HeldMayStore ==
  ASSUME IndInv, NEW q \in Reqs, reqs[q].at = "saveBind",
         ~Refused(reqs[q].bind, reqs[q].device)
  PROVE  MayStore(reqs[q].bind, reqs[q].device)
BY DEF IndInv, AllSound, Sound, HeldRows, HoldersAgree, MayStore, Refused

\* What a claim's write does: it ends in an error, or stores the claim.
LEMMA ClaimWrites ==
  ASSUME IndInv, NEW q \in Reqs, ClaimCreatesBind(q) \/ ClaimSavesBind(q)
  PROVE  /\ Pending(reqs[q]) /\ reqs[q].device \in Devices /\ reqs[q].user \in Users
         /\ UNCHANGED <<users, devices>>
         /\ \/ UNCHANGED binds /\ Become(q, Answered(reqs[q], "ERROR"))
            \/ /\ Become(q, Answered(reqs[q], "OK"))
               /\ \E b : /\ MayStore(b, reqs[q].device)
                         /\ binds' = [binds EXCEPT ![b] =
                                [device |-> reqs[q].device, user |-> reqs[q].user]]
<1>1. /\ Pending(reqs[q]) /\ reqs[q].device \in Devices /\ reqs[q].user \in Users
      /\ UNCHANGED <<users, devices>>
  BY DEF ClaimCreatesBind, ClaimSavesBind, At, Pending, IndInv, AllSound, Sound
<1>2. PICK b : /\ StoreBind(q, b)
               /\ b \in FreshBinds \/ (reqs[q].at = "saveBind" /\ b = reqs[q].bind)
  BY DEF ClaimCreatesBind, ClaimSavesBind, At
<1>3. CASE Refused(b, reqs[q].device)
  BY <1>1, <1>2, <1>3 DEF StoreBind, Finish
<1>4. CASE ~Refused(b, reqs[q].device)
  <2>1. MayStore(b, reqs[q].device)
    BY <1>2, <1>4, FreshMayStore, HeldMayStore
  <2> QED BY <1>1, <1>2, <1>4, <2>1 DEF StoreBind, Finish, NewBind
<1> QED BY <1>3, <1>4

\* What a distribution does: it stores the bind, or nothing; OK either way.
LEMMA DistributeWrites ==
  ASSUME IndInv, NEW q \in Reqs, DistributeCreatesBind(q)
  PROVE  /\ reqs[q].device \in Devices /\ reqs[q].user \in Users
         /\ reqs[q].op = "distribute"
         /\ UNCHANGED <<users, devices>> /\ Become(q, Answered(reqs[q], "OK"))
         /\ \/ UNCHANGED binds
            \/ \E b \in FreshBinds :
                   /\ MayStore(b, reqs[q].device)
                   /\ binds' = [binds EXCEPT ![b] =
                          [device |-> reqs[q].device, user |-> reqs[q].user]]
<1>1. /\ reqs[q].device \in Devices /\ reqs[q].user \in Users
      /\ reqs[q].op = "distribute"
      /\ UNCHANGED <<users, devices>> /\ Become(q, Answered(reqs[q], "OK"))
  BY DEF DistributeCreatesBind, At, Finish, IndInv, AllSound, Sound
<1>2. PICK b \in FreshBinds :
         binds' = IF Refused(b, reqs[q].device) THEN binds
                  ELSE [binds EXCEPT ![b] = NewBind(reqs[q])]
  BY DEF DistributeCreatesBind
<1> QED BY <1>1, <1>2, FreshMayStore DEF NewBind

\* The steps that find a claim's user: it becomes pending, or ends.
LEMMA CreateUserStep ==
  ASSUME IndInv, NEW q \in Reqs, CreateUser(q)
  PROVE  /\ ~Pending(reqs[q]) /\ UNCHANGED <<binds, devices>>
         /\ \E u \in Users, row \in User, k \in Req :
               /\ users' = [users EXCEPT ![u] = row]
               /\ Become(q, k) /\ Sound(k) /\ k.at # "saveBind"
               /\ Pending(k) => k.user = u /\ k.device \in Devices
<1>1. reqs[q] \in Req /\ Sound(reqs[q])
  BY DEF IndInv, TypeOK, AllSound
<1>2. ~Pending(reqs[q]) /\ UNCHANGED <<binds, devices>>
  BY DEF CreateUser, At, Pending
<1>3. PICK u \in FreshUsers :
         /\ users' = [users EXCEPT ![u] = NewUser(reqs[q])]
         /\ Become(q, IF reqs[q].op = "addUser" THEN Answered(reqs[q], "OK")
                      ELSE [reqs[q] EXCEPT !.at = "bind", !.user = u])
  BY DEF CreateUser
<1>4. u \in Users /\ NewUser(reqs[q]) \in User
  BY <1>1 DEF FreshUsers, NewUser, User, Req
<1>5. CASE reqs[q].op = "addUser"
  BY <1>1, <1>2, <1>3, <1>4, <1>5, AnsweredType
<1>6. CASE reqs[q].op # "addUser"
  <2> DEFINE k == [reqs[q] EXCEPT !.at = "bind", !.user = u]
  <2>1. reqs[q].op = "registerAndBind" /\ reqs[q].device \in Devices
    BY <1>1, <1>6 DEF CreateUser, At, Sound, Claiming
  <2>2. /\ k \in Req /\ k.at = "bind" /\ k.user = u
        /\ k.device \in Devices
    BY <1>1, <1>4, <2>1 DEF Req, Steps
  <2>3. Become(q, k)
    BY <1>3, <1>6
  <2> HIDE DEF k
  <2>4. Sound(k) /\ k.at # "saveBind"
    BY <1>4, <2>2 DEF Sound
  <2> QED BY <1>2, <1>3, <1>4, <2>2, <2>3, <2>4
<1> QED BY <1>5, <1>6

LEMMA BindByNameStep ==
  ASSUME IndInv, NEW q \in Reqs, BindByName(q)
  PROVE  /\ ~Pending(reqs[q]) /\ ReadOnly
         /\ \E k \in Req :
               /\ Become(q, k) /\ Sound(k) /\ k.at # "saveBind"
               /\ Pending(k) => k.user \in LiveUsers /\ k.device \in Devices
<1>1. reqs[q] \in Req /\ Sound(reqs[q])
  BY DEF IndInv, TypeOK, AllSound
<1>2. ~Pending(reqs[q]) /\ ReadOnly
  BY DEF BindByName, At, Pending
<1>3. CASE Finish(q, "ERROR")
  BY <1>1, <1>2, <1>3, AnsweredType DEF Finish
<1>4. ASSUME NEW u \in LiveUsers,
             Become(q, [reqs[q] EXCEPT !.at = "bind", !.user = u])
      PROVE  \E k \in Req :
                /\ Become(q, k) /\ Sound(k) /\ k.at # "saveBind"
                /\ Pending(k) => k.user \in LiveUsers /\ k.device \in Devices
  <2> DEFINE k == [reqs[q] EXCEPT !.at = "bind", !.user = u]
  <2>1. u \in Users /\ reqs[q].device \in Devices
    BY <1>1 DEF LiveUsers, BindByName, At, Sound, Claiming
  <2>2. /\ k \in Req /\ k.at = "bind" /\ k.user = u
        /\ k.device \in Devices
    BY <1>1, <2>1 DEF Req, Steps
  <2>3. Become(q, k)
    BY <1>4
  <2> HIDE DEF k
  <2>4. Sound(k) /\ k.at # "saveBind"
    BY <2>1, <2>2 DEF Sound
  <2> QED BY <2>2, <2>3, <2>4
<1> QED BY <1>2, <1>3, <1>4 DEF BindByName, IsFirst, Named

\* A claim that reads the bind stays the claim it was, or ends; the row it
\* may hold from now on is a row of its device.
LEMMA ClaimReadsStep ==
  ASSUME IndInv, NEW q \in Reqs, ClaimReadsBind(q)
  PROVE  /\ Pending(reqs[q]) /\ ReadOnly
         /\ \E k \in Req :
               /\ Become(q, k) /\ Sound(k)
               /\ Pending(k) => k.device = reqs[q].device /\ k.user = reqs[q].user
               /\ k.at = "saveBind" => /\ k.bind \in LiveBinds
                                       /\ binds[k.bind].device = k.device
<1>1. reqs[q] \in Req /\ Sound(reqs[q])
  BY DEF IndInv, TypeOK, AllSound
<1>2. Pending(reqs[q]) /\ ReadOnly
  BY DEF ClaimReadsBind, At, Pending
<1>3. reqs[q].device \in Devices /\ reqs[q].user \in Users
  BY <1>1 DEF ClaimReadsBind, At, Sound, Pending
<1>4. CASE Finish(q, "OK")
  BY <1>1, <1>2, <1>4, AnsweredType DEF Finish
<1>5. CASE GoTo(q, "createBind")
  <2> DEFINE k == [reqs[q] EXCEPT !.at = "createBind"]
  <2>1. /\ k \in Req /\ k.at = "createBind"
        /\ k.user = reqs[q].user /\ k.device = reqs[q].device
    BY <1>1 DEF Req, Steps
  <2>2. Become(q, k)
    BY <1>5 DEF GoTo
  <2> HIDE DEF k
  <2>3. Sound(k)
    BY <1>3, <2>1 DEF Sound
  <2> QED BY <1>2, <2>1, <2>2, <2>3
<1>6. ASSUME NEW b \in BindsOf(reqs[q].device),
             Become(q, [reqs[q] EXCEPT !.at = "saveBind", !.bind = b])
      PROVE  \E k \in Req :
               /\ Become(q, k) /\ Sound(k)
               /\ Pending(k) => k.device = reqs[q].device /\ k.user = reqs[q].user
               /\ k.at = "saveBind" => /\ k.bind \in LiveBinds
                                       /\ binds[k.bind].device = k.device
  <2> DEFINE k == [reqs[q] EXCEPT !.at = "saveBind", !.bind = b]
  <2>1. b \in LiveBinds /\ b \in Binds /\ binds[b].device = reqs[q].device
    BY DEF BindsOf, LiveBinds
  <2>2. /\ k \in Req /\ k.at = "saveBind" /\ k.bind = b
        /\ k.user = reqs[q].user /\ k.device = reqs[q].device
    BY <1>1, <2>1 DEF Req, Steps
  <2>3. Become(q, k)
    BY <1>6
  <2> HIDE DEF k
  <2>4. Sound(k)
    BY <1>3, <2>1, <2>2 DEF Sound
  <2> QED BY <2>1, <2>2, <2>3, <2>4
<1> QED BY <1>2, <1>4, <1>5, <1>6 DEF ClaimReadsBind

\* Holding a row just read keeps the invariant.
LEMMA HoldStep ==
  ASSUME IndInv, NEW q \in Reqs, NEW k \in Req, Become(q, k), Sound(k),
         k.at = "saveBind" => /\ k.bind \in LiveBinds
                              /\ binds[k.bind].device = k.device,
         ReadOnly
  PROVE  IndInv'
<1>1. \A p \in Reqs : reqs'[p] = IF p = q THEN k ELSE reqs[p]
  BY DEF Become, IndInv, TypeOK
<1>2. TypeOK' /\ OneOwner'
  BY DEF Become, IndInv, TypeOK, OneOwner, LiveBinds, ReadOnly
<1>3. AllSound'
  <2>1. SUFFICES ASSUME NEW p \in Reqs PROVE Sound(reqs'[p])
    BY DEF AllSound, Sound, Pending
  <2> QED BY <1>1 DEF IndInv, AllSound
<1>4. HeldRows'
  BY <1>1 DEF IndInv, HeldRows, ReadOnly
<1>5. HoldersAgree'
  <2>1. \A p \in Reqs :
           (p # q /\ reqs[p].at = "saveBind" /\ k.at = "saveBind"
            /\ reqs[p].bind = k.bind) => reqs[p].device = k.device
    BY DEF IndInv, HeldRows, LiveBinds
  <2> QED BY <1>1, <2>1 DEF IndInv, HoldersAgree
<1> QED BY <1>2, <1>3, <1>4, <1>5 DEF IndInv

\* The statements that delete rows or update a user: none of them belongs to
\* a claim, and no row of binds changes hands.
Erases(q) ==
    \/ DeleteDeviceRow(q) \/ DeleteBind(q) \/ DeleteUserRow(q)
    \/ DeleteBindsOfUser(q) \/ WriteUser(q)

LEMMA EraseStep ==
  ASSUME IndInv, NEW q \in Reqs, Erases(q)
  PROVE  /\ ~Pending(reqs[q])
         /\ \E k : Become(q, k) /\ Follows(q, k)
         /\ users' \in [Users -> User \cup {NoRow}] /\ devices' \subseteq Devices
         /\ binds' \in [Binds -> Bind \cup {NoRow}]
         /\ \A b \in Binds : binds'[b] = binds[b] \/ binds'[b] = NoRow
         /\ UNCHANGED users \/ UNCHANGED binds
<1>1. reqs[q] \in Req /\ Sound(reqs[q])
  BY DEF IndInv, TypeOK, AllSound
<1>2. ~Pending(reqs[q])
  BY DEF Erases, DeleteDeviceRow, DeleteBind, DeleteUserRow, DeleteBindsOfUser,
         WriteUser, At, Pending, Claiming
<1>3. \E k : Become(q, k) /\ Follows(q, k)
  <2>1. CASE Finish(q, "OK")
    BY <1>1, <2>1, AnsweredType DEF Finish, Follows
  <2>2. ASSUME NEW step \in {"deleteBind", "deleteBinds"}, GoTo(q, step)
        PROVE  \E k : Become(q, k) /\ Follows(q, k)
    <3> DEFINE k == [reqs[q] EXCEPT !.at = step]
    <3>1. k \in Req /\ k.at = step
      BY <1>1 DEF Req, Steps
    <3>2. Become(q, k)
      BY <2>2 DEF GoTo
    <3> HIDE DEF k
    <3> QED BY <3>1, <3>2 DEF Follows, Sound, Pending
  <2> QED BY <2>1, <2>2 DEF Erases, DeleteDeviceRow, DeleteBind, DeleteUserRow,
                            DeleteBindsOfUser, WriteUser
<1>4. users' \in [Users -> User \cup {NoRow}]
  <2>1. CASE WriteUser(q)
    <3> DEFINE u == reqs[q].user
    <3>1. CASE u \in LiveUsers
      <4>1. users[u] \in User
        BY <3>1 DEF LiveUsers, IndInv, TypeOK
      <4>2. reqs[q].edit \in [pw : Passwords, enabled : BOOLEAN]
        BY <1>1 DEF Req
      <4>3. Edited(reqs[q], users[u]) \in User
        BY <4>1, <4>2 DEF Edited, User
      <4>4. users' = [users EXCEPT ![u] = Edited(reqs[q], users[u])]
        BY <2>1, <3>1 DEF WriteUser
      <4> QED BY <4>3, <4>4 DEF IndInv, TypeOK
    <3> QED BY <2>1, <3>1 DEF WriteUser, IndInv, TypeOK
  <2> QED BY <2>1 DEF Erases, DeleteDeviceRow, DeleteBind, DeleteUserRow,
                      DeleteBindsOfUser, IndInv, TypeOK
<1>5. devices' \subseteq Devices
  BY DEF Erases, DeleteDeviceRow, DeleteBind, DeleteUserRow, DeleteBindsOfUser,
         WriteUser, IndInv, TypeOK
<1>6. /\ binds' \in [Binds -> Bind \cup {NoRow}]
      /\ \A b \in Binds : binds'[b] = binds[b] \/ binds'[b] = NoRow
  BY DEF Erases, DeleteDeviceRow, DeleteBind, DeleteUserRow, DeleteBindsOfUser,
         WriteUser, IndInv, TypeOK
<1>7. UNCHANGED users \/ UNCHANGED binds
  BY DEF Erases, DeleteDeviceRow, DeleteBind, DeleteUserRow, DeleteBindsOfUser,
         WriteUser
<1> QED BY <1>2, <1>3, <1>4, <1>5, <1>6, <1>7

-----------------------------------------------------------------------------
(* The invariant.                                                          *)

LEMMA InitInv == Init => IndInv
<1> SUFFICES ASSUME Init PROVE IndInv
  OBVIOUS
<1>1. TypeOK
  BY IdleType, FirstAssumption DEF Init, TypeOK
<1>2. \A q \in Reqs : reqs[q] = Idle
  BY DEF Init
<1>3. Idle.at = "idle"
  BY DEF Idle
<1>4. OneOwner
  BY DEF Init, OneOwner, LiveBinds
<1> QED BY <1>1, <1>2, <1>3, <1>4, IdleType DEF IndInv, AllSound, HeldRows, HoldersAgree

LEMMA NextInv == IndInv /\ [Next]_vars => IndInv'
<1> SUFFICES ASSUME IndInv, [Next]_vars PROVE IndInv'
  OBVIOUS
<1>0. /\ users \in [Users -> User \cup {NoRow}] /\ devices \subseteq Devices
      /\ binds \in [Binds -> Bind \cup {NoRow}]
  BY DEF IndInv, TypeOK
<1>1. ASSUME NEW q \in Reqs, Start(q) PROVE IndInv'
  BY <1>0, <1>1, StartStep, QuietStep DEF Follows, ReadOnly
<1>2. ASSUME NEW q \in Reqs, Reads(q) PROVE IndInv'
  BY <1>0, <1>2, ReadStep, QuietStep DEF Follows, ReadOnly
<1>3. ASSUME NEW q \in Reqs, Erases(q) PROVE IndInv'
  BY <1>3, EraseStep, QuietStep DEF Follows
<1>4. ASSUME NEW q \in Reqs, CreateUser(q) PROVE IndInv'
  <2>1. PICK u \in Users, row \in User, k \in Req :
           /\ users' = [users EXCEPT ![u] = row]
           /\ Become(q, k) /\ Sound(k) /\ k.at # "saveBind"
    BY <1>4, CreateUserStep
  <2>2. UNCHANGED <<binds, devices>>
    BY <1>4, CreateUserStep
  <2> QED BY <1>0, <2>1, <2>2, QuietStep
<1>5. ASSUME NEW q \in Reqs, BindByName(q) PROVE IndInv'
  BY <1>0, <1>5, BindByNameStep, QuietStep DEF ReadOnly
<1>6. ASSUME NEW q \in Reqs, ClaimReadsBind(q) PROVE IndInv'
  BY <1>6, ClaimReadsStep, HoldStep
<1>7. ASSUME NEW q \in Reqs, ClaimCreatesBind(q) \/ ClaimSavesBind(q) PROVE IndInv'
  <2>1. reqs[q] \in Req
    BY DEF IndInv, TypeOK
  <2>2. \A a \in {"OK", "ERROR"} :
           /\ Answered(reqs[q], a) \in Req /\ Sound(Answered(reqs[q], a))
           /\ Answered(reqs[q], a).at # "saveBind"
    BY <2>1, AnsweredType
  <2>3. CASE UNCHANGED binds /\ Become(q, Answered(reqs[q], "ERROR"))
    BY <1>0, <1>7, <2>2, <2>3, ClaimWrites, QuietStep
  <2>4. CASE /\ Become(q, Answered(reqs[q], "OK"))
             /\ \E b : /\ MayStore(b, reqs[q].device)
                       /\ binds' = [binds EXCEPT ![b] =
                              [device |-> reqs[q].device, user |-> reqs[q].user]]
    BY <1>7, <2>2, <2>4, ClaimWrites, StoreStep
  <2> QED BY <1>7, <2>3, <2>4, ClaimWrites
<1>8. ASSUME NEW q \in Reqs, DistributeCreatesBind(q) PROVE IndInv'
  <2>1. reqs[q] \in Req
    BY DEF IndInv, TypeOK
  <2>2. /\ Answered(reqs[q], "OK") \in Req /\ Sound(Answered(reqs[q], "OK"))
        /\ Answered(reqs[q], "OK").at # "saveBind"
    BY <2>1, AnsweredType
  <2>3. CASE UNCHANGED binds
    BY <1>0, <1>8, <2>2, <2>3, DistributeWrites, QuietStep
  <2>4. ASSUME NEW b \in FreshBinds, MayStore(b, reqs[q].device),
               binds' = [binds EXCEPT ![b] =
                           [device |-> reqs[q].device, user |-> reqs[q].user]]
        PROVE  IndInv'
    BY <1>8, <2>2, <2>4, DistributeWrites, StoreStep
  <2> QED BY <1>8, <2>3, <2>4, DistributeWrites
<1>9. ASSUME NEW d \in Devices, DeviceStored(d) PROVE IndInv'
  BY <1>9 DEF DeviceStored, IndInv, TypeOK, OneOwner, LiveBinds, AllSound, Sound,
              Pending, HeldRows, HoldersAgree
<1>10. CASE Restart
  <2>1. \A q \in Reqs : reqs'[q] = Idle
    BY <1>10 DEF Restart
  <2>2. Idle.at = "idle"
    BY DEF Idle
  <2>3. TypeOK' /\ OneOwner'
    BY <1>10, IdleType DEF Restart, ReadOnly, IndInv, TypeOK, OneOwner, LiveBinds
  <2>4. AllSound'
    <3>1. SUFFICES ASSUME NEW q \in Reqs PROVE Sound(reqs'[q])
      BY DEF AllSound, Sound, Pending
    <3> QED BY <2>1, IdleType
  <2>5. HeldRows' /\ HoldersAgree'
    BY <2>1, <2>2 DEF HeldRows, HoldersAgree
  <2> QED BY <2>3, <2>4, <2>5 DEF IndInv
<1>11. CASE UNCHANGED vars
  BY <1>11 DEF vars, IndInv, TypeOK, OneOwner, LiveBinds, AllSound, Sound,
               Pending, HeldRows, HoldersAgree
<1> QED
  BY <1>1, <1>2, <1>3, <1>4, <1>5, <1>6, <1>7, <1>8, <1>9, <1>10, <1>11
  DEF Next, Step, Reads, Erases

\* gorm.go:67: in every reachable state a device has at most one bind, for
\* any number of users, devices and requests at once, and across crashes.
THEOREM OwnerUnique == Spec => [](TypeOK /\ OneOwner)
<1>1. IndInv => TypeOK /\ OneOwner
  BY DEF IndInv
<1> QED BY <1>1, InitInv, NextInv, PTL DEF Spec

-----------------------------------------------------------------------------
(* The refinement.                                                         *)

Claims == {<<reqs[q].device, reqs[q].user>> : q \in {p \in Reqs : Pending(reqs[p])}}

\* A request that claims nothing new adds no claim.
LEMMA ClaimsShrink ==
  ASSUME IndInv, NEW q \in Reqs, NEW k, Become(q, k),
         Pending(k) => /\ Pending(reqs[q])
                       /\ k.device = reqs[q].device /\ k.user = reqs[q].user
  PROVE  Claims' \in SUBSET Claims
<1>1. \A p \in Reqs : reqs'[p] = IF p = q THEN k ELSE reqs[p]
  BY DEF Become, IndInv, TypeOK
<1>2. Claims' = {<<reqs'[p].device, reqs'[p].user>> : p \in {r \in Reqs : Pending(reqs'[r])}}
  BY DEF Claims, Pending
<1> QED BY <1>1, <1>2 DEF Claims

LEMMA ClaimsSame ==
  ASSUME IndInv, NEW q \in Reqs, NEW k, Become(q, k), ~Pending(k), ~Pending(reqs[q])
  PROVE  Claims' = Claims
<1>1. \A p \in Reqs : reqs'[p] = IF p = q THEN k ELSE reqs[p]
  BY DEF Become, IndInv, TypeOK
<1>2. Claims' = {<<reqs'[p].device, reqs'[p].user>> : p \in {r \in Reqs : Pending(reqs'[r])}}
  BY DEF Claims, Pending
<1>3. {r \in Reqs : Pending(reqs'[r])} = {r \in Reqs : Pending(reqs[r])}
  BY <1>1
<1> QED BY <1>1, <1>2, <1>3 DEF Claims

LEMMA ClaimsGrow ==
  ASSUME IndInv, NEW q \in Reqs, NEW k, Become(q, k), Pending(k), ~Pending(reqs[q])
  PROVE  Claims' = Claims \cup {<<k.device, k.user>>}
<1>1. \A p \in Reqs : reqs'[p] = IF p = q THEN k ELSE reqs[p]
  BY DEF Become, IndInv, TypeOK
<1>2. Claims' = {<<reqs'[p].device, reqs'[p].user>> : p \in {r \in Reqs : Pending(reqs'[r])}}
  BY DEF Claims, Pending
<1>3. {r \in Reqs : Pending(reqs'[r])} = {r \in Reqs : Pending(reqs[r])} \cup {q}
  BY <1>1
<1> QED BY <1>1, <1>2, <1>3 DEF Claims

\* The owner of a device is the user of its one bind.
LEMMA OwnerOfBind ==
  /\ OneOwner => \A d \in Devices : \A b \in BindsOf(d) : OwnerOf(d) = binds[b].user
  /\ OneOwner' => \A d \in Devices : \A b \in BindsOf(d)' : OwnerOf(d)' = binds'[b].user
<1>1. ASSUME OneOwner, NEW d \in Devices, NEW b \in BindsOf(d)
      PROVE  OwnerOf(d) = binds[b].user
  <2>1. (CHOOSE c \in BindsOf(d) : TRUE) \in BindsOf(d)
    OBVIOUS
  <2>2. \A c \in BindsOf(d) : c = b
    BY <1>1 DEF OneOwner, BindsOf
  <2> QED BY <2>1, <2>2 DEF OwnerOf
<1>2. ASSUME OneOwner', NEW d \in Devices, NEW b \in BindsOf(d)'
      PROVE  OwnerOf(d)' = binds'[b].user
  <2>1. (CHOOSE c \in BindsOf(d)' : TRUE) \in BindsOf(d)'
    OBVIOUS
  <2>2. \A c \in BindsOf(d)' : c = b
    BY <1>2 DEF OneOwner, BindsOf
  <2> QED BY <2>1, <2>2 DEF OwnerOf
<1> QED BY <1>1, <1>2

Owners == [d \in Devices |-> OwnerOf(d)]

\* Rows that vanish leave their devices to nobody, and no other.
LEMMA OwnersErased ==
  ASSUME OneOwner, OneOwner',
         \A b \in Binds : binds'[b] = binds[b] \/ binds'[b] = NoRow
  PROVE  \E D \in SUBSET Devices :
            Owners' = [d \in Devices |-> IF d \in D THEN Nobody ELSE Owners[d]]
<1> DEFINE D == {d \in Devices : BindsOf(d)' = {}}
<1>1. ASSUME NEW d \in Devices
      PROVE  OwnerOf(d)' = IF d \in D THEN Nobody ELSE OwnerOf(d)
  <2>1. CASE d \in D
    BY <2>1 DEF OwnerOf
  <2>2. CASE d \notin D
    <3>1. PICK b : b \in BindsOf(d)'
      BY <2>2
    <3>2. b \in BindsOf(d) /\ binds'[b] = binds[b]
      BY <3>1 DEF BindsOf, LiveBinds
    <3> QED BY <2>2, <3>1, <3>2, OwnerOfBind
  <2> QED BY <2>1, <2>2
<1>2. Owners' = [d \in Devices |-> OwnerOf(d)']
  BY DEF Owners
<1> HIDE DEF D
<1>3. Owners' = [d \in Devices |-> IF d \in D THEN Nobody ELSE Owners[d]]
  BY <1>1, <1>2 DEF Owners
<1>4. D \in SUBSET Devices
  BY DEF D
<1> QED BY <1>3, <1>4

\* Storing a bind gives its device to its user, and touches no other device.
LEMMA OwnersStored ==
  ASSUME IndInv, OneOwner', NEW b, NEW d \in Devices, NEW u \in Users, MayStore(b, d),
         binds' = [binds EXCEPT ![b] = [device |-> d, user |-> u]]
  PROVE  Owners' = [Owners EXCEPT ![d] = u]
<1> DEFINE new == [device |-> d, user |-> u]
<1>1. new # NoRow /\ new.device = d /\ new.user = u
  BY NullAssumption DEF Bind
<1>2. binds' = [binds EXCEPT ![b] = new]
  OBVIOUS
<1> HIDE DEF new
<1>3. b \in Binds /\ \A c \in Binds : binds'[c] = IF c = b THEN new ELSE binds[c]
  BY <1>2 DEF IndInv, TypeOK, MayStore
<1>4. ASSUME NEW x \in Devices
      PROVE  OwnerOf(x)' = IF x = d THEN u ELSE OwnerOf(x)
  <2>1. CASE x = d
    <3>1. b \in BindsOf(d)'
      BY <1>1, <1>3 DEF BindsOf, LiveBinds
    <3> QED BY <1>1, <1>3, <2>1, <3>1, OwnerOfBind
  <2>2. CASE x # d
    <3>1. \A c \in Binds : c \in BindsOf(x)' <=> c \in BindsOf(x)
      BY <1>1, <1>3, <2>2 DEF BindsOf, LiveBinds, MayStore
    <3>2. BindsOf(x)' \subseteq Binds /\ BindsOf(x) \subseteq Binds
      BY DEF BindsOf, LiveBinds
    <3>3. CASE BindsOf(x) = {}
      <4>1. BindsOf(x)' = {}
        BY <3>1, <3>2, <3>3
      <4> QED BY <2>2, <3>3, <4>1 DEF OwnerOf
    <3>4. ASSUME NEW c \in BindsOf(x) PROVE OwnerOf(x)' = OwnerOf(x)
      <4>1. c \in BindsOf(x)' /\ c \in Binds
        BY <3>1, <3>2
      <4>2. c # b
        BY <1>1, <1>3, <2>2, <4>1 DEF BindsOf, LiveBinds
      <4> QED BY <1>3, <4>1, <4>2, OwnerOfBind DEF IndInv
    <3> QED BY <2>2, <3>3, <3>4
  <2> QED BY <2>1, <2>2
<1>5. Owners' = [x \in Devices |-> OwnerOf(x)']
  BY DEF Owners
<1> QED BY <1>4, <1>5 DEF Owners

Shown == <<Owners, LiveUsers, Claims>>

\* The initial tables show a world where nobody owns a device.
LEMMA InitImplements == Init => Owner!Init
<1> SUFFICES ASSUME Init PROVE Owner!Init
  OBVIOUS
<1>1. \A d \in Devices : OwnerOf(d) = Nobody
  BY DEF Init, OwnerOf, BindsOf, LiveBinds
<1>2. \A q \in Reqs : ~Pending(reqs[q])
  BY DEF Init, Pending, Idle
<1> QED BY <1>1, <1>2 DEF Owner!Init, LiveUsers

\* Every step of a handler shows as one step of DeviceOwner, or as none.
LEMMA StepImplements ==
  ASSUME IndInv, IndInv', [Next]_vars
  PROVE  [Owner!Next]_Shown
<1>0. OneOwner /\ OneOwner'
  BY DEF IndInv
<1>1. ASSUME UNCHANGED <<users, binds>>, Claims' \in SUBSET Claims
      PROVE  [Owner!Next]_Shown
  <2>1. Owners' = Owners /\ LiveUsers' = LiveUsers
    BY <1>1 DEF Owners, OwnerOf, BindsOf, LiveBinds, LiveUsers
  <2> QED BY <1>1, <2>1 DEF Owner!Next, Owner!Withdraw, Owners, Claims
<1>2. ASSUME NEW q \in Reqs, Start(q) PROVE [Owner!Next]_Shown
  <2>1. ReadOnly /\ Claims' \in SUBSET Claims
    BY <1>2, StartStep, ClaimsShrink
  <2> QED BY <1>1, <2>1 DEF ReadOnly
<1>3. ASSUME NEW q \in Reqs, Reads(q) PROVE [Owner!Next]_Shown
  <2>1. ReadOnly /\ Claims' \in SUBSET Claims
    BY <1>3, ReadStep, ClaimsShrink DEF Follows
  <2> QED BY <1>1, <2>1 DEF ReadOnly
<1>4. ASSUME NEW q \in Reqs, Erases(q) PROVE [Owner!Next]_Shown
  <2>1. Claims' = Claims
    BY <1>4, EraseStep, ClaimsSame DEF Follows
  <2>2. PICK D \in SUBSET Devices :
           Owners' = [d \in Devices |-> IF d \in D THEN Nobody ELSE Owners[d]]
    BY <1>0, <1>4, EraseStep, OwnersErased
  <2>3. CASE UNCHANGED users
    <3>1. LiveUsers' = LiveUsers
      BY <2>3 DEF LiveUsers
    <3> QED BY <2>1, <2>2, <3>1 DEF Owner!Next, Owner!TakeBack, Owners, Claims
  <2>4. CASE UNCHANGED binds
    <3>1. Owners' = Owners
      BY <2>4 DEF Owners, OwnerOf, BindsOf, LiveBinds
    <3>2. LiveUsers' \in SUBSET Users
      BY DEF LiveUsers
    <3> QED BY <2>1, <3>1, <3>2 DEF Owner!Next, Owner!OpenAccount, Owners, Claims
  <2> QED BY <1>4, <2>3, <2>4, EraseStep
<1>5. ASSUME NEW q \in Reqs, CreateUser(q) PROVE [Owner!Next]_Shown
  <2>1. PICK u \in Users, row \in User, k \in Req :
           /\ users' = [users EXCEPT ![u] = row]
           /\ Become(q, k)
           /\ Pending(k) => k.user = u /\ k.device \in Devices
    BY <1>5, CreateUserStep
  <2>2. ~Pending(reqs[q]) /\ UNCHANGED binds
    BY <1>5, CreateUserStep
  <2>3. LiveUsers' = LiveUsers \cup {u}
    BY <2>1, NullAssumption DEF LiveUsers, IndInv, TypeOK
  <2>4. Owners' = Owners
    BY <2>2 DEF Owners, OwnerOf, BindsOf, LiveBinds
  <2>5. CASE Pending(k)
    <3>1. Claims' = Claims \cup {<<k.device, u>>}
      BY <2>1, <2>2, <2>5, ClaimsGrow
    <3>2. Owner!Claim(k.device, u)
      BY <2>3, <2>4, <3>1 DEF Owner!Claim, Owners, Claims
    <3> QED BY <2>1, <2>5, <3>2 DEF Owner!Next
  <2>6. CASE ~Pending(k)
    <3>1. Claims' = Claims
      BY <2>1, <2>2, <2>6, ClaimsSame
    <3>2. LiveUsers' \in SUBSET Users
      BY DEF LiveUsers
    <3> QED BY <2>4, <3>1, <3>2 DEF Owner!Next, Owner!OpenAccount, Owners, Claims
  <2> QED BY <2>5, <2>6
<1>6. ASSUME NEW q \in Reqs, BindByName(q) PROVE [Owner!Next]_Shown
  <2>1. PICK k \in Req :
           /\ Become(q, k)
           /\ Pending(k) => k.user \in LiveUsers /\ k.device \in Devices
    BY <1>6, BindByNameStep
  <2>2. ~Pending(reqs[q]) /\ ReadOnly
    BY <1>6, BindByNameStep
  <2>3. CASE Pending(k)
    <3>1. Claims' = Claims \cup {<<k.device, k.user>>}
      BY <2>1, <2>2, <2>3, ClaimsGrow
    <3>2. LiveUsers' = LiveUsers /\ Owners' = Owners /\ LiveUsers \subseteq Users
      BY <2>2 DEF ReadOnly, LiveUsers, Owners, OwnerOf, BindsOf, LiveBinds
    <3>3. Owner!Claim(k.device, k.user)
      BY <2>1, <2>3, <3>1, <3>2 DEF Owner!Claim, Owners, Claims
    <3> QED BY <2>1, <2>3, <3>2, <3>3 DEF Owner!Next
  <2>4. CASE ~Pending(k)
    <3>1. Claims' = Claims
      BY <2>1, <2>2, <2>4, ClaimsSame
    <3> QED BY <1>1, <2>2, <3>1 DEF ReadOnly
  <2> QED BY <2>3, <2>4
<1>7. ASSUME NEW q \in Reqs, ClaimReadsBind(q) PROVE [Owner!Next]_Shown
  <2>1. ReadOnly /\ Claims' \in SUBSET Claims
    BY <1>7, ClaimReadsStep, ClaimsShrink
  <2> QED BY <1>1, <2>1 DEF ReadOnly
<1>8. ASSUME NEW q \in Reqs, ClaimCreatesBind(q) \/ ClaimSavesBind(q)
      PROVE  [Owner!Next]_Shown
  <2> DEFINE d == reqs[q].device
             u == reqs[q].user
  <2>1. /\ Pending(reqs[q]) /\ d \in Devices /\ u \in Users
        /\ UNCHANGED <<users, devices>>
    BY <1>8, ClaimWrites
  <2>2. \A a \in {"OK", "ERROR"} : ~Pending(Answered(reqs[q], a))
    BY AnsweredType DEF IndInv, TypeOK
  <2>3. Claims' \in SUBSET Claims
    BY <1>8, <2>2, ClaimWrites, ClaimsShrink
  <2>4. CASE UNCHANGED binds
    BY <1>1, <2>1, <2>3, <2>4
  <2>5. ASSUME NEW b, MayStore(b, d),
               binds' = [binds EXCEPT ![b] = [device |-> d, user |-> u]]
        PROVE  [Owner!Next]_Shown
    <3>1. Owners' = [Owners EXCEPT ![d] = u]
      BY <1>0, <2>1, <2>5, OwnersStored
    <3>2. LiveUsers' = LiveUsers
      BY <2>1 DEF LiveUsers
    <3>3. <<d, u>> \in Claims
      BY <2>1 DEF Claims
    <3>4. PICK x \in Devices, y \in Users : x = d /\ y = u
      BY <2>1
    <3>5. Owner!Take(x, y)
      BY <2>3, <3>1, <3>2, <3>3, <3>4 DEF Owner!Take, Owners, Claims
    <3> QED BY <3>5 DEF Owner!Next
  <2> QED BY <1>8, <2>4, <2>5, ClaimWrites
<1>9. ASSUME NEW q \in Reqs, DistributeCreatesBind(q) PROVE [Owner!Next]_Shown
  <2> DEFINE d == reqs[q].device
             u == reqs[q].user
  <2>1. /\ d \in Devices /\ u \in Users /\ reqs[q].op = "distribute"
        /\ UNCHANGED <<users, devices>> /\ Become(q, Answered(reqs[q], "OK"))
    BY <1>9, DistributeWrites
  <2>2. ~Pending(Answered(reqs[q], "OK")) /\ ~Pending(reqs[q])
    BY <2>1, AnsweredType DEF IndInv, TypeOK, Pending, Claiming
  <2>3. Claims' = Claims
    BY <2>1, <2>2, ClaimsSame
  <2>4. CASE UNCHANGED binds
    BY <1>1, <2>1, <2>3, <2>4
  <2>5. ASSUME NEW b \in FreshBinds, MayStore(b, d),
               binds' = [binds EXCEPT ![b] = [device |-> d, user |-> u]]
        PROVE  [Owner!Next]_Shown
    <3>1. Owners' = [Owners EXCEPT ![d] = u]
      BY <1>0, <2>1, <2>5, OwnersStored
    <3>2. LiveUsers' = LiveUsers
      BY <2>1 DEF LiveUsers
    <3>3. BindsOf(d) = {}
      BY <2>5 DEF MayStore, FreshBinds, BindsOf
    <3>4. Owners[d] = Nobody
      BY <2>1, <3>3 DEF Owners, OwnerOf
    <3>5. Owner!GiveOut(d, u)
      BY <2>3, <3>1, <3>2, <3>4 DEF Owner!GiveOut, Owners, Claims
    <3> QED BY <2>1, <3>5 DEF Owner!Next
  <2> QED BY <1>9, <2>4, <2>5, DistributeWrites
<1>10. ASSUME NEW d \in Devices, DeviceStored(d) PROVE [Owner!Next]_Shown
  <2>1. Claims' = Claims
    BY <1>10 DEF DeviceStored, Claims, Pending
  <2> QED BY <1>1, <1>10, <2>1 DEF DeviceStored
<1>11. CASE Restart
  <2>1. \A q \in Reqs : ~Pending(reqs'[q])
    BY <1>11 DEF Restart, Pending, Idle
  <2>2. Claims' = {}
    BY <2>1 DEF Claims, Pending
  <2> QED BY <1>1, <1>11, <2>2 DEF Restart, ReadOnly
<1>12. CASE UNCHANGED vars
  <2>1. Claims' = Claims
    BY <1>12 DEF vars, Claims, Pending
  <2> QED BY <1>1, <1>12, <2>1 DEF vars
<1> QED
  BY <1>2, <1>3, <1>4, <1>5, <1>6, <1>7, <1>8, <1>9, <1>10, <1>11, <1>12
  DEF Next, Step, Reads, Erases

\* The users and binds tables with all their handlers implement DeviceOwner:
\* a device changes hands only by a claim of a user who had an account, is
\* given out only when it is free, and otherwise only becomes free.
THEOREM Implements == Spec => OwnershipIsKept
<1>1. IndInv /\ IndInv' /\ [Next]_vars => [Owner!Next]_Shown
  BY StepImplements
<1>2. Spec => Owner!Init /\ [][Owner!Next]_Shown
  BY <1>1, InitInv, NextInv, InitImplements, PTL DEF Spec
<1> QED BY <1>2, PTL DEF OwnershipIsKept, Owner!Spec, Shown, Owners, Claims
-----------------------------------------------------------------------------
(* What a step never does.                                                 *)

\* A claim in its last statement: refused, or its bind is stored by then.
LEMMA ClaimAnswered ==
  ASSUME IndInv, NEW q \in Reqs, Next, reqs[q].op \in Claiming, reqs[q].at # "idle",
         reqs[q].answer = "NONE", reqs'[q].answer = "OK"
  PROVE  \E b \in Binds : binds'[b] = [device |-> reqs[q].device, user |-> reqs[q].user]
<1> DEFINE Goal == \E b \in Binds :
                      binds'[b] = [device |-> reqs[q].device, user |-> reqs[q].user]
<1>0. reqs \in [Reqs -> Req] /\ reqs[q] \in Req /\ binds \in [Binds -> Bind \cup {NoRow}]
  BY DEF IndInv, TypeOK
<1>a. \A k : Become(q, k) => k.answer = "OK"
  BY <1>0 DEF Become
<1>b. ~ Become(q, Answered(reqs[q], "ERROR")) /\ ~ Become(q, Idle)
  <2>1. Answered(reqs[q], "ERROR").answer = "ERROR" /\ Idle.answer = "NONE"
    BY DEF Answered, Idle
  <2> QED BY <1>a, <2>1
<1>c. ASSUME NEW step, GoTo(q, step) PROVE FALSE
  BY <1>0, <1>a, <1>c DEF GoTo, Req
<1>1. ASSUME NEW p \in Reqs, p # q, NEW k, Become(p, k) PROVE FALSE
  BY <1>0, <1>1 DEF Become
<1>2. ASSUME NEW p \in Reqs, p # q, Start(p) \/ Step(p) PROVE FALSE
  <2>1. \E k : Become(p, k)
    BY <1>2, StartStep, ReadStep, ClaimWrites, DistributeWrites, CreateUserStep, BindByNameStep,
       ClaimReadsStep DEF Step, Reads, DeleteDeviceRow, DeleteBind, DeleteUserRow,
       DeleteBindsOfUser, WriteUser, Finish, GoTo
  <2> QED BY <1>1, <1>2, <2>1
<1>3. ~ Start(q)
  BY DEF Start, AddUser, ClaimArrives, Distribute, Recycle, DeleteDevice, DeleteUser, UpdateUser,
         UpdateSelfPassword, ResetPassword, ChangePassword, Login, MayStart
<1>4. CASE RegisterByName(q)
  BY <1>4, <1>b, <1>c DEF RegisterByName, Finish
<1>5. CASE CreateUser(q)
  <2>1. reqs[q].op # "addUser"
    BY DEF Claiming
  <2>2. PICK u \in FreshUsers : Become(q, [reqs[q] EXCEPT !.at = "bind", !.user = u])
    BY <1>5, <2>1 DEF CreateUser
  <2>3. [reqs[q] EXCEPT !.at = "bind", !.user = u].answer = "NONE"
    BY <1>0 DEF Req
  <2> QED BY <1>a, <2>2, <2>3
<1>6. CASE BindByName(q)
  <2>1. PICK u \in Users : Become(q, [reqs[q] EXCEPT !.at = "bind", !.user = u])
    BY <1>6, <1>b DEF BindByName, Finish
  <2>2. [reqs[q] EXCEPT !.at = "bind", !.user = u].answer = "NONE"
    BY <1>0 DEF Req
  <2> QED BY <1>a, <2>1, <2>2
<1>7. CASE ClaimReadsBind(q)
  <2>1. PICK b \in BindsOf(reqs[q].device) :
           IF binds[b].user = reqs[q].user THEN Finish(q, "OK")
           ELSE Become(q, [reqs[q] EXCEPT !.at = "saveBind", !.bind = b])
    BY <1>7, <1>c DEF ClaimReadsBind
  <2>2. binds[b].user = reqs[q].user
    <3>1. [reqs[q] EXCEPT !.at = "saveBind", !.bind = b].answer = "NONE"
      BY <1>0 DEF Req
    <3> QED BY <1>a, <2>1, <3>1
  <2>3. b \in Binds /\ binds[b] \in Bind /\ binds[b].device = reqs[q].device
    BY <1>0 DEF BindsOf, LiveBinds
  <2>4. binds[b] = [device |-> reqs[q].device, user |-> reqs[q].user]
    BY <2>2, <2>3 DEF Bind
  <2> QED BY <1>7, <2>3, <2>4 DEF ClaimReadsBind, ReadOnly
<1>8. CASE ClaimCreatesBind(q) \/ ClaimSavesBind(q)
  <2>1. PICK b : /\ MayStore(b, reqs[q].device)
                 /\ binds' = [binds EXCEPT ![b] =
                        [device |-> reqs[q].device, user |-> reqs[q].user]]
    BY <1>8, <1>b, ClaimWrites
  <2>2. b \in Binds
    BY <2>1 DEF MayStore
  <2> QED BY <1>0, <2>1, <2>2
<1>9. CASE Step(q)
  BY <1>4, <1>5, <1>6, <1>7, <1>8, <1>9, <1>b
  DEF Step, At, Claiming, DistributeCreatesBind, DeleteDeviceReadsBind, DeleteDeviceRow,
      DeleteBind, DeleteUserReadsBinds, DeleteUserRow, DeleteBindsOfUser, ChangePasswordByName,
      ChangePasswordReadsBind, WriteUser, LoginReadsBinds, LoginReadsDevice, LoginAnswers, Close
<1>10. ASSUME NEW d \in Devices, DeviceStored(d) PROVE FALSE
  BY <1>10 DEF DeviceStored
<1>11. CASE Restart
  BY <1>11, <1>0 DEF Restart, Idle
<1> QED BY <1>2, <1>3, <1>9, <1>10, <1>11 DEF Next

\* RegisterAndBind and BindExistingUser report success only where the device is
\* bound to their user: a claim that lost the race is told so.
THEOREM NoFalseSuccess == Spec => SuccessMeansOwner
<1>1. IndInv /\ [Next]_vars =>
        [\A q \in Reqs :
           (/\ reqs[q].op \in Claiming /\ reqs[q].at # "idle"
            /\ reqs[q].answer = "NONE" /\ reqs'[q].answer = "OK")
              => \E b \in Binds :
                    binds'[b] = [device |-> reqs[q].device, user |-> reqs[q].user]]_vars
  BY ClaimAnswered
<1> QED BY <1>1, InitInv, NextInv, PTL DEF Spec, SuccessMeansOwner

\* Who enables an account.
LEMMA EnabledByUpdate ==
  ASSUME IndInv, NEW u \in Users, Next, users[u] # NoRow, ~users[u].enabled,
         users'[u] # NoRow, users'[u].enabled
  PROVE  \E q \in Reqs : At(q, "update", {"updateUser"})
                         /\ reqs[q].user = u /\ reqs[q].edit.enabled
<1>0. users \in [Users -> User \cup {NoRow}] /\ users[u] \in User
  BY DEF IndInv, TypeOK
<1>1. users' # users
  OBVIOUS
<1>2. ASSUME NEW q \in Reqs, CreateUser(q) PROVE FALSE
  <2>1. PICK v \in FreshUsers : users' = [users EXCEPT ![v] = NewUser(reqs[q])]
    BY <1>2 DEF CreateUser
  <2>2. v \in Users /\ v # u
    BY DEF FreshUsers, LiveUsers
  <2> QED BY <1>0, <2>1, <2>2
<1>3. ASSUME NEW q \in Reqs, DeleteUserRow(q) PROVE FALSE
  BY <1>0, <1>3 DEF DeleteUserRow
<1>4. ASSUME NEW q \in Reqs, WriteUser(q)
      PROVE  At(q, "update", {"updateUser"}) /\ reqs[q].user = u /\ reqs[q].edit.enabled
  <2>1. users' = [users EXCEPT ![reqs[q].user] = Edited(reqs[q], users[reqs[q].user])]
    BY <1>1, <1>4 DEF WriteUser
  <2>2. reqs[q].user = u
    BY <1>0, <2>1
  <2>3. users'[u].enabled = IF reqs[q].op = "updateUser" THEN reqs[q].edit.enabled
                            ELSE users[u].enabled
    BY <1>0, <2>1, <2>2 DEF Edited, User
  <2> QED BY <1>4, <2>2, <2>3 DEF WriteUser, At
<1>5. ASSUME NEW q \in Reqs, Start(q) \/ Reads(q) PROVE FALSE
  BY <1>1, <1>5, StartStep, ReadStep DEF ReadOnly
<1>6. ASSUME NEW q \in Reqs,
             \/ BindByName(q) \/ ClaimReadsBind(q) \/ ClaimCreatesBind(q) \/ ClaimSavesBind(q)
             \/ DistributeCreatesBind(q) \/ DeleteDeviceRow(q) \/ DeleteBind(q)
             \/ DeleteBindsOfUser(q)
      PROVE FALSE
  BY <1>1, <1>6 DEF BindByName, ClaimReadsBind, ClaimCreatesBind, ClaimSavesBind,
     DistributeCreatesBind, DeleteDeviceRow, DeleteBind, DeleteBindsOfUser, ReadOnly
<1>7. ASSUME NEW d \in Devices, DeviceStored(d) PROVE FALSE
  BY <1>1, <1>7 DEF DeviceStored
<1>8. ~ Restart
  BY <1>1 DEF Restart, ReadOnly
<1> QED BY <1>2, <1>3, <1>4, <1>5, <1>6, <1>7, <1>8 DEF Next, Step, Reads

\* An account that was disabled is enabled again by UserUpdate only, whatever
\* the password changes had read before: Updates() writes the password alone.
THEOREM DisabledStays == Spec => DisabledStaysDisabled
<1>1. IndInv /\ [Next]_vars =>
        [\A u \in Users :
           (/\ users[u] # NoRow /\ ~users[u].enabled
            /\ users'[u] # NoRow /\ users'[u].enabled)
              => \E q \in Reqs : At(q, "update", {"updateUser"})
                                 /\ reqs[q].user = u /\ reqs[q].edit.enabled]_vars
  BY EnabledByUpdate
<1> QED BY <1>1, InitInv, NextInv, PTL DEF Spec, DisabledStaysDisabled

\* And every variable keeps its type.
COROLLARY Typed == Spec => []TypeOK
BY OwnerUnique, PTL
=============================================================================
