--------------------------- MODULE DeviceRegistry ---------------------------
(***************************************************************************)
(* The `devices` table of the backend and every handler that writes it:    *)
(* the TCP messages of Sunshine (core/monitor.go), the REST handlers of    *)
(* api/devices_api/device_info.go and the 20 s monitor.  Each connection   *)
(* or request runs in a goroutine of its own and reads a row, edits its    *)
(* private copy and writes the WHOLE row back, so every SQL statement is a *)
(* step of its own and the steps of all goroutines interleave.             *)
(*                                                                         *)
(* A machine is a member of Hosts; its device_id, its password and its     *)
(* identity are the same value, so a row that mixes the fields of two      *)
(* machines shows it.  The primary key stands for the PIN as well: a PIN   *)
(* is drawn when a row is created and never changes.  The time since       *)
(* last_active_time is kept as an age that saturates above Timeout.        *)
(***************************************************************************)
EXTENDS Naturals, FiniteSets

CONSTANTS
    Hosts,          \* machines that run Sunshine
    Ips,            \* source addresses the backend can see
    Home,           \* [Hosts -> SUBSET Ips]: where a machine may connect from
    HostName,       \* [Hosts -> Names]: what it reports as its hostname
    Names,
    Forms,          \* message formats in use: V4 "full", "id", pre-V4 "bare"
    Rows,           \* primary keys; First() orders by them
    Conns,          \* goroutines alive at once (bound)
    Peer,           \* [Conns -> Hosts \cup {Admin}]: who is at the other end
    Admin,          \* the administrator's browser
    Sends,          \* [Conns -> SUBSET Ops]: the requests that peer makes
    PinSpeakers,    \* machines with "pin" in their password or hostname
    Switched,       \* machines that are switched off and on again
    Timeout,        \* ticks of silence before a device counts as gone
    MaxRestarts,    \* restarts of the backend process (bound)
    LegacyTables,   \* tables a pre-V4 backend may have left behind
    NoRow, NoId, NoIp, NoPw, NoAnswer

None == {NoRow, NoId, NoIp, NoPw, NoAnswer, Admin}

Status == {"Online", "Offline"}

Device == [ ip       : Ips \cup {NoIp},
            deviceId : Hosts \cup {NoId},
            pw       : Hosts \cup {NoPw},
            name     : Names,
            status   : Status,
            age      : 0 .. Timeout + 1 ]

Tables == [Rows -> Device \cup {NoRow}]

\* CREATE UNIQUE INDEX idx_device_id ON devices(device_id); '' is a value too.
Unique(table) ==
    \A r, q \in Rows :
        (r # q /\ table[r] # NoRow /\ table[q] # NoRow)
            => table[r].deviceId # table[q].deviceId

ASSUME RowsAssumption == Rows \subseteq Nat
ASSUME TimeoutAssumption == Timeout \in Nat
ASSUME RestartsAssumption == MaxRestarts \in Nat
ASSUME HostAssumption ==
    /\ Hosts # {}
    /\ Home \in [Hosts -> SUBSET Ips]
    /\ HostName \in [Hosts -> Names]
    /\ Peer \in [Conns -> Hosts \cup {Admin}]
    /\ Forms \subseteq {"full", "id", "bare"}
    /\ PinSpeakers \subseteq Hosts /\ Switched \subseteq Hosts
ASSUME NullAssumption ==
    /\ NoRow \notin Device
    /\ NoId \notin Hosts /\ NoPw \notin Hosts /\ Admin \notin Hosts
    /\ NoIp \notin Ips
ASSUME LegacyAssumption ==
    LegacyTables \subseteq {t \in Tables : Unique(t)}

VARIABLES
    devices,    \* the table
    conns,      \* the goroutine behind each connection or request
    sweep,      \* rows CheckAllDevice has fetched and not looked at yet
    up,         \* machines that are switched on
    restarts

vars == <<devices, conns, sweep, up, restarts>>

-----------------------------------------------------------------------------
(* What a handler keeps in its locals.  `at` is the statement it runs next. *)

Answers == {"OK", "ERROR", "PIN", NoAnswer}

Steps == {"idle", "byId", "byIp", "byName", "save", "columns", "create",
          "delete", "done"}

Ops == {"keepalive", "register", "pin", "announce", "delete", "update"}

Conn == [ at     : Steps,
          op     : Ops,
          host   : Hosts \cup {Admin},
          form   : {"full", "id", "bare"},
          ip     : Ips \cup {NoIp},
          row    : Rows \cup {NoRow},
          copy   : Device \cup {NoRow},
          answer : Answers ]

Idle(c) == [ at |-> "idle", op |-> "pin", host |-> Peer[c], form |-> "full",
             ip |-> NoIp, row |-> NoRow, copy |-> NoRow, answer |-> NoAnswer ]

SentId(k) == IF k.form = "bare" THEN NoId ELSE k.host
SentPw(k) == IF k.form = "full" THEN k.host ELSE NoPw

-----------------------------------------------------------------------------
(* The database, through gorm.                                             *)

Live(table) == {r \in Rows : table[r] # NoRow}
\* Mutants: the WHERE clause is forgotten.
ByIdAnyRow(k) == Live(devices)
ByIpAnyRow(k) == Live(devices)

ById(k)   == {r \in Live(devices) : devices[r].deviceId = SentId(k)}
ByIp(k)   == {r \in Live(devices) : devices[r].ip = k.ip}
ByName(k) == {r \in Live(devices) : devices[r].name = HostName[k.host]}

\* First(): the match with the smallest primary key.
IsFirst(r, matches) == r \in matches /\ \A q \in matches : r <= q

\* Mutant: the unique index was never created.
ClashNoIndex(table, r, d) == FALSE

Clash(table, r, d) ==
    \E q \in Rows \ {r} : table[q] # NoRow /\ table[q].deviceId = d.deviceId

\* Save(): UPDATE of all columns, and when no row was hit an INSERT; a
\* violation of the unique index is an error nobody reads.
Saved(table, r, d) == IF Clash(table, r, d) THEN table ELSE [table EXCEPT ![r] = d]

\* Create() with a new UUID; the same index, the same unread error.
Created(table, r, d) == IF Clash(table, r, d) THEN table ELSE [table EXCEPT ![r] = d]

\* A UUID nobody holds: neither the table nor a goroutine nor the monitor.
Fresh == {r \in Rows : /\ devices[r] = NoRow
                       /\ sweep[r] = NoRow
                       /\ \A c \in Conns : conns[c].row # r}

Init ==
    /\ devices \in LegacyTables
    /\ conns = [c \in Conns |-> Idle(c)]
    /\ sweep = [r \in Rows |-> NoRow]
    /\ up = Hosts
    /\ restarts = 0

-----------------------------------------------------------------------------
(* Goroutine steps.                                                        *)

At(c, step, op) == conns[c].at = step /\ conns[c].op = op

Become(c, k) == conns' = [conns EXCEPT ![c] = k]

GoTo(c, step) == Become(c, [conns[c] EXCEPT !.at = step])

Finish(c, answer) ==
    Become(c, [Idle(c) EXCEPT !.at = "done", !.op = conns[c].op, !.answer = answer])

\* The row read is kept in a private copy, edited, to be written later.
Hold(c, r, d, step) ==
    Become(c, [conns[c] EXCEPT !.at = step, !.row = r, !.copy = d])

Environment == UNCHANGED <<sweep, up, restarts>>
ReadOnly == UNCHANGED devices /\ Environment

\* handleConnection reads the message; whatever address it claims, the
\* source address of the connection is used.
MayOpen(c, op) == conns[c].at = "idle" /\ op \in Sends[c] /\ Peer[c] \in up

Connect(c, sent, op, form, ip, step) ==
    /\ MayOpen(c, sent)
    /\ ip \in Home[Peer[c]]
    /\ Become(c, [Idle(c) EXCEPT !.at = step, !.op = op, !.form = form, !.ip = ip])
    /\ ReadOnly

\* "get pin:<id>": the identifier never survives parsing, see handlePin.
HeardAsPin(c, sent) == \E ip \in Ips : Connect(c, sent, "pin", "id", ip, "byIp")

\* parseMessage looks for "pin" in the whole message before it looks for
\* "keepalive" or "register:": a password or a hostname may hold it.
KeepaliveArrives(c) ==
    \/ \E form \in Forms, ip \in Ips :
          Connect(c, "keepalive", "keepalive", form, ip,
                  IF form = "bare" THEN "byIp" ELSE "byId")
    \/ Peer[c] \in PinSpeakers /\ "full" \in Forms /\ HeardAsPin(c, "keepalive")

RegisterArrives(c) ==
    \/ \E form \in Forms, ip \in Ips : Connect(c, "register", "register", form, ip, "byIp")
    \/ Peer[c] \in PinSpeakers /\ HeardAsPin(c, "register")

PinArrives(c) == HeardAsPin(c, "pin")

\* POST /devices/announce carries its own address, which may be left out.
AnnounceArrives(c) ==
    /\ MayOpen(c, "announce")
    /\ \E ip \in Home[Peer[c]] \cup {NoIp} :
           Become(c, [Idle(c) EXCEPT !.at = "byId", !.op = "announce", !.ip = ip])
    /\ ReadOnly

-----------------------------------------------------------------------------
(* handleKeepalive *)

\* Mutants: password and device_id are swapped; the status is left alone.
KeepaliveEditSwapped(k, d) ==
    [d EXCEPT !.age = 0, !.status = "Online", !.ip = k.ip,
              !.deviceId = IF @ = NoId THEN SentPw(k) ELSE @]
KeepaliveEditNoStatus(k, d) ==
    [d EXCEPT !.age = 0, !.ip = k.ip,
              !.deviceId = IF @ = NoId THEN SentId(k) ELSE @,
              !.pw = IF SentPw(k) # NoPw THEN SentPw(k) ELSE @]

KeepaliveEdit(k, d) ==
    [d EXCEPT !.age = 0,
              !.status = "Online",
              !.deviceId = IF @ = NoId THEN SentId(k) ELSE @,
              !.pw = IF SentPw(k) # NoPw THEN SentPw(k) ELSE @,
              !.ip = k.ip]

KeepaliveById(c) ==
    /\ At(c, "byId", "keepalive")
    /\ \/ \E r \in Rows : /\ IsFirst(r, ById(conns[c]))
                          /\ Hold(c, r, KeepaliveEdit(conns[c], devices[r]), "save")
       \/ ById(conns[c]) = {} /\ GoTo(c, "byIp")
    /\ ReadOnly

KeepaliveByIp(c) ==
    /\ At(c, "byIp", "keepalive")
    /\ \/ \E r \in Rows : /\ IsFirst(r, ByIp(conns[c]))
                          /\ Hold(c, r, KeepaliveEdit(conns[c], devices[r]), "save")
       \/ ByIp(conns[c]) = {} /\ Finish(c, NoAnswer)
    /\ ReadOnly

KeepaliveSave(c) ==
    /\ At(c, "save", "keepalive")
    /\ devices' = Saved(devices, conns[c].row, conns[c].copy)
    /\ Finish(c, NoAnswer)
    /\ Environment

-----------------------------------------------------------------------------
(* handlePin: pinQueryId is "deviceid" or "hostname", never "deviceid:<id>", *)
(* so only the lookup by address is ever made.                             *)

PinByIp(c) ==
    /\ At(c, "byIp", "pin")
    /\ \/ \E r \in Rows :
             /\ IsFirst(r, ByIp(conns[c]))
             /\ Become(c, [conns[c] EXCEPT !.at = "save", !.row = r, !.answer = "PIN",
                                           !.copy = [devices[r] EXCEPT !.status = "Online"]])
       \/ ByIp(conns[c]) = {} /\ Finish(c, NoAnswer)
    /\ ReadOnly

PinSave(c) ==
    /\ At(c, "save", "pin")
    /\ devices' = Saved(devices, conns[c].row, conns[c].copy)
    /\ Finish(c, "PIN")
    /\ Environment

-----------------------------------------------------------------------------
(* handleRegister *)

ReinstallEdit(k, d) ==
    [d EXCEPT !.deviceId = IF SentId(k) # NoId THEN SentId(k) ELSE @,
              !.pw = IF SentPw(k) # NoPw THEN SentPw(k) ELSE @]

MovedEdit(k, d) ==
    [d EXCEPT !.ip = k.ip, !.pw = SentPw(k), !.name = HostName[k.host], !.age = 0]

NewDevice(k, pw, status) ==
    [ip |-> k.ip, deviceId |-> SentId(k), pw |-> pw,
     name |-> HostName[k.host], status |-> status, age |-> 0]

RegisterByIp(c) ==
    /\ At(c, "byIp", "register")
    /\ \/ \E r \in Rows :
             /\ IsFirst(r, ByIp(conns[c]))
             /\ IF conns[c].form = "bare"
                THEN Finish(c, NoAnswer)
                ELSE Hold(c, r, ReinstallEdit(conns[c], devices[r]), "save")
       \/ /\ ByIp(conns[c]) = {}
          /\ IF conns[c].form = "full" THEN GoTo(c, "byId") ELSE Finish(c, "ERROR")
    /\ ReadOnly

RegisterById(c) ==
    /\ At(c, "byId", "register")
    /\ \/ \E r \in Rows :
             /\ IsFirst(r, ById(conns[c]))
             /\ IF devices[r].ip # conns[c].ip
                THEN Become(c, [conns[c] EXCEPT !.at = "save", !.row = r, !.answer = "OK",
                                                !.copy = MovedEdit(conns[c], devices[r])])
                ELSE Finish(c, "ERROR")
       \/ /\ ById(conns[c]) = {}
          /\ Become(c, [conns[c] EXCEPT !.at = "create", !.answer = "OK"])
    /\ ReadOnly

RegisterSave(c) ==
    /\ At(c, "save", "register")
    /\ devices' = Saved(devices, conns[c].row, conns[c].copy)
    /\ Finish(c, conns[c].answer)
    /\ Environment

\* "OK" is already on the wire when the row is created.
RegisterCreate(c) ==
    /\ At(c, "create", "register")
    /\ \E r \in Fresh :
           devices' = Created(devices, r, NewDevice(conns[c], SentPw(conns[c]), "Offline"))
    /\ Finish(c, "OK")
    /\ Environment

-----------------------------------------------------------------------------
(* AnnounceDevice: looks a row up by id, address, hostname, and updates    *)
(* single columns of it; an UPDATE that hits no row does nothing.          *)

Announced(k, d) ==
    [d EXCEPT !.status = "Online", !.age = 0, !.deviceId = SentId(k),
              !.ip = IF k.ip # NoIp THEN k.ip ELSE @,
              !.name = HostName[k.host]]

AnnounceLookup(c, step, matches, next) ==
    /\ At(c, step, "announce")
    /\ \/ \E r \in Rows : IsFirst(r, matches) /\ Hold(c, r, devices[r], "columns")
       \/ matches = {} /\ GoTo(c, next)
    /\ ReadOnly

AnnounceById(c) ==
    AnnounceLookup(c, "byId", ById(conns[c]),
                   IF conns[c].ip = NoIp THEN "byName" ELSE "byIp")
AnnounceByIp(c) == AnnounceLookup(c, "byIp", ByIp(conns[c]), "byName")
AnnounceByName(c) == AnnounceLookup(c, "byName", ByName(conns[c]), "create")

AnnounceUpdate(c) ==
    /\ At(c, "columns", "announce")
    /\ LET r == conns[c].row IN
       devices' = IF devices[r] = NoRow
                  THEN devices
                  ELSE Saved(devices, r, Announced(conns[c], devices[r]))
    /\ Finish(c, "OK")
    /\ Environment

AnnounceCreate(c) ==
    /\ At(c, "create", "announce")
    /\ \E r \in Fresh :
           devices' = Created(devices, r, NewDevice(conns[c], NoPw, "Online"))
    /\ Finish(c, "OK")
    /\ Environment

-----------------------------------------------------------------------------
(* DeleteSunshine and UpdateSunshine, for the administrator: both refuse a *)
(* row that has no address.                                                *)

AdminLoads(c, op, step) ==
    /\ conns[c].at = "idle"
    /\ Peer[c] = Admin /\ op \in Sends[c]
    /\ \E r \in Rows :
          IF devices[r] # NoRow /\ devices[r].ip # NoIp
          THEN Become(c, [Idle(c) EXCEPT !.at = step, !.op = op, !.row = r,
                                         !.copy = devices[r]])
          ELSE Become(c, [Idle(c) EXCEPT !.at = "done", !.op = op, !.answer = "ERROR"])
    /\ ReadOnly

DeleteArrives(c) == AdminLoads(c, "delete", "delete")
UpdateArrives(c) == AdminLoads(c, "update", "columns")

DeleteRow(c) ==
    /\ At(c, "delete", "delete")
    /\ devices' = [devices EXCEPT ![conns[c].row] = NoRow]
    /\ Finish(c, "OK")
    /\ Environment

\* The administrator types an address of the machine whose name is shown.
UpdateIp(c) ==
    /\ At(c, "columns", "update")
    /\ \E h \in Hosts : \E ip \in Home[h] :
          /\ HostName[h] = conns[c].copy.name
          /\ devices' = IF devices[conns[c].row] = NoRow
                        THEN devices
                        ELSE [devices EXCEPT ![conns[c].row].ip = ip]
    /\ Finish(c, "OK")
    /\ Environment

Close(c) ==
    /\ conns[c].at = "done"
    /\ Become(c, Idle(c))
    /\ ReadOnly

-----------------------------------------------------------------------------
(* CheckAllDevice, every 20 s: fetches all rows, then looks at the fetched *)
(* copies one by one and saves those it marks Offline.  Copies that are    *)
(* not Online are passed over, and left out here.                          *)

SweepStart ==
    /\ sweep = [r \in Rows |-> NoRow]
    /\ sweep' = [r \in Rows |->
                   IF r \in Live(devices) /\ devices[r].status = "Online"
                   THEN devices[r] ELSE NoRow]
    /\ UNCHANGED <<devices, conns, up, restarts>>

\* Mutant: the limit is set beyond what any row reaches.
ExpiredLate(d) == d.age > Timeout + 1

Expired(d) == d.age > Timeout

SweepRow(r) ==
    /\ sweep[r] # NoRow
    /\ devices' = IF Expired(sweep[r])
                  THEN Saved(devices, r, [sweep[r] EXCEPT !.status = "Offline"])
                  ELSE devices
    /\ sweep' = [sweep EXCEPT ![r] = NoRow]
    /\ UNCHANGED <<conns, up, restarts>>

-----------------------------------------------------------------------------
(* Time, machines and the backend process.                                 *)

Older(d) == IF d = NoRow THEN d
            ELSE [d EXCEPT !.age = IF @ > Timeout THEN @ ELSE @ + 1]

Tick ==
    /\ devices' = [r \in Rows |-> Older(devices[r])]
    /\ sweep' = [r \in Rows |-> Older(sweep[r])]
    /\ conns' = [c \in Conns |-> [conns[c] EXCEPT !.copy = Older(@)]]
    /\ UNCHANGED <<up, restarts>>

SwitchOff(h) ==
    /\ h \in up \cap Switched
    /\ up' = up \ {h}
    /\ UNCHANGED <<devices, conns, sweep, restarts>>

SwitchOn(h) ==
    /\ h \notin up
    /\ up' = up \cup {h}
    /\ UNCHANGED <<devices, conns, sweep, restarts>>

\* The process dies and starts again: only the SQLite file survives.
Restart ==
    /\ restarts < MaxRestarts
    /\ restarts' = restarts + 1
    /\ conns' = [c \in Conns |-> Idle(c)]
    /\ sweep' = [r \in Rows |-> NoRow]
    /\ UNCHANGED <<devices, up>>

Handler(c) ==
    \/ KeepaliveById(c) \/ KeepaliveByIp(c) \/ KeepaliveSave(c)
    \/ PinByIp(c) \/ PinSave(c)
    \/ RegisterByIp(c) \/ RegisterById(c) \/ RegisterSave(c) \/ RegisterCreate(c)
    \/ AnnounceById(c) \/ AnnounceByIp(c) \/ AnnounceByName(c)
    \/ AnnounceUpdate(c) \/ AnnounceCreate(c)
    \/ DeleteRow(c) \/ UpdateIp(c)
    \/ Close(c)

Arrival(c) ==
    \/ KeepaliveArrives(c) \/ RegisterArrives(c) \/ PinArrives(c)
    \/ AnnounceArrives(c) \/ DeleteArrives(c) \/ UpdateArrives(c)

Next ==
    \/ \E c \in Conns : Handler(c) \/ Arrival(c)
    \/ SweepStart \/ (\E r \in Rows : SweepRow(r))
    \/ Tick \/ Restart
    \/ \E h \in Hosts : SwitchOff(h) \/ SwitchOn(h)

Spec == Init /\ [][Next]_vars

\* Goroutines are scheduled, the ticker fires, time passes, and a machine
\* that is on sends a heartbeat every 20 s however busy its connections are.
Fairness ==
    /\ \A c \in Conns : WF_vars(Handler(c)) /\ SF_vars(KeepaliveArrives(c))
    /\ WF_vars(SweepStart) /\ \A r \in Rows : WF_vars(SweepRow(r))
    /\ WF_vars(Tick)

FairSpec == Spec /\ Fairness

-----------------------------------------------------------------------------
(* Properties.                                                             *)

TypeOK ==
    /\ devices \in Tables
    /\ conns \in [Conns -> Conn]
    /\ sweep \in Tables
    /\ up \subseteq Hosts
    /\ restarts \in 0 .. MaxRestarts

\* No two rows carry the same device_id, whatever the handlers write back
\* (gorm.go creates the index because the handlers do not check it).
UniqueDeviceId == Unique(devices)

(* The following hold where addresses and hostnames tell machines apart.   *)
Separated ==
    /\ \A g, h \in Hosts : g # h => /\ Home[g] \cap Home[h] = {}
                                    /\ HostName[g] # HostName[h]

\* The row d, or a copy of one, has been written by machine h alone.
OwnedBy(d, h) ==
    /\ d.name = HostName[h]
    /\ d.ip \in Home[h] \cup {NoIp}
    /\ d.deviceId \in {h, NoId}
    /\ d.pw \in {h, NoPw}

\* No interleaving of keepalives, registrations, announcements, deletions,
\* sweeps and restarts leaves a row that mixes two machines: its address,
\* device_id, password and name are always those of one and the same machine.
RowsOwned == \A r \in Live(devices) : \E h \in Hosts : OwnedBy(devices[r], h)

\* The PIN handlePin sends to a machine is the PIN of a row of that machine,
\* though it is looked up by address only.
PinIsOwn ==
    \A c \in Conns :
        (At(c, "save", "pin") /\ devices[conns[c].row] # NoRow)
            => OwnedBy(devices[conns[c].row], conns[c].host)

Registered(h) == \E r \in Live(devices) : devices[r].deviceId = h
ShownOnline(h) ==
    \E r \in Live(devices) : devices[r].deviceId = h /\ devices[r].status = "Online"

\* A machine that is switched off for good ends up Offline for good: no late
\* handler and no stale copy of a row brings it back (CheckAllDevice).
SilentGoesOffline == \A h \in Hosts : <>[](h \notin up) => <>[](~ShownOnline(h))

\* A machine that stays on and registered is Online again and again, although
\* a sweep with an old copy of its row may have marked it Offline.
HeartbeatKeepsOnline ==
    \A h \in Hosts : <>[](h \in up /\ Registered(h)) => []<>ShownOnline(h)

(* What comments of the code say and the interleavings break.              *)

\* monitor.go:564: only a device silent for more than 3 minutes is marked
\* Offline.
OfflineOnlyWhenSilent ==
    [][\A r \in Rows :
          (/\ devices[r] # NoRow /\ devices'[r] # NoRow
           /\ devices[r].status = "Online" /\ devices'[r].status = "Offline")
              => devices[r].age > Timeout]_vars

\* device_info.go:108: deleting a device clears its row; only a registration
\* may add one again.
OnlyCreateInserts ==
    [][\A r \in Rows :
          (devices[r] = NoRow /\ devices'[r] # NoRow)
              => \E c \in Conns : conns[c].at = "create"]_vars

\* monitor.go:500: OK tells the machine that its registration has succeeded,
\* so the machine is in the table sooner or later.
OkMeansStored ==
    \A c \in Conns, h \in Hosts :
        (conns[c].op = "register" /\ conns[c].host = h /\ conns[c].answer = "OK")
            ~> Registered(h)
=============================================================================
